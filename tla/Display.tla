-------------------------------- MODULE Display -------------------------------
(***************************************************************************)
(* The programs that write the set and clear registers of the GPIO block:  *)
(* C/count.c with 7seg.h, C/RPI/ledseg.c, ex1_gpio.c and gptest.c.  They   *)
(* run one after the other and are stopped at any point; nothing resets    *)
(* the pins in between.                                                    *)
(***************************************************************************)
EXTENDS Integers, Sequences

VARIABLES
  lit,              \* pins that are high
  app, phase, rep,  \* the running program, its next write, its loop counter modulo 10
  digit2,           \* ledseg: the second display is selected (i & 1)
  pat,              \* variable pat
  stale, round      \* history: segments an earlier program left; count.c has shown all digits

vars == <<lit, app, phase, rep, digit2, pat, stale, round>>

same == <<rep, digit2, pat, stale, round>>

Disp1 == 7
Disp2 == 8
AllPins == {4, 7, 8, 9, 14, 15, 17, 18, 22, 23, 24, 25}      \* 0x03C6c390
Segments == {14, 15, 17, 18, 22, 23, 24, 25}

(* Python/seg7.py, the shapes of the digits. *)
num2seg ==
  << {"a", "b", "c", "d", "e", "f"}, {"b", "c"}, {"a", "b", "d", "e", "g"},
     {"a", "b", "c", "d", "g"}, {"b", "c", "f", "g"}, {"a", "c", "d", "f", "g"},
     {"a", "c", "d", "e", "f", "g"}, {"a", "b", "c"}, {"a", "b", "c", "d", "e", "f", "g"},
     {"a", "b", "c", "d", "f", "g"} >>
PinOf == [a |-> 14, b |-> 15, c |-> 17, d |-> 18, e |-> 22, f |-> 23, g |-> 24, dp |-> 25]
Shape(n) == {PinOf[s] : s \in num2seg[n + 1]}

(* 7seg.h, with the digits as lists of segments that end in 0. *)
pat2reg == <<14, 15, 17, 18, 22, 23, 24, 25>>
seg2pat ==
  << <<1, 2, 3, 4, 5, 6, 0>>, <<2, 3, 0>>, <<1, 2, 4, 5, 7, 0>>, <<1, 2, 3, 4, 7, 0>>,
     <<2, 3, 6, 7, 0>>, <<1, 3, 4, 6, 7, 0>>, <<1, 3, 4, 5, 6, 7, 0>>, <<1, 2, 3, 0>>,
     <<1, 2, 3, 4, 5, 6, 7, 0>>, <<1, 2, 3, 4, 6, 7, 0>> >>
gen_regpat(num) ==
  LET p == seg2pat[num + 1]
      n == CHOOSE k \in DOMAIN p : p[k] = 0 /\ \A j \in 1..(k - 1) : p[j] # 0 IN
  {Disp1, Disp2} \cup {pat2reg[p[k]] : k \in 1..(n - 1)}

(* ledseg.c *)
Pat(n) ==
  LET Sa == 14  Sb == 15  Sc == 17  Sd == 18  Se == 22  Sf == 23  Sg == 24 IN
  << {Sa, Sb, Sc, Sd, Se, Sf}, {Sb, Sc}, {Sa, Sb, Sd, Se, Sg}, {Sa, Sb, Sc, Sd, Sg},
     {Sb, Sc, Sf, Sg}, {Sa, Sc, Sd, Sf, Sg}, {Sa, Sc, Sd, Se, Sf, Sg}, {Sa, Sb, Sc, Sf},
     {Sa, Sb, Sc, Sd, Se, Sf, Sg}, {Sa, Sb, Sc, Sd, Sf, Sg} >>[n + 1]

Init ==
  /\ lit = {} /\ app = "none" /\ phase = "" /\ rep = 0 /\ digit2 = FALSE /\ pat = {}
  /\ stale = {} /\ round = FALSE

First == [count |-> "clear", ledseg |-> "reset", ex1_gpio |-> "on", gptest |-> "pin"]

Start(p) ==
  /\ app = "none"
  /\ app' = p /\ phase' = First[p] /\ rep' = 0 /\ digit2' = FALSE /\ pat' = {}
  /\ stale' = lit \cap Segments /\ round' = FALSE
  /\ lit' = lit

\* The end of the loop, or Ctrl-C.
Stop == app # "none" /\ app' = "none" /\ phase' = "" /\ UNCHANGED <<lit, same>>

Write(now, next) == phase = now /\ phase' = next /\ app' = app

\* Mutant: the pattern is not cleared.
ClearNothing ==
  /\ Write("clear", "set")
  /\ stale' = stale \ pat /\ lit' = lit
  /\ UNCHANGED <<rep, digit2, pat, round>>

Clear ==
  /\ Write("clear", "set")
  /\ lit' = lit \ pat /\ stale' = stale \ pat
  /\ UNCHANGED <<rep, digit2, pat, round>>

SetDigit ==
  /\ Write("set", "shown")
  /\ pat' = IF app = "count" THEN gen_regpat(rep) ELSE Pat(rep)
  /\ lit' = lit \cup pat'
  /\ UNCHANGED <<rep, digit2, stale, round>>

\* sleep(1), and the next digit.
NextDigit ==
  /\ Write("shown", IF app = "ledseg" /\ rep = 9 THEN "deselect" ELSE "clear")
  /\ rep' = (rep + 1) % 10
  /\ digit2' = (digit2 # (app = "ledseg" /\ rep = 9))
  /\ round' = (round \/ rep = 9)
  /\ UNCHANGED <<lit, pat, stale>>

Reset ==
  /\ Write("reset", "deselect")
  /\ lit' = lit \ AllPins /\ stale' = {}
  /\ UNCHANGED <<rep, digit2, pat, round>>

Deselect ==
  /\ Write("deselect", "select")
  /\ lit' = lit \ {IF digit2 THEN Disp2 ELSE Disp1}
  /\ UNCHANGED same

Select ==
  /\ Write("select", "clear")
  /\ lit' = lit \cup {IF digit2 THEN Disp1 ELSE Disp2}
  /\ UNCHANGED same

\* ex1_gpio.c
AllOn  == Write("on", "off") /\ lit' = lit \cup AllPins /\ UNCHANGED same
AllOff == Write("off", "on") /\ lit' = lit \ AllPins /\ UNCHANGED same

\* gptest.c: pins 7 to 11 on one after the other, then off.
Pin ==
  /\ Write("pin", "pin")
  /\ lit' = IF rep < 5 THEN lit \cup {7 + rep} ELSE lit \ {2 + rep}
  /\ rep' = (rep + 1) % 10
  /\ UNCHANGED <<digit2, pat, stale, round>>

Next ==
  \/ \E p \in DOMAIN First : Start(p)
  \/ Stop
  \/ Clear \/ SetDigit \/ NextDigit \/ Reset \/ Deselect \/ Select
  \/ AllOn \/ AllOff \/ Pin

Spec == Init /\ [][Next]_vars

\* Whatever ran before and wherever it was stopped: ledseg shows the digit (a 7 with segment
\* f, unlike seg7.py and 7seg.h) on one display.  count.c shows it on both; it clears only
\* what it has set itself, so what an earlier program left is lit too until it has been part
\* of a digit, and the decimal point stays.
ShowsDigit ==
  phase = "shown" =>
    IF app = "ledseg"
    THEN /\ lit \cap Segments = Shape(rep) \cup (IF rep = 7 THEN {PinOf.f} ELSE {})
         /\ lit \cap {Disp1, Disp2} = {IF digit2 THEN Disp1 ELSE Disp2}
    ELSE /\ lit \cap Segments = Shape(rep) \cup stale
         /\ {Disp1, Disp2} \subseteq lit
         /\ round => stale \subseteq {PinOf.dp}
==============================================================================
