----------------------------- MODULE BlinkProofs -----------------------------
(***************************************************************************)
(* Theorems about the blink programs, for every number of moves of the     *)
(* switch and every size of the table.  For the counting and the LED the   *)
(* rows are never opened: what counts is which line was asked for and      *)
(* where the program stands.  The second part is about the rows.           *)
(***************************************************************************)
EXTENDS Blink, SequenceTheorems, WellFoundedInduction, TLAPS

Before  == {"load", "request", "timer", "install"}
Handled == {"loop", "toggle", "look", "sleep", "wait", "events", "finish"}
Sampled == {"get", "set"}

\* The types of what the counting depends on.
Numbers ==
  /\ prog \in {"blink", "epoll", "py", "event", "sample", "list"}
  /\ pc \in Before \cup Handled \cup Sampled \cup {"read", "done", "killed"}
  /\ count \in Nat /\ fifo \in Nat /\ presses \in Nat /\ dropped \in Nat
  /\ pressed \in BOOLEAN
  /\ ready \subseteq {"timer", "line"}

\* Where a program can be, and what it has set up by then.
Places ==
  /\ pc = "request" => prog # "list"
  /\ pc = "read" => prog = "event" /\ ~handler
  /\ pc \in Sampled => prog = "sample"
  /\ pc \in Before => ~handler
  /\ pc \in Handled => handler

\* Until the request nothing is counted or queued.
Quiet ==
  pc \in {"load", "request"} => count = 0 /\ fifo = 0 /\ presses = 0 /\ dropped = 0

\* The buffer has room for what it holds, and what epoll announced is still in it.
Queue ==
  /\ fifo <= Buffer
  /\ "line" \in ready => fifo > 0
  /\ pc \in Before \cup {"read"} => ready = {}

\* Only a program with its handler, or the sampling one, has written to the LED.
Light ==
  /\ prog # "sample" /\ ~handler => ~out
  /\ pc = "killed" => ~handler
  /\ pc = "done" /\ ~failed /\ prog # "sample" => ~out

BlinkInv ==
  /\ Numbers
  /\ Places
  /\ Quiet
  /\ Queue
  /\ Light
  /\ CountsPresses

\* On the right line the level is the switch.
LEMMA RightLevel ==
  ASSUME Asked, Right, NEW p \in BOOLEAN
  PROVE  Level(p) <=> p
  <1>1. lines.sw = Cell(Wired("sw1"))
    BY DEF Right
  <1>2. lines.sw.pin = Wired("sw1").pin /\ lines.sw.low = Wired("sw1").low
    BY <1>1 DEF Cell
  <1> QED BY <1>2 DEF Level, Asked

LEMMA InitBlink == Init => BlinkInv
  <1> SUFFICES ASSUME Init PROVE BlinkInv
    OBVIOUS
  <1>1. Numbers /\ Places
    BY DEF Init, Numbers, Places, Before, Handled, Sampled
  <1>2. Quiet /\ Queue /\ Light
    BY DEF Init, Quiet, Queue, Light, Buffer, Before, Handled, Sampled
  <1>3. CountsPresses
    BY DEF Init, CountsPresses, Asked
  <1> QED BY <1>1, <1>2, <1>3 DEF BlinkInv

------------------------------------------------------------------------------
(* The steps. *)

\* Steps that touch neither the request nor the counting.
LEMMA CountStands ==
  ASSUME CountsPresses, UNCHANGED <<prog, lines, count, fifo, presses, dropped>>
  PROVE  CountsPresses'
  BY DEF CountsPresses, Asked, Right, Edges, Buffer

LEMMA LoadKeeps ==
  ASSUME BlinkInv, Load
  PROVE  BlinkInv'
  <1>1. /\ pc = "load" /\ pc' \in {"done", "request"}
        /\ pc' = "request" => prog # "list"
        /\ UNCHANGED <<prog, out, count, fifo, ready, handler, failed, pressed, presses, dropped>>
    BY DEF Load, Goto, Keep, user
  <1>2. Numbers' /\ Places' /\ Quiet'
    BY <1>1 DEF BlinkInv, Numbers, Places, Quiet, Before, Handled, Sampled
  <1>3. Queue'
    BY <1>1 DEF BlinkInv, Queue, Buffer, Before
  <1>4. Light'
    BY <1>1 DEF BlinkInv, Places, Light, Before
  <1>5. CountsPresses'
    BY <1>1 DEF BlinkInv, Quiet, CountsPresses, Edges, Buffer
  <1> QED BY <1>2, <1>3, <1>4, <1>5 DEF BlinkInv

LEMMA RequestKeeps ==
  ASSUME BlinkInv, Request
  PROVE  BlinkInv'
  <1>1. /\ pc = "request" /\ pc' \in {"install", "timer", "read", "get", "done"}
        /\ pc' = "read" => prog = "event"
        /\ pc' = "get" => prog = "sample"
        /\ UNCHANGED <<prog, out, count, fifo, ready, handler, failed, pressed, presses, dropped>>
    BY DEF BlinkInv, Numbers, Places, Request, Goto, Keep, user, Epolls
  <1>2. Numbers' /\ Places' /\ Quiet'
    BY <1>1 DEF BlinkInv, Numbers, Places, Quiet, Before, Handled, Sampled
  <1>3. Queue'
    BY <1>1 DEF BlinkInv, Queue, Buffer, Before
  <1>4. Light'
    BY <1>1 DEF BlinkInv, Places, Light, Before
  <1>5. CountsPresses'
    BY <1>1 DEF BlinkInv, Quiet, CountsPresses, Edges, Buffer
  <1> QED BY <1>2, <1>3, <1>4, <1>5 DEF BlinkInv

LEMMA SetUpKeeps ==
  ASSUME BlinkInv, SetTimer \/ Install
  PROVE  BlinkInv'
  <1>1. /\ pc \in {"timer", "install"} /\ pc' \in {"install", "done", "loop"}
        /\ pc' = "loop" => handler'
        /\ pc' # "loop" => handler' = handler
        /\ UNCHANGED <<prog, lines, out, count, fifo, ready, failed, pressed, presses, dropped>>
    BY DEF SetTimer, Install, Goto, Keep, user
  <1>2. Numbers' /\ Places' /\ Quiet'
    BY <1>1 DEF BlinkInv, Numbers, Places, Quiet, Before, Handled, Sampled
  <1>3. Queue'
    BY <1>1 DEF BlinkInv, Queue, Buffer, Before
  <1>4. Light'
    BY <1>1 DEF BlinkInv, Places, Light, Before
  <1>5. CountsPresses'
    BY <1>1, CountStands DEF BlinkInv
  <1> QED BY <1>2, <1>3, <1>4, <1>5 DEF BlinkInv

\* The steps of the loops that read no event.
LEMMA LoopKeeps ==
  ASSUME BlinkInv, Loop \/ Toggle \/ Look \/ Sleep \/ WaitFails \/ TimerEvent
  PROVE  BlinkInv'
  <1>1. /\ pc \in Handled /\ pc' \in Handled /\ pc' # "done"
        /\ ready' \subseteq ready
        /\ UNCHANGED <<prog, lines, count, fifo, handler, pressed, presses, dropped>>
    BY DEF Loop, Toggle, Look, Sleep, WaitFails, TimerEvent, Goto, Keep, Write, Next1, After,
           Raised, user, Handled
  <1>2. Numbers' /\ Places' /\ Quiet'
    BY <1>1 DEF BlinkInv, Numbers, Places, Quiet, Before, Handled, Sampled
  <1>3. Queue'
    BY <1>1 DEF BlinkInv, Queue, Buffer, Before, Handled
  <1>4. Light'
    BY <1>1 DEF BlinkInv, Places, Light, Handled
  <1>5. CountsPresses'
    BY <1>1, CountStands DEF BlinkInv
  <1> QED BY <1>2, <1>3, <1>4, <1>5 DEF BlinkInv

LEMMA WaitKeeps ==
  ASSUME BlinkInv, Wait
  PROVE  BlinkInv'
  <1>1. /\ pc = "wait" /\ pc' = "events"
        /\ ready' \subseteq {"timer", "line"}
        /\ "line" \in ready' => fifo > 0
        /\ UNCHANGED <<prog, lines, out, count, fifo, handler, failed, pressed, presses, dropped>>
    BY DEF Wait, Goto, Keep, user
  <1>2. Numbers' /\ Places' /\ Quiet'
    BY <1>1 DEF BlinkInv, Numbers, Places, Quiet, Before, Handled, Sampled
  <1>3. Queue'
    BY <1>1 DEF BlinkInv, Queue, Buffer, Before
  <1>4. Light'
    BY <1>1 DEF BlinkInv, Places, Light, Handled
  <1>5. CountsPresses'
    BY <1>1, CountStands DEF BlinkInv
  <1> QED BY <1>2, <1>3, <1>4, <1>5 DEF BlinkInv

\* What is read goes from the buffer to the count, or nothing is read.
LEMMA EventKeeps ==
  ASSUME BlinkInv, LineEvent \/ ReadEvent
  PROVE  BlinkInv'
  <1>1. PICK n \in Nat :
          /\ n <= fifo
          /\ count' = count + n /\ fifo' = fifo - n
    <2>1. CASE LineEvent
      <3>1. fifo > 0 /\ fifo \in Nat
        BY <2>1 DEF BlinkInv, Numbers, Queue, LineEvent
      <3>2. CASE UNCHANGED <<count, fifo>>
        BY <3>1, <3>2 DEF BlinkInv, Numbers
      <3> QED BY <2>1, <3>1, <3>2 DEF LineEvent
    <2>2. CASE ReadEvent
      <3>1. fifo > 0 /\ fifo \in Nat
        BY <2>2 DEF BlinkInv, Numbers, ReadEvent
      <3>2. CASE UNCHANGED <<count, fifo>>
        BY <3>1, <3>2 DEF BlinkInv, Numbers
      <3> QED BY <2>2, <3>1, <3>2 DEF ReadEvent
    <2> QED BY <2>1, <2>2
  <1>2. \/ pc = "events" /\ pc' \in {"events", "loop", "finish"} /\ ready' = ready \ {"line"}
        \/ pc = "read" /\ pc' \in {"read", "done"} /\ ready' = ready
    BY DEF LineEvent, ReadEvent, Goto, Keep, Next1, After, Raised
  <1>3. UNCHANGED <<prog, lines, out, handler, failed, pressed, presses, dropped>>
    BY DEF LineEvent, ReadEvent, Keep, user
  <1>4. Numbers' /\ Places' /\ Quiet'
    <2>1. count' \in Nat /\ fifo' \in Nat
      BY <1>1 DEF BlinkInv, Numbers
    <2>2. pc' \in Handled \cup {"read", "done"} /\ ready' \subseteq {"timer", "line"}
      BY <1>2 DEF BlinkInv, Numbers, Handled
    <2>3. Numbers'
      BY <1>3, <2>1, <2>2 DEF BlinkInv, Numbers
    <2>4. Places' /\ Quiet'
      BY <1>2, <1>3 DEF BlinkInv, Places, Quiet, Before, Handled, Sampled
    <2> QED BY <2>3, <2>4
  <1>5. Queue'
    <2>1. Buffer \in Nat /\ Buffer' = Buffer
      BY <1>3 DEF Buffer
    <2>2. fifo' <= Buffer'
      BY <1>1, <2>1 DEF BlinkInv, Numbers, Queue
    <2>3. "line" \notin ready'
      BY <1>2 DEF BlinkInv, Queue
    <2> QED BY <1>2, <2>2, <2>3 DEF BlinkInv, Queue, Before
  <1>6. Light'
    BY <1>2, <1>3 DEF BlinkInv, Places, Light
  <1>7. CountsPresses'
    BY <1>1, <1>3 DEF BlinkInv, Numbers, CountsPresses, Asked, Right, Edges, Buffer
  <1> QED BY <1>4, <1>5, <1>6, <1>7 DEF BlinkInv

LEMMA SampleKeeps ==
  ASSUME BlinkInv, Get \/ Set
  PROVE  BlinkInv'
  <1>1. /\ pc \in Sampled /\ pc' \in Sampled \cup {"done"} /\ prog = "sample"
        /\ UNCHANGED <<prog, lines, count, fifo, ready, handler, pressed, presses, dropped>>
    BY DEF BlinkInv, Places, Get, Set, Goto, Keep, Write, user, Sampled
  <1>2. Numbers' /\ Places' /\ Quiet'
    BY <1>1 DEF BlinkInv, Numbers, Places, Quiet, Before, Handled, Sampled
  <1>3. Queue'
    BY <1>1 DEF BlinkInv, Queue, Buffer, Before, Sampled
  <1>4. Light'
    BY <1>1 DEF BlinkInv, Light, Sampled
  <1>5. CountsPresses'
    BY <1>1, CountStands DEF BlinkInv
  <1> QED BY <1>2, <1>3, <1>4, <1>5 DEF BlinkInv

LEMMA FinishKeeps ==
  ASSUME BlinkInv, Finish
  PROVE  BlinkInv'
  <1>1. /\ pc = "finish" /\ pc' = "done" /\ (~out' \/ failed')
        /\ UNCHANGED <<prog, lines, count, fifo, ready, handler, pressed, presses, dropped>>
    BY DEF Finish, Goto, Keep, Write, user
  <1>2. Numbers' /\ Places' /\ Quiet'
    BY <1>1 DEF BlinkInv, Numbers, Places, Quiet, Before, Handled, Sampled
  <1>3. Queue'
    BY <1>1 DEF BlinkInv, Queue, Buffer, Before
  <1>4. Light'
    BY <1>1 DEF BlinkInv, Places, Light, Handled
  <1>5. CountsPresses'
    BY <1>1, CountStands DEF BlinkInv
  <1> QED BY <1>2, <1>3, <1>4, <1>5 DEF BlinkInv

LEMMA ExpireKeeps ==
  ASSUME BlinkInv, Expire \/ UNCHANGED vars
  PROVE  BlinkInv'
  <1>1. UNCHANGED <<prog, pc, lines, out, count, fifo, ready, handler, failed, pressed,
                    presses, dropped>>
    BY DEF Expire, Keep, vars, prgm, user
  <1>2. Numbers' /\ Places' /\ Quiet'
    BY <1>1 DEF BlinkInv, Numbers, Places, Quiet
  <1>3. Queue' /\ Light'
    BY <1>1 DEF BlinkInv, Queue, Light, Buffer
  <1>4. CountsPresses'
    BY <1>1, CountStands DEF BlinkInv
  <1> QED BY <1>2, <1>3, <1>4 DEF BlinkInv

\* A press on the line that was asked for is queued, or displaces an older one.
LEMMA FlipKeeps ==
  ASSUME BlinkInv, Flip
  PROVE  BlinkInv'
  <1> DEFINE asked == pc \notin {"load", "request"}
             edge == asked /\ prog \in Edges /\ Level(~pressed) /\ ~Level(pressed)
  <1>1. /\ UNCHANGED <<prog, pc, lines, out, count, ready, handler, failed>>
        /\ pressed' = ~pressed
        /\ ~Ended
    BY DEF Flip, prgm
  <1>2. /\ presses' = IF asked /\ ~pressed THEN presses + 1 ELSE presses
        /\ fifo' = IF edge /\ fifo < Buffer THEN fifo + 1 ELSE fifo
        /\ dropped' = IF edge /\ fifo = Buffer THEN dropped + 1 ELSE dropped
    BY DEF Flip
  <1>3. Buffer \in Nat /\ Buffer > 0 /\ Buffer' = Buffer
    BY <1>1 DEF Buffer
  <1>4. Numbers'
    <2> HIDE DEF edge, asked
    <2> QED BY <1>1, <1>2 DEF BlinkInv, Numbers
  <1>5. Places'
    BY <1>1 DEF BlinkInv, Places
  <1>6. Quiet'
    <2>1. SUFFICES ASSUME ~asked PROVE UNCHANGED <<fifo, presses, dropped>>
      BY <1>1, <1>2 DEF BlinkInv, Quiet
    <2> QED BY <1>2, <2>1
  <1>7. Queue'
    <2>1. fifo \in Nat /\ fifo <= Buffer
      BY DEF BlinkInv, Numbers, Queue
    <2>2. fifo' <= Buffer' /\ fifo' >= fifo
      <3> HIDE DEF edge, asked
      <3> QED BY <1>2, <1>3, <2>1
    <2>3. fifo' \in Nat
      BY <1>4 DEF Numbers
    <2> QED BY <1>1, <2>1, <2>2, <2>3 DEF BlinkInv, Queue
  <1>8. Light'
    BY <1>1 DEF BlinkInv, Light
  <1>9. CountsPresses'
    <2> SUFFICES ASSUME Asked, Right, prog \in Edges
                 PROVE  /\ count + fifo' + dropped' = presses'
                        /\ dropped' > 0 => presses' > Buffer
      BY <1>1, <1>3 DEF CountsPresses, Asked, Right
    <2>1. /\ count + fifo + dropped = presses
          /\ dropped > 0 => presses > Buffer
      BY DEF BlinkInv, CountsPresses
    <2>2. edge <=> asked /\ ~pressed
      <3>1. (Level(pressed) <=> pressed) /\ (Level(~pressed) <=> ~pressed)
        BY RightLevel DEF BlinkInv, Numbers
      <3> QED BY <3>1
    <2>3. count \in Nat /\ fifo \in Nat /\ dropped \in Nat /\ presses \in Nat /\ fifo <= Buffer
      BY DEF BlinkInv, Numbers, Queue
    <2> HIDE DEF edge, asked
    <2>4. CASE edge
      BY <1>2, <1>3, <2>1, <2>2, <2>3, <2>4
    <2>5. CASE ~edge
      BY <1>2, <2>1, <2>2, <2>5
    <2> QED BY <2>4, <2>5
  <1> QED BY <1>4, <1>5, <1>6, <1>7, <1>8, <1>9 DEF BlinkInv

LEMMA InterruptKeeps ==
  ASSUME BlinkInv, Interrupt
  PROVE  BlinkInv'
  <1>1. UNCHANGED <<prog, lines, out, count, fifo, ready, handler, failed, pressed,
                    presses, dropped>>
    BY DEF Interrupt
  <1>2. \/ pc' = pc
        \/ pc = "wait" /\ pc' = "loop"
        \/ ~handler /\ pc' = "killed"
    BY DEF Interrupt, Goto
  <1>3. Numbers' /\ Places' /\ Quiet'
    BY <1>1, <1>2 DEF BlinkInv, Numbers, Places, Quiet, Before, Handled, Sampled
  <1>4. Queue'
    BY <1>1, <1>2 DEF BlinkInv, Queue, Buffer, Before
  <1>5. Light'
    BY <1>1, <1>2 DEF BlinkInv, Light
  <1>6. CountsPresses'
    BY <1>1, CountStands DEF BlinkInv
  <1> QED BY <1>3, <1>4, <1>5, <1>6 DEF BlinkInv

LEMMA NextBlink == BlinkInv /\ [Next]_vars => BlinkInv'
  <1> SUFFICES ASSUME BlinkInv, [Next]_vars PROVE BlinkInv'
    OBVIOUS
  <1>1. CASE Load
    BY <1>1, LoadKeeps
  <1>2. CASE Request
    BY <1>2, RequestKeeps
  <1>3. CASE SetTimer \/ Install
    BY <1>3, SetUpKeeps
  <1>4. CASE Loop \/ Toggle \/ Look \/ Sleep \/ WaitFails \/ TimerEvent
    BY <1>4, LoopKeeps
  <1>5. CASE Wait
    BY <1>5, WaitKeeps
  <1>6. CASE LineEvent \/ ReadEvent
    BY <1>6, EventKeeps
  <1>7. CASE Get \/ Set
    BY <1>7, SampleKeeps
  <1>8. CASE Finish
    BY <1>8, FinishKeeps
  <1>9. CASE Expire \/ UNCHANGED vars
    BY <1>9, ExpireKeeps
  <1>10. CASE Flip
    BY <1>10, FlipKeeps
  <1>11. CASE Interrupt
    BY <1>11, InterruptKeeps
  <1> QED BY <1>1, <1>2, <1>3, <1>4, <1>5, <1>6, <1>7, <1>8, <1>9, <1>10, <1>11
          DEF Next, Program

LEMMA Inductive == Spec => []BlinkInv
  <1> QED BY InitBlink, NextBlink, PTL DEF Spec

------------------------------------------------------------------------------
\* Every press of the switch after the request is counted, still queued or displaced by a
\* later one, and displaced only by more presses than the kernel keeps; for every number of
\* presses, in the three programs that wait for line events.
THEOREM PressesAreCounted == Spec => []CountsPresses
  <1>1. BlinkInv => CountsPresses
    BY DEF BlinkInv
  <1> QED BY <1>1, Inductive, PTL

\* A program that blinks leaves the LED off however it ends, unless an ioctl failed: before
\* the handler is installed it has not lit it, and afterwards only the loop's end ends it.
THEOREM LedIsOff == Spec => []LedOffAtEnd
  <1>1. BlinkInv => LedOffAtEnd
    BY DEF BlinkInv, Light, LedOffAtEnd, Ended
  <1> QED BY <1>1, Inductive, PTL

------------------------------------------------------------------------------
(* The table, from the board to the rows. *)

\* What a name can be.
Word == {"sw1", "sw2", "led1", "led2", NoName}

Sw1 == Entry("sw1", 2, TRUE)
Sw2 == Entry("sw2", 3, TRUE)
Led1 == Entry("led1", 4, FALSE)
Led2 == Entry("led2", 9, FALSE)

\* FlattenSeq of two lists is their concatenation.
LEMMA FlatTwo ==
  ASSUME NEW D, NEW s, s \in Seq(Seq(D)), Len(s) = 2
  PROVE  FlattenSeq(s) = s[1] \o s[2]
  <1> DEFINE F(f) == [i \in 1..2 |-> IF i = 1 THEN s[i] ELSE f[i - 1] \o s[i]]
             f == CHOOSE g : g = F(g)
             h == [i \in 1..2 |-> IF i = 1 THEN s[1] ELSE s[1] \o s[2]]
  <1>1. h = F(h)
    OBVIOUS
  <1>2. f = F(f)
    <2> HIDE DEF F, h
    <2> QED BY <1>1
  <1>3. f[2] = s[1] \o s[2]
    <2> HIDE DEF f
    <2> QED BY <1>2
  <1>4. FlattenSeq(s) = f[2]
    BY DEF FlattenSeq
  <1> QED BY <1>3, <1>4

LEMMA ConcatTwo ==
  ASSUME NEW a, NEW b, NEW c, NEW d
  PROVE  <<a, b>> \o <<c, d>> = <<a, b, c, d>>
  <1> DEFINE D == {a, b, c, d}
             u == <<a, b>>
             v == <<c, d>>
             w == <<a, b, c, d>>
  <1>1. u \in Seq(D) /\ v \in Seq(D) /\ w \in Seq(D) /\ Len(u) = 2 /\ Len(v) = 2 /\ Len(w) = 4
    OBVIOUS
  <1>2. u[1] = a /\ u[2] = b /\ v[1] = c /\ v[2] = d /\ w[1] = a /\ w[2] = b /\ w[3] = c /\ w[4] = d
    OBVIOUS
  <1> HIDE DEF D, u, v, w
  <1>3. u \o v \in Seq(D) /\ Len(u \o v) = 4
    BY <1>1, ConcatProperties
  <1>4. \A i \in 1..4 : (u \o v)[i] = w[i]
    <2>1. \A i \in 1..(Len(u) + Len(v)) :
            (u \o v)[i] = IF i <= Len(u) THEN u[i] ELSE v[i - Len(u)]
      BY <1>1, ConcatProperties
    <2>2. Len(u) = 2 /\ Len(v) = 2
      BY <1>1
    <2> DEFINE x(i) == (u \o v)[i]
    <2>3. x(1) = u[1] /\ x(2) = u[2] /\ x(3) = v[1] /\ x(4) = v[2]
      BY <2>1, <2>2
    <2>4. x(1) = w[1] /\ x(2) = w[2] /\ x(3) = w[3] /\ x(4) = w[4]
      BY <2>3, <1>2
    <2> SUFFICES ASSUME NEW i \in 1..4 PROVE x(i) = w[i]
      OBVIOUS
    <2>5. i = 1 \/ i = 2 \/ i = 3 \/ i = 4
      OBVIOUS
    <2> QED BY <2>4, <2>5
  <1>5. u \o v = w
    BY <1>1, <1>3, <1>4
  <1> QED BY <1>5 DEF u, v, w

\* The board line by line, and its names.
LEMMA BoardRows == 
  /\ FlattenSeq(Board) = <<Sw1, Sw2, Led1, Led2>>
  /\ Names = <<"sw1", "sw2", "led1", "led2">>
  <1> DEFINE E == {Sw1, Sw2, Led1, Led2}
  <1>2. Board = <<<<Sw1, Sw2>>, <<Led1, Led2>>>>
    BY DEF Board, Sw1, Sw2, Led1, Led2
  <1>3. <<Sw1, Sw2>> \in Seq(E) /\ <<Led1, Led2>> \in Seq(E)
    OBVIOUS
  <1>4. FlattenSeq(Board) = <<Sw1, Sw2>> \o <<Led1, Led2>>
    <2> DEFINE s == <<Sw1, Sw2>>
               t == <<Led1, Led2>>
    <2>1. s \in Seq(E) /\ t \in Seq(E) /\ Board = <<s, t>>
      BY <1>2, <1>3
    <2> HIDE DEF E, s, t
    <2>2. Board \in Seq(Seq(E)) /\ Len(Board) = 2 /\ Board[1] = s /\ Board[2] = t
      BY <2>1
    <2>3. FlattenSeq(Board) = s \o t
      BY <2>2, FlatTwo
    <2> QED BY <2>3 DEF s, t
  <1>5. FlattenSeq(Board) = <<Sw1, Sw2, Led1, Led2>>
    BY <1>4, ConcatTwo
  <1>6. Names = <<Sw1.name, Sw2.name, Led1.name, Led2.name>>
    BY <1>5 DEF Names
  <1> QED BY <1>5, <1>6 DEF Sw1, Sw2, Led1, Led2, Entry

\* A set of numbers that is not empty has a least one: what is shown of the steps of a
\* recursive function is shown by its least counterexample.
LEMMA Least ==
  ASSUME NEW T \in SUBSET Nat, T # {}
  PROVE  \E x \in T : \A y \in T : x <= y
  <1> DEFINE R == OpToRel(<, Nat)
  <1>1. PICK x \in T : \A y \in T : <<y, x>> \notin R
    BY WFMin, NatLessThanWellFounded
  <1>2. \A y \in T : ~(y < x)
    BY <1>1 DEF OpToRel
  <1> QED BY <1>2

\* One step of NonEmpty.
KeptAt(s, f, i) ==
  IF i = 0 THEN <<>>
  ELSE IF s[i] = NoName THEN f[i - 1] ELSE Append(f[i - 1], s[i])

Kept(s) == CHOOSE f : f = [i \in 0..Len(s) |-> KeptAt(s, f, i)]

LEMMA KeptEarlier ==
  ASSUME NEW s, NEW f, NEW g, NEW i \in Nat, i > 0 => f[i - 1] = g[i - 1]
  PROVE  KeptAt(s, f, i) = KeptAt(s, g, i)
  BY DEF KeptAt

\* The recursion of NonEmpty has a solution, for every list.
LEMMA KeptSolves ==
  ASSUME NEW s \in Seq(Word)
  PROVE  Kept(s) = [i \in 0..Len(s) |-> KeptAt(s, Kept(s), i)]
  <1> DEFINE n == Len(s)
             Solves(g, m) == \A i \in 0..m : g[i] = KeptAt(s, g, i)
             T == {m \in 0..n : ~ \E g : Solves(g, m)}
  <1>0. n \in Nat
    OBVIOUS
  <1>1. T = {}
    <2> SUFFICES ASSUME T # {} PROVE FALSE
      OBVIOUS
    <2>1. PICK m \in T : \A k \in T : m <= k
      <3>1. T \in SUBSET Nat
        BY <1>0
      <3> QED BY <3>1, Least
    <2>2. m \in 0..n /\ \A k \in 0..n : k < m => \E g : Solves(g, k)
      BY <1>0, <2>1
    <2>3. PICK g : \A i \in 0..(m - 1) : g[i] = KeptAt(s, g, i)
      <3>1. CASE m = 0
        BY <3>1
      <3>2. CASE m # 0
        <4>1. m - 1 \in 0..n /\ m - 1 < m
          BY <1>0, <2>2, <3>2
        <4> QED BY <4>1, <2>2
      <3> QED BY <3>1, <3>2
    <2> DEFINE h == [i \in 0..n |-> IF i = m THEN KeptAt(s, g, m) ELSE g[i]]
    <2>4. \A i \in 0..(m - 1) : h[i] = g[i]
      BY <1>0, <2>2
    <2>5. h[m] = KeptAt(s, g, m)
      BY <2>2
    <2> HIDE DEF h
    <2>6. ASSUME NEW i \in 0..m PROVE h[i] = KeptAt(s, h, i)
      <3>1. i > 0 => h[i - 1] = g[i - 1]
        BY <1>0, <2>2, <2>4
      <3>2. KeptAt(s, h, i) = KeptAt(s, g, i)
        BY <2>2, <3>1, KeptEarlier
      <3>3. CASE i = m
        BY <2>5, <3>2, <3>3
      <3>4. CASE i # m
        <4>1. i \in 0..(m - 1)
          BY <1>0, <2>2, <3>4
        <4> QED BY <4>1, <2>3, <2>4, <3>2
      <3> QED BY <3>3, <3>4
    <2> QED BY <2>1, <2>6
  <1>2. PICK g : \A i \in 0..n : g[i] = KeptAt(s, g, i)
    <2>1. n \in 0..n /\ n \notin T
      BY <1>0, <1>1
    <2> QED BY <2>1
  <1> DEFINE f == [i \in 0..n |-> g[i]]
  <1>3. ASSUME NEW i \in 0..n PROVE f[i] = KeptAt(s, f, i)
    <2>1. i > 0 => f[i - 1] = g[i - 1]
      BY <1>0
    <2>2. f[i] = g[i] /\ i \in Nat
      BY <1>0
    <2> HIDE DEF f
    <2> QED BY <1>2, <2>1, <2>2, KeptEarlier
  <1>4. f = [i \in 0..n |-> KeptAt(s, f, i)]
    BY <1>3
  <1> HIDE DEF f
  <1>5. \E e : e = [i \in 0..Len(s) |-> KeptAt(s, e, i)]
    BY <1>4
  <1> QED BY <1>5, Zenon DEF Kept

\* NonEmpty keeps a list without empty names, and shortens one that has some.
LEMMA NonEmptyKeeps ==
  ASSUME NEW s \in Seq(Word)
  PROVE  /\ NonEmpty(s) \in Seq(Word)
         /\ Len(NonEmpty(s)) <= Len(s)
         /\ (\A i \in 1..Len(s) : s[i] # NoName) => NonEmpty(s) = s
         /\ (\E i \in 1..Len(s) : s[i] = NoName) => Len(NonEmpty(s)) < Len(s)
  <1> DEFINE n == Len(s)
             k == Kept(s)
             Good(i) ==
               /\ k[i] \in Seq(Word)
               /\ Len(k[i]) <= i
               /\ (\A j \in 1..i : s[j] # NoName) =>
                     Len(k[i]) = i /\ \A j \in 1..i : k[i][j] = s[j]
               /\ (\E j \in 1..i : s[j] = NoName) => Len(k[i]) < i
             T == {i \in 0..n : ~Good(i)}
  <1>0. n \in Nat
    OBVIOUS
  <1>1. NonEmpty(s) = k[n]
    BY DEF NonEmpty, Kept, KeptAt
  <1>2. \A i \in 0..n : k[i] = KeptAt(s, k, i)
    BY KeptSolves
  <1> HIDE DEF k
  <1>3. T = {}
    <2> SUFFICES ASSUME T # {} PROVE FALSE
      OBVIOUS
    <2>1. PICK i \in T : \A j \in T : i <= j
      <3>1. T \in SUBSET Nat
        BY <1>0
      <3> QED BY <3>1, Least
    <2>2. i \in 0..n /\ ~Good(i) /\ \A j \in 0..n : j < i => Good(j)
      BY <1>0, <2>1
    <2>3. i # 0
      <3>1. SUFFICES ASSUME i = 0 PROVE Good(i)
        BY <2>2
      <3>2. k[i] = <<>>
        BY <1>2, <2>2, <3>1 DEF KeptAt
      <3> QED BY <3>1, <3>2
    <2>4. i - 1 \in 0..n /\ i \in 1..n /\ Good(i - 1)
      BY <1>0, <2>2, <2>3
    <2>5. s[i] \in Word
      BY <2>4
    <2>6. CASE s[i] = NoName
      <3>1. k[i] = k[i - 1]
        BY <1>2, <2>2, <2>3, <2>6 DEF KeptAt
      <3>2. k[i] \in Seq(Word) /\ Len(k[i]) < i
        BY <2>4, <3>1
      <3> QED BY <2>2, <2>4, <2>6, <3>2
    <2>7. CASE s[i] # NoName
      <3>1. k[i] = Append(k[i - 1], s[i])
        BY <1>2, <2>2, <2>3, <2>7 DEF KeptAt
      <3>2. /\ k[i] \in Seq(Word) /\ Len(k[i]) = Len(k[i - 1]) + 1
            /\ \A j \in 1..Len(k[i - 1]) : k[i][j] = k[i - 1][j]
            /\ k[i][Len(k[i - 1]) + 1] = s[i]
        <4>1. k[i - 1] \in Seq(Word)
          BY <2>4
        <4> QED BY <3>1, <4>1, <2>5, AppendProperties
      <3>3. Len(k[i]) <= i
        BY <2>4, <3>2
      <3>4. ASSUME \A j \in 1..i : s[j] # NoName
            PROVE  Len(k[i]) = i /\ \A j \in 1..i : k[i][j] = s[j]
        <4>1. Len(k[i - 1]) = i - 1 /\ \A j \in 1..(i - 1) : k[i - 1][j] = s[j]
          BY <2>4, <3>4
        <4> QED BY <2>4, <3>2, <4>1
      <3>5. ASSUME \E j \in 1..i : s[j] = NoName
            PROVE  Len(k[i]) < i
        <4>1. \E j \in 1..(i - 1) : s[j] = NoName
          BY <2>4, <2>7, <3>5
        <4> QED BY <2>4, <3>2, <4>1
      <3> QED BY <2>2, <3>2, <3>3, <3>4, <3>5
    <2> QED BY <2>6, <2>7
  <1>4. Good(n)
    BY <1>0, <1>3
  <1>5. (\A i \in 1..n : s[i] # NoName) => k[n] = s
    BY <1>4
  <1> QED BY <1>1, <1>4, <1>5

\* What is read of one property.
Part(t, p) == IF t.props[p].there THEN t.props[p].cells ELSE <<>>

LEMMA EntriesAreParts ==
  ASSUME NEW D, NEW t, DOMAIN t.props = 1..2, \A p \in 1..2 : Part(t, p) \in Seq(D)
  PROVE  Entries(t) = Part(t, 1) \o Part(t, 2)
  <1> DEFINE q == [p \in DOMAIN t.props |-> Part(t, p)]
  <1>1. q \in Seq(Seq(D)) /\ Len(q) = 2 /\ q[1] = Part(t, 1) /\ q[2] = Part(t, 2)
    OBVIOUS
  <1>2. Entries(t) = FlattenSeq(q)
    BY DEF Entries, Part
  <1> HIDE DEF q
  <1> QED BY <1>1, <1>2, FlatTwo

\* The entries of the whole tree, property by property and in one list.
Full == <<Cell(Sw1), Cell(Sw2), Cell(Led1), Cell(Led2)>>
Pair == <<<<Cell(Sw1), Cell(Sw2)>>, <<Cell(Led1), Cell(Led2)>>>>
Cells == {Cell(Sw1), Cell(Sw2), Cell(Led1), Cell(Led2)}

LEMMA BoardIs == Board = <<<<Sw1, Sw2>>, <<Led1, Led2>>>>
  BY DEF Board, Sw1, Sw2, Led1, Led2

LEMMA IntactProps ==
  /\ DOMAIN Intact.props = 1..2
  /\ \A p \in 1..2 : /\ Intact.props[p].there /\ ~Intact.props[p].torn
                      /\ Intact.props[p].cells = Pair[p]
  <1>1. DOMAIN Board = 1..2 /\ Board[1] = <<Sw1, Sw2>> /\ Board[2] = <<Led1, Led2>>
    BY BoardIs
  <1>2. Intact.props = [p \in 1..2 |-> Prop(Board[p])]
    BY <1>1 DEF Intact
  <1>3. Prop(Board[1]).cells = Pair[1]
    <2>1. Prop(<<Sw1, Sw2>>).cells = [i \in {1, 2} |-> Cell(<<Sw1, Sw2>>[i])]
      BY DEF Prop
    <2> QED BY <1>1, <2>1 DEF Pair
  <1>4. Prop(Board[2]).cells = Pair[2]
    <2>1. Prop(<<Led1, Led2>>).cells = [i \in {1, 2} |-> Cell(<<Led1, Led2>>[i])]
      BY DEF Prop
    <2> QED BY <1>1, <2>1 DEF Pair
  <1>5. \A p \in 1..2 : Prop(Board[p]).there /\ ~Prop(Board[p]).torn
    BY DEF Prop
  <1> QED BY <1>2, <1>3, <1>4, <1>5

LEMMA PairCells == \A p \in 1..2 : Pair[p] \in Seq(Cells) /\ Len(Pair[p]) = 2
  <1> DEFINE a == <<Cell(Sw1), Cell(Sw2)>>
             b == <<Cell(Led1), Cell(Led2)>>
  <1>1. a \in Seq(Cells) /\ b \in Seq(Cells) /\ Len(a) = 2 /\ Len(b) = 2
    BY DEF Cells
  <1>2. Pair = <<a, b>>
    BY DEF Pair
  <1> HIDE DEF a, b
  <1>3. Pair[1] = a /\ Pair[2] = b
    BY <1>2
  <1> QED BY <1>1, <1>3

LEMMA IntactEntries ==
  ASSUME NEW t, t.props = Intact.props
  PROVE  Entries(t) = Full
  <1>1. DOMAIN t.props = 1..2 /\ \A p \in 1..2 : Part(t, p) = Pair[p]
    BY IntactProps DEF Part
  <1>2. \A p \in 1..2 : Part(t, p) \in Seq(Cells)
    BY <1>1, PairCells
  <1>3. Entries(t) = Pair[1] \o Pair[2]
    <2>1. Part(t, 1) = Pair[1] /\ Part(t, 2) = Pair[2]
      BY <1>1
    <2> QED BY <1>1, <1>2, <2>1, EntriesAreParts
  <1>4. Pair[1] = <<Cell(Sw1), Cell(Sw2)>> /\ Pair[2] = <<Cell(Led1), Cell(Led2)>>
    BY DEF Pair
  <1> QED BY <1>3, <1>4, ConcatTwo DEF Full

\* A property that is missing or torn lacks entries.
LEMMA FewerEntries ==
  ASSUME NEW t, NEW p \in 1..2, DOMAIN t.props = 1..2,
         \A q \in 1..2 : q # p => Part(t, q) = Pair[q],
         Part(t, p) \in Seq(Cells), Len(Part(t, p)) < 2
  PROVE  Entries(t) \in Seq(Cells) /\ Len(Entries(t)) < 4
  <1>2. \A q \in 1..2 : Part(t, q) \in Seq(Cells) /\ Len(Part(t, q)) <= 2
    BY PairCells
  <1>3. Entries(t) = Part(t, 1) \o Part(t, 2)
    BY <1>2, EntriesAreParts
  <1>4. Entries(t) \in Seq(Cells) /\ Len(Entries(t)) = Len(Part(t, 1)) + Len(Part(t, 2))
    BY <1>2, <1>3, ConcatProperties
  <1>5. Len(Part(t, 1)) \in Nat /\ Len(Part(t, 2)) \in Nat
    BY <1>2
  <1>6. Len(Part(t, 1)) < 2 \/ Len(Part(t, 2)) < 2
    OBVIOUS
  <1> HIDE DEF Part
  <1> QED BY <1>2, <1>4, <1>5, <1>6

\* The trees with a fault in the names.
Renamed == {[Intact EXCEPT !.names = RemoveAt(@, i)] : i \in 1..4}
           \cup {[Intact EXCEPT !.names[i] = n] : i \in 1..4, n \in ToSet(Names) \cup {NoName}}

LEMMA NamesFour == Names \in Seq(Word) /\ Len(Names) = 4 /\ IsInjective(Names)
  <1>1. Names = <<"sw1", "sw2", "led1", "led2">>
    BY BoardRows
  <1>2. Names \in Seq(Word) /\ Len(Names) = 4
    BY <1>1 DEF Word
  <1>3. IsInjective(Names)
    BY <1>1 DEF IsInjective
  <1> QED BY <1>2, <1>3

LEMMA NamesAreNames == \A i \in 1..4 : Names[i] # NoName
  <1>1. Names = <<"sw1", "sw2", "led1", "led2">>
    BY BoardRows
  <1>2. NoName \notin {"sw1", "sw2", "led1", "led2"}
    BY Zenon DEF NoName
  <1> QED BY <1>1, <1>2

LEMMA RightNames ==
  ASSUME NEW t, t.names = Names
  PROVE  NamesOf(t) = Names
  BY NamesFour, NamesAreNames, NonEmptyKeeps DEF NamesOf

\* With one fault in the names, names are missing or one is there twice.
LEMMA NameFault ==
  ASSUME NEW t \in Renamed
  PROVE  /\ t.props = Intact.props /\ NamesOf(t) \in Seq(Word)
         /\ Len(NamesOf(t)) < 4 \/ ~IsInjective(NamesOf(t)) \/ NamesOf(t) = Names
  <1> DEFINE s == t.names
  <1>0. NoName \in Word
    BY DEF Word
  <1>1. CASE \E i \in 1..4 : t = [Intact EXCEPT !.names = RemoveAt(@, i)]
    <2>1. PICK i \in 1..4 : t = [Intact EXCEPT !.names = RemoveAt(@, i)]
      BY <1>1
    <2>2. t.props = Intact.props /\ s = RemoveAt(Names, i)
      BY <2>1 DEF Intact
    <2>3. s \in Seq(Word) /\ Len(s) = 3
      <3> DEFINE a == SubSeq(Names, 1, i - 1)
                 b == SubSeq(Names, i + 1, Len(Names))
      <3>1. a \in Seq(Word) /\ b \in Seq(Word) /\ Len(a) = i - 1 /\ Len(b) = 4 - i
        <4>1. \A j \in 1..4 : Names[j] \in Word
          BY NamesFour
        <4>2. /\ a \in Seq(Word) /\ b \in Seq(Word)
              /\ Len(a) = (IF 1 <= i - 1 THEN i - 1 - 1 + 1 ELSE 0)
              /\ Len(b) = (IF i + 1 <= Len(Names) THEN Len(Names) - (i + 1) + 1 ELSE 0)
          BY <4>1, NamesFour, SubSeqProperties
        <4> QED BY <4>2, NamesFour
      <3> HIDE DEF a, b
      <3>2. a \o b \in Seq(Word) /\ Len(a \o b) = Len(a) + Len(b)
        BY <3>1, ConcatProperties
      <3>3. s = a \o b
        BY <2>2 DEF RemoveAt, a, b
      <3> QED BY <3>1, <3>2, <3>3
    <2>4. NamesOf(t) \in Seq(Word) /\ Len(NamesOf(t)) <= 3
      BY <2>3, NonEmptyKeeps DEF NamesOf
    <2>5. Len(NamesOf(t)) \in Nat
      BY <2>4
    <2> QED BY <2>2, <2>4, <2>5
  <1>2. CASE \E i \in 1..4, n \in ToSet(Names) \cup {NoName} : t = [Intact EXCEPT !.names[i] = n]
    <2>1. PICK i \in 1..4, n \in ToSet(Names) \cup {NoName} : t = [Intact EXCEPT !.names[i] = n]
      BY <1>2
    <2>2. t.props = Intact.props /\ s = [Names EXCEPT ![i] = n]
      BY <2>1 DEF Intact
    <2>3. n \in Word
      <3>1. \A j \in DOMAIN Names : Names[j] \in Word
        BY NamesFour
      <3> QED BY <2>1, <1>0, <3>1 DEF ToSet
    <2>4. s \in Seq(Word) /\ Len(s) = 4 /\ s[i] = n /\ \A j \in 1..4 : j # i => s[j] = Names[j]
      <3>1. Names \in Seq(Word) /\ Len(Names) = 4 /\ DOMAIN Names = 1..4
        BY NamesFour
      <3>2. s \in Seq(Word) /\ Len(s) = 4
        <4>1. s = [j \in 1..4 |-> IF j = i THEN n ELSE Names[j]]
          BY <2>2, <3>1
        <4>2. \A j \in 1..4 : Names[j] \in Word
          BY <3>1
        <4> HIDE DEF s
        <4> QED BY <2>3, <4>1, <4>2
      <3>3. s[i] = n /\ \A j \in 1..4 : j # i => s[j] = Names[j]
        BY <2>2, <3>1
      <3> QED BY <3>2, <3>3
    <2>7. NamesOf(t) \in Seq(Word)
      BY <2>4, NonEmptyKeeps DEF NamesOf
    <2>5. CASE n = NoName
      <3>1. Len(NamesOf(t)) < 4
        BY <2>4, <2>5, NonEmptyKeeps DEF NamesOf
      <3> QED BY <2>2, <2>7, <3>1
    <2>6. CASE n # NoName
      <3>1. NamesOf(t) = s
        <4>1. \A j \in 1..Len(s) : s[j] # NoName
          BY <2>4, <2>6, NamesAreNames
        <4> QED BY <2>4, <4>1, NonEmptyKeeps DEF NamesOf
      <3>2. PICK k \in 1..4 : n = Names[k]
        BY <2>1, <2>6, NamesFour DEF ToSet
      <3>3. CASE k = i
        <4>1. s = Names
          BY <2>4, <3>2, <3>3, NamesFour
        <4> QED BY <2>2, <2>7, <3>1, <4>1
      <3>4. CASE k # i
        <4>1. s[k] = s[i] /\ DOMAIN s = 1..4
          BY <2>4, <3>2, <3>4
        <4>2. ~IsInjective(s)
          BY <3>4, <4>1 DEF IsInjective
        <4> QED BY <2>2, <2>7, <3>1, <4>2
      <3> QED BY <3>3, <3>4
    <2> QED BY <2>5, <2>6
  <1>3. \/ \E i \in 1..4 : t = [Intact EXCEPT !.names = RemoveAt(@, i)]
        \/ \E i \in 1..4, n \in ToSet(Names) \cup {NoName} : t = [Intact EXCEPT !.names[i] = n]
    <2> DEFINE M == ToSet(Names) \cup {NoName}
               B == {[Intact EXCEPT !.names[i] = n] : i \in 1..4, n \in M}
    <2>1. (\E i \in 1..4 : t = [Intact EXCEPT !.names = RemoveAt(@, i)]) \/ t \in B
      BY DEF Renamed
    <2>2. t \in B => \E i \in 1..4, n \in M : t = [Intact EXCEPT !.names[i] = n]
      <3> HIDE DEF M
      <3> QED OBVIOUS
    <2> QED BY <2>1, <2>2
  <1> QED BY <1>1, <1>2, <1>3

\* A readable tree with one fault lacks entries, or names, or has a name twice.
LEMMA OneFault ==
  ASSUME NEW t \in Trees, t.named
  PROVE  /\ Entries(t) \in Seq(Cells) /\ Len(Entries(t)) <= 4 /\ NamesOf(t) \in Seq(Word)
         /\ Len(NamesOf(t)) = Len(Entries(t)) /\ IsInjective(NamesOf(t)) =>
              Entries(t) = Full /\ NamesOf(t) = Names
  <1>0. DOMAIN Board = 1..2 /\ DOMAIN Names = 1..4
    BY BoardIs, NamesFour
  <1> DEFINE Missing == {[Intact EXCEPT !.props[p].there = FALSE] : p \in 1..2}
             Torn == {[Intact EXCEPT !.props[p].torn = TRUE, !.props[p].cells = Front(@)] :
                        p \in 1..2}
             None == [Intact EXCEPT !.named = FALSE, !.names = <<>>]
             Goal == /\ Entries(t) \in Seq(Cells) /\ Len(Entries(t)) <= 4
                     /\ NamesOf(t) \in Seq(Word)
                     /\ Len(NamesOf(t)) = Len(Entries(t)) /\ IsInjective(NamesOf(t)) =>
                          Entries(t) = Full /\ NamesOf(t) = Names
  <1>1. t = Intact \/ t = None \/ t \in Missing \/ t \in Torn \/ t \in Renamed
    BY <1>0 DEF Trees, Renamed
  <1>2. Len(Full) = 4 /\ Full \in Seq(Cells)
    BY DEF Full, Cells
  <1>3. ASSUME t.props = Intact.props, t.names = Names \/ t \in Renamed
        PROVE  Goal
    <2>1. Entries(t) = Full
      BY <1>3, IntactEntries
    <2>2. NamesOf(t) \in Seq(Word)
      BY <1>3, RightNames, NamesFour, NameFault
    <2> QED BY <1>2, <1>3, <2>1, <2>2, RightNames, NameFault
  <1>4. CASE t = Intact
    BY <1>3, <1>4 DEF Intact
  <1>5. CASE t = None
    BY <1>5 DEF Intact
  <1>6. ASSUME NEW p \in 1..2, DOMAIN t.props = 1..2, t.names = Names,
               \A q \in 1..2 : q # p => Part(t, q) = Pair[q],
               Part(t, p) \in Seq(Cells), Len(Part(t, p)) < 2
        PROVE  Goal
    <2>1. Len(Entries(t)) < 4 /\ Entries(t) \in Seq(Cells)
      BY <1>6, FewerEntries
    <2>2. Len(NamesOf(t)) = 4 /\ NamesOf(t) \in Seq(Word)
      BY <1>6, RightNames, NamesFour
    <2> DEFINE e == Len(Entries(t))
    <2>3. e \in Nat /\ e < 4
      BY <2>1
    <2> HIDE DEF e
    <2>5. e <= 4 /\ e # 4
      BY <2>3
    <2>4. Len(Entries(t)) <= 4 /\ Len(NamesOf(t)) # Len(Entries(t))
      BY <2>2, <2>5 DEF e
    <2> QED BY <2>1, <2>2, <2>4
  <1>7. CASE t \in Missing
    <2>1. PICK p \in 1..2 : t = [Intact EXCEPT !.props[p].there = FALSE]
      BY <1>7
    <2>2. t.props = [Intact.props EXCEPT ![p].there = FALSE] /\ t.names = Names
      BY <2>1 DEF Intact
    <2>3. /\ DOMAIN t.props = 1..2 /\ ~t.props[p].there
          /\ \A q \in 1..2 : q # p => t.props[q] = Intact.props[q]
      BY <2>2, IntactProps
    <2>4. Part(t, p) = <<>> /\ \A q \in 1..2 : q # p => Part(t, q) = Pair[q]
      BY <2>3, IntactProps DEF Part
    <2>5. <<>> \in Seq(Cells) /\ Len(<<>>) < 2
      OBVIOUS
    <2> QED BY <1>6, <2>2, <2>3, <2>4, <2>5
  <1>8. CASE t \in Torn
    <2>1. PICK p \in 1..2 : t = [Intact EXCEPT !.props[p].torn = TRUE, !.props[p].cells = Front(@)]
      BY <1>8
    <2>2. /\ t.props = [Intact.props EXCEPT ![p].torn = TRUE, ![p].cells = Front(@)]
          /\ t.names = Names
      BY <2>1 DEF Intact
    <2>3. /\ DOMAIN t.props = 1..2 /\ t.props[p].there /\ t.props[p].cells = Front(Pair[p])
          /\ \A q \in 1..2 : q # p => t.props[q] = Intact.props[q]
      BY <2>2, IntactProps
    <2>4. Part(t, p) = Front(Pair[p]) /\ \A q \in 1..2 : q # p => Part(t, q) = Pair[q]
      BY <2>3, IntactProps DEF Part
    <2>5. Front(Pair[p]) \in Seq(Cells) /\ Len(Front(Pair[p])) < 2
      <3>1. Pair[p] \in Seq(Cells) /\ Len(Pair[p]) = 2
        BY PairCells
      <3>2. \A i \in 1..1 : Pair[p][i] \in Cells
        BY <3>1
      <3>3. /\ SubSeq(Pair[p], 1, 1) \in Seq(Cells)
            /\ Len(SubSeq(Pair[p], 1, 1)) = (IF 1 <= 1 THEN 1 - 1 + 1 ELSE 0)
        BY <3>2, SubSeqProperties
      <3>4. Front(Pair[p]) = SubSeq(Pair[p], 1, 1)
        BY <3>1 DEF Front
      <3> QED BY <3>3, <3>4
    <2> QED BY <1>6, <2>2, <2>3, <2>4, <2>5
  <1> QED BY <1>1, <1>3, <1>4, <1>5, <1>7, <1>8, NameFault

------------------------------------------------------------------------------
(* The rows. *)

LEMMA WiredAre ==
  Wired("sw1") = Sw1 /\ Wired("led1") = Led1
  <1>1. ToSet(FlattenSeq(Board)) = {Sw1, Sw2, Led1, Led2}
    <2> DEFINE b == <<Sw1, Sw2, Led1, Led2>>
    <2>1. FlattenSeq(Board) = b
      BY BoardRows
    <2>2. ToSet(b) = {Sw1, Sw2, Led1, Led2}
      BY DEF ToSet
    <2> QED BY <2>1, <2>2
  <1>2. Sw1.name = "sw1" /\ Sw2.name = "sw2" /\ Led1.name = "led1" /\ Led2.name = "led2"
    BY DEF Sw1, Sw2, Led1, Led2, Entry
  <1> HIDE DEF Sw1, Sw2, Led1, Led2
  <1>3. \A e : e \in {Sw1, Sw2, Led1, Led2} /\ e.name = "sw1" <=> e = Sw1
    BY <1>2
  <1>4. \A e : e \in {Sw1, Sw2, Led1, Led2} /\ e.name = "led1" <=> e = Led1
    BY <1>2
  <1> QED BY <1>1, <1>3, <1>4 DEF Wired

\* The table of the right entries and names has each line once.
LEMMA RightRows ==
  LET rows == Labelled(Full, Names) IN
  /\ FirstNamed(rows, "sw1") = {Sw1} /\ FirstNamed(rows, "led1") = {Led1}
  /\ LastNamed(rows, "sw1") = {Sw1} /\ LastNamed(rows, "led1") = {Led1}
  <1> DEFINE rows == Labelled(Full, Names)
  <1>1. DOMAIN rows = 1..4 /\ Len(rows) = 4
    BY DEF Labelled, Full
  <1>2. rows[1] = Sw1 /\ rows[2] = Sw2 /\ rows[3] = Led1 /\ rows[4] = Led2
    <2>1. \A i \in 1..4 : rows[i] = Entry(Names[i], Full[i].pin, Full[i].low)
      BY NamesFour DEF Labelled, Full
    <2>2. Full[1] = Cell(Sw1) /\ Full[2] = Cell(Sw2) /\ Full[3] = Cell(Led1) /\ Full[4] = Cell(Led2)
      BY DEF Full
    <2>3. Names[1] = "sw1" /\ Names[2] = "sw2" /\ Names[3] = "led1" /\ Names[4] = "led2"
      BY BoardRows
    <2>4. /\ Entry("sw1", Cell(Sw1).pin, Cell(Sw1).low) = Sw1
          /\ Entry("sw2", Cell(Sw2).pin, Cell(Sw2).low) = Sw2
          /\ Entry("led1", Cell(Led1).pin, Cell(Led1).low) = Led1
          /\ Entry("led2", Cell(Led2).pin, Cell(Led2).low) = Led2
      BY DEF Cell, Entry, Sw1, Sw2, Led1, Led2
    <2> HIDE DEF rows
    <2> QED BY <2>1, <2>2, <2>3, <2>4
  <1>3. Sw1.name = "sw1" /\ Sw2.name = "sw2" /\ Led1.name = "led1" /\ Led2.name = "led2"
    BY DEF Sw1, Sw2, Led1, Led2, Entry
  <1>4. /\ rows[1].name = "sw1" /\ rows[2].name = "sw2"
        /\ rows[3].name = "led1" /\ rows[4].name = "led2"
    BY <1>2, <1>3
  <1> DEFINE first(x) == {j \in 1..4 : rows[j].name = x /\ \A k \in 1..(j - 1) : rows[k].name # x}
             last(x) == {j \in 1..4 : rows[j].name = x /\ \A k \in (j + 1)..4 : rows[k].name # x}
  <1> HIDE DEF rows
  <1>5. \A j \in 1..4 : j = 1 \/ j = 2 \/ j = 3 \/ j = 4
    OBVIOUS
  <1>6. first("sw1") = {1} /\ first("led1") = {3}
    BY <1>4, <1>5
  <1>7. last("sw1") = {1} /\ last("led1") = {3}
    BY <1>4, <1>5
  <1>8. \A x : FirstNamed(rows, x) = {rows[i] : i \in first(x)}
    BY <1>1 DEF FirstNamed
  <1>9. \A x : LastNamed(rows, x) = {rows[i] : i \in last(x)}
    BY <1>1 DEF LastNamed
  <1> HIDE DEF first, last
  <1>10. \A x : first(x) = {1} => FirstNamed(rows, x) = {rows[1]}
    BY <1>8
  <1>11. \A x : first(x) = {3} => FirstNamed(rows, x) = {rows[3]}
    BY <1>8
  <1>12. \A x : last(x) = {1} => LastNamed(rows, x) = {rows[1]}
    BY <1>9
  <1>13. \A x : last(x) = {3} => LastNamed(rows, x) = {rows[3]}
    BY <1>9
  <1>14. FirstNamed(rows, "sw1") = {Sw1} /\ FirstNamed(rows, "led1") = {Led1}
    BY <1>2, <1>6, <1>10, <1>11
  <1>15. LastNamed(rows, "sw1") = {Sw1} /\ LastNamed(rows, "led1") = {Led1}
    BY <1>2, <1>7, <1>12, <1>13
  <1> QED BY <1>14, <1>15 DEF rows

LEMMA UpToAll ==
  ASSUME NEW D, NEW s \in Seq(D), NEW n \in Nat, Len(s) <= n
  PROVE  UpTo(s, n) = s
  <1>1. (IF Len(s) < n THEN Len(s) ELSE n) = Len(s)
    OBVIOUS
  <1>2. SubSeq(s, 1, Len(s)) = s
    OBVIOUS
  <1> QED BY <1>1, <1>2 DEF UpTo

LEMMA FourLines == MaxLines \in Nat /\ MaxLines >= 4
  <1>1. Len(FlattenSeq(Board)) = 4
    <2> DEFINE b == <<Sw1, Sw2, Led1, Led2>>
    <2>1. FlattenSeq(Board) = b /\ Len(b) = 4
      BY BoardRows
    <2> QED BY <2>1
  <1> QED BY <1>1, RoomForBoard

\* The tables of the programs, when they are made without a warning.
LEMMA CTableRight ==
  ASSUME NEW t \in Trees, ~CTable(t).fails, ~CTable(t).warns,
         ~(Len(NamesOf(t)) > Len(Entries(t))), IsInjective(NamesOf(t))
  PROVE  CTable(t).rows = Labelled(Full, Names)
  <1>1. t.named
    BY DEF CTable, Table
  <1>2. Entries(t) \in Seq(Cells) /\ Len(Entries(t)) <= 4 /\ NamesOf(t) \in Seq(Word)
    BY <1>1, OneFault
  <1>3. UpTo(Entries(t), MaxLines) = Entries(t)
    BY <1>2, FourLines, UpToAll
  <1>4. UpTo(NamesOf(t), Len(Entries(t))) = NamesOf(t)
    BY <1>2, UpToAll
  <1>5. Len(NamesOf(t)) = Len(Entries(t))
    BY <1>3, <1>4 DEF CTable, Table
  <1>6. Entries(t) = Full /\ NamesOf(t) = Names
    BY <1>1, <1>5, OneFault
  <1>7. CTable(t).rows = Labelled(Entries(t), NamesOf(t))
    BY <1>3, <1>4 DEF CTable, Table
  <1> QED BY <1>6, <1>7

LEMMA ZippedRight ==
  ASSUME NEW t \in Trees, t.named, ~CountsDiffer(t), IsInjective(NamesOf(t))
  PROVE  Zipped(t) = Labelled(Full, Names)
  <1>1. Entries(t) = Full /\ NamesOf(t) = Names
    BY OneFault DEF CountsDiffer
  <1>2. UpTo(Full, Len(Names)) = Full
    <2>1. Full \in Seq(Cells) /\ Len(Full) = 4
      BY DEF Full, Cells
    <2>2. Len(Names) \in Nat /\ Len(Full) <= Len(Names)
      BY <2>1, NamesFour
    <2> QED BY <2>1, <2>2, UpToAll
  <1> QED BY <1>1, <1>2 DEF Zipped

------------------------------------------------------------------------------
(* The load. *)

\* The right lines, with what the load needs to know.
LinesInv ==
  /\ prog \in {"blink", "epoll", "py", "event", "sample", "list"}
  /\ tree \in Trees
  /\ RightLines

LEMMA InitLines == Init => LinesInv
  <1>1. Intact \in Trees
    BY DEF Trees
  <1>2. Init => tree \in Trees
    BY <1>1 DEF Init
  <1> QED BY <1>2 DEF Init, LinesInv, RightLines, Asked

\* Whichever way a program makes its table, a load without a warning finds the two rows.
LEMMA LoadLines ==
  ASSUME LinesInv, Load
  PROVE  LinesInv'
  <1> DEFINE one == [sw |-> Cell(Sw1), led |-> Cell(Led1)]
  <1>1. UNCHANGED <<prog, tree>>
    BY DEF Load, Keep
  <1>2. SUFFICES ASSUME Asked', ~warned', IsInjective(NamesOf(tree)),
                        ~(prog \in InC /\ Len(NamesOf(tree)) > Len(Entries(tree)))
                 PROVE  Rows("sw1") = {Sw1} /\ Rows("led1") = {Led1}
    <2>1. CASE Rows("sw1") = {Sw1} /\ Rows("led1") = {Led1} /\ Asked'
      <3>1. lines' = [sw |-> Ask(Sw1), led |-> Ask(Led1)]
        BY <2>1 DEF Load, Asked
      <3>2. Ask(Sw1) = Cell(Sw1) /\ Ask(Led1) = Cell(Led1)
        BY DEF Ask, Cell
      <3>3. Right'
        BY <3>1, <3>2, WiredAre DEF Right
      <3> QED BY <1>1, <3>3 DEF LinesInv, RightLines
    <2>2. ~Asked' => RightLines'
      BY DEF RightLines
    <2>3. warned' \/ ~IsInjective(NamesOf(tree)) => RightLines'
      BY <1>1 DEF RightLines
    <2>4. prog \in InC /\ Len(NamesOf(tree)) > Len(Entries(tree)) => RightLines'
      BY <1>1 DEF RightLines
    <2> QED BY <1>1, <1>2, <2>1, <2>2, <2>3, <2>4 DEF LinesInv
  <1>3. prog \in {"blink", "epoll", "py", "event", "sample", "list"} /\ tree \in Trees
    BY DEF LinesInv
  <1>4. CASE prog \in InC
    <2>1. ~CTable(tree).fails /\ ~CTable(tree).warns
      BY <1>2, <1>4 DEF Load, Asked, InC
    <2>2. CTable(tree).rows = Labelled(Full, Names)
      BY <1>2, <1>3, <1>4, <2>1, CTableRight
    <2> QED BY <1>4, <2>2, RightRows DEF Rows, InC
  <1>5. CASE prog = "py"
    <2>1. ~PyTable(tree).fails
      BY <1>2, <1>5 DEF Load, Asked, InC
    <2>2. tree.named /\ ~CountsDiffer(tree)
      BY <2>1 DEF PyTable, Table
    <2>3. PyTable(tree).rows = Labelled(Full, Names)
      BY <1>2, <1>3, <2>2, ZippedRight DEF PyTable, Table
    <2> QED BY <1>5, <2>3, RightRows DEF Rows, InC
  <1>6. CASE prog = "list"
    <2>1. ~ListTable(tree).fails /\ ~ListTable(tree).warns
      BY <1>2, <1>6 DEF Load, Asked, InC
    <2>2. tree.named /\ ~CountsDiffer(tree)
      BY <2>1 DEF ListTable, Table
    <2>3. ListTable(tree).rows = Labelled(Full, Names)
      BY <1>2, <1>3, <2>2, ZippedRight DEF ListTable, Table
    <2> QED BY <1>6, <2>3, RightRows DEF Rows, InC
  <1>7. CASE prog \in {"event", "sample"}
    BY <1>7, WiredAre DEF Rows, InC
  <1> QED BY <1>3, <1>4, <1>5, <1>6, <1>7 DEF InC

\* No other step asks for other lines.
LEMMA LaterLines ==
  ASSUME LinesInv, [Next]_vars, ~Load
  PROVE  LinesInv'
  <1>1. UNCHANGED <<prog, tree, warned>> /\ (lines' = lines \/ lines' = <<>>)
    BY DEF Next, Program, vars, prgm, Request, SetTimer, Install, Loop, Toggle, Look, Sleep, Wait,
           WaitFails, TimerEvent, LineEvent, ReadEvent, Get, Set, Finish, Expire, Flip, Interrupt, Keep
  <1> QED BY <1>1 DEF LinesInv, RightLines, Asked, Right

\* For every tree with at most one fault, and every size of the C table that has room for the
\* board: a program that asks for lines without a warning asks for the right ones, but for
\* the two faults that the comparison of the counts cannot see.
THEOREM LinesAreRight == Spec => []RightLines
  <1>1. LinesInv /\ [Next]_vars => LinesInv'
    BY LoadLines, LaterLines
  <1>2. LinesInv => RightLines
    BY DEF LinesInv
  <1> QED BY InitLines, <1>1, <1>2, PTL DEF Spec
==============================================================================
