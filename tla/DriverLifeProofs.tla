--------------------------- MODULE DriverLifeProofs ---------------------------
(***************************************************************************)
(* The four safety properties of DriverLife, for all drivers of the table. *)
(* What the proofs need of a driver is stated once, as Row, and shown for  *)
(* every driver; the invariants are about any driver with such a row.      *)
(*   LoadInv   what is got, held and planned                               *)
(*   CallInv   where the callbacks are                                     *)
(*   AddInv    who has taken the timer down                                *)
(*   HeldInv, FileInv, SoloInv   what will still be given back or stopped  *)
(*   WatchInv, SimInv, OopsInv   the order of what calls and what it uses  *)
(***************************************************************************)
EXTENDS DriverLife, SequenceTheorems, WellFoundedInduction, TLAPS

\* Everything the drivers hold, and the mark for what the driver core gives back.
Things == {"led", "sw", "disp", "seg", "mirq", "irq", "timer", "hrtimer", "work", "cdev", "attr",
           "proc", "sysctl", "page", "region", "class", "device", "table", "pdev", "driver",
           "ledpin", "swpin", "pinctrl", "devres"}

\* The steps of a load that get something, and those that make it fail.
Gets == {"must", "ignored", "enough", "bound", "setup"}
CanFail == {"must", "bound", "try"}

\* s gets the pin r, and is looked at (src/modules) or not (backup/).
IsPin(s, r) == s.do \in {"must", "ignored"} /\ s.res = r /\ s.undo = <<>>

\* Step i of d has been preceded by one that got x.
Got(d, i, x) == \E j \in 1..(i - 1) : d.load[j].do \in Gets /\ d.load[j].res = x

\* x is listed in s.
In(x, s) == \E k \in 1..Len(s) : s[k] = x

\* A list of what is given back.
Own == Things \ (Managed \cup {"devres"})
Distinct(s) == \A i, j \in 1..Len(s) : s[i] = s[j] => i = j
Listed(s) == s \in Seq(Own) /\ Distinct(s)

\* The load of d can end before step i with the driver up.
Stops(d, i) == i = Len(d.load) + 1 \/ (i \in 1..Len(d.load) /\ d.load[i].do = "enough")

\* What may be cancelled without having been got.
Timers == {"timer", "hrtimer"}

\* What d gives back on removal, wherever its load ends, a step before has got or has not
\* looked at, and it lists nothing twice.
Removes(d) ==
  /\ Len(d.load) \in Nat /\ DOMAIN d.load = 1..Len(d.load)
  /\ Listed(d.remove) /\ Listed(d.exit)
  /\ \A x : ~(In(x, d.remove) /\ In(x, d.exit))
  /\ \A x : \A i \in 1..(Len(d.load) + 1) :
       Stops(d, i) /\ (In(x, d.remove) \/ In(x, d.exit)) => Got(d, i, x) \/ x \in Timers

\* The same of what d undoes when step i fails.
Undoes(d) ==
  \A i \in 1..Len(d.load) : d.load[i].do \in CanFail =>
    /\ Listed(d.load[i].undo)
    /\ \A x : In(x, d.load[i].undo) => Got(d, i, x)
    /\ d.load[i].do = "bound" =>
         d.load[i].undo = <<>> /\ \A x : In(x, d.exit) => Got(d, i, x)

Orderly(d) == Removes(d) /\ Undoes(d)

\* What d has got, wherever its load ends, it gives back, but for B.
Complete(d, B) ==
  /\ \A x : Got(d, Len(d.load) + 1, x) =>
       In(x, d.remove) \/ In(x, d.exit) \/ x \in Managed \cup Deferred \cup (B \ {"table"})
  /\ \A x : \A i \in 1..Len(d.load) : Got(d, i, x) =>
       /\ d.load[i].do \in {"must", "try"} =>
            In(x, d.load[i].undo) \/ x \in Managed \cup Deferred \cup (B \ {"table"})
       /\ d.load[i].do = "bound" => In(x, d.exit) \/ x \in Managed \cup Deferred \cup B
  /\ \A i \in 1..Len(d.load) : d.load[i].do = "bound" => "table" \in B

\* The statements of callback r: their kinds, what they use, what they start.
Handler(d, r, S, K, U) ==
  /\ Len(d.code[r]) \in Nat \ {0}
  /\ r \in Deferred \cup {"cdev"} => r \in S
  /\ \A n \in 1..Len(d.code[r]) :
       /\ d.code[r][n].do \in K \ {"deref"}
       /\ d.code[r][n].do = "use" => <<r, d.code[r][n].res>> \in U
       /\ d.code[r][n].do \in {"add", "start", "again"} => d.code[r][n].res \in S \cap Deferred
       /\ d.code[r][n].do = "check" => n < Len(d.code[r])

\* What the callbacks of d do: S is started, K are the kinds of steps, U who uses what.
Callable(d, S, K, U) ==
  /\ \A i \in 1..Len(d.load) : d.load[i].do = "arm" => d.load[i].res \in S \cap Deferred
  /\ \A i \in 1..Len(d.load) : d.load[i].do = "deref" => "deref" \in K
  /\ \A r \in DOMAIN d.code : Handler(d, r, S, K, U)

\* s lists X, and nothing twice.
Lists(s, X) == Listed(s) /\ \A x : In(x, s) <=> x \in X

\* What a step of d does not look at it does not undo, and gives back on removal only if N
\* names it.
Skips == {"ignored", "find"}
Skipped(d, x) == \E i \in 1..Len(d.load) : d.load[i].do \in Skips /\ d.load[i].res = x
Unsure(d, N) ==
  \A x : Skipped(d, x) =>
    /\ In(x, d.remove) \/ In(x, d.exit) => x \in N
    /\ \A i \in 1..Len(d.load) : d.load[i].do \in CanFail => ~In(x, d.load[i].undo)

\* All that the invariants need to know of a driver.
Row(d, B, S, K, U, N) ==
  Orderly(d) /\ Complete(d, B) /\ Callable(d, S, K, U) /\ Unsure(d, N)

\* Lists of up to six resources, the sizes that occur.
LEMMA List0 == Lists(<<>>, {})
  BY DEF Lists, Listed, Distinct, In

LEMMA List1 ==
  ASSUME NEW a \in Own
  PROVE  Lists(<<a>>, {a})
  <1> DEFINE s == <<a>>
  <1>1. s \in Seq(Own) /\ Len(s) = 1
    OBVIOUS
  <1>2. s[1] = a
    OBVIOUS
  <1> HIDE DEF s
  <1>3. \A i \in 1..1 : i = 1
    OBVIOUS
  <1>4. Listed(s)
    BY <1>1, <1>2, <1>3 DEF Listed, Distinct
  <1>5. \A x : In(x, s) <=> x \in {a}
    BY <1>1, <1>2, <1>3 DEF In
  <1> QED BY <1>4, <1>5 DEF Lists, s

LEMMA List2 ==
  ASSUME NEW a \in Own, NEW b \in Own,
         a # b
  PROVE  Lists(<<a, b>>, {a, b})
  <1> DEFINE s == <<a, b>>
  <1>1. s \in Seq(Own) /\ Len(s) = 2
    OBVIOUS
  <1>2. s[1] = a /\ s[2] = b
    OBVIOUS
  <1> HIDE DEF s
  <1>3. \A i \in 1..2 : i = 1 \/ i = 2
    OBVIOUS
  <1>4. Listed(s)
    BY <1>1, <1>2, <1>3 DEF Listed, Distinct
  <1>5. \A x : In(x, s) <=> x \in {a, b}
    BY <1>1, <1>2, <1>3 DEF In
  <1> QED BY <1>4, <1>5 DEF Lists, s

LEMMA List3 ==
  ASSUME NEW a \in Own, NEW b \in Own, NEW c \in Own,
         a # b, a # c, b # c
  PROVE  Lists(<<a, b, c>>, {a, b, c})
  <1> DEFINE s == <<a, b, c>>
  <1>1. s \in Seq(Own) /\ Len(s) = 3
    OBVIOUS
  <1>2. s[1] = a /\ s[2] = b /\ s[3] = c
    OBVIOUS
  <1> HIDE DEF s
  <1>3. \A i \in 1..3 : i = 1 \/ i = 2 \/ i = 3
    OBVIOUS
  <1>4. Listed(s)
    BY <1>1, <1>2, <1>3 DEF Listed, Distinct
  <1>5. \A x : In(x, s) <=> x \in {a, b, c}
    BY <1>1, <1>2, <1>3 DEF In
  <1> QED BY <1>4, <1>5 DEF Lists, s

LEMMA List4 ==
  ASSUME NEW a \in Own, NEW b \in Own, NEW c \in Own, NEW d \in Own,
         a # b, a # c, a # d, b # c, b # d, c # d
  PROVE  Lists(<<a, b, c, d>>, {a, b, c, d})
  <1> DEFINE s == <<a, b, c, d>>
  <1>1. s \in Seq(Own) /\ Len(s) = 4
    OBVIOUS
  <1>2. s[1] = a /\ s[2] = b /\ s[3] = c /\ s[4] = d
    OBVIOUS
  <1> HIDE DEF s
  <1>3. \A i \in 1..4 : i = 1 \/ i = 2 \/ i = 3 \/ i = 4
    OBVIOUS
  <1>4. Listed(s)
    BY <1>1, <1>2, <1>3 DEF Listed, Distinct
  <1>5. \A x : In(x, s) <=> x \in {a, b, c, d}
    BY <1>1, <1>2, <1>3 DEF In
  <1> QED BY <1>4, <1>5 DEF Lists, s

LEMMA List5 ==
  ASSUME NEW a \in Own, NEW b \in Own, NEW c \in Own, NEW d \in Own, NEW e \in Own,
         a # b, a # c, a # d, a # e, b # c, b # d, b # e, c # d, c # e, d # e
  PROVE  Lists(<<a, b, c, d, e>>, {a, b, c, d, e})
  <1> DEFINE s == <<a, b, c, d, e>>
  <1>1. s \in Seq(Own) /\ Len(s) = 5
    OBVIOUS
  <1>2. s[1] = a /\ s[2] = b /\ s[3] = c /\ s[4] = d /\ s[5] = e
    OBVIOUS
  <1> HIDE DEF s
  <1>3. \A i \in 1..5 : i = 1 \/ i = 2 \/ i = 3 \/ i = 4 \/ i = 5
    OBVIOUS
  <1>4. Listed(s)
    BY <1>1, <1>2, <1>3 DEF Listed, Distinct
  <1>5. \A x : In(x, s) <=> x \in {a, b, c, d, e}
    BY <1>1, <1>2, <1>3 DEF In
  <1> QED BY <1>4, <1>5 DEF Lists, s

LEMMA List6 ==
  ASSUME NEW a \in Own, NEW b \in Own, NEW c \in Own, NEW d \in Own, NEW e \in Own, NEW f \in Own,
         a # b, a # c, a # d, a # e, a # f, b # c, b # d, b # e, b # f, c # d, c # e, c # f,
         d # e, d # f, e # f
  PROVE  Lists(<<a, b, c, d, e, f>>, {a, b, c, d, e, f})
  <1> DEFINE s == <<a, b, c, d, e, f>>
  <1>1. s \in Seq(Own) /\ Len(s) = 6
    OBVIOUS
  <1>2. s[1] = a /\ s[2] = b /\ s[3] = c /\ s[4] = d /\ s[5] = e /\ s[6] = f
    OBVIOUS
  <1> HIDE DEF s
  <1>3. \A i \in 1..6 : i = 1 \/ i = 2 \/ i = 3 \/ i = 4 \/ i = 5 \/ i = 6
    OBVIOUS
  <1>4. Listed(s)
    BY <1>1, <1>2, <1>3 DEF Listed, Distinct
  <1>5. \A x : In(x, s) <=> x \in {a, b, c, d, e, f}
    BY <1>1, <1>2, <1>3 DEF In
  <1> QED BY <1>4, <1>5 DEF Lists, s


\* The rows of the table, one lemma for each driver: src/modules and backup/ differ in what
\* the pins are, which IsPin leaves open.
LEMMA CharDevDriverRow ==
  Row(CharDevDriver, {}, {"cdev"}, {"use"}, {<<"cdev", "page">>}, {})
  <1> DEFINE d == CharDevDriver
  <1>1. /\ d.remove = <<>> /\ d.exit = <<"device", "class", "cdev", "region", "page">>
        /\ DOMAIN d.load = 1..5 /\ Len(d.load) = 5
        /\ d.load[1] = [do |-> "must", res |-> "page", undo |-> <<>>]
        /\ d.load[2] = [do |-> "must", res |-> "region", undo |-> <<"page">>]
        /\ d.load[3] = [do |-> "must", res |-> "cdev", undo |-> <<"region", "page">>]
        /\ d.load[4] = [do |-> "must", res |-> "class", undo |-> <<"cdev", "region", "page">>]
        /\ d.load[5] = [do |-> "must", res |-> "device",
                         undo |-> <<"class", "cdev", "region", "page">>]
    BY DEF CharDevDriver, Module, Must, MustOr, Step
  <1>2. /\ DOMAIN d.code = {"cdev"}
        /\ Len(d.code["cdev"]) = 1
        /\ d.code["cdev"][1] = [do |-> "use", res |-> "page"]
    BY DEF CharDevDriver, Module, Use, Op
  <1> HIDE DEF d
  <1>3. \A i \in 1..5 : i = 1 \/ i = 2 \/ i = 3 \/ i = 4 \/ i = 5
    OBVIOUS
  <1>4. Lists(<<>>, {})
    BY List0
  <1>5. Lists(<<"device", "class", "cdev", "region", "page">>,
             {"device", "class", "cdev", "region", "page"})
    BY List5 DEF Own, Things, Managed
  <1>6. Lists(<<"page">>, {"page"})
    BY List1 DEF Own, Things, Managed
  <1>7. Lists(<<"region", "page">>, {"region", "page"})
    BY List2 DEF Own, Things, Managed
  <1>8. Lists(<<"cdev", "region", "page">>, {"cdev", "region", "page"})
    BY List3 DEF Own, Things, Managed
  <1>9. Lists(<<"class", "cdev", "region", "page">>, {"class", "cdev", "region", "page"})
    BY List4 DEF Own, Things, Managed
  <1>10. Orderly(d)
    <2>1. Removes(d)
      BY <1>1, <1>3, <1>4, <1>5, <1>6, <1>7, <1>8, <1>9
      DEF Removes, Lists, Got, Gets, Stops, Timers
    <2>2. Undoes(d)
      BY <1>1, <1>3, <1>4, <1>5, <1>6, <1>7, <1>8, <1>9
      DEF Undoes, Lists, Got, Gets, CanFail
    <2> QED BY <2>1, <2>2 DEF Orderly
  <1>11. Complete(d, {})
    BY <1>1, <1>3, <1>4, <1>5, <1>6, <1>7, <1>8, <1>9
    DEF Complete, Lists, Got, Gets, Managed, Deferred
  <1>12. Handler(d, "cdev", {"cdev"}, {"use"}, {<<"cdev", "page">>})
    BY <1>2 DEF Handler, Deferred
  <1>13. Callable(d, {"cdev"}, {"use"}, {<<"cdev", "page">>})
    BY <1>1, <1>2, <1>3, <1>12 DEF Callable, Deferred
  <1>14. Unsure(d, {})
    BY <1>1, <1>3, <1>4, <1>5, <1>6, <1>7, <1>8, <1>9 DEF Unsure, Skipped, Skips, Lists, CanFail
  <1> QED BY <1>10, <1>11, <1>13, <1>14 DEF Row, d

LEMMA MyCharDevRow ==
  Row(MyCharDev, {}, {}, {}, {}, {"region", "cdev", "class", "device"})
  <1> DEFINE d == MyCharDev
  <1>1. /\ d.remove = <<>> /\ d.exit = <<"device", "class", "cdev", "region">>
        /\ DOMAIN d.load = 1..4 /\ Len(d.load) = 4
        /\ d.load[1] = [do |-> "ignored", res |-> "region", undo |-> <<>>]
        /\ d.load[2] = [do |-> "ignored", res |-> "cdev", undo |-> <<>>]
        /\ d.load[3] = [do |-> "ignored", res |-> "class", undo |-> <<>>]
        /\ d.load[4] = [do |-> "ignored", res |-> "device", undo |-> <<>>]
    BY DEF MyCharDev, Module, Ignored, Step
  <1>2. /\ DOMAIN d.code = {}
    BY DEF MyCharDev, Module, NoCode
  <1> HIDE DEF d
  <1>3. \A i \in 1..4 : i = 1 \/ i = 2 \/ i = 3 \/ i = 4
    OBVIOUS
  <1>4. Lists(<<>>, {})
    BY List0
  <1>5. Lists(<<"device", "class", "cdev", "region">>, {"device", "class", "cdev", "region"})
    BY List4 DEF Own, Things, Managed
  <1>6. Orderly(d)
    <2>1. Removes(d)
      BY <1>1, <1>3, <1>4, <1>5
      DEF Removes, Lists, Got, Gets, Stops, Timers
    <2>2. Undoes(d)
      BY <1>1, <1>3, <1>4, <1>5
      DEF Undoes, Lists, Got, Gets, CanFail
    <2> QED BY <2>1, <2>2 DEF Orderly
  <1>7. Complete(d, {})
    BY <1>1, <1>3, <1>4, <1>5 DEF Complete, Lists, Got, Gets, Managed, Deferred
  <1>8. Callable(d, {}, {}, {})
    BY <1>1, <1>2, <1>3 DEF Callable, Deferred
  <1>9. Unsure(d, {"region", "cdev", "class", "device"})
    BY <1>1, <1>3, <1>4, <1>5 DEF Unsure, Skipped, Skips, Lists, CanFail
  <1> QED BY <1>6, <1>7, <1>8, <1>9 DEF Row, d

LEMMA ClassRow ==
  ASSUME NEW led, IsPin(led, "led")
  PROVE  Row(ClassWith(led), {}, {"cdev", "timer"},
             {"use", "add", "del", "check", "deref"}, {<<"timer", "led">>},
             {"region", "class", "device", "cdev", "attr"})
  <1> DEFINE d == ClassWith(led)
  <1>1. /\ d.remove = <<"timer", "cdev", "attr", "device", "class", "region">> /\ d.exit = <<>>
        /\ DOMAIN d.load = 1..8 /\ Len(d.load) = 8
        /\ IsPin(d.load[1], "led")
        /\ d.load[2] = [do |-> "arm", res |-> "timer", undo |-> <<>>]
        /\ d.load[3] = [do |-> "ignored", res |-> "region", undo |-> <<>>]
        /\ d.load[4] = [do |-> "ignored", res |-> "class", undo |-> <<>>]
        /\ d.load[5] = [do |-> "ignored", res |-> "device", undo |-> <<>>]
        /\ d.load[6] = [do |-> "ignored", res |-> "cdev", undo |-> <<>>]
        /\ d.load[7] = [do |-> "deref", res |-> "device", undo |-> <<>>]
        /\ d.load[8] = [do |-> "ignored", res |-> "attr", undo |-> <<>>]
    BY DEF ClassWith, Probe, Arm, Deref, Ignored, Step
  <1>2. /\ DOMAIN d.code = {"timer", "cdev", "attr"}
        /\ Len(d.code["timer"]) = 2
        /\ d.code["timer"][1] = [do |-> "use", res |-> "led"]
        /\ d.code["timer"][2] = [do |-> "add", res |-> "timer"]
        /\ Len(d.code["cdev"]) = 2
        /\ d.code["cdev"][1] = [do |-> "del", res |-> "timer"]
        /\ d.code["cdev"][2] = [do |-> "add", res |-> "timer"]
        /\ Len(d.code["attr"]) = 3
        /\ d.code["attr"][1] = [do |-> "check", res |-> "input"]
        /\ d.code["attr"][2] = [do |-> "del", res |-> "timer"]
        /\ d.code["attr"][3] = [do |-> "add", res |-> "timer"]
    BY DEF ClassWith, Probe, Use, Add, Del, Check, Op
  <1> HIDE DEF d
  <1>3. \A i \in 1..8 : i = 1 \/ i = 2 \/ i = 3 \/ i = 4 \/ i = 5 \/ i = 6 \/ i = 7 \/ i = 8
    OBVIOUS
  <1>4. Lists(<<>>, {})
    BY List0
  <1>5. Lists(<<"timer", "cdev", "attr", "device", "class", "region">>,
             {"timer", "cdev", "attr", "device", "class", "region"})
    BY List6 DEF Own, Things, Managed
  <1>6. Orderly(d)
    <2>1. Removes(d)
      BY <1>1, <1>3, <1>4, <1>5
      DEF Removes, Lists, Got, Gets, Stops, Timers, IsPin
    <2>2. Undoes(d)
      BY <1>1, <1>3, <1>4, <1>5
      DEF Undoes, Lists, Got, Gets, CanFail, IsPin
    <2> QED BY <2>1, <2>2 DEF Orderly
  <1>7. Complete(d, {})
    BY <1>1, <1>3, <1>4, <1>5 DEF Complete, Lists, Got, Gets, Managed, Deferred, IsPin
  <1>8. Handler(d, "timer", {"cdev", "timer"},
           {"use", "add", "del", "check", "deref"}, {<<"timer", "led">>})
    BY <1>2 DEF Handler, Deferred
  <1>9. Handler(d, "cdev", {"cdev", "timer"},
           {"use", "add", "del", "check", "deref"}, {<<"timer", "led">>})
    BY <1>2 DEF Handler, Deferred
  <1>10. Handler(d, "attr", {"cdev", "timer"},
           {"use", "add", "del", "check", "deref"}, {<<"timer", "led">>})
    BY <1>2 DEF Handler, Deferred
  <1>11. Callable(d, {"cdev", "timer"},
           {"use", "add", "del", "check", "deref"}, {<<"timer", "led">>})
    BY <1>1, <1>2, <1>3, <1>8, <1>9, <1>10 DEF Callable, Deferred, IsPin
  <1>12. Unsure(d, {"region", "class", "device", "cdev", "attr"})
    BY <1>1, <1>3, <1>4, <1>5 DEF Unsure, Skipped, Skips, Lists, CanFail, IsPin
  <1> QED BY <1>6, <1>7, <1>11, <1>12 DEF Row, d

LEMMA DeviceRow ==
  ASSUME NEW led, IsPin(led, "led")
  PROVE  Row(DeviceWith(led), {}, {"cdev"}, {"use"}, {<<"cdev", "led">>}, {})
  <1> DEFINE d == DeviceWith(led)
  <1>1. /\ d.remove = <<"cdev">> /\ d.exit = <<>>
        /\ DOMAIN d.load = 1..2 /\ Len(d.load) = 2
        /\ IsPin(d.load[1], "led")
        /\ d.load[2] = [do |-> "must", res |-> "cdev", undo |-> <<>>]
    BY DEF DeviceWith, Probe, Must, Step
  <1>2. /\ DOMAIN d.code = {"cdev"}
        /\ Len(d.code["cdev"]) = 1
        /\ d.code["cdev"][1] = [do |-> "use", res |-> "led"]
    BY DEF DeviceWith, Probe, Use, Op
  <1> HIDE DEF d
  <1>3. \A i \in 1..2 : i = 1 \/ i = 2
    OBVIOUS
  <1>4. Lists(<<>>, {})
    BY List0
  <1>5. Lists(<<"cdev">>, {"cdev"})
    BY List1 DEF Own, Things, Managed
  <1>6. Orderly(d)
    <2>1. Removes(d)
      BY <1>1, <1>3, <1>4, <1>5
      DEF Removes, Lists, Got, Gets, Stops, Timers, IsPin
    <2>2. Undoes(d)
      BY <1>1, <1>3, <1>4, <1>5
      DEF Undoes, Lists, Got, Gets, CanFail, IsPin
    <2> QED BY <2>1, <2>2 DEF Orderly
  <1>7. Complete(d, {})
    BY <1>1, <1>3, <1>4, <1>5 DEF Complete, Lists, Got, Gets, Managed, Deferred, IsPin
  <1>8. Handler(d, "cdev", {"cdev"}, {"use"}, {<<"cdev", "led">>})
    BY <1>2 DEF Handler, Deferred
  <1>9. Callable(d, {"cdev"}, {"use"}, {<<"cdev", "led">>})
    BY <1>1, <1>2, <1>3, <1>8 DEF Callable, Deferred, IsPin
  <1>10. Unsure(d, {})
    BY <1>1, <1>3, <1>4, <1>5 DEF Unsure, Skipped, Skips, Lists, CanFail, IsPin
  <1> QED BY <1>6, <1>7, <1>9, <1>10 DEF Row, d

LEMMA MmapRow ==
  Row(Mmap, {}, {"cdev"}, {"use", "deref"}, {<<"cdev", "page">>},
      {"page", "region", "class", "device", "cdev"})
  <1> DEFINE d == Mmap
  <1>1. /\ d.remove = <<>> /\ d.exit = <<"cdev", "device", "class", "region", "page">>
        /\ DOMAIN d.load = 1..6 /\ Len(d.load) = 6
        /\ d.load[1] = [do |-> "ignored", res |-> "page", undo |-> <<>>]
        /\ d.load[2] = [do |-> "deref", res |-> "page", undo |-> <<>>]
        /\ d.load[3] = [do |-> "ignored", res |-> "region", undo |-> <<>>]
        /\ d.load[4] = [do |-> "ignored", res |-> "class", undo |-> <<>>]
        /\ d.load[5] = [do |-> "ignored", res |-> "device", undo |-> <<>>]
        /\ d.load[6] = [do |-> "ignored", res |-> "cdev", undo |-> <<>>]
    BY DEF Mmap, Module, Deref, Ignored, Step
  <1>2. /\ DOMAIN d.code = {"cdev"}
        /\ Len(d.code["cdev"]) = 1
        /\ d.code["cdev"][1] = [do |-> "use", res |-> "page"]
    BY DEF Mmap, Module, Use, Op
  <1> HIDE DEF d
  <1>3. \A i \in 1..6 : i = 1 \/ i = 2 \/ i = 3 \/ i = 4 \/ i = 5 \/ i = 6
    OBVIOUS
  <1>4. Lists(<<>>, {})
    BY List0
  <1>5. Lists(<<"cdev", "device", "class", "region", "page">>,
             {"cdev", "device", "class", "region", "page"})
    BY List5 DEF Own, Things, Managed
  <1>6. Orderly(d)
    <2>1. Removes(d)
      BY <1>1, <1>3, <1>4, <1>5
      DEF Removes, Lists, Got, Gets, Stops, Timers
    <2>2. Undoes(d)
      BY <1>1, <1>3, <1>4, <1>5
      DEF Undoes, Lists, Got, Gets, CanFail
    <2> QED BY <2>1, <2>2 DEF Orderly
  <1>7. Complete(d, {})
    BY <1>1, <1>3, <1>4, <1>5 DEF Complete, Lists, Got, Gets, Managed, Deferred
  <1>8. Handler(d, "cdev", {"cdev"}, {"use", "deref"}, {<<"cdev", "page">>})
    BY <1>2 DEF Handler, Deferred
  <1>9. Callable(d, {"cdev"}, {"use", "deref"}, {<<"cdev", "page">>})
    BY <1>1, <1>2, <1>3, <1>8 DEF Callable, Deferred
  <1>10. Unsure(d, {"page", "region", "class", "device", "cdev"})
    BY <1>1, <1>3, <1>4, <1>5 DEF Unsure, Skipped, Skips, Lists, CanFail
  <1> QED BY <1>6, <1>7, <1>9, <1>10 DEF Row, d

LEMMA SysctlRow ==
  Row(Sysctl, {}, {}, {}, {}, {"sysctl"})
  <1> DEFINE d == Sysctl
  <1>1. /\ d.remove = <<>> /\ d.exit = <<"sysctl">>
        /\ DOMAIN d.load = 1..1 /\ Len(d.load) = 1
        /\ d.load[1] = [do |-> "ignored", res |-> "sysctl", undo |-> <<>>]
    BY DEF Sysctl, Module, Ignored, Step
  <1>2. /\ DOMAIN d.code = {}
    BY DEF Sysctl, Module, NoCode
  <1> HIDE DEF d
  <1>3. \A i \in 1..1 : i = 1
    OBVIOUS
  <1>4. Lists(<<>>, {})
    BY List0
  <1>5. Lists(<<"sysctl">>, {"sysctl"})
    BY List1 DEF Own, Things, Managed
  <1>6. Orderly(d)
    <2>1. Removes(d)
      BY <1>1, <1>3, <1>4, <1>5
      DEF Removes, Lists, Got, Gets, Stops, Timers
    <2>2. Undoes(d)
      BY <1>1, <1>3, <1>4, <1>5
      DEF Undoes, Lists, Got, Gets, CanFail
    <2> QED BY <2>1, <2>2 DEF Orderly
  <1>7. Complete(d, {})
    BY <1>1, <1>3, <1>4, <1>5 DEF Complete, Lists, Got, Gets, Managed, Deferred
  <1>8. Callable(d, {}, {}, {})
    BY <1>1, <1>2, <1>3 DEF Callable, Deferred
  <1>9. Unsure(d, {"sysctl"})
    BY <1>1, <1>3, <1>4, <1>5 DEF Unsure, Skipped, Skips, Lists, CanFail
  <1> QED BY <1>6, <1>7, <1>8, <1>9 DEF Row, d

LEMMA GpioRow ==
  Row(Gpio, {}, {}, {}, {}, {})
  <1> DEFINE d == Gpio
  <1>1. /\ d.remove = <<>> /\ d.exit = <<>>
        /\ DOMAIN d.load = 1..2 /\ Len(d.load) = 2
        /\ d.load[1] = [do |-> "must", res |-> "led", undo |-> <<>>]
        /\ d.load[2] = [do |-> "must", res |-> "sw", undo |-> <<>>]
    BY DEF Gpio, Probe, Must, Step
  <1>2. /\ DOMAIN d.code = {}
    BY DEF Gpio, Probe, NoCode
  <1> HIDE DEF d
  <1>3. \A i \in 1..2 : i = 1 \/ i = 2
    OBVIOUS
  <1>4. Lists(<<>>, {})
    BY List0
  <1>5. Orderly(d)
    <2>1. Removes(d)
      BY <1>1, <1>3, <1>4
      DEF Removes, Lists, Got, Gets, Stops, Timers
    <2>2. Undoes(d)
      BY <1>1, <1>3, <1>4
      DEF Undoes, Lists, Got, Gets, CanFail
    <2> QED BY <2>1, <2>2 DEF Orderly
  <1>6. Complete(d, {})
    BY <1>1, <1>3, <1>4 DEF Complete, Lists, Got, Gets, Managed, Deferred
  <1>7. Callable(d, {}, {}, {})
    BY <1>1, <1>2, <1>3 DEF Callable, Deferred
  <1>8. Unsure(d, {})
    BY <1>1, <1>3, <1>4 DEF Unsure, Skipped, Skips, Lists, CanFail
  <1> QED BY <1>5, <1>6, <1>7, <1>8 DEF Row, d

LEMMA OldGpioRow ==
  Row(OldGpio, {}, {}, {}, {}, {})
  <1> DEFINE d == OldGpio
  <1>1. /\ d.remove = <<>> /\ d.exit = <<>>
        /\ DOMAIN d.load = 1..2 /\ Len(d.load) = 2
        /\ d.load[1] = [do |-> "ignored", res |-> "led", undo |-> <<>>]
        /\ d.load[2] = [do |-> "ignored", res |-> "sw", undo |-> <<>>]
    BY DEF OldGpio, Probe, Ignored, Step
  <1>2. /\ DOMAIN d.code = {}
    BY DEF OldGpio, Probe, NoCode
  <1> HIDE DEF d
  <1>3. \A i \in 1..2 : i = 1 \/ i = 2
    OBVIOUS
  <1>4. Lists(<<>>, {})
    BY List0
  <1>5. Orderly(d)
    <2>1. Removes(d)
      BY <1>1, <1>3, <1>4
      DEF Removes, Lists, Got, Gets, Stops, Timers
    <2>2. Undoes(d)
      BY <1>1, <1>3, <1>4
      DEF Undoes, Lists, Got, Gets, CanFail
    <2> QED BY <2>1, <2>2 DEF Orderly
  <1>6. Complete(d, {})
    BY <1>1, <1>3, <1>4 DEF Complete, Lists, Got, Gets, Managed, Deferred
  <1>7. Callable(d, {}, {}, {})
    BY <1>1, <1>2, <1>3 DEF Callable, Deferred
  <1>8. Unsure(d, {})
    BY <1>1, <1>3, <1>4 DEF Unsure, Skipped, Skips, Lists, CanFail
  <1> QED BY <1>5, <1>6, <1>7, <1>8 DEF Row, d

LEMMA GpioListRow ==
  Row(GpioList, {}, {}, {"deref"}, {}, {})
  <1> DEFINE d == GpioList
  <1>1. /\ d.remove = <<>> /\ d.exit = <<>>
        /\ DOMAIN d.load = 1..8 /\ Len(d.load) = 8
        /\ d.load[1] = [do |-> "must", res |-> "led", undo |-> <<>>]
        /\ d.load[2] = [do |-> "must", res |-> "sw", undo |-> <<>>]
        /\ d.load[3] = [do |-> "must", res |-> "disp", undo |-> <<>>]
        /\ d.load[4] = [do |-> "must", res |-> "seg", undo |-> <<>>]
        /\ d.load[5] = [do |-> "deref", res |-> "led", undo |-> <<>>]
        /\ d.load[6] = [do |-> "deref", res |-> "sw", undo |-> <<>>]
        /\ d.load[7] = [do |-> "deref", res |-> "disp", undo |-> <<>>]
        /\ d.load[8] = [do |-> "deref", res |-> "seg", undo |-> <<>>]
    BY DEF GpioList, Probe, Deref, Must, Step
  <1>2. /\ DOMAIN d.code = {}
    BY DEF GpioList, Probe, NoCode
  <1> HIDE DEF d
  <1>3. \A i \in 1..8 : i = 1 \/ i = 2 \/ i = 3 \/ i = 4 \/ i = 5 \/ i = 6 \/ i = 7 \/ i = 8
    OBVIOUS
  <1>4. Lists(<<>>, {})
    BY List0
  <1>5. Orderly(d)
    <2>1. Removes(d)
      BY <1>1, <1>3, <1>4
      DEF Removes, Lists, Got, Gets, Stops, Timers
    <2>2. Undoes(d)
      BY <1>1, <1>3, <1>4
      DEF Undoes, Lists, Got, Gets, CanFail
    <2> QED BY <2>1, <2>2 DEF Orderly
  <1>6. Complete(d, {})
    BY <1>1, <1>3, <1>4 DEF Complete, Lists, Got, Gets, Managed, Deferred
  <1>7. Callable(d, {}, {"deref"}, {})
    BY <1>1, <1>2, <1>3 DEF Callable, Deferred
  <1>8. Unsure(d, {})
    BY <1>1, <1>3, <1>4 DEF Unsure, Skipped, Skips, Lists, CanFail
  <1> QED BY <1>5, <1>6, <1>7, <1>8 DEF Row, d

LEMMA OldGpioListRow ==
  Row(OldGpioList, {}, {}, {"deref"}, {}, {})
  <1> DEFINE d == OldGpioList
  <1>1. /\ d.remove = <<>> /\ d.exit = <<>>
        /\ DOMAIN d.load = 1..8 /\ Len(d.load) = 8
        /\ d.load[1] = [do |-> "ignored", res |-> "led", undo |-> <<>>]
        /\ d.load[2] = [do |-> "ignored", res |-> "sw", undo |-> <<>>]
        /\ d.load[3] = [do |-> "ignored", res |-> "disp", undo |-> <<>>]
        /\ d.load[4] = [do |-> "ignored", res |-> "seg", undo |-> <<>>]
        /\ d.load[5] = [do |-> "deref", res |-> "led", undo |-> <<>>]
        /\ d.load[6] = [do |-> "deref", res |-> "sw", undo |-> <<>>]
        /\ d.load[7] = [do |-> "deref", res |-> "disp", undo |-> <<>>]
        /\ d.load[8] = [do |-> "deref", res |-> "seg", undo |-> <<>>]
    BY DEF OldGpioList, Probe, Deref, Ignored, Step
  <1>2. /\ DOMAIN d.code = {}
    BY DEF OldGpioList, Probe, NoCode
  <1> HIDE DEF d
  <1>3. \A i \in 1..8 : i = 1 \/ i = 2 \/ i = 3 \/ i = 4 \/ i = 5 \/ i = 6 \/ i = 7 \/ i = 8
    OBVIOUS
  <1>4. Lists(<<>>, {})
    BY List0
  <1>5. Orderly(d)
    <2>1. Removes(d)
      BY <1>1, <1>3, <1>4
      DEF Removes, Lists, Got, Gets, Stops, Timers
    <2>2. Undoes(d)
      BY <1>1, <1>3, <1>4
      DEF Undoes, Lists, Got, Gets, CanFail
    <2> QED BY <2>1, <2>2 DEF Orderly
  <1>6. Complete(d, {})
    BY <1>1, <1>3, <1>4 DEF Complete, Lists, Got, Gets, Managed, Deferred
  <1>7. Callable(d, {}, {"deref"}, {})
    BY <1>1, <1>2, <1>3 DEF Callable, Deferred
  <1>8. Unsure(d, {})
    BY <1>1, <1>3, <1>4 DEF Unsure, Skipped, Skips, Lists, CanFail
  <1> QED BY <1>5, <1>6, <1>7, <1>8 DEF Row, d

LEMMA GpioMultiRow ==
  ASSUME NEW disp, IsPin(disp, "disp"), NEW seg, IsPin(seg, "seg")
  PROVE  Row(GpioMultiWith(disp, seg), {}, {}, {"deref"}, {}, {})
  <1> DEFINE d == GpioMultiWith(disp, seg)
  <1>1. /\ d.remove = <<>> /\ d.exit = <<>>
        /\ DOMAIN d.load = 1..6 /\ Len(d.load) = 6
        /\ IsPin(d.load[1], "disp")
        /\ IsPin(d.load[2], "seg")
        /\ d.load[3] = [do |-> "deref", res |-> "disp", undo |-> <<>>]
        /\ d.load[4] = [do |-> "try", res |-> "set_array", undo |-> <<>>]
        /\ d.load[5] = [do |-> "deref", res |-> "seg", undo |-> <<>>]
        /\ d.load[6] = [do |-> "try", res |-> "set_array", undo |-> <<>>]
    BY DEF GpioMultiWith, Probe, Deref, Try, Step
  <1>2. /\ DOMAIN d.code = {}
    BY DEF GpioMultiWith, Probe, NoCode
  <1> HIDE DEF d
  <1>3. \A i \in 1..6 : i = 1 \/ i = 2 \/ i = 3 \/ i = 4 \/ i = 5 \/ i = 6
    OBVIOUS
  <1>4. Lists(<<>>, {})
    BY List0
  <1>5. Orderly(d)
    <2>1. Removes(d)
      BY <1>1, <1>3, <1>4
      DEF Removes, Lists, Got, Gets, Stops, Timers, IsPin
    <2>2. Undoes(d)
      BY <1>1, <1>3, <1>4
      DEF Undoes, Lists, Got, Gets, CanFail, IsPin
    <2> QED BY <2>1, <2>2 DEF Orderly
  <1>6. Complete(d, {})
    BY <1>1, <1>3, <1>4 DEF Complete, Lists, Got, Gets, Managed, Deferred, IsPin
  <1>7. Callable(d, {}, {"deref"}, {})
    BY <1>1, <1>2, <1>3 DEF Callable, Deferred, IsPin
  <1>8. Unsure(d, {})
    BY <1>1, <1>3, <1>4 DEF Unsure, Skipped, Skips, Lists, CanFail, IsPin
  <1> QED BY <1>5, <1>6, <1>7, <1>8 DEF Row, d

LEMMA Gpio2PinRow ==
  Row(Gpio2Pin, {"pinctrl"}, {}, {"deref"}, {}, {"ledpin", "swpin"})
  <1> DEFINE d == Gpio2Pin
  <1>1. /\ d.remove = <<>> /\ d.exit = <<"ledpin", "swpin">>
        /\ DOMAIN d.load = 1..7 /\ Len(d.load) = 7
        /\ d.load[1] = [do |-> "ignored", res |-> "ledpin", undo |-> <<>>]
        /\ d.load[2] = [do |-> "ignored", res |-> "swpin", undo |-> <<>>]
        /\ d.load[3] = [do |-> "find", res |-> "desc", undo |-> <<>>]
        /\ d.load[4] = [do |-> "deref", res |-> "desc", undo |-> <<>>]
        /\ d.load[5] = [do |-> "find", res |-> "data", undo |-> <<>>]
        /\ d.load[6] = [do |-> "ignored", res |-> "pinctrl", undo |-> <<>>]
        /\ d.load[7] = [do |-> "deref", res |-> "data", undo |-> <<>>]
    BY DEF Gpio2Pin, Module, Ignored, Find, Deref, Step
  <1>2. /\ DOMAIN d.code = {}
    BY DEF Gpio2Pin, Module, NoCode
  <1> HIDE DEF d
  <1>3. \A i \in 1..7 : i = 1 \/ i = 2 \/ i = 3 \/ i = 4 \/ i = 5 \/ i = 6 \/ i = 7
    OBVIOUS
  <1>4. Lists(<<>>, {})
    BY List0
  <1>5. Lists(<<"ledpin", "swpin">>, {"ledpin", "swpin"})
    BY List2 DEF Own, Things, Managed
  <1>6. Orderly(d)
    <2>1. Removes(d)
      BY <1>1, <1>3, <1>4, <1>5
      DEF Removes, Lists, Got, Gets, Stops, Timers
    <2>2. Undoes(d)
      BY <1>1, <1>3, <1>4, <1>5
      DEF Undoes, Lists, Got, Gets, CanFail
    <2> QED BY <2>1, <2>2 DEF Orderly
  <1>7. Complete(d, {"pinctrl"})
    BY <1>1, <1>3, <1>4, <1>5 DEF Complete, Lists, Got, Gets, Managed, Deferred
  <1>8. Callable(d, {}, {"deref"}, {})
    BY <1>1, <1>2, <1>3 DEF Callable, Deferred
  <1>9. Unsure(d, {"ledpin", "swpin"})
    BY <1>1, <1>3, <1>4, <1>5 DEF Unsure, Skipped, Skips, Lists, CanFail
  <1> QED BY <1>6, <1>7, <1>8, <1>9 DEF Row, d

LEMMA TimerRow ==
  ASSUME NEW led, IsPin(led, "led")
  PROVE  Row(TimerWith(led), {}, {"timer"}, {"use", "add"}, {<<"timer", "led">>}, {})
  <1> DEFINE d == TimerWith(led)
  <1>1. /\ d.remove = <<"timer">> /\ d.exit = <<>>
        /\ DOMAIN d.load = 1..2 /\ Len(d.load) = 2
        /\ IsPin(d.load[1], "led")
        /\ d.load[2] = [do |-> "arm", res |-> "timer", undo |-> <<>>]
    BY DEF TimerWith, Probe, Arm, Step
  <1>2. /\ DOMAIN d.code = {"timer"}
        /\ Len(d.code["timer"]) = 2
        /\ d.code["timer"][1] = [do |-> "use", res |-> "led"]
        /\ d.code["timer"][2] = [do |-> "add", res |-> "timer"]
    BY DEF TimerWith, Probe, Use, Add, Op
  <1> HIDE DEF d
  <1>3. \A i \in 1..2 : i = 1 \/ i = 2
    OBVIOUS
  <1>4. Lists(<<>>, {})
    BY List0
  <1>5. Lists(<<"timer">>, {"timer"})
    BY List1 DEF Own, Things, Managed
  <1>6. Orderly(d)
    <2>1. Removes(d)
      BY <1>1, <1>3, <1>4, <1>5
      DEF Removes, Lists, Got, Gets, Stops, Timers, IsPin
    <2>2. Undoes(d)
      BY <1>1, <1>3, <1>4, <1>5
      DEF Undoes, Lists, Got, Gets, CanFail, IsPin
    <2> QED BY <2>1, <2>2 DEF Orderly
  <1>7. Complete(d, {})
    BY <1>1, <1>3, <1>4, <1>5 DEF Complete, Lists, Got, Gets, Managed, Deferred, IsPin
  <1>8. Handler(d, "timer", {"timer"}, {"use", "add"}, {<<"timer", "led">>})
    BY <1>2 DEF Handler, Deferred
  <1>9. Callable(d, {"timer"}, {"use", "add"}, {<<"timer", "led">>})
    BY <1>1, <1>2, <1>3, <1>8 DEF Callable, Deferred, IsPin
  <1>10. Unsure(d, {})
    BY <1>1, <1>3, <1>4, <1>5 DEF Unsure, Skipped, Skips, Lists, CanFail, IsPin
  <1> QED BY <1>6, <1>7, <1>9, <1>10 DEF Row, d

LEMMA HrTimerRow ==
  ASSUME NEW led, IsPin(led, "led")
  PROVE  Row(HrTimerWith(led), {}, {"hrtimer"}, {"use", "again"}, {<<"hrtimer", "led">>}, {})
  <1> DEFINE d == HrTimerWith(led)
  <1>1. /\ d.remove = <<"hrtimer">> /\ d.exit = <<>>
        /\ DOMAIN d.load = 1..2 /\ Len(d.load) = 2
        /\ IsPin(d.load[1], "led")
        /\ d.load[2] = [do |-> "arm", res |-> "hrtimer", undo |-> <<>>]
    BY DEF HrTimerWith, Probe, Arm, Step
  <1>2. /\ DOMAIN d.code = {"hrtimer"}
        /\ Len(d.code["hrtimer"]) = 2
        /\ d.code["hrtimer"][1] = [do |-> "use", res |-> "led"]
        /\ d.code["hrtimer"][2] = [do |-> "again", res |-> "hrtimer"]
    BY DEF HrTimerWith, Probe, Use, Again, Op
  <1> HIDE DEF d
  <1>3. \A i \in 1..2 : i = 1 \/ i = 2
    OBVIOUS
  <1>4. Lists(<<>>, {})
    BY List0
  <1>5. Lists(<<"hrtimer">>, {"hrtimer"})
    BY List1 DEF Own, Things, Managed
  <1>6. Orderly(d)
    <2>1. Removes(d)
      BY <1>1, <1>3, <1>4, <1>5
      DEF Removes, Lists, Got, Gets, Stops, Timers, IsPin
    <2>2. Undoes(d)
      BY <1>1, <1>3, <1>4, <1>5
      DEF Undoes, Lists, Got, Gets, CanFail, IsPin
    <2> QED BY <2>1, <2>2 DEF Orderly
  <1>7. Complete(d, {})
    BY <1>1, <1>3, <1>4, <1>5 DEF Complete, Lists, Got, Gets, Managed, Deferred, IsPin
  <1>8. Handler(d, "hrtimer", {"hrtimer"}, {"use", "again"}, {<<"hrtimer", "led">>})
    BY <1>2 DEF Handler, Deferred
  <1>9. Callable(d, {"hrtimer"}, {"use", "again"}, {<<"hrtimer", "led">>})
    BY <1>1, <1>2, <1>3, <1>8 DEF Callable, Deferred, IsPin
  <1>10. Unsure(d, {})
    BY <1>1, <1>3, <1>4, <1>5 DEF Unsure, Skipped, Skips, Lists, CanFail, IsPin
  <1> QED BY <1>6, <1>7, <1>9, <1>10 DEF Row, d

LEMMA WqRow ==
  Row(Wq, {}, {"work"}, {"use", "again"}, {<<"work", "swpin">>, <<"work", "ledpin">>},
      {"ledpin", "swpin"})
  <1> DEFINE d == Wq
  <1>1. /\ d.remove = <<>> /\ d.exit = <<"ledpin", "swpin", "work">>
        /\ DOMAIN d.load = 1..4 /\ Len(d.load) = 4
        /\ d.load[1] = [do |-> "ignored", res |-> "ledpin", undo |-> <<>>]
        /\ d.load[2] = [do |-> "ignored", res |-> "swpin", undo |-> <<>>]
        /\ d.load[3] = [do |-> "setup", res |-> "work", undo |-> <<>>]
        /\ d.load[4] = [do |-> "arm", res |-> "work", undo |-> <<>>]
    BY DEF Wq, Module, Arm, Ignored, Setup, Step
  <1>2. /\ DOMAIN d.code = {"work"}
        /\ Len(d.code["work"]) = 3
        /\ d.code["work"][1] = [do |-> "use", res |-> "swpin"]
        /\ d.code["work"][2] = [do |-> "use", res |-> "ledpin"]
        /\ d.code["work"][3] = [do |-> "again", res |-> "work"]
    BY DEF Wq, Module, Use, Again, Op
  <1> HIDE DEF d
  <1>3. /\ \A i \in 1..4 : i = 1 \/ i = 2 \/ i = 3 \/ i = 4
        /\ \A n \in 1..3 : n = 1 \/ n = 2 \/ n = 3
    OBVIOUS
  <1>4. Lists(<<>>, {})
    BY List0
  <1>5. Lists(<<"ledpin", "swpin", "work">>, {"ledpin", "swpin", "work"})
    BY List3 DEF Own, Things, Managed
  <1>6. Orderly(d)
    <2>1. Removes(d)
      BY <1>1, <1>3, <1>4, <1>5
      DEF Removes, Lists, Got, Gets, Stops, Timers
    <2>2. Undoes(d)
      BY <1>1, <1>3, <1>4, <1>5
      DEF Undoes, Lists, Got, Gets, CanFail
    <2> QED BY <2>1, <2>2 DEF Orderly
  <1>7. Complete(d, {})
    BY <1>1, <1>3, <1>4, <1>5 DEF Complete, Lists, Got, Gets, Managed, Deferred
  <1>8. Handler(d, "work", {"work"},
           {"use", "again"}, {<<"work", "swpin">>, <<"work", "ledpin">>})
    BY <1>2, <1>3 DEF Handler, Deferred
  <1>9. Callable(d, {"work"},
           {"use", "again"}, {<<"work", "swpin">>, <<"work", "ledpin">>})
    BY <1>1, <1>2, <1>3, <1>8 DEF Callable, Deferred
  <1>10. Unsure(d, {"ledpin", "swpin"})
    BY <1>1, <1>3, <1>4, <1>5 DEF Unsure, Skipped, Skips, Lists, CanFail
  <1> QED BY <1>6, <1>7, <1>9, <1>10 DEF Row, d

LEMMA HgpioRow ==
  ASSUME NEW led, IsPin(led, "led"), NEW sw, IsPin(sw, "sw")
  PROVE  Row(HgpioWith(led, sw), {}, {}, {"use"}, {<<"irq", "led">>}, {"irq"})
  <1> DEFINE d == HgpioWith(led, sw)
  <1>1. /\ d.remove = <<"irq">> /\ d.exit = <<>>
        /\ DOMAIN d.load = 1..3 /\ Len(d.load) = 3
        /\ IsPin(d.load[1], "led")
        /\ IsPin(d.load[2], "sw")
        /\ d.load[3] = [do |-> "ignored", res |-> "irq", undo |-> <<>>]
    BY DEF HgpioWith, Probe, Ignored, Step
  <1>2. /\ DOMAIN d.code = {"irq"}
        /\ Len(d.code["irq"]) = 1
        /\ d.code["irq"][1] = [do |-> "use", res |-> "led"]
    BY DEF HgpioWith, Probe, Use, Op, Direct
  <1> HIDE DEF d
  <1>3. \A i \in 1..3 : i = 1 \/ i = 2 \/ i = 3
    OBVIOUS
  <1>4. Lists(<<>>, {})
    BY List0
  <1>5. Lists(<<"irq">>, {"irq"})
    BY List1 DEF Own, Things, Managed
  <1>6. Orderly(d)
    <2>1. Removes(d)
      BY <1>1, <1>3, <1>4, <1>5
      DEF Removes, Lists, Got, Gets, Stops, Timers, IsPin
    <2>2. Undoes(d)
      BY <1>1, <1>3, <1>4, <1>5
      DEF Undoes, Lists, Got, Gets, CanFail, IsPin
    <2> QED BY <2>1, <2>2 DEF Orderly
  <1>7. Complete(d, {})
    BY <1>1, <1>3, <1>4, <1>5 DEF Complete, Lists, Got, Gets, Managed, Deferred, IsPin
  <1>8. Handler(d, "irq", {}, {"use"}, {<<"irq", "led">>})
    BY <1>2 DEF Handler, Deferred
  <1>9. Callable(d, {}, {"use"}, {<<"irq", "led">>})
    BY <1>1, <1>2, <1>3, <1>8 DEF Callable, Deferred, IsPin
  <1>10. Unsure(d, {"irq"})
    BY <1>1, <1>3, <1>4, <1>5 DEF Unsure, Skipped, Skips, Lists, CanFail, IsPin
  <1> QED BY <1>6, <1>7, <1>9, <1>10 DEF Row, d

LEMMA HgpioWqRow ==
  ASSUME NEW led, IsPin(led, "led"), NEW sw, IsPin(sw, "sw")
  PROVE  Row(HgpioWqWith(led, sw), {"irq"}, {"work"}, {"use", "start"}, {<<"work", "led">>}, {})
  <1> DEFINE d == HgpioWqWith(led, sw)
  <1>1. /\ d.remove = <<>> /\ d.exit = <<>>
        /\ DOMAIN d.load = 1..3 /\ Len(d.load) = 3
        /\ IsPin(d.load[1], "led")
        /\ IsPin(d.load[2], "sw")
        /\ d.load[3] = [do |-> "ignored", res |-> "irq", undo |-> <<>>]
    BY DEF HgpioWqWith, Probe, Ignored, Step
  <1>2. /\ DOMAIN d.code = {"irq", "work"}
        /\ Len(d.code["irq"]) = 1
        /\ d.code["irq"][1] = [do |-> "start", res |-> "work"]
        /\ Len(d.code["work"]) = 1
        /\ d.code["work"][1] = [do |-> "use", res |-> "led"]
    BY DEF HgpioWqWith, Probe, Use, Start, Op
  <1> HIDE DEF d
  <1>3. \A i \in 1..3 : i = 1 \/ i = 2 \/ i = 3
    OBVIOUS
  <1>4. Lists(<<>>, {})
    BY List0
  <1>5. Orderly(d)
    <2>1. Removes(d)
      BY <1>1, <1>3, <1>4
      DEF Removes, Lists, Got, Gets, Stops, Timers, IsPin
    <2>2. Undoes(d)
      BY <1>1, <1>3, <1>4
      DEF Undoes, Lists, Got, Gets, CanFail, IsPin
    <2> QED BY <2>1, <2>2 DEF Orderly
  <1>6. Complete(d, {"irq"})
    BY <1>1, <1>3, <1>4 DEF Complete, Lists, Got, Gets, Managed, Deferred, IsPin
  <1>7. Handler(d, "irq", {"work"}, {"use", "start"}, {<<"work", "led">>})
    BY <1>2 DEF Handler, Deferred
  <1>8. Handler(d, "work", {"work"}, {"use", "start"}, {<<"work", "led">>})
    BY <1>2 DEF Handler, Deferred
  <1>9. Callable(d, {"work"}, {"use", "start"}, {<<"work", "led">>})
    BY <1>1, <1>2, <1>3, <1>7, <1>8 DEF Callable, Deferred, IsPin
  <1>10. Unsure(d, {})
    BY <1>1, <1>3, <1>4 DEF Unsure, Skipped, Skips, Lists, CanFail, IsPin
  <1> QED BY <1>5, <1>6, <1>9, <1>10 DEF Row, d

LEMMA HgpioTimerRow ==
  ASSUME NEW led, IsPin(led, "led"), NEW sw, IsPin(sw, "sw")
  PROVE  Row(HgpioTimerWith(led, sw), {"irq"}, {"timer"},
             {"use", "start"}, {<<"timer", "sw">>, <<"timer", "led">>}, {})
  <1> DEFINE d == HgpioTimerWith(led, sw)
  <1>1. /\ d.remove = <<"timer">> /\ d.exit = <<>>
        /\ DOMAIN d.load = 1..4 /\ Len(d.load) = 4
        /\ IsPin(d.load[1], "led")
        /\ IsPin(d.load[2], "sw")
        /\ d.load[3] = [do |-> "setup", res |-> "timer", undo |-> <<>>]
        /\ d.load[4] = [do |-> "ignored", res |-> "irq", undo |-> <<>>]
    BY DEF HgpioTimerWith, Probe, Ignored, Setup, Step
  <1>2. /\ DOMAIN d.code = {"irq", "timer"}
        /\ Len(d.code["irq"]) = 1
        /\ d.code["irq"][1] = [do |-> "start", res |-> "timer"]
        /\ Len(d.code["timer"]) = 2
        /\ d.code["timer"][1] = [do |-> "use", res |-> "sw"]
        /\ d.code["timer"][2] = [do |-> "use", res |-> "led"]
    BY DEF HgpioTimerWith, Probe, Use, Start, Op
  <1> HIDE DEF d
  <1>3. \A i \in 1..4 : i = 1 \/ i = 2 \/ i = 3 \/ i = 4
    OBVIOUS
  <1>4. Lists(<<>>, {})
    BY List0
  <1>5. Lists(<<"timer">>, {"timer"})
    BY List1 DEF Own, Things, Managed
  <1>6. Orderly(d)
    <2>1. Removes(d)
      BY <1>1, <1>3, <1>4, <1>5
      DEF Removes, Lists, Got, Gets, Stops, Timers, IsPin
    <2>2. Undoes(d)
      BY <1>1, <1>3, <1>4, <1>5
      DEF Undoes, Lists, Got, Gets, CanFail, IsPin
    <2> QED BY <2>1, <2>2 DEF Orderly
  <1>7. Complete(d, {"irq"})
    BY <1>1, <1>3, <1>4, <1>5 DEF Complete, Lists, Got, Gets, Managed, Deferred, IsPin
  <1>8. Handler(d, "irq", {"timer"},
           {"use", "start"}, {<<"timer", "sw">>, <<"timer", "led">>})
    BY <1>2 DEF Handler, Deferred
  <1>9. Handler(d, "timer", {"timer"},
           {"use", "start"}, {<<"timer", "sw">>, <<"timer", "led">>})
    BY <1>2 DEF Handler, Deferred
  <1>10. Callable(d, {"timer"},
           {"use", "start"}, {<<"timer", "sw">>, <<"timer", "led">>})
    BY <1>1, <1>2, <1>3, <1>8, <1>9 DEF Callable, Deferred, IsPin
  <1>11. Unsure(d, {})
    BY <1>1, <1>3, <1>4, <1>5 DEF Unsure, Skipped, Skips, Lists, CanFail, IsPin
  <1> QED BY <1>6, <1>7, <1>10, <1>11 DEF Row, d

LEMMA H2gpioRow ==
  ASSUME NEW led, IsPin(led, "led"), NEW sw, IsPin(sw, "sw")
  PROVE  Row(H2gpioWith(led, sw), {}, {"hrtimer"},
             {"use", "start"}, {<<"hrtimer", "sw">>, <<"hrtimer", "led">>}, {"irq"})
  <1> DEFINE d == H2gpioWith(led, sw)
  <1>1. /\ d.remove = <<"irq">> /\ d.exit = <<>>
        /\ DOMAIN d.load = 1..4 /\ Len(d.load) = 4
        /\ IsPin(d.load[1], "led")
        /\ d.load[2] = [do |-> "setup", res |-> "hrtimer", undo |-> <<>>]
        /\ IsPin(d.load[3], "sw")
        /\ d.load[4] = [do |-> "ignored", res |-> "irq", undo |-> <<>>]
    BY DEF H2gpioWith, Probe, Ignored, Setup, Step
  <1>2. /\ DOMAIN d.code = {"irq", "hrtimer"}
        /\ Len(d.code["irq"]) = 1
        /\ d.code["irq"][1] = [do |-> "start", res |-> "hrtimer"]
        /\ Len(d.code["hrtimer"]) = 2
        /\ d.code["hrtimer"][1] = [do |-> "use", res |-> "sw"]
        /\ d.code["hrtimer"][2] = [do |-> "use", res |-> "led"]
    BY DEF H2gpioWith, Probe, Use, Start, Op
  <1> HIDE DEF d
  <1>3. \A i \in 1..4 : i = 1 \/ i = 2 \/ i = 3 \/ i = 4
    OBVIOUS
  <1>4. Lists(<<>>, {})
    BY List0
  <1>5. Lists(<<"irq">>, {"irq"})
    BY List1 DEF Own, Things, Managed
  <1>6. Orderly(d)
    <2>1. Removes(d)
      BY <1>1, <1>3, <1>4, <1>5
      DEF Removes, Lists, Got, Gets, Stops, Timers, IsPin
    <2>2. Undoes(d)
      BY <1>1, <1>3, <1>4, <1>5
      DEF Undoes, Lists, Got, Gets, CanFail, IsPin
    <2> QED BY <2>1, <2>2 DEF Orderly
  <1>7. Complete(d, {})
    BY <1>1, <1>3, <1>4, <1>5 DEF Complete, Lists, Got, Gets, Managed, Deferred, IsPin
  <1>8. Handler(d, "irq", {"hrtimer"},
           {"use", "start"}, {<<"hrtimer", "sw">>, <<"hrtimer", "led">>})
    BY <1>2 DEF Handler, Deferred
  <1>9. Handler(d, "hrtimer", {"hrtimer"},
           {"use", "start"}, {<<"hrtimer", "sw">>, <<"hrtimer", "led">>})
    BY <1>2 DEF Handler, Deferred
  <1>10. Callable(d, {"hrtimer"},
           {"use", "start"}, {<<"hrtimer", "sw">>, <<"hrtimer", "led">>})
    BY <1>1, <1>2, <1>3, <1>8, <1>9 DEF Callable, Deferred, IsPin
  <1>11. Unsure(d, {"irq"})
    BY <1>1, <1>3, <1>4, <1>5 DEF Unsure, Skipped, Skips, Lists, CanFail, IsPin
  <1> QED BY <1>6, <1>7, <1>10, <1>11 DEF Row, d

LEMMA HgpioDebounceRow ==
  Row(HgpioDebounce, {}, {}, {"use"}, {<<"irq", "sw">>, <<"irq", "led">>}, {})
  <1> DEFINE d == HgpioDebounce
  <1>1. /\ d.remove = <<"irq">> /\ d.exit = <<>>
        /\ DOMAIN d.load = 1..3 /\ Len(d.load) = 3
        /\ d.load[1] = [do |-> "must", res |-> "led", undo |-> <<>>]
        /\ d.load[2] = [do |-> "must", res |-> "sw", undo |-> <<>>]
        /\ d.load[3] = [do |-> "must", res |-> "irq", undo |-> <<>>]
    BY DEF HgpioDebounce, Probe, Must, Step
  <1>2. /\ DOMAIN d.code = {"irq"}
        /\ Len(d.code["irq"]) = 2
        /\ d.code["irq"][1] = [do |-> "use", res |-> "sw"]
        /\ d.code["irq"][2] = [do |-> "use", res |-> "led"]
    BY DEF HgpioDebounce, Probe, Use, Op
  <1> HIDE DEF d
  <1>3. \A i \in 1..3 : i = 1 \/ i = 2 \/ i = 3
    OBVIOUS
  <1>4. Lists(<<>>, {})
    BY List0
  <1>5. Lists(<<"irq">>, {"irq"})
    BY List1 DEF Own, Things, Managed
  <1>6. Orderly(d)
    <2>1. Removes(d)
      BY <1>1, <1>3, <1>4, <1>5
      DEF Removes, Lists, Got, Gets, Stops, Timers
    <2>2. Undoes(d)
      BY <1>1, <1>3, <1>4, <1>5
      DEF Undoes, Lists, Got, Gets, CanFail
    <2> QED BY <2>1, <2>2 DEF Orderly
  <1>7. Complete(d, {})
    BY <1>1, <1>3, <1>4, <1>5 DEF Complete, Lists, Got, Gets, Managed, Deferred
  <1>8. Handler(d, "irq", {}, {"use"}, {<<"irq", "sw">>, <<"irq", "led">>})
    BY <1>2 DEF Handler, Deferred
  <1>9. Callable(d, {}, {"use"}, {<<"irq", "sw">>, <<"irq", "led">>})
    BY <1>1, <1>2, <1>3, <1>8 DEF Callable, Deferred
  <1>10. Unsure(d, {})
    BY <1>1, <1>3, <1>4, <1>5 DEF Unsure, Skipped, Skips, Lists, CanFail
  <1> QED BY <1>6, <1>7, <1>9, <1>10 DEF Row, d

LEMMA HgpioProcRow ==
  Row(HgpioProc, {"irq"}, {}, {"use"}, {<<"irq", "led">>}, {"proc"})
  <1> DEFINE d == HgpioProc
  <1>1. /\ d.remove = <<"proc">> /\ d.exit = <<>>
        /\ DOMAIN d.load = 1..4 /\ Len(d.load) = 4
        /\ d.load[1] = [do |-> "ignored", res |-> "proc", undo |-> <<>>]
        /\ d.load[2] = [do |-> "ignored", res |-> "led", undo |-> <<>>]
        /\ d.load[3] = [do |-> "ignored", res |-> "sw", undo |-> <<>>]
        /\ d.load[4] = [do |-> "ignored", res |-> "irq", undo |-> <<>>]
    BY DEF HgpioProc, Probe, Ignored, Step
  <1>2. /\ DOMAIN d.code = {"irq"}
        /\ Len(d.code["irq"]) = 1
        /\ d.code["irq"][1] = [do |-> "use", res |-> "led"]
    BY DEF HgpioProc, Probe, Use, Op, Direct
  <1> HIDE DEF d
  <1>3. \A i \in 1..4 : i = 1 \/ i = 2 \/ i = 3 \/ i = 4
    OBVIOUS
  <1>4. Lists(<<>>, {})
    BY List0
  <1>5. Lists(<<"proc">>, {"proc"})
    BY List1 DEF Own, Things, Managed
  <1>6. Orderly(d)
    <2>1. Removes(d)
      BY <1>1, <1>3, <1>4, <1>5
      DEF Removes, Lists, Got, Gets, Stops, Timers
    <2>2. Undoes(d)
      BY <1>1, <1>3, <1>4, <1>5
      DEF Undoes, Lists, Got, Gets, CanFail
    <2> QED BY <2>1, <2>2 DEF Orderly
  <1>7. Complete(d, {"irq"})
    BY <1>1, <1>3, <1>4, <1>5 DEF Complete, Lists, Got, Gets, Managed, Deferred
  <1>8. Handler(d, "irq", {}, {"use"}, {<<"irq", "led">>})
    BY <1>2 DEF Handler, Deferred
  <1>9. Callable(d, {}, {"use"}, {<<"irq", "led">>})
    BY <1>1, <1>2, <1>3, <1>8 DEF Callable, Deferred
  <1>10. Unsure(d, {"proc"})
    BY <1>1, <1>3, <1>4, <1>5 DEF Unsure, Skipped, Skips, Lists, CanFail
  <1> QED BY <1>6, <1>7, <1>9, <1>10 DEF Row, d

LEMMA HgpioSysctlRow ==
  Row(HgpioSysctl, {"irq"}, {}, {"use"}, {<<"irq", "led">>, <<"sysctl", "led">>}, {"sysctl"})
  <1> DEFINE d == HgpioSysctl
  <1>1. /\ d.remove = <<"sysctl">> /\ d.exit = <<>>
        /\ DOMAIN d.load = 1..4 /\ Len(d.load) = 4
        /\ d.load[1] = [do |-> "ignored", res |-> "sysctl", undo |-> <<>>]
        /\ d.load[2] = [do |-> "ignored", res |-> "led", undo |-> <<>>]
        /\ d.load[3] = [do |-> "ignored", res |-> "sw", undo |-> <<>>]
        /\ d.load[4] = [do |-> "ignored", res |-> "irq", undo |-> <<>>]
    BY DEF HgpioSysctl, Probe, Ignored, Step
  <1>2. /\ DOMAIN d.code = {"irq", "sysctl"}
        /\ Len(d.code["irq"]) = 1
        /\ d.code["irq"][1] = [do |-> "use", res |-> "led"]
        /\ Len(d.code["sysctl"]) = 1
        /\ d.code["sysctl"][1] = [do |-> "use", res |-> "led"]
    BY DEF HgpioSysctl, Probe, Use, Op
  <1> HIDE DEF d
  <1>3. \A i \in 1..4 : i = 1 \/ i = 2 \/ i = 3 \/ i = 4
    OBVIOUS
  <1>4. Lists(<<>>, {})
    BY List0
  <1>5. Lists(<<"sysctl">>, {"sysctl"})
    BY List1 DEF Own, Things, Managed
  <1>6. Orderly(d)
    <2>1. Removes(d)
      BY <1>1, <1>3, <1>4, <1>5
      DEF Removes, Lists, Got, Gets, Stops, Timers
    <2>2. Undoes(d)
      BY <1>1, <1>3, <1>4, <1>5
      DEF Undoes, Lists, Got, Gets, CanFail
    <2> QED BY <2>1, <2>2 DEF Orderly
  <1>7. Complete(d, {"irq"})
    BY <1>1, <1>3, <1>4, <1>5 DEF Complete, Lists, Got, Gets, Managed, Deferred
  <1>8. Handler(d, "irq", {}, {"use"}, {<<"irq", "led">>, <<"sysctl", "led">>})
    BY <1>2 DEF Handler, Deferred
  <1>9. Handler(d, "sysctl", {}, {"use"}, {<<"irq", "led">>, <<"sysctl", "led">>})
    BY <1>2 DEF Handler, Deferred
  <1>10. Callable(d, {}, {"use"}, {<<"irq", "led">>, <<"sysctl", "led">>})
    BY <1>1, <1>2, <1>3, <1>8, <1>9 DEF Callable, Deferred
  <1>11. Unsure(d, {"sysctl"})
    BY <1>1, <1>3, <1>4, <1>5 DEF Unsure, Skipped, Skips, Lists, CanFail
  <1> QED BY <1>6, <1>7, <1>10, <1>11 DEF Row, d

LEMMA SimDemoRow ==
  Row(SimDemo, {}, {}, {}, {}, {})
  <1> DEFINE d == SimDemo
  <1>1. /\ d.remove = <<"table">> /\ d.exit = <<"driver", "pdev">>
        /\ DOMAIN d.load = 1..5 /\ Len(d.load) = 5
        /\ d.load[1] = [do |-> "must", res |-> "pdev", undo |-> <<>>]
        /\ d.load[2] = [do |-> "must", res |-> "driver", undo |-> <<"pdev">>]
        /\ d.load[3] = [do |-> "setup", res |-> "table", undo |-> <<>>]
        /\ d.load[4] = [do |-> "enough", res |-> "sw", undo |-> <<>>]
        /\ d.load[5] = [do |-> "enough", res |-> "led", undo |-> <<>>]
    BY DEF SimDemo, Sim, Enough, Must, MustOr, Setup, Step
  <1>2. /\ DOMAIN d.code = {}
    BY DEF SimDemo, Sim, NoCode
  <1> HIDE DEF d
  <1>3. \A i \in 1..5 : i = 1 \/ i = 2 \/ i = 3 \/ i = 4 \/ i = 5
    OBVIOUS
  <1>4. Lists(<<>>, {})
    BY List0
  <1>5. Lists(<<"table">>, {"table"})
    BY List1 DEF Own, Things, Managed
  <1>6. Lists(<<"driver", "pdev">>, {"driver", "pdev"})
    BY List2 DEF Own, Things, Managed
  <1>7. Lists(<<"pdev">>, {"pdev"})
    BY List1 DEF Own, Things, Managed
  <1>8. Orderly(d)
    <2>1. Removes(d)
      BY <1>1, <1>3, <1>4, <1>5, <1>6, <1>7
      DEF Removes, Lists, Got, Gets, Stops, Timers
    <2>2. Undoes(d)
      BY <1>1, <1>3, <1>4, <1>5, <1>6, <1>7
      DEF Undoes, Lists, Got, Gets, CanFail
    <2> QED BY <2>1, <2>2 DEF Orderly
  <1>9. Complete(d, {})
    BY <1>1, <1>3, <1>4, <1>5, <1>6, <1>7 DEF Complete, Lists, Got, Gets, Managed, Deferred
  <1>10. Callable(d, {}, {}, {})
    BY <1>1, <1>2, <1>3 DEF Callable, Deferred
  <1>11. Unsure(d, {})
    BY <1>1, <1>3, <1>4, <1>5, <1>6, <1>7 DEF Unsure, Skipped, Skips, Lists, CanFail
  <1> QED BY <1>8, <1>9, <1>10, <1>11 DEF Row, d

LEMMA SimIntRow ==
  Row(SimInt, {"table"}, {}, {"use"}, {<<"mirq", "led">>, <<"mirq", "sw">>}, {})
  <1> DEFINE d == SimInt
  <1>1. /\ d.remove = <<"table">> /\ d.exit = <<"driver", "pdev">>
        /\ DOMAIN d.load = 1..6 /\ Len(d.load) = 6
        /\ d.load[1] = [do |-> "must", res |-> "pdev", undo |-> <<>>]
        /\ d.load[2] = [do |-> "must", res |-> "driver", undo |-> <<"pdev">>]
        /\ d.load[3] = [do |-> "setup", res |-> "table", undo |-> <<>>]
        /\ d.load[4] = [do |-> "enough", res |-> "sw", undo |-> <<>>]
        /\ d.load[5] = [do |-> "enough", res |-> "led", undo |-> <<>>]
        /\ d.load[6] = [do |-> "bound", res |-> "mirq", undo |-> <<>>]
    BY DEF SimInt, Sim, Bound, Enough, Must, MustOr, Setup, Step
  <1>2. /\ DOMAIN d.code = {"mirq"}
        /\ Len(d.code["mirq"]) = 2
        /\ d.code["mirq"][1] = [do |-> "use", res |-> "led"]
        /\ d.code["mirq"][2] = [do |-> "use", res |-> "sw"]
    BY DEF SimInt, Sim, Use, Op
  <1> HIDE DEF d
  <1>3. \A i \in 1..6 : i = 1 \/ i = 2 \/ i = 3 \/ i = 4 \/ i = 5 \/ i = 6
    OBVIOUS
  <1>4. Lists(<<>>, {})
    BY List0
  <1>5. Lists(<<"table">>, {"table"})
    BY List1 DEF Own, Things, Managed
  <1>6. Lists(<<"driver", "pdev">>, {"driver", "pdev"})
    BY List2 DEF Own, Things, Managed
  <1>7. Lists(<<"pdev">>, {"pdev"})
    BY List1 DEF Own, Things, Managed
  <1>8. Orderly(d)
    <2>1. Removes(d)
      BY <1>1, <1>3, <1>4, <1>5, <1>6, <1>7
      DEF Removes, Lists, Got, Gets, Stops, Timers
    <2>2. Undoes(d)
      BY <1>1, <1>3, <1>4, <1>5, <1>6, <1>7
      DEF Undoes, Lists, Got, Gets, CanFail
    <2> QED BY <2>1, <2>2 DEF Orderly
  <1>9. Complete(d, {"table"})
    BY <1>1, <1>3, <1>4, <1>5, <1>6, <1>7 DEF Complete, Lists, Got, Gets, Managed, Deferred
  <1>10. Handler(d, "mirq", {}, {"use"}, {<<"mirq", "led">>, <<"mirq", "sw">>})
    BY <1>2 DEF Handler, Deferred
  <1>11. Callable(d, {}, {"use"}, {<<"mirq", "led">>, <<"mirq", "sw">>})
    BY <1>1, <1>2, <1>3, <1>10 DEF Callable, Deferred
  <1>12. Unsure(d, {})
    BY <1>1, <1>3, <1>4, <1>5, <1>6, <1>7 DEF Unsure, Skipped, Skips, Lists, CanFail
  <1> QED BY <1>8, <1>9, <1>11, <1>12 DEF Row, d

LEMMA SimDebounceRow ==
  Row(SimDebounce, {"table"}, {"work"},
             {"use", "start"},
            {<<"mirq", "sw">>, <<"mirq", "work">>, <<"work", "sw">>, <<"work", "led">>}, {})
  <1> DEFINE d == SimDebounce
  <1>1. /\ d.remove = <<"table">> /\ d.exit = <<"driver", "pdev">>
        /\ DOMAIN d.load = 1..7 /\ Len(d.load) = 7
        /\ d.load[1] = [do |-> "must", res |-> "pdev", undo |-> <<>>]
        /\ d.load[2] = [do |-> "must", res |-> "driver", undo |-> <<"pdev">>]
        /\ d.load[3] = [do |-> "setup", res |-> "table", undo |-> <<>>]
        /\ d.load[4] = [do |-> "enough", res |-> "sw", undo |-> <<>>]
        /\ d.load[5] = [do |-> "enough", res |-> "led", undo |-> <<>>]
        /\ d.load[6] = [do |-> "bound", res |-> "mirq", undo |-> <<>>]
        /\ d.load[7] = [do |-> "setup", res |-> "work", undo |-> <<>>]
    BY DEF SimDebounce, Sim, Bound, Enough, Must, MustOr, Setup, Step
  <1>2. /\ DOMAIN d.code = {"mirq", "work"}
        /\ Len(d.code["mirq"]) = 3
        /\ d.code["mirq"][1] = [do |-> "use", res |-> "sw"]
        /\ d.code["mirq"][2] = [do |-> "use", res |-> "work"]
        /\ d.code["mirq"][3] = [do |-> "start", res |-> "work"]
        /\ Len(d.code["work"]) = 2
        /\ d.code["work"][1] = [do |-> "use", res |-> "sw"]
        /\ d.code["work"][2] = [do |-> "use", res |-> "led"]
    BY DEF SimDebounce, Sim, Use, Start, Op
  <1> HIDE DEF d
  <1>3. /\ \A i \in 1..7 : i = 1 \/ i = 2 \/ i = 3 \/ i = 4 \/ i = 5 \/ i = 6 \/ i = 7
        /\ \A n \in 1..3 : n = 1 \/ n = 2 \/ n = 3
    OBVIOUS
  <1>4. Lists(<<>>, {})
    BY List0
  <1>5. Lists(<<"table">>, {"table"})
    BY List1 DEF Own, Things, Managed
  <1>6. Lists(<<"driver", "pdev">>, {"driver", "pdev"})
    BY List2 DEF Own, Things, Managed
  <1>7. Lists(<<"pdev">>, {"pdev"})
    BY List1 DEF Own, Things, Managed
  <1>8. Orderly(d)
    <2>1. Removes(d)
      BY <1>1, <1>3, <1>4, <1>5, <1>6, <1>7
      DEF Removes, Lists, Got, Gets, Stops, Timers
    <2>2. Undoes(d)
      BY <1>1, <1>3, <1>4, <1>5, <1>6, <1>7
      DEF Undoes, Lists, Got, Gets, CanFail
    <2> QED BY <2>1, <2>2 DEF Orderly
  <1>9. Complete(d, {"table"})
    BY <1>1, <1>3, <1>4, <1>5, <1>6, <1>7 DEF Complete, Lists, Got, Gets, Managed, Deferred
  <1>10. Handler(d, "mirq", {"work"},
           {"use", "start"},
            {<<"mirq", "sw">>, <<"mirq", "work">>, <<"work", "sw">>, <<"work", "led">>})
    BY <1>2, <1>3 DEF Handler, Deferred
  <1>11. Handler(d, "work", {"work"},
           {"use", "start"},
            {<<"mirq", "sw">>, <<"mirq", "work">>, <<"work", "sw">>, <<"work", "led">>})
    BY <1>2 DEF Handler, Deferred
  <1>12. Callable(d, {"work"},
           {"use", "start"},
            {<<"mirq", "sw">>, <<"mirq", "work">>, <<"work", "sw">>, <<"work", "led">>})
    BY <1>1, <1>2, <1>3, <1>10, <1>11 DEF Callable, Deferred
  <1>13. Unsure(d, {})
    BY <1>1, <1>3, <1>4, <1>5, <1>6, <1>7 DEF Unsure, Skipped, Skips, Lists, CanFail
  <1> QED BY <1>8, <1>9, <1>12, <1>13 DEF Row, d

------------------------------------------------------------------------------
(* The table. *)

\* What a driver does not give back (the look-up table when its probe fails), and what may
\* still come when it is gone: the timers and work that it starts, and an open file.
Keeps(v) ==
  CASE v \in {"hgpio_wq", "old_hgpio_wq", "hgpio_timer", "old_hgpio_timer", "hgpio_proc",
              "hgpio_sysctl"} -> {"irq"}
    [] v = "gpio2pin" -> {"pinctrl"}
    [] v \in {"sim_int", "sim_debounce"} -> {"table"}
    [] OTHER          -> {}

Late(v) ==
  CASE v \in {"class", "old_class"} -> {"timer", "cdev"}
    [] v \in {"timer", "old_timer", "hgpio_timer", "old_hgpio_timer"} -> {"timer"}
    [] v \in {"hrtimer", "old_hrtimer", "h2gpio", "old_h2gpio"} -> {"hrtimer"}
    [] v \in {"wq", "hgpio_wq", "old_hgpio_wq", "sim_debounce"} -> {"work"}
    [] v \in {"chardev", "device", "old_device", "mmap"} -> {"cdev"}
    [] OTHER -> {}

\* Drivers that call add_timer, drivers that follow a pointer, and what the callbacks do.
Adders  == {"class", "old_class", "timer", "old_timer"}
Follows == {"class", "old_class", "mmap", "gpio_list", "old_gpio_list", "gpio_multi",
            "old_gpio_multi", "gpio2pin"}
Kinds   == {"use", "check", "del", "start", "again"}
Does(v) == Kinds \cup (IF v \in Adders THEN {"add"} ELSE {})
                 \cup (IF v \in Follows THEN {"deref"} ELSE {})

\* Which callback uses what.
Uses(v) ==
  CASE v \in {"class", "old_class", "timer", "old_timer"} -> {<<"timer", "led">>}
    [] v \in {"device", "old_device"}                     -> {<<"cdev", "led">>}
    [] v \in {"chardev", "mmap"}                          -> {<<"cdev", "page">>}
    [] v \in {"hrtimer", "old_hrtimer"}                   -> {<<"hrtimer", "led">>}
    [] v = "wq"                       -> {<<"work", "swpin">>, <<"work", "ledpin">>}
    [] v \in {"hgpio", "old_hgpio", "hgpio_proc"}         -> {<<"irq", "led">>}
    [] v \in {"hgpio_wq", "old_hgpio_wq"}                 -> {<<"work", "led">>}
    [] v \in {"hgpio_timer", "old_hgpio_timer"} -> {<<"timer", "sw">>, <<"timer", "led">>}
    [] v \in {"h2gpio", "old_h2gpio"}       -> {<<"hrtimer", "sw">>, <<"hrtimer", "led">>}
    [] v = "hgpio_debounce"                 -> {<<"irq", "sw">>, <<"irq", "led">>}
    [] v = "hgpio_sysctl"                   -> {<<"irq", "led">>, <<"sysctl", "led">>}
    [] v = "sim_int"                        -> {<<"mirq", "led">>, <<"mirq", "sw">>}
    [] v = "sim_debounce" -> {<<"mirq", "sw">>, <<"mirq", "work">>, <<"work", "sw">>,
                              <<"work", "led">>}
    [] OTHER -> {}

\* The drivers.
LEMMA Names == DOMAIN Table =
  {"chardev", "mychardev", "class", "device", "gpio", "gpio_list", "gpio_multi", "timer", "hrtimer",
   "hgpio", "hgpio_wq", "hgpio_timer", "h2gpio", "hgpio_debounce", "sim_demo", "sim_int",
   "sim_debounce", "old_class", "old_device", "mmap", "sysctl", "old_gpio", "old_gpio_list",
   "old_gpio_multi", "gpio2pin", "old_timer", "old_hrtimer", "wq", "old_hgpio", "old_hgpio_wq",
   "old_hgpio_timer", "old_h2gpio", "hgpio_proc", "hgpio_sysctl"}
  BY DEF Table

\* A row stays true for more kinds of steps.
LEMMA MoreKinds ==
  ASSUME NEW d, NEW B, NEW S, NEW K, NEW U, NEW L,
         NEW N, K \subseteq L, Row(d, B, S, K, U, N)
  PROVE  Row(d, B, S, L, U, N)
  BY DEF Row, Callable, Handler

\* A pin is a pin whether it is looked at or not.
LEMMA Pins ==
  ASSUME NEW r
  PROVE  IsPin(Must(r), r) /\ IsPin(Ignored(r), r)
  BY DEF IsPin, Must, Ignored, Step

\* Every row is orderly and gives back what it has got, but for what it keeps.
LEMMA EveryRow ==
  ASSUME NEW v \in DOMAIN Table
  PROVE  Row(Table[v], Keeps(v), Late(v), Does(v), Uses(v), Unlooked(v))
  <1>1. CASE v = "chardev"
    BY <1>1, CharDevDriverRow, MoreKinds
    DEF Table, Keeps, Late, Does, Adders, Kinds, Follows, Uses, Unlooked
  <1>2. CASE v = "mychardev"
    BY <1>2, MyCharDevRow, MoreKinds
    DEF Table, Keeps, Late, Does, Adders, Kinds, Follows, Uses, Unlooked
  <1>3. CASE v = "class"
    BY <1>3, ClassRow, Pins, MoreKinds
    DEF Table, Keeps, Late, Does, Adders, Kinds, Follows, Uses, Unlooked, Class
  <1>4. CASE v = "device"
    BY <1>4, DeviceRow, Pins, MoreKinds
    DEF Table, Keeps, Late, Does, Adders, Kinds, Follows, Uses, Unlooked, Device
  <1>5. CASE v = "gpio"
    BY <1>5, GpioRow, MoreKinds
    DEF Table, Keeps, Late, Does, Adders, Kinds, Follows, Uses, Unlooked
  <1>6. CASE v = "gpio_list"
    BY <1>6, GpioListRow, MoreKinds
    DEF Table, Keeps, Late, Does, Adders, Kinds, Follows, Uses, Unlooked
  <1>7. CASE v = "gpio_multi"
    BY <1>7, GpioMultiRow, Pins, MoreKinds
    DEF Table, Keeps, Late, Does, Adders, Kinds, Follows, Uses, Unlooked, GpioMulti
  <1>8. CASE v = "timer"
    BY <1>8, TimerRow, Pins, MoreKinds
    DEF Table, Keeps, Late, Does, Adders, Kinds, Follows, Uses, Unlooked, TimerDriver
  <1>9. CASE v = "hrtimer"
    BY <1>9, HrTimerRow, Pins, MoreKinds
    DEF Table, Keeps, Late, Does, Adders, Kinds, Follows, Uses, Unlooked, HrTimer
  <1>10. CASE v = "hgpio"
    BY <1>10, HgpioRow, Pins, MoreKinds
    DEF Table, Keeps, Late, Does, Adders, Kinds, Follows, Uses, Unlooked, Hgpio
  <1>11. CASE v = "hgpio_wq"
    BY <1>11, HgpioWqRow, Pins, MoreKinds
    DEF Table, Keeps, Late, Does, Adders, Kinds, Follows, Uses, Unlooked, HgpioWq
  <1>12. CASE v = "hgpio_timer"
    BY <1>12, HgpioTimerRow, Pins, MoreKinds
    DEF Table, Keeps, Late, Does, Adders, Kinds, Follows, Uses, Unlooked, HgpioTimer
  <1>13. CASE v = "h2gpio"
    BY <1>13, H2gpioRow, Pins, MoreKinds
    DEF Table, Keeps, Late, Does, Adders, Kinds, Follows, Uses, Unlooked, H2gpio
  <1>14. CASE v = "hgpio_debounce"
    BY <1>14, HgpioDebounceRow, MoreKinds
    DEF Table, Keeps, Late, Does, Adders, Kinds, Follows, Uses, Unlooked
  <1>15. CASE v = "sim_demo"
    BY <1>15, SimDemoRow, MoreKinds
    DEF Table, Keeps, Late, Does, Adders, Kinds, Follows, Uses, Unlooked
  <1>16. CASE v = "sim_int"
    BY <1>16, SimIntRow, MoreKinds
    DEF Table, Keeps, Late, Does, Adders, Kinds, Follows, Uses, Unlooked
  <1>17. CASE v = "sim_debounce"
    BY <1>17, SimDebounceRow, MoreKinds
    DEF Table, Keeps, Late, Does, Adders, Kinds, Follows, Uses, Unlooked
  <1>18. CASE v = "old_class"
    BY <1>18, ClassRow, Pins, MoreKinds
    DEF Table, Keeps, Late, Does, Adders, Kinds, Follows, Uses, Unlooked, OldClass
  <1>19. CASE v = "old_device"
    BY <1>19, DeviceRow, Pins, MoreKinds
    DEF Table, Keeps, Late, Does, Adders, Kinds, Follows, Uses, Unlooked, OldDevice
  <1>20. CASE v = "mmap"
    BY <1>20, MmapRow, MoreKinds
    DEF Table, Keeps, Late, Does, Adders, Kinds, Follows, Uses, Unlooked
  <1>21. CASE v = "sysctl"
    BY <1>21, SysctlRow, MoreKinds
    DEF Table, Keeps, Late, Does, Adders, Kinds, Follows, Uses, Unlooked
  <1>22. CASE v = "old_gpio"
    BY <1>22, OldGpioRow, MoreKinds
    DEF Table, Keeps, Late, Does, Adders, Kinds, Follows, Uses, Unlooked
  <1>23. CASE v = "old_gpio_list"
    BY <1>23, OldGpioListRow, MoreKinds
    DEF Table, Keeps, Late, Does, Adders, Kinds, Follows, Uses, Unlooked
  <1>24. CASE v = "old_gpio_multi"
    BY <1>24, GpioMultiRow, Pins, MoreKinds
    DEF Table, Keeps, Late, Does, Adders, Kinds, Follows, Uses, Unlooked, OldGpioMulti
  <1>25. CASE v = "gpio2pin"
    BY <1>25, Gpio2PinRow, MoreKinds
    DEF Table, Keeps, Late, Does, Adders, Kinds, Follows, Uses, Unlooked
  <1>26. CASE v = "old_timer"
    BY <1>26, TimerRow, Pins, MoreKinds
    DEF Table, Keeps, Late, Does, Adders, Kinds, Follows, Uses, Unlooked, OldTimer
  <1>27. CASE v = "old_hrtimer"
    BY <1>27, HrTimerRow, Pins, MoreKinds
    DEF Table, Keeps, Late, Does, Adders, Kinds, Follows, Uses, Unlooked, OldHrTimer
  <1>28. CASE v = "wq"
    BY <1>28, WqRow, MoreKinds
    DEF Table, Keeps, Late, Does, Adders, Kinds, Follows, Uses, Unlooked
  <1>29. CASE v = "old_hgpio"
    BY <1>29, HgpioRow, Pins, MoreKinds
    DEF Table, Keeps, Late, Does, Adders, Kinds, Follows, Uses, Unlooked, OldHgpio
  <1>30. CASE v = "old_hgpio_wq"
    BY <1>30, HgpioWqRow, Pins, MoreKinds
    DEF Table, Keeps, Late, Does, Adders, Kinds, Follows, Uses, Unlooked, OldHgpioWq
  <1>31. CASE v = "old_hgpio_timer"
    BY <1>31, HgpioTimerRow, Pins, MoreKinds
    DEF Table, Keeps, Late, Does, Adders, Kinds, Follows, Uses, Unlooked, OldHgpioTimer
  <1>32. CASE v = "old_h2gpio"
    BY <1>32, H2gpioRow, Pins, MoreKinds
    DEF Table, Keeps, Late, Does, Adders, Kinds, Follows, Uses, Unlooked, OldH2gpio
  <1>33. CASE v = "hgpio_proc"
    BY <1>33, HgpioProcRow, MoreKinds
    DEF Table, Keeps, Late, Does, Adders, Kinds, Follows, Uses, Unlooked
  <1>34. CASE v = "hgpio_sysctl"
    BY <1>34, HgpioSysctlRow, MoreKinds
    DEF Table, Keeps, Late, Does, Adders, Kinds, Follows, Uses, Unlooked
  <1> QED
    BY Names, <1>1, <1>2, <1>3, <1>4, <1>5, <1>6, <1>7, <1>8, <1>9, <1>10, <1>11, <1>12,
       <1>13, <1>14, <1>15, <1>16, <1>17, <1>18, <1>19, <1>20, <1>21, <1>22, <1>23, <1>24,
       <1>25, <1>26, <1>27, <1>28, <1>29, <1>30, <1>31, <1>32, <1>33, <1>34

------------------------------------------------------------------------------
(* Plans. *)

\* What a plan lists.
Planned == Own \cup {"devres"}

\* What is left of a plan when its head has been given back.
LEMMA Taken ==
  ASSUME NEW s \in Seq(Planned), Distinct(s), s # <<>>
  PROVE  /\ Head(s) \in Planned /\ In(Head(s), s)
         /\ Tail(s) \in Seq(Planned) /\ Distinct(Tail(s))
         /\ \A x : In(x, Tail(s)) <=> In(x, s) /\ x # Head(s)
  <1> DEFINE t == Tail(s)
  <1>1. /\ Len(s) \in Nat \ {0} /\ Head(s) = s[1] /\ Head(s) \in Planned
        /\ t \in Seq(Planned) /\ Len(t) = Len(s) - 1 /\ \A i \in 1..Len(t) : t[i] = s[i + 1]
    OBVIOUS
  <1> HIDE DEF t
  <1>2. In(Head(s), s)
    BY <1>1 DEF In
  <1>3. Distinct(t)
    BY <1>1 DEF Distinct
  <1>4. ASSUME NEW x, In(x, t) PROVE In(x, s) /\ x # Head(s)
    BY <1>1, <1>4 DEF In, Distinct
  <1>5. ASSUME NEW x, In(x, s), x # Head(s) PROVE In(x, t)
    <2>1. PICK k \in 1..Len(s) : s[k] = x
      BY <1>5 DEF In
    <2>2. k - 1 \in 1..Len(t) /\ t[k - 1] = x
      BY <2>1, <1>1, <1>5
    <2> QED BY <2>2 DEF In
  <1> QED BY <1>1, <1>2, <1>3, <1>4, <1>5 DEF t

\* A plan made of two that share nothing.
LEMMA Joined ==
  ASSUME NEW s \in Seq(Planned), NEW t \in Seq(Planned), Distinct(s), Distinct(t),
         \A x : ~(In(x, s) /\ In(x, t))
  PROVE  /\ s \o t \in Seq(Planned) /\ Distinct(s \o t)
         /\ \A x : In(x, s \o t) <=> In(x, s) \/ In(x, t)
  <1> DEFINE u == s \o t
  <1>1. /\ u \in Seq(Planned) /\ Len(s) \in Nat /\ Len(t) \in Nat /\ Len(u) = Len(s) + Len(t)
        /\ \A i \in 1..Len(s) : i \in 1..Len(u) /\ u[i] = s[i]
        /\ \A i \in 1..Len(t) : i + Len(s) \in 1..Len(u) /\ u[i + Len(s)] = t[i]
        /\ \A i \in 1..Len(u) : i \in 1..Len(s) \/ i - Len(s) \in 1..Len(t)
    <2>1. /\ u \in Seq(Planned) /\ Len(s) \in Nat /\ Len(t) \in Nat /\ Len(u) = Len(s) + Len(t)
          /\ \A i \in 1..Len(u) : u[i] = IF i <= Len(s) THEN s[i] ELSE t[i - Len(s)]
      BY ConcatProperties, LenProperties
    <2> HIDE DEF u
    <2>2. ASSUME NEW i \in 1..Len(t)
          PROVE  i + Len(s) \in 1..Len(u) /\ u[i + Len(s)] = t[i]
      <3>1. i + Len(s) \in 1..Len(u) /\ ~(i + Len(s) <= Len(s)) /\ (i + Len(s)) - Len(s) = i
        BY <2>1
      <3> QED BY <3>1, <2>1
    <2> QED BY <2>1, <2>2
  <1> HIDE DEF u
  <1>2. ASSUME NEW x, In(x, s) PROVE In(x, u)
    <2>1. PICK k \in 1..Len(s) : s[k] = x
      BY <1>2 DEF In
    <2> QED BY <1>1, <2>1 DEF In
  <1>3. ASSUME NEW x, In(x, t) PROVE In(x, u)
    <2>1. PICK k \in 1..Len(t) : t[k] = x
      BY <1>3 DEF In
    <2> QED BY <1>1, <2>1 DEF In
  <1>4. ASSUME NEW i \in 1..Len(u)
        PROVE  \/ i \in 1..Len(s) /\ u[i] = s[i]
               \/ i - Len(s) \in 1..Len(t) /\ u[i] = t[i - Len(s)]
    <2>1. CASE i \in 1..Len(s)
      BY <2>1, <1>1
    <2>2. CASE i - Len(s) \in 1..Len(t)
      <3>1. (i - Len(s)) + Len(s) = i
        BY <1>1
      <3> QED BY <2>2, <3>1, <1>1
    <2> QED BY <2>1, <2>2, <1>1
  <1>5. ASSUME NEW x, In(x, u) PROVE In(x, s) \/ In(x, t)
    BY <1>4, <1>5 DEF In
  <1>6. Distinct(u)
    <2> SUFFICES ASSUME NEW i \in 1..Len(u), NEW j \in 1..Len(u), u[i] = u[j] PROVE i = j
      BY DEF Distinct
    <2>1. CASE i \in 1..Len(s) /\ j \in 1..Len(s)
      BY <2>1, <1>1 DEF Distinct
    <2>2. CASE i \notin 1..Len(s) /\ j \notin 1..Len(s)
      <3>1. i - Len(s) \in 1..Len(t) /\ j - Len(s) \in 1..Len(t) /\ t[i - Len(s)] = t[j - Len(s)]
        BY <2>2, <1>4
      <3>2. i - Len(s) = j - Len(s)
        BY <3>1 DEF Distinct
      <3> QED BY <3>2, <1>1
    <2>3. CASE i \in 1..Len(s) /\ j \notin 1..Len(s)
      <3>1. In(u[i], s) /\ In(u[j], t)
        BY <2>3, <1>1, <1>4 DEF In
      <3> QED BY <3>1
    <2>4. CASE i \notin 1..Len(s) /\ j \in 1..Len(s)
      <3>1. In(u[j], s) /\ In(u[i], t)
        BY <2>4, <1>1, <1>4 DEF In
      <3> QED BY <3>1
    <2> QED BY <2>1, <2>2, <2>3, <2>4
  <1> QED BY <1>1, <1>2, <1>3, <1>5, <1>6 DEF u

\* The plan that leaves all to the driver core.
LEMMA DevresAlone ==
  /\ <<"devres">> \in Seq(Planned) /\ Distinct(<<"devres">>)
  /\ \A x : In(x, <<"devres">>) <=> x = "devres"
  <1> DEFINE s == <<"devres">>
  <1>1. s \in Seq(Planned) /\ Len(s) = 1 /\ s[1] = "devres"
    BY DEF Planned
  <1> HIDE DEF s
  <1>2. \A i \in 1..1 : i = 1
    OBVIOUS
  <1>3. Distinct(s) /\ \A x : In(x, s) <=> x = "devres"
    BY <1>1, <1>2 DEF Distinct, In
  <1> QED BY <1>1, <1>3 DEF s

\* Only what is not managed is listed.
LEMMA ListedIn ==
  ASSUME NEW s, Listed(s)
  PROVE  /\ s \in Seq(Planned) /\ Distinct(s)
         /\ \A x : In(x, s) => x \in Own /\ x \notin Managed /\ x # "devres"
  BY DEF Listed, Planned, Own, In

\* What Fail plans, and what Unload plans.
LEMMA UndoPlan ==
  ASSUME NEW s, Listed(s)
  PROVE  /\ s \o <<"devres">> \in Seq(Planned) /\ Distinct(s \o <<"devres">>)
         /\ \A x : In(x, s \o <<"devres">>) <=> In(x, s) \/ x = "devres"
  <1>1. s \in Seq(Planned) /\ Distinct(s) /\ \A x : ~(In(x, s) /\ In(x, <<"devres">>))
    BY ListedIn, DevresAlone
  <1> QED BY <1>1, DevresAlone, Joined, Zenon

LEMMA UnloadPlan ==
  ASSUME NEW r, NEW e, Listed(r), Listed(e), \A x : ~(In(x, r) /\ In(x, e)), NEW b \in BOOLEAN
  PROVE  LET p == (IF b THEN r \o <<"devres">> ELSE <<>>) \o e IN
         /\ p \in Seq(Planned) /\ Distinct(p)
         /\ \A x : In(x, p) <=> (b /\ (In(x, r) \/ x = "devres")) \/ In(x, e)
  <1> DEFINE p == (IF b THEN r \o <<"devres">> ELSE <<>>) \o e
  <1>1. CASE b
    <2>1. p = (r \o <<"devres">>) \o e
      BY <1>1
    <2>2. \A x : ~(In(x, r \o <<"devres">>) /\ In(x, e))
      BY UndoPlan, ListedIn
    <2>3. /\ r \o <<"devres">> \in Seq(Planned) /\ Distinct(r \o <<"devres">>)
          /\ e \in Seq(Planned) /\ Distinct(e)
          /\ \A x : In(x, r \o <<"devres">>) <=> In(x, r) \/ x = "devres"
      BY UndoPlan, ListedIn
    <2> DEFINE q == r \o <<"devres">>
    <2>4. p = q \o e
      BY <2>1
    <2> HIDE DEF q
    <2>5. /\ q \in Seq(Planned) /\ Distinct(q) /\ e \in Seq(Planned) /\ Distinct(e)
          /\ \A x : ~(In(x, q) /\ In(x, e))
      BY <2>2, <2>3 DEF q
    <2>6. /\ q \o e \in Seq(Planned) /\ Distinct(q \o e)
          /\ \A x : In(x, q \o e) <=> In(x, q) \/ In(x, e)
      BY <2>5, Joined, Zenon
    <2>7. /\ p \in Seq(Planned) /\ Distinct(p)
          /\ \A x : In(x, p) <=> In(x, q) \/ In(x, e)
      BY <2>4, <2>6, Zenon
    <2> QED BY <1>1, <2>3, <2>7 DEF q
  <1>2. CASE ~b
    <2>1. p = <<>> \o e /\ <<>> \in Seq(Planned)
      BY <1>2
    <2>2. Distinct(<<>>) /\ \A x : ~In(x, <<>>)
      BY List0 DEF Lists, Listed
    <2> QED BY <1>2, <2>1, <2>2, ListedIn, Joined
  <1> QED BY <1>1, <1>2

------------------------------------------------------------------------------
(* What is given back. *)

\* Every non-empty set of natural numbers has a least element.
LEMMA Least ==
  ASSUME NEW T \in SUBSET Nat, T # {}
  PROVE  \E x \in T : \A y \in T : x <= y
  <1> DEFINE R == OpToRel(<, Nat)
  <1>1. PICK x \in T : \A y \in T : <<y, x>> \notin R
    BY WFMin, NatLessThanWellFounded
  <1>2. \A y \in T : ~(y < x)
    BY <1>1 DEF OpToRel
  <1> QED BY <1>2

\* What may be given back: what is held, what was not looked at, what is only cancelled.
Known == held \cup lost \cup Timers

\* Loading and unloading.  What is held has been got by the steps up to at; what those steps
\* should have got is held or was overlooked; a plan lists no resource twice and only what may
\* be given back; when the driver is up this is true of all that it gives back on unloading.
\* What was overlooked is planned only if Unlooked names it.
LoadInv ==
  /\ drv \in DOMAIN Table
  /\ phase \in {"load", "fail", "up", "unload", "off", "oops"}
  /\ at \in 1..(Len(D.load) + 1)
  /\ bound \in BOOLEAN
  /\ phase = "fail" => at <= Len(D.load)
  /\ \A x \in held : Got(D, at, x)
  /\ plan \in Seq(Planned) /\ Distinct(plan)
  /\ phase \in {"load", "up", "oops", "off"} => plan = <<>>
  /\ \A x : In(x, plan) => x = "devres" \/ x \in Known
  /\ phase = "load" => bound /\ \A x : Got(D, at, x) => x \in held \cup lost
  /\ phase = "up" =>
       \A x : (bound /\ In(x, D.remove)) \/ In(x, D.exit) => x \in Known
  /\ phase = "fail" /\ ~bound => \A x : In(x, D.exit) => x \in Known /\ ~In(x, plan)
  /\ \A x \in lost : Skipped(D, x)
  /\ \A x \in lost : In(x, plan) => x = "devres" \/ x \in Unlooked(drv)
  /\ freed \subseteq lost \cap Unlooked(drv)

\* The facts of the row, about the driver that is loaded.
LEMMA Row1 ==
  ASSUME drv \in DOMAIN Table
  PROVE  /\ Orderly(D) /\ Complete(D, Keeps(drv)) /\ Callable(D, Late(drv), Does(drv), Uses(drv))
         /\ Unsure(D, Unlooked(drv))
  BY EveryRow DEF Row, D

\* The driver core finds what was got last.
LEMMA LatestIs ==
  ASSUME drv \in DOMAIN Table, at \in 1..(Len(D.load) + 1), \A x \in held : Got(D, at, x),
         Devres # {}
  PROVE  Latest \in Devres /\ \A q \in Devres : Position(q) <= Position(Latest)
  <1>1. Len(D.load) \in Nat /\ DOMAIN D.load = 1..Len(D.load)
    BY Row1 DEF Orderly, Removes, Undoes
  <1>2. ASSUME NEW q \in Devres
        PROVE  Position(q) \in 1..Len(D.load)
    <2>1. Got(D, at, q)
      BY DEF Devres
    <2>2. PICK j \in 1..(at - 1) : D.load[j].do \in Gets /\ D.load[j].res = q
      BY <2>1 DEF Got
    <2>3. j \in DOMAIN D.load /\ D.load[j].do # "deref"
      BY <2>2, <1>1 DEF Gets
    <2> QED BY <1>1, <2>2, <2>3 DEF Position
  <1> DEFINE T == {Len(D.load) - Position(q) : q \in Devres}
  <1>3. PICK m \in T : \A n \in T : m <= n
    <2>1. T \in SUBSET Nat /\ T # {}
      BY <1>1, <1>2
    <2> HIDE DEF T
    <2> QED BY <2>1, Least
  <1>4. PICK r \in Devres : m = Len(D.load) - Position(r)
    BY <1>3
  <1>5. \A q \in Devres : Position(q) <= Position(r)
    <2> TAKE q \in Devres
    <2>1. Len(D.load) - Position(q) \in T
      OBVIOUS
    <2>2. m <= Len(D.load) - Position(q)
      BY <2>1, <1>3
    <2>3. Position(q) \in Nat /\ Position(r) \in Nat
      BY <1>1, <1>2
    <2> QED BY <2>2, <2>3, <1>1, <1>4
  <1> QED BY <1>5 DEF Latest

\* What one more step has got.
LEMMA GotNext ==
  ASSUME NEW d, NEW i \in Nat \ {0}
  PROVE  \A x : Got(d, i + 1, x) <=> Got(d, i, x) \/ (d.load[i].do \in Gets /\ d.load[i].res = x)
  BY DEF Got

\* Before the first step nothing has been got.
LEMMA GotNothing ==
  ASSUME NEW d, NEW x
  PROVE  ~Got(d, 1, x)
  BY DEF Got

\* LoadInv holds when the load begins.
LEMMA LoadInit == Init => LoadInv
  <1> SUFFICES ASSUME Init PROVE LoadInv
    OBVIOUS
  <1>1. plan = <<>> /\ drv \in DOMAIN Table /\ at = 1 /\ held = {} /\ phase = "load"
        /\ bound = TRUE /\ freed = {} /\ lost = {}
    BY DEF Init
  <1>2. Len(D.load) \in Nat
    BY <1>1, Row1 DEF Orderly, Removes, Undoes
  <1>3. <<>> \in Seq(Planned) /\ Distinct(<<>>) /\ \A x : ~In(x, <<>>)
    BY List0 DEF Lists, Listed
  <1> QED BY <1>1, <1>2, <1>3, GotNothing DEF LoadInv

\* Every step keeps LoadInv.
LEMMA LoadStep == LoadInv /\ [Next]_vars => LoadInv'
  <1> SUFFICES ASSUME LoadInv, [Next]_vars PROVE LoadInv'
    OBVIOUS
  <1>0. /\ Orderly(D) /\ Len(D.load) \in Nat /\ at \in Nat \ {0}
        /\ \A x : ~In(x, <<>>)
    BY Row1, List0 DEF LoadInv, Orderly, Removes, Undoes, Lists
  <1>u. Unsure(D, Unlooked(drv)) /\ \A x \in lost : Skipped(D, x)
    BY Row1 DEF LoadInv
  <1>d. drv' = drv => D' = D
    BY DEF D
  <1>f. ASSUME drv' = drv, UNCHANGED loader PROVE LoadInv'
    BY <1>d, <1>f DEF LoadInv, Known, loader
  <1>l. ASSUME NEW kinds, Loading(kinds)
        PROVE  phase = "load" /\ at \in 1..Len(D.load) /\ D.load[at].do \in kinds
    BY <1>l, <1>0 DEF Loading, LoadInv
  <1>1. CASE Acquire
    <2>1. /\ phase = "load" /\ at \in 1..Len(D.load) /\ at' = at + 1
          /\ D.load[at].do \in {"must", "ignored", "enough", "bound", "setup", "try", "find"}
          /\ held' = IF D.load[at].do \in {"try", "find"} THEN held
                     ELSE held \cup {D.load[at].res}
          /\ UNCHANGED <<drv, plan, bound, freed, phase, lost>>
      BY <1>1, <1>l DEF Acquire, Goes, Loading
    <2>2. D' = D /\ at' \in 1..(Len(D.load) + 1)
      BY <2>1, <1>d, <1>0
    <2>3. \A x : Got(D, at', x) <=>
                 Got(D, at, x) \/ (D.load[at].do \notin {"try", "find"} /\ D.load[at].res = x)
      BY <2>1, <1>0, GotNext DEF Gets
    <2> QED BY <2>1, <2>2, <2>3 DEF LoadInv, Known
  <1>2. CASE ArmIt
    <2>1. /\ phase = "load" /\ at \in 1..Len(D.load) /\ at' = at + 1 /\ D.load[at].do = "arm"
          /\ UNCHANGED <<drv, plan, bound, freed, phase, lost, held>>
      BY <1>2, <1>l DEF ArmIt, Goes
    <2>2. D' = D /\ at' \in 1..(Len(D.load) + 1) /\ \A x : Got(D, at', x) <=> Got(D, at, x)
      BY <2>1, <1>d, <1>0, GotNext DEF Gets
    <2> QED BY <2>1, <2>2 DEF LoadInv, Known
  <1>3. CASE Follow
    <2>1. /\ phase = "load" /\ at \in 1..Len(D.load) /\ at' = at + 1 /\ D.load[at].do = "deref"
          /\ phase' \in {"load", "oops"}
          /\ UNCHANGED <<drv, plan, bound, freed, lost, held>>
      BY <1>3, <1>l DEF Follow, Goes
    <2>2. D' = D /\ at' \in 1..(Len(D.load) + 1) /\ \A x : Got(D, at', x) <=> Got(D, at, x)
      BY <2>1, <1>d, <1>0, GotNext DEF Gets
    <2> QED BY <2>1, <2>2 DEF LoadInv, Known
  <1>4. CASE Overlook
    <2>1. /\ phase = "load" /\ at \in 1..Len(D.load) /\ at' = at + 1
          /\ D.load[at].do \in Skips /\ lost' = lost \cup {D.load[at].res}
          /\ UNCHANGED <<drv, plan, bound, freed, phase, held>>
      BY <1>4, <1>l DEF Overlook, Goes, Skips
    <2>2. D' = D /\ at' \in 1..(Len(D.load) + 1) /\ plan' = <<>>
      BY <2>1, <1>d, <1>0 DEF LoadInv
    <2>3. \A x : Got(D, at', x) => Got(D, at, x) \/ D.load[at].res = x
      BY <2>1, <1>0, GotNext DEF Gets
    <2>4. \A x : Got(D, at, x) => Got(D, at', x)
      BY <2>1, <1>0, GotNext
    <2>5. \A x \in lost' : Skipped(D, x)
      BY <2>1, <1>u DEF Skipped
    <2> QED BY <2>1, <2>2, <2>3, <2>4, <2>5, <1>0 DEF LoadInv, Known
  <1>5. CASE Fail
    <2> DEFINE u == D.load[at].undo
    <2>1. /\ phase = "load" /\ at \in 1..Len(D.load) /\ D.load[at].do \in CanFail
          /\ plan' = u \o <<"devres">> /\ bound' = (D.load[at].do # "bound") /\ phase' = "fail"
          /\ UNCHANGED <<drv, at, freed, lost, held>>
      BY <1>5, <1>l DEF Fail, CanFail
    <2>2. /\ Listed(u) /\ \A x : In(x, u) => Got(D, at, x)
          /\ ~bound' => u = <<>> /\ \A x : In(x, D.exit) => Got(D, at, x)
          /\ Listed(D.exit)
      BY <2>1, <1>0 DEF Orderly, Removes, Undoes
    <2> HIDE DEF u
    <2>3. /\ plan' \in Seq(Planned) /\ Distinct(plan')
          /\ \A x : In(x, plan') <=> In(x, u) \/ x = "devres"
      BY <2>1, <2>2, UndoPlan
    <2>4. \A x : In(x, D.exit) => x # "devres"
      BY <2>2, ListedIn
    <2>5. ~bound' => \A x : In(x, D.exit) => ~In(x, plan')
      BY <1>0, <2>2, <2>3, <2>4
    <2>6. \A x \in lost : ~In(x, plan') \/ x = "devres"
      BY <2>1, <2>3, <1>u DEF Unsure, u
    <2>7. \A x : In(x, plan') => x = "devres" \/ x \in held \cup lost
      BY <2>1, <2>2, <2>3 DEF LoadInv
    <2> QED BY <2>1, <2>2, <2>3, <2>5, <2>6, <2>7, <1>d DEF LoadInv, Known
  <1>6. CASE Loaded
    <2>1. /\ phase = "load" /\ phase' = "up" /\ (at = Len(D.load) + 1 \/ Loading({"enough"}))
          /\ UNCHANGED <<drv, at, held, lost, plan, bound, freed>>
      BY <1>6, <1>0 DEF Loaded, LoadInv
    <2>2. Stops(D, at)
      BY <2>1, <1>l DEF Stops
    <2>3. \A x : In(x, D.remove) \/ In(x, D.exit) => x \in Known
      BY <2>1, <2>2, <1>0 DEF LoadInv, Orderly, Removes, Undoes, Known
    <2> QED BY <2>1, <2>3, <1>d DEF LoadInv, Known
  <1>7. CASE Unload
    <2>1. /\ phase = "up" /\ phase' = "unload"
          /\ plan' = (IF bound THEN D.remove \o <<"devres">> ELSE <<>>) \o D.exit
          /\ UNCHANGED <<drv, at, held, lost, bound, freed>>
      BY <1>7 DEF Unload
    <2>2. /\ Listed(D.remove) /\ Listed(D.exit) /\ bound \in BOOLEAN
          /\ \A x : ~(In(x, D.remove) /\ In(x, D.exit))
      BY <1>0 DEF Orderly, Removes, Undoes, LoadInv
    <2>3. /\ plan' \in Seq(Planned) /\ Distinct(plan')
          /\ \A x : In(x, plan') <=> (bound /\ (In(x, D.remove) \/ x = "devres")) \/ In(x, D.exit)
      <3> DEFINE p == (IF bound THEN D.remove \o <<"devres">> ELSE <<>>) \o D.exit
      <3>1. /\ p \in Seq(Planned) /\ Distinct(p)
            /\ \A x : In(x, p) <=> (bound /\ (In(x, D.remove) \/ x = "devres")) \/ In(x, D.exit)
        BY <2>2, UnloadPlan, Zenon
      <3>2. plan' = p
        BY <2>1
      <3> QED BY <3>1, <3>2, Zenon
    <2>4. \A x \in lost : In(x, plan') => x = "devres" \/ x \in Unlooked(drv)
      BY <2>3, <1>u DEF Unsure
    <2> QED BY <2>1, <2>3, <2>4, <1>d DEF LoadInv, Known
  <1>8. CASE Release
    <2>1. plan # <<>> /\ plan \in Seq(Planned) /\ Distinct(plan) /\ phase \in {"fail", "unload"}
      BY <1>8 DEF Release, LoadInv
    <2>2. /\ In(Head(plan), plan) /\ Tail(plan) \in Seq(Planned) /\ Distinct(Tail(plan))
          /\ \A x : In(x, Tail(plan)) <=> In(x, plan) /\ x # Head(plan)
      BY <2>1, Taken
    <2>3. UNCHANGED <<drv, phase, at, lost, bound>> /\ D' = D
      BY <1>8, <1>d DEF Release
    <2>4. \A x : In(x, D.exit) => x \notin Managed
      BY <1>0, ListedIn DEF Orderly, Removes, Undoes
    <2>5. CASE Head(plan) # "devres"
      <3>1. /\ plan' = Tail(plan) /\ held' = held \ {Head(plan)}
            /\ freed' = IF Head(plan) \in held \cup Timers THEN freed
                        ELSE freed \cup {Head(plan)}
        BY <1>8, <2>5 DEF Release, GiveBack, Holds, Timers
      <3>2. Head(plan) \in held \cup Timers \/ Head(plan) \in lost \cap Unlooked(drv)
        BY <2>2, <2>5 DEF LoadInv, Known
      <3>3. freed' \subseteq lost \cap Unlooked(drv)
        BY <3>1, <3>2 DEF LoadInv
      <3> QED BY <2>1, <2>2, <2>3, <3>1, <3>3 DEF LoadInv, Known
    <2>6. CASE Head(plan) = "devres" /\ Devres # {}
      <3>1. Latest \in Devres
        BY <2>6, LatestIs DEF LoadInv
      <3>2. Latest \in held /\ Latest \in Managed
        BY <3>1 DEF Devres
      <3>3. plan' = plan /\ held' = held \ {Latest} /\ freed' = freed
        BY <1>8, <2>6, <3>2 DEF Release, GiveBack, LoadInv, Holds
      <3>4. ASSUME NEW x, In(x, plan), x # "devres"
            PROVE  x \notin Managed
        BY <3>4, <2>1 DEF In, Planned, Own
      <3> QED BY <2>1, <2>3, <2>4, <3>2, <3>3, <3>4 DEF LoadInv, Known
    <2>7. CASE Head(plan) = "devres" /\ Devres = {}
      <3>1. plan' = Tail(plan) /\ held' = held /\ freed' = freed
        BY <1>8, <2>7 DEF Release
      <3> QED BY <2>1, <2>2, <2>3, <3>1 DEF LoadInv, Known
    <2> QED BY <2>5, <2>6, <2>7
  <1>9. CASE Released
    <2>1. /\ phase \in {"fail", "unload"} /\ plan = <<>>
          /\ phase' = IF phase = "fail" /\ ~bound THEN "up" ELSE "off"
          /\ UNCHANGED <<drv, at, held, lost, plan, bound, freed>>
      BY <1>9 DEF Released
    <2> QED BY <2>1, <1>d DEF LoadInv, Known
  <1>10. CASE \E r \in Callbacks : Call(r)
    BY <1>10, <1>f DEF Call, Fire, Run
  <1>11. CASE UNCHANGED vars
    BY <1>11, <1>f DEF vars
  <1> QED
    BY <1>1, <1>2, <1>3, <1>4, <1>5, <1>6, <1>7, <1>8, <1>9, <1>10, <1>11 DEF Next, Loader

\* Always: what a driver holds is what the steps it has taken have got, and what it is about
\* to give back it has got or did not look at.
THEOREM LoadsInOrder == Spec => []LoadInv
  <1> QED BY LoadInit, LoadStep, PTL DEF Spec

\* Wherever the load has failed, no driver gives back twice what it has got: the labels of
\* chardev.c:192-199 and the exit functions undo what was done, once.  A resource that was
\* never got is given back by no driver but those of Unlooked (hgpio.c:56), no other one.
THEOREM NothingTwice == Spec => []ReleasesOnlyHeld
  <1>1. LoadInv => ReleasesOnlyHeld
    BY DEF LoadInv, ReleasesOnlyHeld
  <1> QED BY <1>1, LoadsInOrder, PTL

------------------------------------------------------------------------------
(* Callbacks. *)

\* Callbacks.  Each is at a statement it has; only what the driver starts is armed; an
\* interrupt or a file in /sys or /proc calls only while it is held.
CallInv ==
  /\ cb \in [Callbacks -> Nat]
  /\ \A r \in Callbacks : cb[r] \in 0..Len(D.code[r])
  /\ pending \subseteq Late(drv) \cap Deferred
  /\ \A r \in Callbacks : cb[r] > 0 /\ r \notin Deferred \cup {"cdev"} => r \in held
  /\ twice => drv \in Adders

\* What a statement of a callback does to the counter and to what is pending.
LEMMA OneStatement ==
  ASSUME LoadInv, CallInv, NEW r \in Callbacks, Run(r)
  PROVE  LET op == D.code[r][cb[r]] IN
         /\ cb[r] \in 1..Len(D.code[r]) /\ op.do \in Does(drv)
         /\ op.do = "use" => <<r, op.res>> \in Uses(drv)
         /\ op.do \in {"add", "start", "again"} => op.res \in Late(drv) \cap Deferred
         /\ \E n \in 0..Len(D.code[r]) : cb' = [cb EXCEPT ![r] = n]
         /\ pending' \subseteq pending \cup (IF op.do \in {"add", "start", "again"}
                                             THEN {op.res} ELSE {})
         /\ twice' => twice \/ op.do = "add"
         /\ phase # "oops" /\ UNCHANGED <<drv, loader>>
  <1> DEFINE op == D.code[r][cb[r]]
  <1>1. /\ cb[r] \in 1..Len(D.code[r]) /\ Len(D.code[r]) \in Nat \ {0}
        /\ op.do \in Does(drv) \ {"deref"}
        /\ op.do = "use" => <<r, op.res>> \in Uses(drv)
        /\ op.do \in {"add", "start", "again"} => op.res \in Late(drv) \cap Deferred
        /\ op.do = "check" => cb[r] < Len(D.code[r])
    <2>1. Callable(D, Late(drv), Does(drv), Uses(drv))
      BY Row1 DEF LoadInv
    <2>2. Handler(D, r, Late(drv), Does(drv), Uses(drv))
      BY <2>1 DEF Run, Callable, Callbacks
    <2>3. cb[r] \in 0..Len(D.code[r]) /\ cb[r] > 0
      BY DEF Run, CallInv
    <2>4. Len(D.code[r]) \in Nat \ {0} /\ cb[r] \in 1..Len(D.code[r])
      BY <2>2, <2>3 DEF Handler
    <2> QED BY <2>2, <2>4 DEF Handler
  <1>2. op.do \in {"use", "check", "add", "del", "start", "again"}
    BY <1>1 DEF Does, Kinds
  <1>3. \E n \in 0..Len(D.code[r]) : cb' = [cb EXCEPT ![r] = n]
    <2>1. PICK n \in (IF op.do = "check" THEN {0, cb[r] + 1}
                      ELSE IF cb[r] < Len(D.code[r]) THEN {cb[r] + 1}
                      ELSE IF r = "cdev" THEN {0, 1} ELSE {0}) : cb' = [cb EXCEPT ![r] = n]
      BY DEF Run
    <2>2. n \in 0..Len(D.code[r])
      BY <1>1, <2>1
    <2> QED BY <2>1, <2>2
  <1>4. pending' \subseteq pending \cup (IF op.do \in {"add", "start", "again"}
                                         THEN {op.res} ELSE {})
    <2>1. CASE op.do \in {"use", "check"}
      BY <2>1 DEF Run
    <2>2. CASE op.do = "add"
      BY <2>2 DEF Run
    <2>3. CASE op.do = "del"
      BY <2>3 DEF Run
    <2>4. CASE op.do = "start"
      BY <2>4 DEF Run
    <2>5. CASE op.do = "again"
      BY <2>5 DEF Run
    <2> QED BY <1>2, <2>1, <2>2, <2>3, <2>4, <2>5
  <1>5. /\ twice' => twice \/ op.do = "add"
        /\ phase # "oops" /\ UNCHANGED <<drv, loader>>
    BY DEF Run
  <1> QED BY <1>1, <1>3, <1>4, <1>5

\* CallInv holds when the load begins.
LEMMA CallInit == Init => CallInv
  <1> SUFFICES ASSUME Init PROVE CallInv
    OBVIOUS
  <1>1. \A r \in Callbacks : Len(D.code[r]) \in Nat
    BY Row1 DEF Init, Callable, Handler, Callbacks
  <1> QED BY <1>1 DEF Init, CallInv

\* Every step keeps CallInv: giving back waits for the handler.
LEMMA CallStep == LoadInv /\ CallInv /\ [Next]_vars => CallInv'
  <1> SUFFICES ASSUME LoadInv, CallInv, [Next]_vars PROVE CallInv'
    OBVIOUS
  <1>d. drv' = drv => D' = D /\ Callbacks' = Callbacks
    BY DEF D, Callbacks
  <1>l. ASSUME NEW kinds, Loading(kinds)
        PROVE  phase = "load" /\ at \in 1..Len(D.load) /\ D.load[at].do \in kinds
    BY <1>l DEF Loading, LoadInv
  <1>1. ASSUME UNCHANGED <<drv, cb, twice>>, held \subseteq held', pending' = pending
        PROVE  CallInv'
    BY <1>1, <1>d DEF CallInv
  <1>2. CASE Acquire \/ Follow \/ Overlook \/ Fail \/ Loaded \/ Unload \/ Released \/ UNCHANGED vars
    <2>1. /\ UNCHANGED <<drv, cb, twice, pending>> /\ held \subseteq held'
      BY <1>2
      DEF Acquire, Follow, Overlook, Fail, Loaded, Unload, Released, Goes, calls, loader, vars
    <2> QED BY <2>1, <1>1
  <1>3. CASE ArmIt
    <2>1. /\ UNCHANGED <<drv, cb, twice, held>> /\ pending' = pending \cup {D.load[at].res}
          /\ D.load[at].res \in Late(drv) \cap Deferred
      BY <1>3, <1>l, Row1 DEF ArmIt, Goes, LoadInv, Callable
    <2> QED BY <2>1, <1>d DEF CallInv
  <1>4. CASE Release
    <2>1. /\ UNCHANGED <<drv, cb, twice>> /\ pending' \subseteq pending
          /\ held' = held \/ \E x : held' = held \ {x} /\ (x \in Callbacks /\ Waits(x) => cb[x] = 0)
      BY <1>4 DEF Release, GiveBack, Quiet
    <2> QED BY <2>1, <1>d DEF CallInv, Waits, Deferred
  <1>5. CASE \E r \in Callbacks : Fire(r)
    <2>1. PICK r \in Callbacks : Fire(r)
      BY <1>5
    <2>2. /\ UNCHANGED <<drv, twice, held>> /\ pending' \subseteq pending
          /\ cb' = [cb EXCEPT ![r] = 1]
          /\ r \notin Deferred \cup {"cdev"} => r \in held
      BY <2>1 DEF Fire, loader, Triggered, Holds
    <2>3. 1 \in 0..Len(D.code[r])
      BY Row1 DEF LoadInv, Callable, Handler, Callbacks
    <2>4. cb' \in [Callbacks -> Nat] /\ \A q \in Callbacks : cb'[q] = IF q = r THEN 1 ELSE cb[q]
      BY <2>2 DEF CallInv
    <2> QED BY <2>2, <2>3, <2>4, <1>d DEF CallInv
  <1>6. CASE \E r \in Callbacks : Run(r)
    <2>1. PICK r \in Callbacks : Run(r)
      BY <1>6
    <2>2. PICK n \in 0..Len(D.code[r]) : cb' = [cb EXCEPT ![r] = n]
      BY <2>1, OneStatement
    <2>3. /\ UNCHANGED <<drv, held>> /\ cb[r] \in 1..Len(D.code[r])
          /\ pending' \subseteq Late(drv) \cap Deferred /\ (twice' => drv \in Adders)
      BY <2>1, OneStatement DEF CallInv, loader, Does, Kinds
    <2>4. Len(D.code[r]) \in Nat /\ cb[r] > 0
      BY <2>3, Row1 DEF LoadInv, Callable, Handler, Callbacks
    <2>5. cb' \in [Callbacks -> Nat] /\ \A q \in Callbacks : cb'[q] = IF q = r THEN n ELSE cb[q]
      BY <2>2, <2>4 DEF CallInv
    <2> QED BY <2>2, <2>3, <2>4, <2>5, <1>d DEF CallInv
  <1> QED
    BY <1>2, <1>3, <1>4, <1>5, <1>6 DEF Next, Loader, Call

\* Always: the callbacks are where their code can be.
LEMMA CallsAreTyped == Spec => [](LoadInv /\ CallInv)
  <1>1. Init => LoadInv /\ CallInv
    BY LoadInit, CallInit
  <1>2. LoadInv /\ CallInv /\ [Next]_vars => (LoadInv /\ CallInv)'
    BY LoadStep, CallStep
  <1> QED BY <1>1, <1>2, PTL DEF Spec

------------------------------------------------------------------------------
(* Timers that are added again by their handler. *)

\* Drivers whose timer is added by others too, and those where only its handler adds it.
Classes == {"class", "old_class"}
Repeats == {"timer", "old_timer"}

\* The step that arms the timer is the second.
ArmsSecond(d) ==
  /\ Len(d.load) >= 2 /\ d.load[1].res = "led" /\ d.load[1].do \in {"must", "ignored"}
  /\ \A i \in 1..Len(d.load) : d.load[i].do = "arm" => i = 2

\* What class.c does with its timer.
LEMMA ClassCode ==
  ASSUME drv \in Classes
  PROVE  /\ Callbacks = {"timer", "cdev", "attr"} /\ ArmsSecond(D)
         /\ Len(D.code["timer"]) = 2
         /\ D.code["timer"][1] = Use("led") /\ D.code["timer"][2] = Add("timer")
         /\ Len(D.code["cdev"]) = 2
         /\ D.code["cdev"][1] = Del("timer") /\ D.code["cdev"][2] = Add("timer")
         /\ Len(D.code["attr"]) = 3 /\ D.code["attr"][1] = Check
         /\ D.code["attr"][2] = Del("timer") /\ D.code["attr"][3] = Add("timer")
  <1> DEFINE d(led) == ClassWith(led)
  <1>1. ASSUME NEW led, IsPin(led, "led")
        PROVE  /\ DOMAIN d(led).code = {"timer", "cdev", "attr"}
               /\ Len(d(led).code["timer"]) = 2
               /\ d(led).code["timer"][1] = Use("led") /\ d(led).code["timer"][2] = Add("timer")
               /\ Len(d(led).code["cdev"]) = 2
               /\ d(led).code["cdev"][1] = Del("timer") /\ d(led).code["cdev"][2] = Add("timer")
               /\ Len(d(led).code["attr"]) = 3 /\ d(led).code["attr"][1] = Check
               /\ d(led).code["attr"][2] = Del("timer") /\ d(led).code["attr"][3] = Add("timer")
    BY DEF ClassWith, Probe
  <1>2. ASSUME NEW led, IsPin(led, "led")
        PROVE  ArmsSecond(d(led))
    BY <1>2 DEF ClassWith, Probe, ArmsSecond, IsPin, Arm, Ignored, Deref, Step
  <1>3. D = d(Must("led")) \/ D = d(Ignored("led"))
    BY DEF Classes, D, Table, Class, OldClass
  <1> HIDE DEF d
  <1> QED BY <1>1, <1>2, <1>3, Pins DEF Callbacks

\* What timer.c does with its timer.
LEMMA TimerCode ==
  ASSUME drv \in Repeats
  PROVE  /\ Callbacks = {"timer"} /\ ArmsSecond(D)
         /\ Len(D.code["timer"]) = 2
         /\ D.code["timer"][1] = Use("led") /\ D.code["timer"][2] = Add("timer")
  <1> DEFINE d(led) == TimerWith(led)
  <1>1. ASSUME NEW led, IsPin(led, "led")
        PROVE  /\ DOMAIN d(led).code = {"timer"}
               /\ Len(d(led).code["timer"]) = 2
               /\ d(led).code["timer"][1] = Use("led") /\ d(led).code["timer"][2] = Add("timer")
    BY DEF TimerWith, Probe
  <1>2. ASSUME NEW led, IsPin(led, "led")
        PROVE  ArmsSecond(d(led))
    BY <1>2 DEF TimerWith, Probe, ArmsSecond, IsPin, Arm, Step
  <1>3. D = d(Must("led")) \/ D = d(Ignored("led"))
    BY DEF Repeats, D, Table, TimerDriver, OldTimer
  <1> HIDE DEF d
  <1> QED BY <1>1, <1>2, <1>3, Pins DEF Callbacks

\* The statements about the timer differ.
LEMMA Kinds2 ==
  /\ Use("led").do = "use" /\ Add("timer").do = "add" /\ Add("timer").res = "timer"
  /\ Del("timer").do = "del" /\ Del("timer").res = "timer"
  /\ Del("timer") # Add("timer") /\ Check # Add("timer") /\ Check.do = "check"
  BY DEF Use, Add, Del, Check, Op

\* r is between taking the timer down and adding it.
InWindow(r) == Window(r, cb[r])

\* The timer and its adders.  Nothing runs before the timer is armed; a handler that is alone
\* never finds its timer pending; without an overlap at most one callback of class.c has taken
\* the timer down, and then it is not pending.
AddInv ==
  /\ drv \in Adders /\ phase = "load" /\ at <= 2 =>
       pending = {} /\ (\A r \in Callbacks : cb[r] = 0) /\ held \cap {"cdev", "attr"} = {}
  /\ drv \in Repeats => ~twice /\ (cb["timer"] > 0 => "timer" \notin pending)
  /\ drv \in Classes /\ ~overlap =>
       /\ ~twice
       /\ \A r \in Callbacks : InWindow(r) =>
            "timer" \notin pending /\ \A q \in Callbacks : InWindow(q) => q = r

\* AddInv holds when the load begins.
LEMMA AddInit == Init => AddInv
  BY TimerCode DEF Init, AddInv, InWindow, Window

\* Every step keeps AddInv: two callbacks of class.c that both have the timer down overlap.
LEMMA AddStep == LoadInv /\ CallInv /\ AddInv /\ [Next]_vars => AddInv'
  <1> SUFFICES ASSUME LoadInv, CallInv, AddInv, [Next]_vars PROVE AddInv'
    OBVIOUS
  <1>d. drv' = drv => D' = D /\ Callbacks' = Callbacks
    BY DEF D, Callbacks
  <1>w. ASSUME drv' = drv, NEW r, cb'[r] = cb[r]
        PROVE  InWindow(r)' <=> InWindow(r)
    BY <1>w, <1>d DEF InWindow, Window
  <1>l. ASSUME NEW kinds, Loading(kinds)
        PROVE  phase = "load" /\ at \in 1..Len(D.load) /\ D.load[at].do \in kinds
    BY <1>l DEF Loading, LoadInv
  <1>a. drv \in Adders => ArmsSecond(D)
    BY ClassCode, TimerCode DEF Adders, Classes, Repeats
  <1>n. at \in Nat \ {0}
    BY Row1 DEF LoadInv, Orderly, Removes, Undoes
  <1>1. ASSUME UNCHANGED <<drv, cb, twice, overlap>>, pending' \subseteq pending,
               drv \in Adders /\ phase' = "load" /\ at' <= 2 =>
                 phase = "load" /\ at <= 2 /\ held' \cap {"cdev", "attr"} \subseteq held
        PROVE  AddInv'
    BY <1>1, <1>d, <1>w DEF AddInv
  <1>2. CASE Acquire
    <2>1. /\ UNCHANGED <<drv, cb, twice, overlap, pending>>
          /\ phase = "load" /\ at \in 1..Len(D.load) /\ at' = at + 1
          /\ held' \subseteq held \cup {D.load[at].res}
      BY <1>2, <1>l DEF Acquire, Goes
    <2>2. drv \in Adders /\ at' <= 2 => at = 1 /\ D.load[at].res = "led"
      BY <2>1, <1>a, <1>n DEF ArmsSecond
    <2> QED BY <2>1, <2>2, <1>1
  <1>3. CASE Follow \/ Overlook
    <2>1. /\ UNCHANGED <<drv, cb, twice, overlap, pending, held>>
          /\ phase = "load" /\ at' = at + 1
      BY <1>3, <1>l DEF Follow, Overlook, Goes
    <2> QED BY <2>1, <1>1, <1>n
  <1>4. CASE Fail \/ Loaded \/ Unload \/ Released \/ Release
    <2>1. /\ UNCHANGED <<drv, cb, twice, overlap>> /\ pending' \subseteq pending /\ phase' # "load"
      BY <1>4 DEF Fail, Loaded, Unload, Released, Release, GiveBack, calls, loader, LoadInv
    <2> QED BY <2>1, <1>1
  <1>5. CASE UNCHANGED vars
    BY <1>5, <1>1 DEF vars, calls, loader
  <1>6. CASE ArmIt
    <2>1. /\ UNCHANGED <<drv, cb, twice, overlap>> /\ at' = at + 1 /\ phase = "load"
          /\ at \in 1..Len(D.load) /\ D.load[at].do = "arm"
      BY <1>6, <1>l DEF ArmIt, Goes
    <2>2. drv \in Adders => at = 2 /\ \A r \in Callbacks : cb[r] = 0
      BY <2>1, <1>a DEF ArmsSecond, AddInv
    <2>3. drv \in Adders => ~(at' <= 2) /\ \A r \in Callbacks : ~InWindow(r)'
      BY <2>1, <2>2, <1>w DEF InWindow, Window
    <2> QED BY <2>1, <2>2, <2>3, <1>d, TimerCode DEF AddInv, Adders, Classes, Repeats
  <1>7. CASE \E r \in Callbacks : Fire(r)
    <2>1. PICK r \in Callbacks : Fire(r)
      BY <1>7
    <2>2. /\ UNCHANGED <<drv, loader, twice, overlap>> /\ cb' = [cb EXCEPT ![r] = 1]
          /\ pending' = (IF r \in Deferred THEN pending \ {r} ELSE pending)
          /\ cb[r] = 0 /\ Triggered(r)
      BY <2>1 DEF Fire
    <2>3. /\ cb \in [Callbacks -> Nat] /\ cb'[r] = 1
          /\ \A q \in Callbacks : q # r => cb'[q] = cb[q]
      BY <2>2 DEF CallInv
    <2>4. drv \in Adders /\ phase' = "load" => ~(at' <= 2)
      BY <2>2, ClassCode, TimerCode
      DEF AddInv, Triggered, Holds, Deferred, loader, Adders, Classes, Repeats
    <2>5. CASE drv \in Repeats
      <3>1. r = "timer" /\ "timer" \notin pending'
        BY <2>2, <2>5, TimerCode DEF Deferred
      <3> QED BY <2>2, <2>4, <2>5, <3>1 DEF AddInv, Repeats, Classes
    <2>6. CASE drv \in Classes
      <3>1. CASE r = "timer"
        <4>1. "timer" \in pending /\ "timer" \notin pending'
          BY <2>2, <3>1 DEF Triggered, Deferred
        <4>2. ~overlap => \A q \in Callbacks : InWindow(q)' => q = "timer"
          BY <4>1, <2>2, <2>3, <2>6, <3>1, <1>w DEF AddInv
        <4> QED BY <2>2, <2>4, <2>6, <4>1, <4>2, <1>d DEF AddInv, Repeats, Classes
      <3>2. CASE r # "timer"
        <4>1. r \in {"cdev", "attr"} /\ pending' = pending
          BY <2>2, <2>6, <3>2, ClassCode DEF Deferred
        <4>2. ~InWindow(r)'
          BY <4>1, <2>2, <2>3, <2>6, <1>d, ClassCode, Kinds2 DEF InWindow, Window
        <4>3. \A q \in Callbacks : InWindow(q)' => InWindow(q)
          BY <4>2, <2>2, <2>3, <1>w
        <4> QED BY <2>2, <2>4, <2>6, <4>1, <4>3, <1>d DEF AddInv, Repeats, Classes
      <3> QED BY <3>1, <3>2
    <2>7. CASE drv \notin Adders
      BY <2>2, <2>7 DEF AddInv, Adders, Repeats, Classes
    <2> QED BY <2>5, <2>6, <2>7 DEF Adders, Repeats, Classes
  <1>8. CASE \E r \in Callbacks : Run(r)
    <2>1. PICK r \in Callbacks : Run(r)
      BY <1>8
    <2> DEFINE op == D.code[r][cb[r]]
    <2>2. /\ cb[r] \in 1..Len(D.code[r]) /\ UNCHANGED <<drv, loader>>
          /\ \E n \in (IF op.do = "check" THEN {0, cb[r] + 1}
                       ELSE IF cb[r] < Len(D.code[r]) THEN {cb[r] + 1}
                       ELSE IF r = "cdev" THEN {0, 1} ELSE {0}) : cb' = [cb EXCEPT ![r] = n]
          /\ op.do \in {"use", "check"} => pending' = pending
          /\ op.do = "del" => pending' = pending \ {op.res}
          /\ op.do = "add" => pending' = pending \cup {op.res}
          /\ twice' <=> (twice \/ (op.do = "add" /\ op.res \in pending))
          /\ overlap' <=> (overlap \/ \E q \in Callbacks \ {r} :
                             InWindow(q) /\ (InWindow(r) \/ Window(r, cb'[r])))
      BY <2>1, OneStatement DEF Run, InWindow
    <2>3. /\ cb \in [Callbacks -> Nat] /\ \A q \in Callbacks : q # r => cb'[q] = cb[q]
      BY <2>2 DEF CallInv
    <2>4. drv \in Adders /\ phase' = "load" => ~(at' <= 2)
      BY <2>2 DEF AddInv, loader
    <2>5. CASE drv \in Repeats
      <3>1. r = "timer" /\ "timer" \notin pending /\ cb[r] \in {1, 2}
        BY <2>2, <2>5, TimerCode DEF AddInv
      <3>2. CASE cb[r] = 1
        <4>1. op = Use("led")
          BY <2>5, <3>1, <3>2, TimerCode
        <4> QED BY <2>2, <2>4, <2>5, <3>1, <4>1, Kinds2 DEF AddInv, Repeats, Classes
      <3>3. CASE cb[r] = 2
        <4>1. op = Add("timer") /\ Len(D.code[r]) = 2 /\ r # "cdev"
          BY <2>5, <3>1, <3>3, TimerCode
        <4>2. cb'[r] = 0
          BY <2>2, <2>3, <3>3, <4>1, Kinds2
        <4> QED BY <2>2, <2>4, <2>5, <3>1, <4>1, <4>2, Kinds2 DEF AddInv, Repeats, Classes
      <3> QED BY <3>1, <3>2, <3>3
    <2>6. CASE drv \in Classes
      <3>0. r \in {"timer", "cdev", "attr"} /\ cb[r] \in {1, 2, 3} /\ (cb[r] = 3 => r = "attr")
        BY <2>2, <2>6, ClassCode
      <3> SUFFICES ASSUME ~overlap' PROVE ~twice' /\ \A q \in Callbacks : InWindow(q)' =>
                     "timer" \notin pending' /\ \A s \in Callbacks : InWindow(s)' => s = q
        BY <2>2, <2>4, <2>6, <1>d DEF AddInv, Repeats, Classes
      <3>1. /\ ~overlap /\ ~twice
            /\ \A q \in Callbacks : InWindow(q) =>
                 "timer" \notin pending /\ \A s \in Callbacks : InWindow(s) => s = q
        BY <2>2, <2>6 DEF AddInv
      <3>2. Window(r, cb'[r]) <=> InWindow(r)'
        BY <2>2, <1>d DEF InWindow, Window
      <3>3. InWindow(r) \/ InWindow(r)' =>
              \A q \in Callbacks : q # r => ~InWindow(q) /\ ~InWindow(q)'
        BY <2>2, <2>3, <3>2, <1>w
      <3> DEFINE down == (r = "cdev" /\ cb[r] = 1) \/ (r = "attr" /\ cb[r] = 2)
                 add  == (r = "attr" /\ cb[r] = 3) \/ (r # "attr" /\ cb[r] = 2)
      <3>4. CASE cb[r] = 1 /\ r = "timer"
        <4>1. op = Use("led") /\ InWindow(r)
          BY <2>6, <3>4, ClassCode DEF InWindow, Window
        <4> QED BY <2>2, <3>1, <3>3, <4>1, Kinds2
      <3>5. CASE cb[r] = 1 /\ r = "attr"
        <4>1. op = Check /\ Len(D.code[r]) = 3
          BY <2>6, <3>5, ClassCode
        <4>2. cb'[r] \in {0, 2} /\ pending' = pending
          BY <2>2, <2>3, <3>5, <4>1, Kinds2
        <4>3. ~InWindow(r)'
          BY <4>2, <2>2, <2>6, <3>5, <1>d, ClassCode, Kinds2 DEF InWindow, Window
        <4>4. \A q \in Callbacks : InWindow(q)' => InWindow(q)
          BY <4>3, <2>2, <2>3, <1>w
        <4> QED BY <2>2, <3>1, <4>1, <4>2, <4>4, <1>d, Kinds2
      <3>6. CASE down
        <4>1. op = Del("timer") /\ cb'[r] = cb[r] + 1
          BY <2>2, <2>3, <2>6, <3>6, ClassCode, Kinds2
        <4>2. InWindow(r)'
          BY <4>1, <2>2, <2>6, <3>6, <1>d, ClassCode DEF InWindow, Window
        <4> QED BY <2>2, <3>1, <3>3, <4>1, <4>2, Kinds2
      <3>7. CASE add
        <4>1. op = Add("timer") /\ InWindow(r) /\ Len(D.code[r]) = cb[r]
          <5>1. op = Add("timer") /\ Len(D.code[r]) = cb[r]
            BY <2>6, <3>0, <3>7, ClassCode
          <5> QED BY <5>1, <2>6, <3>0, <3>7 DEF InWindow, Window
        <4>2. cb'[r] \in (IF r = "cdev" THEN {0, 1} ELSE {0})
          BY <2>2, <2>3, <4>1, Kinds2
        <4>3. ~InWindow(r)'
          BY <4>2, <2>2, <2>6, <3>0, <1>d, ClassCode, Kinds2 DEF InWindow, Window
        <4> QED BY <2>2, <3>1, <3>3, <4>1, <4>3, Kinds2
      <3> QED BY <3>0, <3>4, <3>5, <3>6, <3>7
    <2>7. CASE drv \notin Adders
      BY <2>2, <2>7 DEF AddInv, Adders, Repeats, Classes
    <2> QED BY <2>5, <2>6, <2>7 DEF Adders, Repeats, Classes
  <1> QED
    BY <1>2, <1>3, <1>4, <1>5, <1>6, <1>7, <1>8 DEF Next, Loader, Call

\* add_timer is called for a pending timer (BUG_ON in the kernel) only by class.c, and there
\* only when two of its handler (:31), its device file (:57, :66) and its attribute (:40)
\* overlap.
THEOREM NeverAddedTwice == Spec => []AddedOnce
  <1>1. Init => LoadInv /\ CallInv /\ AddInv
    BY LoadInit, CallInit, AddInit
  <1>2. LoadInv /\ CallInv /\ AddInv /\ [Next]_vars => (LoadInv /\ CallInv /\ AddInv)'
    BY LoadStep, CallStep, AddStep
  <1>3. CallInv /\ AddInv => AddedOnce
    BY DEF CallInv, AddInv, AddedOnce, Adders, Classes, Repeats
  <1> QED BY <1>1, <1>2, <1>3, PTL DEF Spec

------------------------------------------------------------------------------
(* What is left. *)

\* What this driver does not give back this time.
Kept == Keeps(drv) \ (IF bound THEN {"table"} ELSE {})

\* What is held will be given back: once the driver is up, being unloaded or failing, all that
\* it holds is planned, managed with the driver core still to come, or kept.
HeldInv ==
  /\ ~bound => "table" \in Keeps(drv)
  /\ phase = "up" => \A x \in held :
       \/ In(x, D.exit) \/ x \in Deferred \cup Kept
       \/ bound /\ (In(x, D.remove) \/ x \in Managed)
  /\ phase \in {"fail", "unload", "off"} => \A x \in held :
       \/ In(x, plan) \/ x \in Deferred \cup Kept
       \/ x \in Managed /\ In("devres", plan)
       \/ phase = "fail" /\ ~bound /\ In(x, D.exit)

\* HeldInv holds when the load begins.
LEMMA HeldInit == Init => HeldInv
  BY DEF Init, HeldInv

\* The mark of the driver core is no resource.
LEMMA NotDevres ==
  ASSUME LoadInv
  PROVE  "devres" \notin held
  <1> SUFFICES ASSUME "devres" \in held PROVE FALSE
    OBVIOUS
  <1>1. Orderly(D) /\ Complete(D, Keeps(drv))
    BY Row1 DEF LoadInv
  <1>2. Got(D, Len(D.load) + 1, "devres")
    BY <1>1 DEF LoadInv, Got, Orderly, Removes, Undoes
  <1>3. ~In("devres", D.remove) /\ ~In("devres", D.exit)
    BY <1>1, ListedIn DEF Orderly, Removes, Undoes
  <1>4. "devres" \notin Managed \cup Deferred \cup Keeps(drv)
    BY DEF Managed, Deferred, Keeps
  <1> QED BY <1>1, <1>2, <1>3, <1>4 DEF Complete

\* Every step keeps HeldInv.
LEMMA HeldStep == LoadInv /\ HeldInv /\ [Next]_vars => HeldInv'
  <1> SUFFICES ASSUME LoadInv, HeldInv, [Next]_vars PROVE HeldInv'
    OBVIOUS
  <1>0. /\ Orderly(D) /\ Complete(D, Keeps(drv)) /\ Len(D.load) \in Nat
        /\ \A x : ~In(x, <<>>)
    BY Row1, List0 DEF LoadInv, Orderly, Removes, Undoes, Lists
  <1>d. drv' = drv => D' = D /\ Keeps(drv)' = Keeps(drv)
    BY DEF D
  <1>l. ASSUME NEW kinds, Loading(kinds)
        PROVE  phase = "load" /\ at \in 1..Len(D.load) /\ D.load[at].do \in kinds
    BY <1>l DEF Loading, LoadInv
  <1>1. CASE Acquire \/ ArmIt \/ Follow \/ Overlook
    <2>1. UNCHANGED <<drv, bound>> /\ phase' \in {"load", "oops"}
      BY <1>1, <1>l DEF Acquire, ArmIt, Follow, Overlook, Goes
    <2> QED BY <2>1, <1>d DEF HeldInv
  <1>2. CASE Fail
    <2> DEFINE u == D.load[at].undo
    <2>1. /\ phase = "load" /\ at \in 1..Len(D.load) /\ D.load[at].do \in {"must", "bound", "try"}
          /\ plan' = u \o <<"devres">> /\ bound' = (D.load[at].do # "bound") /\ phase' = "fail"
          /\ UNCHANGED <<drv, held>>
      BY <1>2, <1>l DEF Fail
    <2>2. Listed(u)
      BY <2>1, <1>0 DEF Orderly, Removes, Undoes, CanFail
    <2>3. \A x : Got(D, at, x) =>
            /\ D.load[at].do \in {"must", "try"} =>
                 In(x, u) \/ x \in Managed \cup Deferred \cup (Keeps(drv) \ {"table"})
            /\ D.load[at].do = "bound" =>
                 In(x, D.exit) \/ x \in Managed \cup Deferred \cup Keeps(drv)
      BY <2>1, <1>0 DEF Complete
    <2>4. D.load[at].do = "bound" => "table" \in Keeps(drv)
      BY <2>1, <1>0 DEF Complete
    <2> HIDE DEF u
    <2>5. \A x : In(x, plan') <=> In(x, u) \/ x = "devres"
      BY <2>1, <2>2, UndoPlan
    <2> QED BY <2>1, <2>3, <2>4, <2>5, <1>d DEF HeldInv, LoadInv, Kept
  <1>3. CASE Loaded
    <2>1. phase = "load" /\ phase' = "up" /\ UNCHANGED <<drv, held, bound>> /\ bound
      BY <1>3 DEF Loaded, LoadInv
    <2>2. \A x : Got(D, at, x) => Got(D, Len(D.load) + 1, x)
      BY <1>0 DEF Got, LoadInv
    <2>3. \A x \in held : In(x, D.remove) \/ In(x, D.exit)
                          \/ x \in Managed \cup Deferred \cup (Keeps(drv) \ {"table"})
      BY <2>2, <1>0 DEF LoadInv, Complete
    <2> QED BY <2>1, <2>3, <1>d DEF HeldInv, Kept
  <1>4. CASE Unload
    <2>1. /\ phase = "up" /\ phase' = "unload"
          /\ plan' = (IF bound THEN D.remove \o <<"devres">> ELSE <<>>) \o D.exit
          /\ UNCHANGED <<drv, held, bound>>
      BY <1>4 DEF Unload
    <2>2. /\ Listed(D.remove) /\ Listed(D.exit) /\ bound \in BOOLEAN
          /\ \A x : ~(In(x, D.remove) /\ In(x, D.exit))
      BY <1>0 DEF Orderly, Removes, Undoes, LoadInv
    <2>3. \A x : In(x, plan') <=> (bound /\ (In(x, D.remove) \/ x = "devres")) \/ In(x, D.exit)
      <3> DEFINE p == (IF bound THEN D.remove \o <<"devres">> ELSE <<>>) \o D.exit
      <3>1. \A x : In(x, p) <=> (bound /\ (In(x, D.remove) \/ x = "devres")) \/ In(x, D.exit)
        BY <2>2, UnloadPlan, Zenon
      <3>2. plan' = p
        BY <2>1
      <3> QED BY <3>1, <3>2, Zenon
    <2> QED BY <2>1, <2>3, <1>d DEF HeldInv, Kept
  <1>5. CASE Release
    <2>1. plan # <<>> /\ plan \in Seq(Planned) /\ Distinct(plan) /\ phase \in {"fail", "unload"}
      BY <1>5 DEF Release, LoadInv
    <2>2. \A x : In(x, Tail(plan)) <=> In(x, plan) /\ x # Head(plan)
      BY <2>1, Taken
    <2>3. UNCHANGED <<drv, phase, bound>> /\ D' = D
      BY <1>5, <1>d DEF Release
    <2>4. CASE Head(plan) # "devres"
      <3>1. plan' = Tail(plan) /\ held' = held \ {Head(plan)}
        BY <1>5, <2>4 DEF Release, GiveBack
      <3> QED BY <2>1, <2>2, <2>3, <2>4, <3>1, <1>d DEF HeldInv, Kept
    <2>5. CASE Head(plan) = "devres" /\ Devres # {}
      <3>1. plan' = plan /\ held' \subseteq held
        BY <1>5, <2>5 DEF Release, GiveBack
      <3> QED BY <2>1, <2>3, <3>1, <1>d DEF HeldInv, Kept
    <2>6. CASE Head(plan) = "devres" /\ Devres = {}
      <3>1. plan' = Tail(plan) /\ held' = held /\ \A x \in held : x \notin Managed
        BY <1>5, <2>6 DEF Release, Devres
      <3> QED BY <2>1, <2>2, <2>3, <2>6, <3>1, <1>d, NotDevres DEF HeldInv, Kept
    <2> QED BY <2>4, <2>5, <2>6
  <1>6. CASE Released
    <2>1. /\ phase \in {"fail", "unload"} /\ plan = <<>>
          /\ phase' = IF phase = "fail" /\ ~bound THEN "up" ELSE "off"
          /\ UNCHANGED <<drv, held, plan, bound>>
      BY <1>6 DEF Released
    <2> QED BY <2>1, <1>0, <1>d DEF HeldInv, Kept
  <1>7. CASE UNCHANGED <<drv, loader>>
    BY <1>7, <1>d DEF HeldInv, loader, Kept
  <1>8. CASE \E r \in Callbacks : Call(r)
    BY <1>8, <1>7 DEF Call, Fire, Run
  <1> QED
    BY <1>1, <1>2, <1>3, <1>4, <1>5, <1>6, <1>7, <1>8 DEF Next, Loader, vars

\* The file of chardev.c is open only while the module cannot go.
FileInv ==
  drv = "chardev" => (cb["cdev"] > 0 => phase = "up" \/ (phase = "load" /\ at = 6))

\* chardev.c gets its device last.
LEMMA CharDevCode ==
  ASSUME drv = "chardev"
  PROVE  /\ D.held /\ Len(D.load) = 5 /\ Callbacks = {"cdev"}
         /\ \A i \in 1..5 : ~Got(D, i, "device")
  <1>1. D = CharDevDriver
    BY DEF D, Table
  <1>2. /\ D.held /\ Len(D.load) = 5 /\ Callbacks = {"cdev"}
        /\ D.load[1].res = "page" /\ D.load[2].res = "region" /\ D.load[3].res = "cdev"
        /\ D.load[4].res = "class"
    BY <1>1 DEF Callbacks, CharDevDriver, Module, Must, MustOr, Step
  <1>3. ASSUME NEW i \in 1..5, NEW j \in 1..(i - 1) PROVE D.load[j].res # "device"
    <2>1. j = 1 \/ j = 2 \/ j = 3 \/ j = 4
      OBVIOUS
    <2> QED BY <2>1, <1>2
  <1> QED BY <1>2, <1>3 DEF Got

\* FileInv holds when the load begins.
LEMMA FileInit == Init => FileInv
  BY CharDevCode DEF Init, FileInv

\* Every step keeps FileInv: try_module_get refuses a module that is going.
LEMMA FileStep == LoadInv /\ CallInv /\ HeldInv /\ FileInv /\ [Next]_vars => FileInv'
  <1> SUFFICES ASSUME LoadInv, CallInv, HeldInv, FileInv, [Next]_vars, drv' = "chardev",
                      cb'["cdev"] > 0
               PROVE  phase' = "up" \/ (phase' = "load" /\ at' = 6)
    BY DEF FileInv
  <1>0. drv = "chardev" /\ drv' = drv
    BY DEF Next, Loader, Acquire, ArmIt, Follow, Overlook, Goes, Fail, Loaded, Unload, Release,
           Released, Call, Fire, Run, vars
  <1>1. D.held /\ Len(D.load) = 5 /\ Callbacks = {"cdev"} /\ at \in 1..6
    <2>1. D.held /\ Len(D.load) = 5 /\ Callbacks = {"cdev"} /\ at \in 1..(Len(D.load) + 1)
      BY <1>0, CharDevCode DEF LoadInv
    <2> QED BY <2>1
  <1>2. Holds("device") => at = 6
    BY <1>0, <1>1, CharDevCode DEF LoadInv, Holds
  <1>3. CASE \E r \in Callbacks : Fire(r)
    <2>1. /\ phase # "oops" /\ Triggered("cdev") /\ UNCHANGED loader
      BY <1>1, <1>3 DEF Fire
    <2>2. Holds("cdev") /\ (Holds("device") \/ phase = "up") /\ phase # "unload"
      BY <2>1, <1>1 DEF Triggered, Deferred
    <2>3. phase # "off"
      <3>1. Keeps(drv) = {}
        BY <1>0 DEF Keeps
      <3>2. "cdev" \notin Deferred \cup Managed
        BY DEF Deferred, Managed
      <3>3. \A x : ~In(x, <<>>)
        BY List0 DEF Lists
      <3> QED BY <2>2, <3>1, <3>2, <3>3 DEF HeldInv, LoadInv, Holds, Kept
    <2>4. phase # "fail"
      BY <2>2, <1>1, <1>2 DEF LoadInv
    <2> QED BY <2>1, <2>2, <2>3, <2>4, <1>2 DEF LoadInv, loader
  <1>4. CASE \E r \in Callbacks : Run(r)
    <2>1. Run("cdev")
      BY <1>1, <1>4
    <2> QED BY <2>1, <1>0 DEF Run, FileInv, loader
  <1>5. CASE Acquire \/ ArmIt \/ Follow \/ Overlook \/ Fail
    <2>1. phase = "load" /\ at \in 1..5 /\ cb' = cb
      BY <1>5, <1>1 DEF Acquire, ArmIt, Follow, Overlook, Fail, Goes, Loading, calls
    <2> QED BY <2>1, <1>0 DEF FileInv
  <1>6. CASE Loaded
    BY <1>6 DEF Loaded
  <1>7. CASE Unload
    BY <1>7, <1>1 DEF Unload, calls
  <1>8. CASE Release \/ Released
    <2>1. phase \in {"fail", "unload"} /\ cb' = cb
      BY <1>8 DEF Release, Released, LoadInv, calls
    <2> QED BY <2>1, <1>0 DEF FileInv
  <1>9. CASE UNCHANGED vars
    BY <1>9, <1>0 DEF vars, calls, loader, FileInv
  <1> QED
    BY <1>3, <1>4, <1>5, <1>6, <1>7, <1>8, <1>9 DEF Next, Loader, Call

------------------------------------------------------------------------------
(* Timers and work that nothing but themselves starts. *)

\* The drivers whose only callback is a timer or work that they start themselves.
Solos == Repeats \cup {"hrtimer", "old_hrtimer", "wq"}

\* A step of d before i has armed a timer or queued work.
Armed(d, i) == \E j \in 1..(i - 1) : d.load[j].do = "arm"

\* The only callback of d is q; it is armed when no step can fail any more, and d stops it.
Alone(d, q) ==
  /\ DOMAIN d.code = {q} /\ (In(q, d.remove) \/ In(q, d.exit))
  /\ \A i \in 1..Len(d.load) : d.load[i].do \in CanFail => ~Armed(d, i)

\* The callback of v.
Solo(v) == CASE v \in Repeats -> "timer" [] v \in {"hrtimer", "old_hrtimer"} -> "hrtimer"
             [] v = "wq" -> "work"

\* timer.c, hrtimer.c and backup/wq.c arm when nothing fails any more, and stop it.
LEMMA TimerAlone ==
  ASSUME NEW led, IsPin(led, "led")
  PROVE  Alone(TimerWith(led), "timer")
  <1> DEFINE d == TimerWith(led)
  <1>1. /\ d.remove = <<"timer">> /\ DOMAIN d.code = {"timer"} /\ Len(d.load) = 2
        /\ IsPin(d.load[1], "led") /\ d.load[2].do = "arm"
    BY DEF TimerWith, Probe, Arm, Step
  <1> HIDE DEF d
  <1>2. Lists(<<"timer">>, {"timer"})
    BY List1 DEF Own, Things, Managed
  <1>3. \A i \in 1..2 : i = 1 \/ i = 2
    OBVIOUS
  <1> QED BY <1>1, <1>2, <1>3 DEF Alone, Armed, CanFail, Lists, d

LEMMA HrTimerAlone ==
  ASSUME NEW led, IsPin(led, "led")
  PROVE  Alone(HrTimerWith(led), "hrtimer")
  <1> DEFINE d == HrTimerWith(led)
  <1>1. /\ d.remove = <<"hrtimer">> /\ DOMAIN d.code = {"hrtimer"} /\ Len(d.load) = 2
        /\ IsPin(d.load[1], "led") /\ d.load[2].do = "arm"
    BY DEF HrTimerWith, Probe, Arm, Step
  <1> HIDE DEF d
  <1>2. Lists(<<"hrtimer">>, {"hrtimer"})
    BY List1 DEF Own, Things, Managed
  <1>3. \A i \in 1..2 : i = 1 \/ i = 2
    OBVIOUS
  <1> QED BY <1>1, <1>2, <1>3 DEF Alone, Armed, CanFail, Lists, d

LEMMA WqAlone == Alone(Wq, "work")
  <1> DEFINE d == Wq
  <1>1. /\ d.exit = <<"ledpin", "swpin", "work">> /\ DOMAIN d.code = {"work"} /\ Len(d.load) = 4
        /\ d.load[1].do = "ignored" /\ d.load[2].do = "ignored" /\ d.load[3].do = "setup"
        /\ d.load[4].do = "arm"
    BY DEF Wq, Module, Arm, Ignored, Setup, Step
  <1> HIDE DEF d
  <1>2. Lists(<<"ledpin", "swpin", "work">>, {"ledpin", "swpin", "work"})
    BY List3 DEF Own, Things, Managed
  <1>3. \A i \in 1..4 : i = 1 \/ i = 2 \/ i = 3 \/ i = 4
    OBVIOUS
  <1> QED BY <1>1, <1>2, <1>3 DEF Alone, Armed, CanFail, Lists, d

\* So do all of them, and nothing else starts there.
LEMMA SoloAlone ==
  ASSUME drv \in Solos
  PROVE  /\ Alone(D, Solo(drv)) /\ Callbacks = {Solo(drv)} /\ "table" \notin Keeps(drv)
         /\ Late(drv) = {Solo(drv)} /\ Solo(drv) \in Deferred
  <1>1. drv = "timer" => Alone(D, Solo(drv))
    BY TimerAlone, Pins DEF D, Table, TimerDriver, Solo, Repeats
  <1>2. drv = "old_timer" => Alone(D, Solo(drv))
    BY TimerAlone, Pins DEF D, Table, OldTimer, Solo, Repeats
  <1>3. drv = "hrtimer" => Alone(D, Solo(drv))
    BY HrTimerAlone, Pins DEF D, Table, HrTimer, Solo, Repeats
  <1>4. drv = "old_hrtimer" => Alone(D, Solo(drv))
    BY HrTimerAlone, Pins DEF D, Table, OldHrTimer, Solo, Repeats
  <1>5. drv = "wq" => Alone(D, Solo(drv))
    BY WqAlone DEF D, Table, Solo, Repeats
  <1>6. Alone(D, Solo(drv))
    BY <1>1, <1>2, <1>3, <1>4, <1>5 DEF Solos, Repeats
  <1>7. "table" \notin Keeps(drv) /\ Late(drv) = {Solo(drv)} /\ Solo(drv) \in Deferred
    BY DEF Solos, Repeats, Keeps, Late, Solo, Deferred
  <1> QED BY <1>6, <1>7 DEF Alone, Callbacks

\* The timer or the work is not armed and not running.
Still == Solo(drv) \notin pending /\ cb[Solo(drv)] = 0

\* Nothing is armed before the step that does it, nor after the driver has stopped it, unless
\* del_timer has run beside the handler.
SoloInv ==
  drv \in Solos =>
    /\ phase = "load" /\ ~Armed(D, at) => Still
    /\ phase \in {"fail", "unload", "off"} /\ ~In(Solo(drv), plan) =>
         Still \/ (raced /\ Solo(drv) = "timer")

\* SoloInv holds when the load begins.
LEMMA SoloInit == Init => SoloInv
  BY SoloAlone DEF Init, SoloInv, Still

\* Every step keeps SoloInv: cancelling waits for the handler, del_timer does not.
LEMMA SoloStep == LoadInv /\ CallInv /\ HeldInv /\ SoloInv /\ [Next]_vars => SoloInv'
  <1> SUFFICES ASSUME LoadInv, CallInv, HeldInv, SoloInv, [Next]_vars, drv' \in Solos
               PROVE  /\ phase' = "load" /\ ~Armed(D, at)' => Still'
                      /\ phase' \in {"fail", "unload", "off"} /\ ~In(Solo(drv), plan)' =>
                           Still' \/ (raced' /\ Solo(drv)' = "timer")
    BY DEF SoloInv
  <1>0. drv' = drv
    BY DEF Next, Loader, Acquire, ArmIt, Follow, Overlook, Goes, Fail, Loaded, Unload, Release,
           Released, Call, Fire, Run, vars
  <1> DEFINE q == Solo(drv)
  <1>1. D' = D /\ Solo(drv)' = q /\ drv \in Solos
    BY <1>0 DEF D
  <1>2. /\ Alone(D, q) /\ Callbacks = {q} /\ q \in Deferred /\ bound
    BY <1>1, SoloAlone DEF HeldInv
  <1> HIDE DEF q
  <1>h. /\ phase = "load" /\ ~Armed(D, at) => q \notin pending /\ cb[q] = 0
        /\ phase \in {"fail", "unload", "off"} /\ ~In(q, plan) =>
             (q \notin pending /\ cb[q] = 0) \/ (raced /\ q = "timer")
    BY <1>1 DEF SoloInv, Still, q
  <1>g. SUFFICES
        /\ phase' = "load" /\ ~Armed(D, at') => q \notin pending' /\ cb'[q] = 0
        /\ phase' \in {"fail", "unload", "off"} /\ ~In(q, plan') =>
             (q \notin pending' /\ cb'[q] = 0) \/ (raced' /\ q = "timer")
    BY <1>1 DEF Still, q
  <1>n. at \in Nat \ {0} /\ Len(D.load) \in Nat /\ Orderly(D)
    BY Row1 DEF LoadInv, Orderly, Removes, Undoes
  <1>l. ASSUME NEW kinds, Loading(kinds)
        PROVE  phase = "load" /\ at \in 1..Len(D.load) /\ D.load[at].do \in kinds
    BY <1>l DEF Loading, LoadInv
  <1>a. at' = at + 1 => (~Armed(D, at') => ~Armed(D, at) /\ D.load[at].do # "arm")
    BY <1>n DEF Armed
  <1>3. CASE Acquire \/ Follow \/ Overlook
    <2>1. /\ phase = "load" /\ at' = at + 1 /\ UNCHANGED <<cb, pending>>
          /\ phase' \in {"load", "oops"}
      BY <1>3, <1>l DEF Acquire, Follow, Overlook, Goes
    <2> QED BY <2>1, <1>h, <1>a
  <1>4. CASE ArmIt
    <2>1. /\ phase = "load" /\ at' = at + 1 /\ phase' = phase /\ D.load[at].do = "arm"
      BY <1>4, <1>l DEF ArmIt, Goes
    <2> QED BY <2>1, <1>a
  <1>5. CASE Fail
    <2>1. /\ phase = "load" /\ phase' = "fail" /\ UNCHANGED <<cb, pending>>
          /\ at \in 1..Len(D.load) /\ D.load[at].do \in CanFail
      BY <1>5, <1>l DEF Fail, calls, CanFail
    <2> QED BY <2>1, <1>h, <1>2 DEF Alone
  <1>6. CASE Loaded
    BY <1>6 DEF Loaded
  <1>7. CASE Unload
    <2>1. /\ phase' = "unload"
          /\ plan' = (IF bound THEN D.remove \o <<"devres">> ELSE <<>>) \o D.exit
      BY <1>7 DEF Unload
    <2>2. In(q, (IF bound THEN D.remove \o <<"devres">> ELSE <<>>) \o D.exit)
      <3>1. /\ Listed(D.remove) /\ Listed(D.exit) /\ bound \in BOOLEAN
            /\ \A x : ~(In(x, D.remove) /\ In(x, D.exit))
        BY <1>n DEF Orderly, Removes, Undoes, LoadInv
      <3> DEFINE p == (IF bound THEN D.remove \o <<"devres">> ELSE <<>>) \o D.exit
      <3>2. \A x : In(x, p) <=> (bound /\ (In(x, D.remove) \/ x = "devres")) \/ In(x, D.exit)
        BY <3>1, UnloadPlan, Zenon
      <3> HIDE DEF p
      <3>3. In(q, p)
        BY <3>2, <1>2 DEF Alone
      <3> QED BY <3>3 DEF p
    <2> QED BY <2>1, <2>2
  <1>8. CASE Release
    <2>1. plan # <<>> /\ plan \in Seq(Planned) /\ Distinct(plan) /\ phase \in {"fail", "unload"}
      BY <1>8 DEF Release, LoadInv
    <2>2. \A x : In(x, Tail(plan)) <=> In(x, plan) /\ x # Head(plan)
      BY <2>1, Taken
    <2>3. UNCHANGED <<phase, cb>> /\ pending' \subseteq pending
      BY <1>8 DEF Release, GiveBack
    <2>r. raced => raced'
      BY <1>8, Zenon DEF Release, GiveBack
    <2>4. CASE Head(plan) = q
      <3>1. q # "devres"
        BY <1>2 DEF Deferred
      <3>2. GiveBack(q)
        BY <1>8, <2>4, <3>1 DEF Release
      <3>3. q \notin pending' /\ (cb[q] # 0 => q = "timer")
        BY <3>2, <1>2 DEF GiveBack, Waits, Quiet, Deferred
      <3>4. cb[q] # 0 /\ q = "timer" => raced'
        BY <3>2, <1>2, Zenon DEF GiveBack, Quiet
      <3> QED BY <3>3, <3>4, <2>1, <2>3
    <2>5. CASE Head(plan) # q
      <3>1. plan' \in {plan, Tail(plan)}
        BY <1>8 DEF Release
      <3>2. In(q, plan') <=> In(q, plan)
        BY <2>2, <2>5, <3>1
      <3> QED BY <2>1, <2>3, <2>r, <3>2, <1>h
    <2> QED BY <2>4, <2>5
  <1>9. CASE Released
    BY <1>9, <1>2, <1>h DEF Released, calls
  <1>10. CASE \E r \in Callbacks : Call(r)
    <2>1. Call(q) /\ UNCHANGED loader
      BY <1>2, <1>10 DEF Call, Fire, Run
    <2>2. Fire(q) => q \in pending
      BY <1>2 DEF Fire, Triggered, Deferred
    <2>3. Run(q) => cb[q] # 0
      BY DEF Run
    <2>4. q \in pending \/ cb[q] # 0
      BY <2>1, <2>2, <2>3 DEF Call
    <2> QED BY <2>1, <2>4, <1>h DEF loader
  <1>11. CASE UNCHANGED vars
    BY <1>11, <1>h DEF vars, calls, loader
  <1> QED
    BY <1>3, <1>4, <1>5, <1>6, <1>7, <1>8, <1>9, <1>10, <1>11 DEF Next, Loader

------------------------------------------------------------------------------
\* What NothingLeft needs.
LeftInv == LoadInv /\ CallInv /\ HeldInv /\ FileInv /\ SoloInv

\* Always: LeftInv.
LEMMA LeftAlways == Spec => []LeftInv
  <1>1. Init => LeftInv
    BY LoadInit, CallInit, HeldInit, FileInit, SoloInit DEF LeftInv
  <1>2. LeftInv /\ [Next]_vars => LeftInv'
    BY LoadStep, CallStep, HeldStep, FileStep, SoloStep DEF LeftInv
  <1> QED BY <1>1, <1>2, PTL DEF Spec

\* What is left when the driver is gone is what is kept, or what comes late.
LEMMA NoMoreIsLeft == LeftInv => NothingLeft
  <1> SUFFICES ASSUME LeftInv, phase = "off", NEW x \in Left PROVE x \in LeftBehind
    BY DEF NothingLeft
  <1>0. drv \in DOMAIN Table /\ plan = <<>> /\ \A y : ~In(y, <<>>)
    BY List0 DEF LeftInv, LoadInv, Lists
  <1>1. \A y \in held : y \in Deferred \cup Kept
    BY <1>0 DEF LeftInv, HeldInv
  <1>2. Kept \subseteq LeftBehind
    BY DEF Kept, Keeps, LeftBehind
  <1>3. CASE x \in held \ Deferred
    BY <1>1, <1>2, <1>3
  <1>4. x \notin held \ Deferred =>
          x \in Late(drv) /\ (x \in pending \/ (x \in Callbacks /\ cb[x] > 0))
    <2>1. SUFFICES ASSUME x \notin held \ Deferred,
                          x \in pending \/ (x \in Callbacks /\ cb[x] > 0)
                   PROVE  x \in Late(drv)
      BY DEF Left
    <2>2. CASE x \in pending
      BY <2>2 DEF LeftInv, CallInv
    <2>3. CASE x \in Callbacks /\ cb[x] > 0
      <3>1. x \in Deferred \cup {"cdev"}
        BY <2>1, <2>3 DEF LeftInv, CallInv
      <3> QED BY <2>3, <3>1, <1>0, Row1 DEF Callable, Handler, Callbacks
    <2> QED BY <2>1, <2>2, <2>3
  <1>5. CASE x \notin held \ Deferred /\ drv \in Solos
    <2>1. x = Solo(drv) /\ raced /\ Solo(drv) = "timer"
      BY <1>4, <1>5, <1>0, SoloAlone DEF LeftInv, SoloInv, Still
    <2>2. drv \in Repeats
      BY <2>1, <1>5 DEF Solos, Solo, Repeats
    <2> QED BY <2>1, <2>2 DEF LeftBehind, Repeats
  <1>6. CASE x \notin held \ Deferred /\ drv \notin Solos
    <2>1. drv # "chardev"
      <3> SUFFICES ASSUME drv = "chardev" PROVE FALSE
        OBVIOUS
      <3>1. Late(drv) = {"cdev"} /\ "cdev" \notin Deferred
        BY DEF Late, Deferred
      <3>2. x = "cdev" /\ cb["cdev"] > 0
        BY <1>4, <1>6, <3>1 DEF LeftInv, CallInv
      <3> QED BY <3>2 DEF LeftInv, FileInv
    <2>2. Late(drv) \subseteq LeftBehind
      BY <1>6, <2>1 DEF Late, LeftBehind, Solos, Repeats
    <2> QED BY <1>4, <1>6, <2>2
  <1> QED BY <1>3, <1>5, <1>6

\* A driver that is gone holds nothing, has nothing armed and runs nothing, wherever its load
\* has failed and however its callbacks fell, but for what LeftBehind names.
THEOREM LeavesNothing == Spec => []NothingLeft
  BY LeftAlways, NoMoreIsLeft, PTL

------------------------------------------------------------------------------
(* What the callbacks use. *)

\* The drivers whose only callback must not run without the pins, and that callback.
Watched == Repeats \cup {"hrtimer", "old_hrtimer", "hgpio", "old_hgpio", "hgpio_debounce"}

Watch(v) == CASE v \in Repeats                    -> "timer"
              [] v \in {"hrtimer", "old_hrtimer"} -> "hrtimer"
              [] OTHER                            -> "irq"

\* What the callback r of v uses.
Wants(v, r) == {x \in Things : <<r, x>> \in Uses(v)}

\* d gives back q and nothing else; it gets q after the pins of X, when nothing fails any more.
Watches(d, q, X) ==
  /\ d.remove = <<q>> /\ d.exit = <<>> /\ DOMAIN d.code = {q}
  /\ \A i \in 1..Len(d.load) :
       /\ d.load[i].do \in CanFail =>
            d.load[i].undo = <<>> /\ ~Armed(d, i) /\ ~Got(d, i, q)
       /\ d.load[i].do = "arm" \/ d.load[i].res = q => \A x \in X : Got(d, i, x)

\* timer.c, hrtimer.c, hgpio.c and hgpio-debounce.c do so.
LEMMA TimerWatches ==
  ASSUME NEW led, IsPin(led, "led")
  PROVE  Watches(TimerWith(led), "timer", {"led"})
  <1> DEFINE d == TimerWith(led)
  <1>1. /\ d.remove = <<"timer">> /\ d.exit = <<>> /\ DOMAIN d.code = {"timer"}
        /\ Len(d.load) = 2 /\ IsPin(d.load[1], "led") /\ d.load[2].do = "arm"
    BY DEF TimerWith, Probe, Arm, Step
  <1> HIDE DEF d
  <1>2. \A i \in 1..2 : i = 1 \/ i = 2
    OBVIOUS
  <1> QED BY <1>1, <1>2 DEF Watches, Armed, Got, Gets, CanFail, IsPin, d

LEMMA HrTimerWatches ==
  ASSUME NEW led, IsPin(led, "led")
  PROVE  Watches(HrTimerWith(led), "hrtimer", {"led"})
  <1> DEFINE d == HrTimerWith(led)
  <1>1. /\ d.remove = <<"hrtimer">> /\ d.exit = <<>> /\ DOMAIN d.code = {"hrtimer"}
        /\ Len(d.load) = 2 /\ IsPin(d.load[1], "led") /\ d.load[2].do = "arm"
    BY DEF HrTimerWith, Probe, Arm, Step
  <1> HIDE DEF d
  <1>2. \A i \in 1..2 : i = 1 \/ i = 2
    OBVIOUS
  <1> QED BY <1>1, <1>2 DEF Watches, Armed, Got, Gets, CanFail, IsPin, d

LEMMA HgpioWatches ==
  ASSUME NEW led, IsPin(led, "led"), NEW sw, IsPin(sw, "sw")
  PROVE  Watches(HgpioWith(led, sw), "irq", {"led"})
  <1> DEFINE d == HgpioWith(led, sw)
  <1>1. /\ d.remove = <<"irq">> /\ d.exit = <<>> /\ DOMAIN d.code = {"irq"}
        /\ Len(d.load) = 3 /\ IsPin(d.load[1], "led") /\ IsPin(d.load[2], "sw")
        /\ d.load[3] = [do |-> "ignored", res |-> "irq", undo |-> <<>>]
    BY DEF HgpioWith, Probe, Direct, Ignored, Step
  <1> HIDE DEF d
  <1>2. \A i \in 1..3 : i = 1 \/ i = 2 \/ i = 3
    OBVIOUS
  <1> QED BY <1>1, <1>2 DEF Watches, Armed, Got, Gets, CanFail, IsPin, d

LEMMA DebounceWatches == Watches(HgpioDebounce, "irq", {"led", "sw"})
  <1> DEFINE d == HgpioDebounce
  <1>1. /\ d.remove = <<"irq">> /\ d.exit = <<>> /\ DOMAIN d.code = {"irq"}
        /\ Len(d.load) = 3
        /\ d.load[1] = [do |-> "must", res |-> "led", undo |-> <<>>]
        /\ d.load[2] = [do |-> "must", res |-> "sw", undo |-> <<>>]
        /\ d.load[3] = [do |-> "must", res |-> "irq", undo |-> <<>>]
    BY DEF HgpioDebounce, Probe, Must, Step
  <1> HIDE DEF d
  <1>2. \A i \in 1..3 : i = 1 \/ i = 2 \/ i = 3
    OBVIOUS
  <1> QED BY <1>1, <1>2 DEF Watches, Armed, Got, Gets, CanFail, d

\* So do all of the watched drivers, and they have no other callback.
LEMMA WatchedWatches ==
  ASSUME drv \in Watched
  PROVE  /\ Watches(D, Watch(drv), Wants(drv, Watch(drv))) /\ Callbacks = {Watch(drv)}
         /\ Watch(drv) \in {"timer", "hrtimer", "irq"}
         /\ Watch(drv) = "timer" <=> drv \in Repeats
         /\ "table" \notin Keeps(drv)
  <1> DEFINE q == Watch(drv)
             X == Wants(drv, q)
  <1>1. drv \in Repeats => Watches(D, q, X)
    <2>1. drv \in Repeats => q = "timer" /\ X = {"led"}
      BY DEF Watch, Wants, Uses, Repeats, Things
    <2> HIDE DEF q, X
    <2>2. drv = "timer" => Watches(D, "timer", {"led"})
      BY TimerWatches, Pins DEF D, Table, TimerDriver
    <2>3. drv = "old_timer" => Watches(D, "timer", {"led"})
      BY TimerWatches, Pins DEF D, Table, OldTimer
    <2> QED BY <2>1, <2>2, <2>3 DEF Repeats
  <1>2. drv \in {"hrtimer", "old_hrtimer"} => Watches(D, q, X)
    <2>1. drv \in {"hrtimer", "old_hrtimer"} => q = "hrtimer" /\ X = {"led"}
      BY DEF Watch, Wants, Uses, Repeats, Things
    <2> HIDE DEF q, X
    <2>2. drv = "hrtimer" => Watches(D, "hrtimer", {"led"})
      BY HrTimerWatches, Pins DEF D, Table, HrTimer
    <2>3. drv = "old_hrtimer" => Watches(D, "hrtimer", {"led"})
      BY HrTimerWatches, Pins DEF D, Table, OldHrTimer
    <2> QED BY <2>1, <2>2, <2>3
  <1>3. drv \in {"hgpio", "old_hgpio"} => Watches(D, q, X)
    <2>1. drv \in {"hgpio", "old_hgpio"} => q = "irq" /\ X = {"led"}
      BY DEF Watch, Wants, Uses, Repeats, Things
    <2> HIDE DEF q, X
    <2>2. drv = "hgpio" => Watches(D, "irq", {"led"})
      BY HgpioWatches, Pins DEF D, Table, Hgpio
    <2>3. drv = "old_hgpio" => Watches(D, "irq", {"led"})
      BY HgpioWatches, Pins DEF D, Table, OldHgpio
    <2> QED BY <2>1, <2>2, <2>3
  <1>4. drv = "hgpio_debounce" => Watches(D, q, X)
    <2>1. drv = "hgpio_debounce" => q = "irq" /\ X = {"led", "sw"}
      BY DEF Watch, Wants, Uses, Repeats, Things
    <2> HIDE DEF q, X
    <2>2. drv = "hgpio_debounce" => Watches(D, "irq", {"led", "sw"})
      BY DebounceWatches DEF D, Table
    <2> QED BY <2>1, <2>2
  <1>5. Watches(D, Watch(drv), Wants(drv, Watch(drv)))
    BY <1>1, <1>2, <1>3, <1>4 DEF Watched
  <1>6. /\ Watch(drv) \in {"timer", "hrtimer", "irq"} /\ "table" \notin Keeps(drv)
        /\ Watch(drv) = "timer" <=> drv \in Repeats
    BY DEF Watched, Watch, Keeps, Repeats
  <1> QED BY <1>5, <1>6 DEF Watches, Callbacks

\* The plans of a watched driver.
LEMMA TwoPlans ==
  ASSUME NEW q
  PROVE  /\ (<<q>> \o <<"devres">>) \o <<>> = <<q, "devres">>
         /\ <<>> \o <<"devres">> = <<"devres">>
         /\ <<q, "devres">> # <<>> /\ Head(<<q, "devres">>) = q
         /\ Tail(<<q, "devres">>) = <<"devres">>
         /\ <<"devres">> # <<>> /\ Head(<<"devres">>) = "devres" /\ Tail(<<"devres">>) = <<>>
         /\ <<"devres">> # <<q, "devres">>
  <1>1. (<<q>> \o <<"devres">>) \o <<>> = <<q, "devres">>
    <2>1. <<q>> \o <<"devres">> = <<q, "devres">>
      <3> DEFINE S == {q, "devres"}
                 u == <<q>> \o <<"devres">>
                 t == <<q, "devres">>
      <3>1. <<q>> \in Seq(S) /\ <<"devres">> \in Seq(S) /\ t \in Seq(S) /\ Len(t) = 2
            /\ t[1] = q /\ t[2] = "devres"
        OBVIOUS
      <3>2. /\ u \in Seq(S) /\ Len(u) = 2 /\ u[1] = q /\ u[2] = "devres"
        BY ConcatProperties
      <3> HIDE DEF u, t
      <3>3. \A i \in 1..2 : i = 1 \/ i = 2
        OBVIOUS
      <3>4. \A i \in 1..Len(u) : u[i] = t[i]
        BY <3>1, <3>2, <3>3
      <3>5. u = t
        BY <3>1, <3>2, <3>4, SeqEqual, Zenon
      <3> QED BY <3>5 DEF u, t
    <2>2. <<q, "devres">> \o <<>> = <<q, "devres">>
      OBVIOUS
    <2> QED BY <2>1, <2>2
  <1>2. <<>> \o <<"devres">> = <<"devres">>
    OBVIOUS
  <1>3. <<q, "devres">> # <<>> /\ Head(<<q, "devres">>) = q
    OBVIOUS
  <1>4. Tail(<<q, "devres">>) = <<"devres">>
    OBVIOUS
  <1>5. <<"devres">> # <<>> /\ Head(<<"devres">>) = "devres" /\ Tail(<<"devres">>) = <<>>
    OBVIOUS
  <1>6. Len(<<"devres">>) = 1 /\ Len(<<q, "devres">>) = 2
    OBVIOUS
  <1> QED BY <1>1, <1>2, <1>3, <1>4, <1>5, <1>6

\* The callback q runs or may be called.
Busy(q) == q \in held \cup pending \/ cb[q] > 0
\* del_timer has run beside the handler.
Beside  == raced /\ drv \in Repeats

\* Once it has failed or is being unloaded, a watched driver gives back first what calls
\* back; until then the callback has its pins.
WatchInv ==
  drv \in Watched =>
    LET q == Watch(drv) IN
    /\ plan \in {<<>>, <<"devres">>, <<q, "devres">>}
    /\ phase = "load" /\ Busy(q) => Armed(D, at) \/ Got(D, at, q)
    /\ phase \in {"fail", "unload", "off"} /\ Busy(q) => plan = <<q, "devres">> \/ Beside
    /\ Busy(q) => Wants(drv, q) \subseteq held \cup lost \/ Beside

\* WatchInv holds when the load begins.
LEMMA WatchInit == Init => WatchInv
  <1> SUFFICES ASSUME Init, drv \in Watched PROVE ~Busy(Watch(drv)) /\ plan = <<>> /\ phase = "load"
    BY DEF WatchInv
  <1> QED BY WatchedWatches DEF Init, Busy

\* Every step keeps WatchInv.
LEMMA WatchStep == LoadInv /\ CallInv /\ HeldInv /\ WatchInv /\ [Next]_vars => WatchInv'
  <1> SUFFICES ASSUME LoadInv, CallInv, HeldInv, WatchInv, [Next]_vars, drv' \in Watched
               PROVE  WatchInv'
    BY DEF WatchInv
  <1>0. drv' = drv
    BY DEF Next, Loader, Acquire, ArmIt, Follow, Overlook, Goes, Fail, Loaded, Unload, Release,
           Released, Call, Fire, Run, vars
  <1> DEFINE q == Watch(drv)
             X == Wants(drv, q)
  <1>1. /\ D' = D /\ drv \in Watched /\ Watch(drv)' = q /\ Wants(drv, q)' = X
    BY <1>0 DEF D, Wants
  <1>2. /\ Watches(D, q, X) /\ Callbacks = {q} /\ bound /\ q \in {"timer", "hrtimer", "irq"}
        /\ q = "timer" <=> drv \in Repeats
    BY <1>1, WatchedWatches DEF HeldInv
  <1>q. q' = q
    BY <1>0
  <1> HIDE DEF q, X
  <1>h. /\ plan \in {<<>>, <<"devres">>, <<q, "devres">>}
        /\ phase = "load" /\ Busy(q) => Armed(D, at) \/ Got(D, at, q)
        /\ phase \in {"fail", "unload", "off"} /\ Busy(q) => plan = <<q, "devres">> \/ Beside
        /\ Busy(q) => X \subseteq held \cup lost \/ Beside
    BY <1>1 DEF WatchInv, q, X
  <1>g. SUFFICES
        /\ plan' \in {<<>>, <<"devres">>, <<q, "devres">>}
        /\ phase' = "load" /\ Busy(q)' => Armed(D, at') \/ Got(D, at', q)
        /\ phase' \in {"fail", "unload", "off"} /\ Busy(q)' => plan' = <<q, "devres">> \/ Beside'
        /\ Busy(q)' => X \subseteq held' \cup lost' \/ Beside'
    BY <1>1 DEF WatchInv, q, X
  <1>n. at \in Nat \ {0} /\ Len(D.load) \in Nat /\ Orderly(D)
    BY Row1 DEF LoadInv, Orderly, Removes, Undoes
  <1>l. ASSUME NEW kinds, Loading(kinds)
        PROVE  phase = "load" /\ at \in 1..Len(D.load) /\ D.load[at].do \in kinds
    BY <1>l DEF Loading, LoadInv
  <1>a. at' = at + 1 =>
          /\ Armed(D, at) \/ Got(D, at, q) => Armed(D, at') \/ Got(D, at', q)
          /\ D.load[at].do = "arm" => Armed(D, at')
          /\ D.load[at].do \in Gets /\ D.load[at].res = q => Got(D, at', q)
    BY <1>n DEF Armed, Got
  <1>b. raced' = raced => (Beside' <=> Beside)
    BY <1>0 DEF Beside
  <1>p. phase = "load" => \A x \in X : Got(D, at, x) => x \in held \cup lost
    BY DEF LoadInv
  <1>4. CASE Acquire
    <2>1. /\ phase = "load" /\ at \in 1..Len(D.load) /\ at' = at + 1
          /\ D.load[at].do \in Gets \cup {"try", "find"}
          /\ held' = IF D.load[at].do \in {"try", "find"} THEN held
                     ELSE held \cup {D.load[at].res}
          /\ UNCHANGED <<plan, phase, lost, cb, pending, raced>>
      BY <1>4, <1>l DEF Acquire, Goes, Loading, Gets
    <2>2. Busy(q)' => Busy(q) \/ (D.load[at].do \in Gets /\ D.load[at].res = q)
      BY <1>q, <2>1 DEF Busy
    <2>3. D.load[at].res = q => X \subseteq held \cup lost
      BY <2>1, <1>2, <1>p DEF Watches
    <2> QED BY <2>1, <2>2, <2>3, <1>h, <1>a, <1>b
  <1>5. CASE ArmIt
    <2>1. /\ phase = "load" /\ at \in 1..Len(D.load) /\ at' = at + 1 /\ D.load[at].do = "arm"
          /\ UNCHANGED <<plan, phase, lost, held, raced>>
      BY <1>5, <1>l DEF ArmIt, Goes
    <2>2. X \subseteq held \cup lost
      BY <2>1, <1>2, <1>p DEF Watches
    <2> QED BY <2>1, <2>2, <1>h, <1>a, <1>b
  <1>6. CASE Follow \/ Overlook
    <2>1. /\ phase = "load" /\ at' = at + 1 /\ UNCHANGED <<plan, held, cb, pending, raced>>
          /\ phase' \in {"load", "oops"} /\ lost \subseteq lost'
      BY <1>6, <1>l DEF Follow, Overlook, Goes
    <2>2. Busy(q)' <=> Busy(q)
      BY <1>q, <2>1 DEF Busy
    <2> QED BY <2>1, <2>2, <1>h, <1>a, <1>b
  <1>7. CASE Fail
    <2>1. /\ phase = "load" /\ phase' = "fail" /\ UNCHANGED <<held, cb, pending>>
          /\ at \in 1..Len(D.load) /\ D.load[at].do \in CanFail
          /\ plan' = D.load[at].undo \o <<"devres">>
      BY <1>7, <1>l DEF Fail, calls, CanFail
    <2>2. D.load[at].undo = <<>> /\ ~Armed(D, at) /\ ~Got(D, at, q)
      BY <2>1, <1>2 DEF Watches
    <2>3. ~Busy(q)'
      BY <1>q, <2>1, <2>2, <1>h DEF Busy
    <2> QED BY <2>1, <2>2, <2>3, TwoPlans
  <1>8. CASE Loaded
    <2>1. phase' = "up" /\ UNCHANGED <<plan, held, lost, cb, pending, raced>>
      BY <1>8 DEF Loaded, calls
    <2>2. Busy(q)' <=> Busy(q)
      BY <1>q, <2>1 DEF Busy
    <2> QED BY <2>1, <2>2, <1>h, <1>b
  <1>9. CASE Unload
    <2>1. /\ phase' = "unload" /\ UNCHANGED <<held, lost, cb, pending, raced>>
          /\ plan' = (IF bound THEN D.remove \o <<"devres">> ELSE <<>>) \o D.exit
      BY <1>9 DEF Unload, calls
    <2>2. plan' = (D.remove \o <<"devres">>) \o D.exit /\ D.remove = <<q>> /\ D.exit = <<>>
      BY <2>1, <1>2 DEF Watches
    <2>3. plan' = <<q, "devres">>
      BY <2>2, TwoPlans
    <2>4. Busy(q)' <=> Busy(q)
      BY <1>q, <2>1 DEF Busy
    <2> QED BY <2>1, <2>3, <2>4, <1>h, <1>b
  <1>10. CASE Release
    <2>1. /\ plan # <<>> /\ phase \in {"fail", "unload"}
      BY <1>10 DEF Release, LoadInv
    <2>2. UNCHANGED <<phase, cb, lost, drv>> /\ pending' \subseteq pending /\ held' \subseteq held
      BY <1>10 DEF Release, GiveBack
    <2>3. Busy(q)' => Busy(q)
      BY <1>q, <2>2 DEF Busy
    <2>4. Beside => Beside'
      BY <1>10, <1>0, Zenon DEF Release, GiveBack, Beside
    <2>5. CASE plan = <<q, "devres">>
      <3>1. Head(plan) = q /\ q # "devres" /\ Tail(plan) = <<"devres">>
        BY <2>5, <1>2, TwoPlans
      <3>2. GiveBack(q) /\ plan' = <<"devres">>
        BY <1>10, <3>1 DEF Release
      <3>3. q \notin held' /\ q \notin pending' /\ (cb[q] > 0 => q = "timer" /\ ~Quiet(q))
        BY <3>2, <1>2 DEF GiveBack, Waits, Quiet
      <3>4. q = "timer" /\ ~Quiet(q) => Beside'
        BY <3>2, <1>2, <1>0, Zenon DEF GiveBack, Beside
      <3>5. Busy(q)' => Beside'
        BY <1>q, <3>3, <3>4, <2>2 DEF Busy
      <3> QED BY <3>2, <3>5, <2>1, <2>2
    <2>6. CASE plan = <<"devres">>
      <3>1. Head(plan) = "devres" /\ Tail(plan) = <<>>
        BY <2>6, TwoPlans
      <3>2. plan' \in {<<>>, <<"devres">>}
        BY <1>10, <2>6, <3>1 DEF Release
      <3>3. Busy(q)' => Beside'
        BY <2>1, <2>3, <2>4, <2>6, <1>h, TwoPlans
      <3> QED BY <3>2, <3>3, <2>1, <2>2
    <2> QED BY <2>1, <2>5, <2>6, <1>h
  <1>11. CASE Released
    <2>1. /\ phase \in {"fail", "unload"} /\ plan = <<>> /\ phase' = "off"
          /\ UNCHANGED <<plan, held, lost, cb, pending, raced>>
      BY <1>11, <1>2 DEF Released, calls
    <2>2. Busy(q)' => Beside'
      BY <1>q, <2>1, <1>h, <1>b, TwoPlans DEF Busy
    <2> QED BY <2>1, <2>2
  <1>12. CASE \E r \in Callbacks : Call(r)
    <2>1. Call(q) /\ UNCHANGED loader
      BY <1>2, <1>12 DEF Call, Fire, Run
    <2>2. Fire(q) => Busy(q)
      BY <1>2 DEF Fire, Triggered, Deferred, Busy, Holds
    <2>3. Run(q) => Busy(q)
      BY DEF Run, Busy
    <2>4. Busy(q)
      BY <2>1, <2>2, <2>3 DEF Call
    <2> QED BY <2>1, <2>4, <1>h, <1>b DEF loader
  <1>13. CASE UNCHANGED vars
    <2>1. Busy(q)' <=> Busy(q)
      BY <1>q, <1>13 DEF Busy, vars, calls, loader
    <2> QED BY <1>13, <2>1, <1>h, <1>b DEF vars, calls, loader
  <1> QED
    BY <1>4, <1>5, <1>6, <1>7, <1>8, <1>9, <1>10, <1>11, <1>12, <1>13 DEF Next, Loader

\* The interrupt of the gpio-sim drivers is managed, as the pins are, and was got last.
Sims == {"sim_int", "sim_debounce"}

\* d gets the switch, then the LED, then the interrupt, all managed.
Managing(d) ==
  /\ Len(d.load) >= 6 /\ DOMAIN d.load = 1..Len(d.load)
  /\ \A i \in 1..Len(d.load) :
       /\ d.load[i].res = "sw" => i = 4
       /\ d.load[i].res = "led" => i = 5
       /\ d.load[i].res = "mirq" => i = 6
  /\ d.load[4].res = "sw" /\ d.load[4].do = "enough"
  /\ d.load[5].res = "led" /\ d.load[5].do = "enough"
  /\ d.load[6].res = "mirq" /\ d.load[6].do = "bound"

\* gpio-sim-int.c and gpio-sim-debounce.c do so.
LEMMA SimsManage ==
  ASSUME drv \in Sims
  PROVE  Managing(D)
  <1>1. Managing(SimInt)
    <2> DEFINE d == SimInt
    <2>1. /\ Len(d.load) = 6 /\ DOMAIN d.load = 1..6
          /\ d.load[1].res = "pdev" /\ d.load[2].res = "driver" /\ d.load[3].res = "table"
          /\ d.load[4] = Enough("sw") /\ d.load[5] = Enough("led") /\ d.load[6] = Bound("mirq")
      BY DEF SimInt, Sim, Must, MustOr, Setup, Step
    <2> HIDE DEF d
    <2>2. \A i \in 1..6 : i = 1 \/ i = 2 \/ i = 3 \/ i = 4 \/ i = 5 \/ i = 6
      OBVIOUS
    <2> QED BY <2>1, <2>2 DEF Managing, Enough, Bound, Step, d
  <1>2. Managing(SimDebounce)
    <2> DEFINE d == SimDebounce
    <2>1. /\ Len(d.load) = 7 /\ DOMAIN d.load = 1..7
          /\ d.load[1].res = "pdev" /\ d.load[2].res = "driver" /\ d.load[3].res = "table"
          /\ d.load[4] = Enough("sw") /\ d.load[5] = Enough("led") /\ d.load[6] = Bound("mirq")
          /\ d.load[7].res = "work"
      BY DEF SimDebounce, Sim, Must, MustOr, Setup, Step
    <2> HIDE DEF d
    <2>2. \A i \in 1..7 : i = 1 \/ i = 2 \/ i = 3 \/ i = 4 \/ i = 5 \/ i = 6 \/ i = 7
      OBVIOUS
    <2> QED BY <2>1, <2>2 DEF Managing, Enough, Bound, Step, d
  <1> QED BY <1>1, <1>2 DEF Sims, D, Table

\* As long as the interrupt of a gpio-sim driver can come, its pins are there.
SimInv == drv \in Sims /\ "mirq" \in held => {"led", "sw"} \subseteq held \cup lost

\* SimInv holds when the load begins.
LEMMA SimInit == Init => SimInv
  BY DEF Init, SimInv

\* Every step keeps SimInv: the driver core gives back the interrupt before the pins.
LEMMA SimStep == LoadInv /\ SimInv /\ [Next]_vars => SimInv'
  <1> SUFFICES ASSUME LoadInv, SimInv, [Next]_vars, drv' \in Sims, "mirq" \in held'
               PROVE  {"led", "sw"} \subseteq held' \cup lost'
    BY DEF SimInv
  <1>0. drv' = drv /\ drv \in Sims
    BY DEF Next, Loader, Acquire, ArmIt, Follow, Overlook, Goes, Fail, Loaded, Unload, Release,
           Released, Call, Fire, Run, vars
  <1>1. Managing(D) /\ at \in Nat \ {0}
    BY <1>0, SimsManage, Row1 DEF LoadInv, Orderly, Removes, Undoes
  <1>l. ASSUME NEW kinds, Loading(kinds)
        PROVE  phase = "load" /\ at \in 1..Len(D.load) /\ D.load[at].do \in kinds
    BY <1>l DEF Loading, LoadInv
  <1>2. CASE Acquire
    <2>1. /\ phase = "load" /\ at \in 1..Len(D.load) /\ lost' = lost
          /\ held' = IF D.load[at].do \in {"try", "find"} THEN held
                     ELSE held \cup {D.load[at].res}
      BY <1>2, <1>l DEF Acquire, Loading
    <2>2. CASE D.load[at].res = "mirq"
      <3>1. at = 6
        BY <2>1, <2>2, <1>1 DEF Managing
      <3>2. Got(D, at, "sw") /\ Got(D, at, "led")
        <4>1. 4 \in 1..(at - 1) /\ 5 \in 1..(at - 1)
          BY <3>1
        <4> QED BY <4>1, <1>1 DEF Got, Gets, Managing
      <3> QED BY <2>1, <3>2 DEF LoadInv
    <2>3. CASE D.load[at].res # "mirq"
      BY <2>1, <2>3, <1>0 DEF SimInv
    <2> QED BY <2>2, <2>3
  <1>3. CASE Release
    <2>1. /\ plan # <<>> /\ plan \in Seq(Planned) /\ lost' = lost
      BY <1>3 DEF Release, LoadInv
    <2>2. CASE Head(plan) # "devres"
      <3>1. held' = held \ {Head(plan)} /\ Head(plan) \in Planned
        BY <1>3, <2>1, <2>2 DEF Release, GiveBack
      <3>2. Head(plan) \notin Managed
        BY <2>2, <3>1 DEF Planned, Own
      <3> QED BY <2>1, <3>1, <3>2, <1>0 DEF SimInv, Managed
    <2>3. CASE Head(plan) = "devres" /\ Devres # {}
      <3>1. held' = held \ {Latest}
        BY <1>3, <2>3 DEF Release, GiveBack
      <3>2. "mirq" \in Devres
        BY <3>1 DEF Devres, Managed
      <3>3. Position(Latest) >= Position("mirq")
        <4>1. \A q \in Devres : Position(q) <= Position(Latest)
          BY <2>3, LatestIs DEF LoadInv
        <4>2. Position("mirq") <= Position(Latest)
          BY <3>2, <4>1
        <4> QED BY <4>2
      <3>4. Position("mirq") = 6 /\ Position("led") = 5 /\ Position("sw") = 4
        BY <1>1 DEF Position, Managing
      <3>5. Latest # "led" /\ Latest # "sw"
        BY <3>3, <3>4
      <3> QED BY <2>1, <3>1, <3>5, <1>0 DEF SimInv
    <2>4. CASE Head(plan) = "devres" /\ Devres = {}
      BY <1>3, <2>1, <2>4, <1>0 DEF Release, SimInv
    <2> QED BY <2>2, <2>3, <2>4
  <1>4. CASE held' = held /\ lost \subseteq lost'
    BY <1>4, <1>0 DEF SimInv
  <1> QED
    BY <1>2, <1>3, <1>4 DEF Next, Loader, ArmIt, Follow, Overlook, Goes, Fail, Loaded, Unload,
       Released, Call, Fire, Run, loader, vars

------------------------------------------------------------------------------
\* A driver outside backup/ follows a pointer only when the call that returned it was looked
\* at, but for class.c.
Careful == {"gpio_list", "gpio_multi"}

\* gpio-list.c and gpio-multi.c look at all that they follow.
LEMMA CarefulCode ==
  ASSUME drv \in Careful
  PROVE  \A i \in 1..Len(D.load) : D.load[i].do \notin Skips
  <1>1. \A i \in 1..Len(GpioList.load) : GpioList.load[i].do \notin Skips
    <2> DEFINE d == GpioList
    <2>1. /\ Len(d.load) = 8
          /\ d.load[1].do = "must" /\ d.load[2].do = "must" /\ d.load[3].do = "must"
          /\ d.load[4].do = "must" /\ d.load[5].do = "deref" /\ d.load[6].do = "deref"
          /\ d.load[7].do = "deref" /\ d.load[8].do = "deref"
      BY DEF GpioList, Probe, Must, Deref, Step
    <2> HIDE DEF d
    <2>2. \A i \in 1..8 : i = 1 \/ i = 2 \/ i = 3 \/ i = 4 \/ i = 5 \/ i = 6 \/ i = 7 \/ i = 8
      OBVIOUS
    <2> QED BY <2>1, <2>2 DEF Skips, d
  <1>2. \A i \in 1..Len(GpioMulti.load) : GpioMulti.load[i].do \notin Skips
    <2> DEFINE d == GpioMulti
    <2>1. /\ Len(d.load) = 6
          /\ d.load[1].do = "must" /\ d.load[2].do = "must" /\ d.load[3].do = "deref"
          /\ d.load[4].do = "try" /\ d.load[5].do = "deref" /\ d.load[6].do = "try"
      BY DEF GpioMulti, GpioMultiWith, Probe, Must, Deref, Try, Step
    <2> HIDE DEF d
    <2>2. \A i \in 1..6 : i = 1 \/ i = 2 \/ i = 3 \/ i = 4 \/ i = 5 \/ i = 6
      OBVIOUS
    <2> QED BY <2>1, <2>2 DEF Skips, d
  <1> QED BY <1>1, <1>2 DEF Careful, D, Table

\* They have overlooked nothing, and no one else outside backup/ but class.c can crash.
OopsInv ==
  /\ drv \in Careful => lost = {}
  /\ phase = "oops" => drv \in Old \cup {"class"}

\* OopsInv holds when the load begins.
LEMMA OopsInit == Init => OopsInv
  BY DEF Init, OopsInv

\* Every step keeps OopsInv.
LEMMA OopsStep == LoadInv /\ OopsInv /\ [Next]_vars => OopsInv'
  <1> SUFFICES ASSUME LoadInv, OopsInv, [Next]_vars PROVE OopsInv'
    OBVIOUS
  <1>l. ASSUME NEW kinds, Loading(kinds)
        PROVE  phase = "load" /\ at \in 1..Len(D.load) /\ D.load[at].do \in kinds
    BY <1>l DEF Loading, LoadInv
  <1>1. CASE Follow
    <2>1. /\ at \in 1..Len(D.load) /\ D.load[at].do = "deref" /\ UNCHANGED <<drv, lost>>
          /\ phase' = "oops" => D.load[at].res \in lost
      BY <1>1, <1>l DEF Follow, Goes
    <2>2. "deref" \in Does(drv)
      BY <2>1, Row1 DEF LoadInv, Callable
    <2>3. drv \in Follows
      BY <2>2 DEF Does, Kinds
    <2>4. drv \in Careful \cup Old \cup {"class"}
      BY <2>3 DEF Follows, Careful, Old
    <2> QED BY <2>1, <2>4 DEF OopsInv
  <1>2. CASE Overlook
    <2>1. /\ at \in 1..Len(D.load) /\ D.load[at].do \in Skips /\ UNCHANGED <<drv, phase>>
      BY <1>2, <1>l DEF Overlook, Goes, Skips
    <2> QED BY <2>1, CarefulCode DEF OopsInv
  <1>3. CASE UNCHANGED <<drv, lost>> /\ (phase' # "oops" \/ phase' = phase)
    BY <1>3 DEF OopsInv
  <1>4. CASE Acquire \/ ArmIt \/ Fail \/ Loaded \/ Unload \/ Release \/ Released
    BY <1>4, <1>3 DEF Acquire, ArmIt, Fail, Loaded, Unload, Release, Released, Goes
  <1>5. CASE UNCHANGED vars \/ \E r \in Callbacks : Call(r)
    BY <1>5, <1>3 DEF vars, loader, Call, Fire, Run
  <1> QED
    BY <1>1, <1>2, <1>4, <1>5 DEF Next, Loader

\* What UsesWhatItHolds lets be used when it is not held.
Pardoned(m) ==
  \/ m[1] \in LeftBehind
  \/ drv = "wq" /\ m[1] = "work"
  \/ m = <<"mirq", "work">>
  \/ m = <<"sysctl", "led">>

\* All that was ever used without being held is pardoned.
UseInv == \A m \in misused : Pardoned(m)

\* UseInv holds when the load begins.
LEMMA UseInit == Init => UseInv
  BY DEF Init, UseInv

\* What is pardoned stays so: the ways out of LeftBehind are never undone.
LEMMA StillPardoned ==
  ASSUME LoadInv, [Next]_vars, NEW m, Pardoned(m)
  PROVE  Pardoned(m)' /\ drv' = drv
  <1>1. drv' = drv
    BY DEF Next, Loader, Acquire, ArmIt, Follow, Overlook, Goes, Fail, Loaded, Unload, Release,
           Released, Call, Fire, Run, vars
  <1>2. bound' => bound
    <2>1. CASE Fail
      BY <2>1 DEF Fail, Loading, LoadInv
    <2>2. CASE ~Fail
      BY <2>2 DEF Next, Loader, Acquire, ArmIt, Follow, Overlook, Goes, Loaded, Unload, Release,
                  Released, Call, Fire, Run, loader, vars
    <2> QED BY <2>1, <2>2
  <1>3. raced => raced'
    <2>1. CASE Release
      BY <2>1, Zenon DEF Release, GiveBack
    <2>2. CASE ~Release
      <3>1. raced' = raced
        BY <2>2 DEF Next, Loader, Acquire, ArmIt, Follow, Overlook, Goes, Fail, Loaded, Unload,
                    Released, Call, Fire, Run, loader, vars
      <3> QED BY <3>1
    <2> QED BY <2>1, <2>2
  <1>4. LeftBehind \subseteq LeftBehind'
    <2>1. CASE drv \in {"timer", "old_timer"}
      BY <1>1, <1>3, <2>1 DEF LeftBehind
    <2>2. CASE drv \in {"sim_int", "sim_debounce"}
      BY <1>1, <1>2, <2>2 DEF LeftBehind
    <2>3. CASE drv \notin {"timer", "old_timer", "sim_int", "sim_debounce"}
      BY <1>1, <2>3 DEF LeftBehind
    <2> QED BY <2>1, <2>2, <2>3
  <1> QED BY <1>1, <1>4 DEF Pardoned

\* The page of chardev.c is there as long as its file is open.
LEMMA PageIsThere ==
  ASSUME LoadInv, FileInv, drv = "chardev", cb["cdev"] > 0
  PROVE  "page" \in held \cup lost
  <1>1. /\ D.exit = <<"device", "class", "cdev", "region", "page">>
        /\ D.load[1].do = "must" /\ D.load[1].res = "page"
    BY DEF D, Table, CharDevDriver, Module, Must, Step
  <1>2. CASE phase = "up"
    <2>1. In("page", D.exit)
      <3> DEFINE e == D.exit
      <3>1. e[5] = "page" /\ Len(e) = 5
        BY <1>1
      <3> HIDE DEF e
      <3>2. In("page", e)
        BY <3>1 DEF In
      <3> QED BY <3>2 DEF e
    <2>2. "page" \in Known
      BY <1>2, <2>1 DEF LoadInv
    <2> QED BY <2>2 DEF Known, Timers
  <1>3. CASE phase = "load" /\ at = 6
    <2>1. 1 \in 1..(at - 1)
      BY <1>3
    <2>2. Got(D, at, "page")
      BY <1>1, <2>1 DEF Got, Gets
    <2> QED BY <1>3, <2>2 DEF LoadInv
  <1> QED BY <1>2, <1>3 DEF FileInv

\* A callback uses what is held, or what it may use without.
LEMMA OneUse ==
  ASSUME LoadInv, CallInv, FileInv, WatchInv, SimInv, NEW r \in Callbacks, NEW x \in Things,
         cb[r] > 0, <<r, x>> \in Uses(drv), drv \in DOMAIN Table
  PROVE  x \in held \cup lost \/ Pardoned(<<r, x>>)
  <1>1. CASE drv \in Watched
    <2> DEFINE q == Watch(drv)
    <2>1. r = q /\ x \in Wants(drv, q) /\ Busy(q)
      BY <1>1, WatchedWatches DEF Wants, Busy
    <2>2. x \in held \cup lost \/ Beside
      BY <1>1, <2>1 DEF WatchInv
    <2>3. Beside => q \in LeftBehind
      BY <1>1, WatchedWatches DEF Beside, Repeats, LeftBehind
    <2> QED BY <2>1, <2>2, <2>3 DEF Pardoned
  <1>2. CASE drv \in Sims
    <2>1. \/ r = "mirq" /\ x \in {"led", "sw"}
          \/ r = "mirq" /\ x = "work"
          \/ drv = "sim_debounce" /\ r = "work"
      BY <1>2 DEF Uses, Sims
    <2>2. r = "mirq" => "mirq" \in held
      BY DEF CallInv, Deferred
    <2>3. drv = "sim_debounce" => "work" \in LeftBehind
      BY DEF LeftBehind
    <2> QED BY <1>2, <2>1, <2>2, <2>3 DEF SimInv, Pardoned
  <1>3. CASE drv = "chardev"
    <2>1. r = "cdev" /\ x = "page"
      BY <1>3 DEF Uses
    <2> QED BY <1>3, <2>1, PageIsThere
  <1>4. CASE drv \notin Watched \cup Sims \cup {"chardev"}
    <2>1. r \in LeftBehind \/ (drv = "wq" /\ r = "work") \/ <<r, x>> = <<"sysctl", "led">>
      BY <1>4 DEF Uses, LeftBehind, Watched, Sims, Repeats
    <2> QED BY <2>1 DEF Pardoned
  <1> QED BY <1>1, <1>2, <1>3, <1>4

\* Callbacks use resources.
LEMMA UsesThings ==
  ASSUME NEW v, NEW r, NEW x, <<r, x>> \in Uses(v)
  PROVE  x \in Things
  BY DEF Uses, Things

\* Every step keeps UseInv.
LEMMA UseStep ==
  ASSUME LoadInv, CallInv, FileInv, WatchInv, SimInv, UseInv, [Next]_vars
  PROVE  UseInv'
  <1>1. ASSUME misused' = misused PROVE UseInv'
    BY <1>1, StillPardoned DEF UseInv
  <1>2. CASE \E r \in Callbacks : Run(r)
    <2>1. PICK r \in Callbacks : Run(r)
      BY <1>2
    <2> DEFINE op == D.code[r][cb[r]]
    <2>2. /\ cb[r] > 0
          /\ op.do = "use" => <<r, op.res>> \in Uses(drv)
          /\ misused' = IF op.do = "use" /\ ~Holds(op.res) /\ op.res \notin lost
                        THEN misused \cup {<<r, op.res>>} ELSE misused
      BY <2>1, OneStatement DEF Run
    <2> HIDE DEF op
    <2>3. CASE op.do = "use" /\ ~Holds(op.res) /\ op.res \notin lost
      <3>1. op.res \in Things
        BY <2>2, <2>3, UsesThings, Zenon
      <3>2. Pardoned(<<r, op.res>>)
        <4>1. /\ cb[r] > 0 /\ <<r, op.res>> \in Uses(drv) /\ drv \in DOMAIN Table
              /\ op.res \notin held \cup lost
          BY <2>2, <2>3 DEF Holds, LoadInv
        <4> QED BY <4>1, <3>1, OneUse, Zenon
      <3>3. \A m \in misused' : Pardoned(m)
        BY <2>2, <3>2 DEF UseInv
      <3> QED BY <3>3, StillPardoned DEF UseInv
    <2> QED BY <1>1, <2>2, <2>3
  <1>3. CASE ~\E r \in Callbacks : Run(r)
    <2>1. misused' = misused
      BY <1>3 DEF Next, Loader, Acquire, ArmIt, Follow, Overlook, Goes, Fail, Loaded, Unload,
                  Release, Released, Call, Fire, calls, loader, vars
    <2> QED BY <1>1, <2>1
  <1> QED BY <1>2, <1>3

\* No callback uses a pin, a page or work that the driver does not hold, and no load follows
\* the pointer of a call that failed, but for the cases UsesWhatItHolds names: the order in
\* which the drivers get and give back keeps the pins behind what calls.
THEOREM UsesHeld == Spec => []UsesWhatItHolds
  <1> DEFINE Inv == LeftInv /\ WatchInv /\ SimInv /\ OopsInv /\ UseInv
  <1>1. Init => Inv
    BY LoadInit, CallInit, HeldInit, FileInit, SoloInit, WatchInit, SimInit, OopsInit, UseInit
    DEF LeftInv
  <1>2. Inv /\ [Next]_vars => Inv'
    BY LoadStep, CallStep, HeldStep, FileStep, SoloStep, WatchStep, SimStep, OopsStep, UseStep
    DEF LeftInv
  <1>3. Inv => UsesWhatItHolds
    BY DEF OopsInv, UseInv, Pardoned, UsesWhatItHolds
  <1> QED BY <1>1, <1>2, <1>3, PTL DEF Spec
===============================================================================
