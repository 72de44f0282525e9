---------------------------- MODULE ProgramsProofs ----------------------------
(***************************************************************************)
(* The counter of API/pthread.c for every length of its loops, the calls   *)
(* of pygpio.c for every file, buffer and chip, the server of              *)
(* epoll_server.c for every number of clients and requests, and the        *)
(* displays whatever was lit before.                                       *)
(***************************************************************************)
EXTENDS Programs, SequenceTheorems, WellFoundedInduction, TLAPS

------------------------------------------------------------------------------
(* Counter. *)

\* Stores that thread t has made.
Stores(t) == i[t] + (IF step[t] = "unlock" THEN 1 ELSE 0)

CounterType ==
  /\ mx \in BOOLEAN
  /\ comm \in Nat /\ lock \in {0, 1, 2}
  /\ reg \in [{1, 2} -> Nat] /\ i \in [{1, 2} -> 0..LOOP]
  /\ step \in [{1, 2} -> {"lock", "load", "store", "unlock"}]

\* The mutex is held by the thread that counts; nothing is lost.
Exact ==
  mx => /\ \A t \in {1, 2} : step[t] # "lock" <=> lock = t
        /\ \A t \in {1, 2} : step[t] = "store" => reg[t] = comm
        /\ comm = Stores(1) + Stores(2)

\* No store writes 0, so that a thread's second store writes at least 2.
Bounded ==
  /\ comm <= Stores(1) + Stores(2)
  /\ \A t \in {1, 2} : reg[t] <= Stores(1) + Stores(2)
  /\ \A t \in {1, 2} : Stores(t) >= 1 => comm >= 1
  /\ \A t \in {1, 2} : step[t] = "store" /\ i[t] >= 1 => reg[t] >= 1
  /\ Stores(1) >= 2 /\ Stores(2) >= 2 => comm >= 2

\* A thread that has finished is between two iterations.
Finished == \A t \in {1, 2} : i[t] = LOOP => step[t] = "lock"

CounterInv == CounterType /\ Exact /\ Bounded /\ Finished

\* The counter starts with the invariant.
LEMMA CounterStart ==
  ASSUME Init PROVE CounterInv
  BY ConstantsAssumption DEF Init, Counter!Init, Counter!Threads, CounterInv, CounterType, Exact,
     Bounded, Finished, Stores

\* Every step of a thread keeps it.
LEMMA CounterKept ==
  ASSUME CounterInv, NEW t \in {1, 2},
         Counter!Lock(t) \/ Counter!Load(t) \/ Counter!Store(t) \/ Counter!Unlock(t)
  PROVE  CounterInv'
  <1> USE ConstantsAssumption DEF CounterInv, CounterType, Exact, Bounded, Finished, Stores,
          Counter!Step
  <1>1. CASE Counter!Lock(t)
    BY <1>1 DEF Counter!Lock
  <1>2. CASE Counter!Load(t)
    BY <1>2 DEF Counter!Load
  <1>3. CASE Counter!Store(t)
    BY <1>3 DEF Counter!Store
  <1>4. CASE Counter!Unlock(t)
    BY <1>4 DEF Counter!Unlock
  <1> QED BY <1>1, <1>2, <1>3, <1>4

\* The other programs do not touch the counter.
LEMMA CounterInvariant == Spec => []CounterInv
  <1>1. CounterInv /\ [Next]_vars => CounterInv'
    <2> SUFFICES ASSUME CounterInv, [Next]_vars PROVE CounterInv'
      OBVIOUS
    <2>1. CASE CounterStep
      BY <2>1, CounterKept DEF CounterStep, Counter!Next, Counter!Threads
    <2>2. CASE UNCHANGED counterVars
      BY <2>2 DEF counterVars, CounterInv, CounterType, Exact, Bounded, Finished, Stores
    <2> QED BY <2>1, <2>2 DEF Next, PyGpioStep, EpollStep, DisplayStep, vars
  <1> QED BY CounterStart, <1>1, PTL DEF Spec

\* Under the mutex the counter ends at 2 * LOOP; without it at 2 or more.
THEOREM CounterCounts == Spec => []CommCounts
  <1>1. CounterInv => CommCounts
    BY ConstantsAssumption DEF CounterInv, CounterType, Exact, Bounded, Finished, Stores,
       CommCounts, Counter!CommCounts, Counter!Threads
  <1> QED BY CounterInvariant, <1>1, PTL

------------------------------------------------------------------------------
(* PyGpio. *)

\* Blocks of the heap that a call holds between two of its statements.
Entry  == {"cells_tuple", "cells_items", "cells_append"}
Cells  == {"cells_list", "cells_read"} \cup Entry
Blocks == IF \/ parsing \in Cells
             \/ /\ parsing \in {"names", "names_grow", "names_list", "names_next", "names_append"}
                /\ bufsize > BufSize
          THEN 1 ELSE 0

\* Its list, and the tuple or string that is being added.
Objects == CASE parsing \in {"cells_items", "cells_append", "names_append"} -> 2
             [] parsing \in {"cells_read", "cells_tuple", "names_next"}      -> 1
             [] OTHER                                                       -> 0

\* What a call holds is decided by where it is; the buffer of the names is on the heap as
\* soon as it has grown.
Owned ==
  /\ parsing \in Cells \cup {"idle", "returned", "cells", "names", "names_grow", "names_list",
                             "names_next", "names_append"}
  /\ at \in Nat /\ bufsize \in Nat /\ bufsize >= BufSize
  /\ heap = Blocks
  /\ refs = Objects
  /\ open => parsing \in Cells \cup {"cells", "names", "names_grow"}

\* Nothing is held before the first call.
LEMMA OwnedStart ==
  ASSUME Init PROVE Owned
  BY ConstantsAssumption DEF Init, PyGpio!Init, Owned, Blocks, Objects, Cells, Entry

\* The calls about lines own nothing.
LEMMA LinesOwnNothing ==
  ASSUME Owned, PyGpio!Idle
  PROVE  Owned'
  BY DEF PyGpio!Idle, PyGpio!parse, Owned, Blocks, Objects, Cells, Entry

\* Every step of a parsing call gives back what it stops using, the failing ones too.
LEMMA OwnedKept ==
  ASSUME Owned, PyGpio!Next
  PROVE  Owned'
  <1> USE ConstantsAssumption DEF Owned, Blocks, Objects, Cells, Entry, PyGpio!Goto, PyGpio!Same, PyGpio!Raise,
          PyGpio!OnHeap
  <1>1. ASSUME NEW f \in PyGpio!Fds, NEW flags \in PyGpio!Flags, NEW attrs \in PyGpio!Attrs,
               PyGpio!SetConfig(f, flags, attrs)
                 \/ \E offs \in PyGpio!Offsets : PyGpio!RequestLine(f, offs, flags, attrs)
        PROVE  Owned'
    BY <1>1, LinesOwnNothing DEF PyGpio!SetConfig, PyGpio!RequestLine
  <1>2. ASSUME NEW f \in PyGpio!Fds, PyGpio!Close(f) PROVE Owned'
    BY <1>2, LinesOwnNothing DEF PyGpio!Close
  <1>3. ASSUME NEW name \in {"cells", "names"}, NEW f, PyGpio!Start(name, f) PROVE Owned'
    BY <1>3 DEF PyGpio!Start
  <1>4. CASE PyGpio!Drop
    BY <1>4 DEF PyGpio!Drop
  <1>5. CASE PyGpio!CellsBuf
    BY <1>5 DEF PyGpio!CellsBuf
  <1>6. CASE PyGpio!CellsList
    BY <1>6 DEF PyGpio!CellsList
  <1>7. CASE PyGpio!CellsEntry
    BY <1>7 DEF PyGpio!CellsEntry
  <1>8. CASE PyGpio!CellsEnd
    BY <1>8 DEF PyGpio!CellsEnd
  <1>9. CASE PyGpio!NamesRead
    <2>1. PICK n \in 0..(bufsize - at - 1) :
            /\ at' = at + n
            /\ parsing' = (IF at + n < bufsize - 1 THEN "names_list" ELSE "names_grow")
            /\ open' = (at + n = bufsize - 1)
            /\ UNCHANGED <<bufsize, heap, refs>>
      BY <1>9 DEF PyGpio!NamesRead
    <2>2. CASE at + n < bufsize - 1
      <3>1. at + n # bufsize - 1
        BY <2>1, <2>2
      <3>2. ~open'
        BY <2>1, <3>1, Zenon
      <3> QED BY <1>9, <2>1, <2>2, <3>2 DEF PyGpio!NamesRead
    <2>3. CASE ~(at + n < bufsize - 1)
      BY <1>9, <2>1, <2>3 DEF PyGpio!NamesRead
    <2> QED BY <2>2, <2>3
  <1>10. CASE PyGpio!NamesGrow
    <2>1. heap = IF bufsize > BufSize THEN 1 ELSE 0
      BY <1>10 DEF PyGpio!NamesGrow
    <2>2. CASE parsing' = "names"
      <3>1. bufsize' = 2 * bufsize /\ heap' = 1 /\ refs' = refs
        BY <1>10, <2>1, <2>2 DEF PyGpio!NamesGrow
      <3>2. bufsize' \in Nat /\ bufsize' >= BufSize /\ bufsize' > BufSize
        BY <3>1
      <3> QED BY <1>10, <2>2, <3>1, <3>2 DEF PyGpio!NamesGrow
    <2>3. CASE parsing' = "returned"
      BY <1>10, <2>1, <2>3 DEF PyGpio!NamesGrow
    <2> QED BY <1>10, <2>2, <2>3 DEF PyGpio!NamesGrow
  <1>11. CASE PyGpio!NamesList
    BY <1>11 DEF PyGpio!NamesList
  <1>12. CASE PyGpio!NamesEnd
    BY <1>12 DEF PyGpio!NamesEnd
  <1>13. CASE PyGpio!CellsTuple
    BY <1>13 DEF PyGpio!CellsTuple
  <1>14. CASE PyGpio!CellsItems
    BY <1>14 DEF PyGpio!CellsItems
  <1>15. CASE PyGpio!CellsAppend
    BY <1>15 DEF PyGpio!CellsAppend
  <1>16. CASE PyGpio!NamesString
    BY <1>16 DEF PyGpio!NamesString
  <1>17. CASE PyGpio!NamesAppend
    BY <1>17 DEF PyGpio!NamesAppend
  <1> QED
    BY <1>1, <1>2, <1>3, <1>4, <1>5, <1>6, <1>7, <1>8, <1>9, <1>10, <1>11, <1>12, <1>13, <1>14,
       <1>15, <1>16, <1>17
       DEF PyGpio!Next

\* The other programs parse nothing.
LEMMA OwnedInvariant == Spec => []Owned
  <1>1. Owned /\ [Next]_vars => Owned'
    <2> SUFFICES ASSUME Owned, [Next]_vars PROVE Owned'
      OBVIOUS
    <2>1. CASE PyGpioStep
      BY <2>1, OwnedKept DEF PyGpioStep
    <2>2. CASE UNCHANGED pygpioVars
      BY <2>2 DEF pygpioVars, Owned, Blocks, Objects, Cells, Entry
    <2> QED BY <2>1, <2>2 DEF Next, CounterStep, EpollStep, DisplayStep, vars
  <1> QED BY OwnedStart, <1>1, PTL DEF Spec

\* A parsing call that has returned, whether with a list or an exception, holds no memory,
\* no file and no object.
THEOREM ParsersLeakNothing == Spec => []NothingLeaks
  <1>1. Owned => NothingLeaks
    BY DEF Owned, Blocks, Objects, Cells, Entry, NothingLeaks, PyGpio!NothingLeaks
  <1> QED BY OwnedInvariant, <1>1, PTL

\* What the two tables of the lines hold.
LinesType == /\ given \in [PyGpio!Fds -> Seq(Int)]
             /\ held \in [PyGpio!Fds -> Seq(Int)]

LinesInv == LinesType /\ PyGpio!LinesAsAsked

\* An offset that fits uint32 is not changed.
LEMMA UintFits ==
  ASSUME NEW o \in 0..(W - 1) PROVE PyGpio!Uint(o) = o
  BY ConstantsAssumption DEF PyGpio!Uint

LEMMA OffsetsType ==
  ASSUME NEW offs \in PyGpio!Offsets PROVE offs \in Seq(Int)
  <1>1. /\ \A o \in -1..W : <<o>> \in Seq(Int)
        /\ \A o \in 0..NLines, p \in 0..NLines : <<o, p>> \in Seq(Int)
        /\ <<0, 1, 2>> \in Seq(Int) /\ <<>> \in Seq(Int)
    OBVIOUS
  <1>2. CASE offs \in {<<o>> : o \in -1..W}
    BY <1>1, <1>2, Zenon
  <1>3. CASE offs \in {<<o, p>> : o, p \in 0..NLines}
    <2>1. \E o \in 0..NLines, p \in 0..NLines : offs = <<o, p>>
      BY <1>3, SMT
    <2> QED BY <1>1, <2>1, Zenon
  <1>4. CASE offs \in {<<>>, <<0, 1, 2>>}
    BY <1>1, <1>4, Zenon
  <1> QED BY <1>2, <1>3, <1>4 DEF PyGpio!Offsets

\* One table entry of each changes, or none.
LEMMA LinesKept ==
  ASSUME LinesInv, PyGpio!Next
  PROVE  LinesInv'
  <1>1. ASSUME NEW f \in PyGpio!Fds, NEW offs \in PyGpio!Offsets, NEW flags, NEW attrs,
               PyGpio!RequestLine(f, offs, flags, attrs)
        PROVE  LinesInv'
    <2> DEFINE taken == [j \in DOMAIN offs |-> PyGpio!Uint(offs[j])]
    <2>1. offs \in Seq(Int)
      BY <1>1, OffsetsType DEF PyGpio!RequestLine
    <2>2. given' = [given EXCEPT ![f] = offs] /\ held' = [held EXCEPT ![f] = taken]
      BY <1>1 DEF PyGpio!RequestLine
    <2>3. taken \in Seq(Int)
      <3>1. \A o \in Int : PyGpio!Uint(o) \in Int
        BY ConstantsAssumption DEF PyGpio!Uint
      <3>2. DOMAIN offs = 1..Len(offs) /\ Len(offs) \in Nat /\ \A j \in DOMAIN offs : offs[j] \in Int
        BY <2>1
      <3>3. taken \in [1..Len(offs) -> Int]
        BY <3>1, <3>2
      <3> QED BY <3>2, <3>3
    <2>4. (\A j \in DOMAIN offs : offs[j] \in 0..(W - 1)) => taken = offs
      BY <2>1, UintFits
    <2> HIDE DEF taken
    <2>5. LinesType'
      BY <2>1, <2>2, <2>3 DEF LinesInv, LinesType
    <2>6. ASSUME NEW g \in PyGpio!Fds, held'[g] # given'[g]
          PROVE  \E j \in DOMAIN given'[g] : given'[g][j] \notin 0..(W - 1)
      <3>1. CASE g = f
        BY <2>2, <2>4, <2>6, <3>1 DEF LinesInv, LinesType
      <3>2. CASE g # f
        BY <2>2, <2>6, <3>2 DEF LinesInv, LinesType, PyGpio!LinesAsAsked
      <3> QED BY <3>1, <3>2
    <2> QED BY <2>5, <2>6 DEF LinesInv, PyGpio!LinesAsAsked
  <1>2. ASSUME NEW f \in PyGpio!Fds, PyGpio!Close(f) PROVE LinesInv'
    <2>1. given' = [given EXCEPT ![f] = <<>>] /\ held' = [held EXCEPT ![f] = <<>>]
      BY <1>2 DEF PyGpio!Close
    <2>2. <<>> \in Seq(Int)
      OBVIOUS
    <2> QED BY <2>1, <2>2 DEF LinesInv, LinesType, PyGpio!LinesAsAsked
  <1>3. CASE UNCHANGED <<given, held>>
    BY <1>3 DEF LinesInv, LinesType, PyGpio!LinesAsAsked
  <1>4. ASSUME NEW f \in PyGpio!Fds, NEW flags, NEW attrs, PyGpio!SetConfig(f, flags, attrs)
        PROVE  UNCHANGED <<given, held>>
    BY <1>4 DEF PyGpio!SetConfig
  <1>5. ASSUME NEW name, NEW f, PyGpio!Start(name, f) PROVE UNCHANGED <<given, held>>
    BY <1>5 DEF PyGpio!Start, PyGpio!kernel
  <1>6. ASSUME PyGpio!Drop \/ PyGpio!CellsBuf \/ PyGpio!CellsList \/ PyGpio!CellsEntry
               \/ PyGpio!CellsTuple \/ PyGpio!CellsItems \/ PyGpio!CellsAppend \/ PyGpio!CellsEnd
        PROVE  UNCHANGED <<given, held>>
    BY <1>6 DEF PyGpio!Drop, PyGpio!CellsBuf, PyGpio!CellsList, PyGpio!CellsEntry,
       PyGpio!CellsTuple, PyGpio!CellsItems, PyGpio!CellsAppend, PyGpio!CellsEnd, PyGpio!Raise,
       PyGpio!Same, PyGpio!kernel
  <1>7. ASSUME PyGpio!NamesRead \/ PyGpio!NamesGrow \/ PyGpio!NamesList \/ PyGpio!NamesString
               \/ PyGpio!NamesAppend \/ PyGpio!NamesEnd
        PROVE  UNCHANGED <<given, held>>
    BY <1>7 DEF PyGpio!NamesRead, PyGpio!NamesGrow, PyGpio!NamesList, PyGpio!NamesString,
       PyGpio!NamesAppend, PyGpio!NamesEnd, PyGpio!Raise, PyGpio!Same, PyGpio!kernel
  <1> QED BY <1>1, <1>2, <1>3, <1>4, <1>5, <1>6, <1>7 DEF PyGpio!Next

\* The kernel holds the very lines that Python asked for, unless one of the offsets does not
\* fit uint32 (pygpio.c:184), for every chip and every width of that conversion.
THEOREM LinesAreAsAsked == Spec => []PyGpio!LinesAsAsked
  <1>1. Init => LinesInv
    <2>1. <<>> \in Seq(Int)
      OBVIOUS
    <2> QED BY <2>1 DEF Init, PyGpio!Init, LinesInv, LinesType, PyGpio!LinesAsAsked
  <1>2. LinesInv /\ [Next]_vars => LinesInv'
    <2> SUFFICES ASSUME LinesInv, [Next]_vars PROVE LinesInv'
      OBVIOUS
    <2>1. CASE PyGpioStep
      BY <2>1, LinesKept DEF PyGpioStep
    <2>2. CASE UNCHANGED pygpioVars
      BY <2>2 DEF pygpioVars, LinesInv, LinesType, PyGpio!LinesAsAsked
    <2> QED BY <2>1, <2>2 DEF Next, CounterStep, EpollStep, DisplayStep, vars
  <1>3. LinesInv => PyGpio!LinesAsAsked
    BY DEF LinesInv
  <1> QED BY <1>1, <1>2, <1>3, PTL DEF Spec

------------------------------------------------------------------------------
(* The names of a text.  The induction over its positions takes the least   *)
(* counterexample, counted from the end.                                    *)

\* Every non-empty set of natural numbers has a least element.
LEMMA Least ==
  ASSUME NEW T \in SUBSET Nat, T # {}
  PROVE  \E x \in T : \A y \in T : x <= y
<1> DEFINE R == OpToRel(<, Nat)
<1>1. PICK x \in T : \A y \in T : <<y, x>> \notin R
  BY WFMin, NatLessThanWellFounded
<1>2. \A y \in T : ~(y < x)
  BY <1>1 DEF OpToRel
<1> QED
  BY <1>2

\* Names, and the file they are read from, as sequences of characters.
Texts == Seq(Int)

LEMMA StrnLen ==
  ASSUME NEW s \in Texts, NEW p \in 0..Len(s)
  PROVE  LET n == PyGpio!strnlen(s, p) IN
         /\ n \in 0..(Len(s) - p)
         /\ \A j \in 1..n : s[p + j] # 0
         /\ p + n = Len(s) \/ s[p + n + 1] = 0
<1> DEFINE P(n) == /\ \A j \in 1..n : s[p + j] # 0
                   /\ p + n = Len(s) \/ s[p + n + 1] = 0
           T == {n \in 0..(Len(s) - p) : p + n = Len(s) \/ s[p + n + 1] = 0}
<1>0. Len(s) \in Nat /\ p \in Nat /\ Len(s) - p \in Nat /\ p + (Len(s) - p) = Len(s)
  BY LenProperties DEF Texts
<1>1. T \in SUBSET Nat /\ Len(s) - p \in T
  BY <1>0
<1>2. PICK n \in T : \A k \in T : n <= k
  BY <1>1, Least
<1> DEFINE Stops(k) == p + k = Len(s) \/ s[p + k + 1] = 0
<1>3. n \in 0..(Len(s) - p) /\ Stops(n) /\ \A k \in 0..(Len(s) - p) : Stops(k) => n <= k
  BY <1>2
<1>4. ASSUME NEW j \in 1..n PROVE s[p + j] # 0
  <2> HIDE DEF T, P, Stops
  <2>1. n \in Nat /\ j \in Nat /\ j - 1 < n /\ j - 1 \in 0..(Len(s) - p) /\ p + (j - 1) + 1 = p + j
    BY <1>0, <1>3
  <2>2. ~Stops(j - 1)
    BY <1>3, <2>1
  <2> QED BY <2>1, <2>2 DEF Stops
<1>5. n \in 0..(Len(s) - p) /\ P(n)
  BY <1>3, <1>4
<1>6. PyGpio!strnlen(s, p) = CHOOSE m \in 0..(Len(s) - p) : P(m)
  BY DEF PyGpio!strnlen
<1> HIDE DEF P
<1>7. PyGpio!strnlen(s, p) \in 0..(Len(s) - p) /\ P(PyGpio!strnlen(s, p))
  BY <1>5, <1>6
<1> QED
  BY <1>7 DEF P

\* What the scan of s makes of position p, if g has what it makes of those after it.
Scan(s, g, p) ==
  LET n    == PyGpio!strnlen(s, p)
      rest == IF p + n + 1 <= Len(s) THEN g[p + n + 1] ELSE <<>> IN
  IF n > 0 THEN <<SubSeq(s, p + 1, p + n)>> \o rest ELSE rest

From(s) == CHOOSE g : g = [p \in 0..Len(s) |-> Scan(s, g, p)]

LEMMA NamesFrom == \A s : PyGpio!NamesIn(s) = From(s)[0]
  BY DEF PyGpio!NamesIn, From, Scan

\* Scan looks at later positions only.
LEMMA ScanLater ==
  ASSUME NEW s \in Texts, NEW p \in 0..Len(s), NEW g, NEW h,
         \A q \in (p + 1)..Len(s) : g[q] = h[q]
  PROVE  Scan(s, g, p) = Scan(s, h, p)
<1> DEFINE n == PyGpio!strnlen(s, p)
<1>1. n \in Nat /\ Len(s) \in Nat /\ p \in Nat
  BY StrnLen, LenProperties DEF Texts
<1> HIDE DEF n
<1>2. p + n + 1 <= Len(s) => g[p + n + 1] = h[p + n + 1]
  BY <1>1
<1> QED
  BY <1>2 DEF Scan, n

\* So the recursive definition of the scan has a solution.
LEMMA FromScans ==
  ASSUME NEW s \in Texts
  PROVE  From(s) = [p \in 0..Len(s) |-> Scan(s, From(s), p)]
<1> DEFINE n == Len(s)
           Solves(g, m) == \A p \in m..n : g[p] = Scan(s, g, p)
           T == {k \in 0..n : ~ \E g : Solves(g, n - k)}
<1>0. n \in Nat
  BY LenProperties DEF Texts
<1>1. T = {}
  <2> SUFFICES ASSUME T # {} PROVE FALSE
    OBVIOUS
  <2>1. PICK k \in T : \A l \in T : k <= l
    <3>1. T \in SUBSET Nat
      BY <1>0
    <3> QED BY <3>1, Least
  <2>2. k \in 0..n /\ n - k \in 0..n /\ \A l \in 0..n : l < k => \E g : Solves(g, n - l)
    BY <1>0, <2>1
  <2>3. PICK g : \A p \in (n - k + 1)..n : g[p] = Scan(s, g, p)
    <3>1. CASE k = 0
      BY <1>0, <3>1
    <3>2. CASE k # 0
      <4>1. k - 1 \in 0..n /\ k - 1 < k /\ n - (k - 1) = n - k + 1
        BY <2>2, <3>2, <1>0
      <4>2. \E g : Solves(g, n - (k - 1))
        BY <2>2, <4>1
      <4> QED BY <4>1, <4>2
    <3> QED BY <3>1, <3>2
  <2> DEFINE h == [p \in 0..n |-> IF p = n - k THEN Scan(s, g, p) ELSE g[p]]
  <2>4. \A p \in (n - k + 1)..n : h[p] = g[p]
    BY <1>0, <2>2
  <2>5. h[n - k] = Scan(s, g, n - k)
    BY <2>2
  <2> HIDE DEF h
  <2>6. ASSUME NEW p \in (n - k)..n PROVE h[p] = Scan(s, h, p)
    <3>1. p \in 0..n /\ \A q \in (p + 1)..n : h[q] = g[q]
      BY <1>0, <2>2, <2>4
    <3>2. Scan(s, h, p) = Scan(s, g, p)
      BY <3>1, ScanLater
    <3>3. CASE p = n - k
      BY <2>5, <3>2, <3>3
    <3>4. CASE p # n - k
      <4>1. p \in (n - k + 1)..n
        BY <1>0, <2>2, <3>4
      <4> QED BY <4>1, <2>3, <2>4, <3>2
    <3> QED BY <3>3, <3>4
  <2> QED
    BY <2>1, <2>6
<1>2. PICK g : \A p \in 0..n : g[p] = Scan(s, g, p)
  <2>1. n \in 0..n /\ n \notin T /\ n - n = 0
    BY <1>0, <1>1
  <2> QED BY <2>1
<1> DEFINE f == [p \in 0..n |-> g[p]]
<1>3. ASSUME NEW p \in 0..n PROVE f[p] = Scan(s, f, p)
  <2>1. \A q \in (p + 1)..n : f[q] = g[q]
    BY <1>0
  <2> HIDE DEF f
  <2>2. Scan(s, f, p) = Scan(s, g, p)
    BY <2>1, ScanLater
  <2>3. f[p] = g[p]
    BY DEF f
  <2> QED BY <1>2, <2>2, <2>3
<1>4. f = [p \in 0..n |-> Scan(s, f, p)]
  BY <1>3
<1> HIDE DEF f
<1>5. \E e : e = [p \in 0..Len(s) |-> Scan(s, e, p)]
  BY <1>4
<1> QED
  BY <1>5, Zenon DEF From

\* The list r has the stretches of s that start after p.
After(r, s, p) ==
  /\ r \in Seq(Texts)
  /\ \E b \in [1..Len(r) -> {x \in PyGpio!Stretches(s) : x[1] > p}] :
       /\ \A x \in PyGpio!Stretches(s) : x[1] > p => \E u \in 1..Len(r) : b[u] = x
       /\ \A u, j \in 1..Len(r) : u < j => b[u][1] < b[j][1]
       /\ \A u \in 1..Len(r) : r[u] = SubSeq(s, b[u][1], b[u][2])

LEMMA StretchFacts ==
  ASSUME NEW s \in Texts, NEW x \in PyGpio!Stretches(s)
  PROVE  /\ x[1] \in 1..Len(s) /\ x[2] \in 1..Len(s) /\ x[1] <= x[2] /\ x = <<x[1], x[2]>>
         /\ \A k \in x[1]..x[2] : s[k] # 0
         /\ x[1] = 1 \/ s[x[1] - 1] = 0
         /\ x[2] = Len(s) \/ s[x[2] + 1] = 0
  BY DEF PyGpio!Stretches

\* At the start of a stretch: it is the first of those that follow, and is as long as strnlen says.
LEMMA FirstStretch ==
  ASSUME NEW s \in Texts, NEW p \in 0..Len(s), p = 0 \/ s[p] = 0, NEW n, n = PyGpio!strnlen(s, p)
  PROVE  /\ n > 0 => <<p + 1, p + n>> \in PyGpio!Stretches(s)
         /\ \A x \in PyGpio!Stretches(s) :
              x[1] > p => x[1] > p + n + 1 \/ (n > 0 /\ x = <<p + 1, p + n>>)
<1>0. n \in 0..(Len(s) - p) /\ Len(s) \in Nat /\ p \in Nat /\ n \in Nat
  BY StrnLen, LenProperties DEF Texts
<1>1. (\A j \in 1..n : s[p + j] # 0) /\ (p + n = Len(s) \/ s[p + n + 1] = 0)
  BY StrnLen
<1>2. \A k \in (p + 1)..(p + n) : s[k] # 0
  <2> TAKE k \in (p + 1)..(p + n)
  <2>1. k - p \in 1..n /\ p + (k - p) = k
    BY <1>0
  <2> QED BY <1>1, <2>1
<1>3. n > 0 => <<p + 1, p + n>> \in PyGpio!Stretches(s)
  <2> SUFFICES ASSUME n > 0 PROVE <<p + 1, p + n>> \in PyGpio!Stretches(s)
    OBVIOUS
  <2>1. p + 1 \in 1..Len(s) /\ p + n \in 1..Len(s) /\ p + 1 <= p + n /\ (p + 1) - 1 = p
    BY <1>0
  <2>2. p + 1 = 1 \/ s[(p + 1) - 1] = 0
    BY <1>0, <2>1
  <2> QED BY <1>1, <1>2, <2>1, <2>2 DEF PyGpio!Stretches
<1>4. ASSUME NEW x \in PyGpio!Stretches(s), x[1] > p, ~(x[1] > p + n + 1)
      PROVE  n > 0 /\ x = <<p + 1, p + n>>
  <2> DEFINE a == x[1]
             c == x[2]
  <2>1. /\ a \in 1..Len(s) /\ c \in 1..Len(s) /\ a <= c /\ x = <<a, c>>
        /\ \A k \in a..c : s[k] # 0
        /\ a = 1 \/ s[a - 1] = 0
        /\ c = Len(s) \/ s[c + 1] = 0
    BY StretchFacts
  <2>2. a > p /\ a <= p + n + 1
    BY <1>0, <1>4, <2>1
  <2> HIDE DEF a, c
  <2>3. s[a] # 0
    BY <2>1
  <2>4. a # p + n + 1
    BY <1>0, <1>1, <2>1, <2>3
  <2>5. a = p + 1
    <3> SUFFICES ASSUME a # p + 1 PROVE FALSE
      OBVIOUS
    <3>1. a - 1 \in (p + 1)..(p + n) /\ a # 1
      BY <1>0, <2>1, <2>2, <2>4
    <3> QED BY <1>2, <2>1, <3>1
  <2>6. n > 0
    BY <1>0, <2>2, <2>4, <2>5
  <2>7. c = p + n
    <3>1. CASE c < p + n
      <4>1. c + 1 \in (p + 1)..(p + n) /\ c # Len(s)
        BY <1>0, <2>1, <2>5, <3>1
      <4> QED BY <1>2, <2>1, <4>1
    <3>2. CASE c > p + n
      <4>1. p + n + 1 \in a..c /\ p + n # Len(s)
        BY <1>0, <2>1, <2>5, <3>2
      <4> QED BY <1>1, <2>1, <4>1
    <3> QED BY <1>0, <2>1, <3>1, <3>2
  <2> QED BY <2>1, <2>5, <2>6, <2>7
<1> QED
  BY <1>3, <1>4

\* One stretch more in front.
LEMMA AfterCons ==
  ASSUME NEW s \in Texts, NEW p \in Nat, NEW q \in Nat, q >= p, NEW r, After(r, s, q),
         NEW x \in PyGpio!Stretches(s), x[1] > p, x[1] <= q,
         \A y \in PyGpio!Stretches(s) : y[1] > p => y[1] > q \/ y = x
  PROVE  After(<<SubSeq(s, x[1], x[2])>> \o r, s, p)
<1> DEFINE St(m) == {y \in PyGpio!Stretches(s) : y[1] > m}
           e == SubSeq(s, x[1], x[2])
           t == <<e>> \o r
<1> HIDE DEF e
<1>0. /\ x[1] \in 1..Len(s) /\ x[2] \in 1..Len(s)
      /\ \A y \in PyGpio!Stretches(s) : y[1] \in Int
  BY StretchFacts
<1>1. e \in Texts
  BY <1>0 DEF Texts, e
<1>2. r \in Seq(Texts) /\ Len(r) \in Nat
  BY LenProperties DEF After
<1>3. t \in Seq(Texts) /\ Len(t) = Len(r) + 1 /\ t[1] = e /\ \A u \in 2..Len(t) : t[u] = r[u - 1]
  <2>1. <<e>> \in Seq(Texts) /\ Len(<<e>>) = 1 /\ <<e>>[1] = e
    BY <1>1, SMT
  <2> HIDE DEF e
  <2> QED BY <1>2, <2>1, ConcatProperties
<1>4. PICK b \in [1..Len(r) -> St(q)] :
        /\ \A y \in PyGpio!Stretches(s) : y[1] > q => \E u \in 1..Len(r) : b[u] = y
        /\ \A u, j \in 1..Len(r) : u < j => b[u][1] < b[j][1]
        /\ \A u \in 1..Len(r) : r[u] = SubSeq(s, b[u][1], b[u][2])
  BY DEF After
<1> DEFINE c == [u \in 1..Len(t) |-> IF u = 1 THEN x ELSE b[u - 1]]
<1> HIDE DEF t
<1>5. /\ c[1] = x /\ \A u \in 2..Len(t) : c[u] = b[u - 1] /\ u - 1 \in 1..Len(r)
      /\ \A u \in 1..Len(t) : u = 1 \/ u \in 2..Len(t)
      /\ \A u \in 1..Len(r) : u + 1 \in 2..Len(t) /\ (u + 1) - 1 = u
      /\ 1 \in 1..Len(t)
  BY <1>2, <1>3
<1> HIDE DEF e
<1>6. c \in [1..Len(t) -> St(p)]
  <2>1. St(q) \subseteq St(p)
    BY <1>0
  <2>2. \A u \in 1..Len(t) : c[u] \in St(p)
    BY <1>4, <1>5, <2>1
  <2> QED BY <2>2
<1> HIDE DEF c
<1>7. \A y \in PyGpio!Stretches(s) : y[1] > p => \E u \in 1..Len(t) : c[u] = y
  <2> SUFFICES ASSUME NEW y \in PyGpio!Stretches(s), y[1] > p PROVE \E u \in 1..Len(t) : c[u] = y
    OBVIOUS
  <2>1. CASE y = x
    BY <1>5, <2>1
  <2>2. CASE y[1] > q
    <3>1. PICK u \in 1..Len(r) : b[u] = y
      BY <1>4, <2>2
    <3>2. u + 1 \in 1..Len(t) /\ c[u + 1] = y
      BY <1>2, <1>3, <1>5, <3>1
    <3> QED BY <3>2
  <2> QED BY <2>1, <2>2
<1>8. \A u, j \in 1..Len(t) : u < j => c[u][1] < c[j][1]
  <2> SUFFICES ASSUME NEW u \in 1..Len(t), NEW j \in 1..Len(t), u < j PROVE c[u][1] < c[j][1]
    OBVIOUS
  <2>1. j \in 2..Len(t) /\ c[j] = b[j - 1] /\ j - 1 \in 1..Len(r)
    BY <1>2, <1>3, <1>5
  <2>2. CASE u = 1
    <3>1. b[j - 1] \in St(q)
      BY <1>4, <2>1
    <3> QED BY <1>0, <1>5, <2>1, <2>2, <3>1
  <2>3. CASE u # 1
    <3>1. u - 1 \in 1..Len(r) /\ c[u] = b[u - 1] /\ u - 1 < j - 1
      BY <1>2, <1>3, <1>5, <2>1, <2>3
    <3> QED BY <1>4, <2>1, <3>1
  <2> QED BY <2>2, <2>3
<1>9. \A u \in 1..Len(t) : t[u] = SubSeq(s, c[u][1], c[u][2])
  <2> TAKE u \in 1..Len(t)
  <2>1. CASE u = 1
    BY <1>3, <1>5, <2>1 DEF e
  <2>2. CASE u # 1
    BY <1>3, <1>4, <1>5, <2>2
  <2> QED BY <2>1, <2>2
<1> QED
  BY <1>3, <1>6, <1>7, <1>8, <1>9 DEF After, t, e

LEMMA ScanAfter ==
  ASSUME NEW s \in Texts, NEW p \in 0..Len(s), p = 0 \/ s[p] = 0,
         \A q \in (p + 1)..Len(s) : s[q] = 0 => After(From(s)[q], s, q)
  PROVE  After(From(s)[p], s, p)
<1> DEFINE n == PyGpio!strnlen(s, p)
           m == p + n + 1
           rest == IF m <= Len(s) THEN From(s)[m] ELSE <<>>
<1>0. /\ n \in 0..(Len(s) - p) /\ Len(s) \in Nat /\ p \in Nat /\ n \in Nat
      /\ p + n = Len(s) \/ s[p + n + 1] = 0
  BY StrnLen, LenProperties DEF Texts
<1>1. From(s)[p] = IF n > 0 THEN <<SubSeq(s, p + 1, p + n)>> \o rest ELSE rest
  <2>1. From(s)[p] = Scan(s, From(s), p)
    BY FromScans
  <2> QED BY <2>1 DEF Scan
<1>2. /\ n > 0 => <<p + 1, p + n>> \in PyGpio!Stretches(s)
      /\ \A x \in PyGpio!Stretches(s) :
           x[1] > p => x[1] > p + n + 1 \/ (n > 0 /\ x = <<p + 1, p + n>>)
  BY FirstStretch
<1> HIDE DEF n
<1>3. After(rest, s, m)
  <2>1. CASE m <= Len(s)
    <3>1. m \in (p + 1)..Len(s) /\ s[m] = 0
      BY <1>0, <2>1
    <3> QED BY <2>1, <3>1
  <2>2. CASE ~(m <= Len(s))
    <3>1. \A x \in PyGpio!Stretches(s) : ~(x[1] > m)
      BY <1>0, <2>2, StretchFacts
    <3>2. <<>> \in Seq(Texts) /\ Len(<<>>) = 0 /\ 1..0 = {}
      OBVIOUS
    <3>3. \E b \in [1..0 -> {x \in PyGpio!Stretches(s) : x[1] > m}] : TRUE
      <4>1. [u \in 1..0 |-> <<1, 1>>] \in [1..0 -> {x \in PyGpio!Stretches(s) : x[1] > m}]
        BY <3>2
      <4> QED BY <4>1
    <3>4. After(<<>>, s, m)
      BY <3>1, <3>2, <3>3 DEF After
    <3> QED BY <2>2, <3>4
  <2> QED BY <2>1, <2>2
<1>4. m \in Nat /\ m >= p
  BY <1>0
<1> HIDE DEF rest
<1>5. CASE n > 0
  <2> DEFINE x == <<p + 1, p + n>>
  <2>1. x \in PyGpio!Stretches(s) /\ x[1] = p + 1 /\ x[2] = p + n
    BY <1>2, <1>5
  <2>2. x[1] > p /\ x[1] <= m
    BY <1>0, <2>1
  <2>3. \A y \in PyGpio!Stretches(s) : y[1] > p => y[1] > m \/ y = x
    BY <1>2
  <2> HIDE DEF x, m
  <2>4. After(<<SubSeq(s, x[1], x[2])>> \o rest, s, p)
    BY <1>0, <1>3, <1>4, <2>1, <2>2, <2>3, AfterCons
  <2> QED BY <1>1, <1>5, <2>1, <2>4
<1>6. CASE ~(n > 0)
  <2>1. ASSUME NEW x \in PyGpio!Stretches(s) PROVE x[1] > p <=> x[1] > m
    <3>1. x[1] \in Nat /\ (x[1] > p => x[1] > m)
      BY <1>2, <1>6, StretchFacts
    <3> HIDE DEF m
    <3> QED BY <1>0, <1>4, <3>1
  <2> HIDE DEF m
  <2>2. {x \in PyGpio!Stretches(s) : x[1] > p} = {x \in PyGpio!Stretches(s) : x[1] > m}
    BY <2>1
  <2> QED BY <1>1, <1>3, <1>6, <2>1, <2>2 DEF After
<1> QED
  BY <1>5, <1>6

\* The scan finds the names of every text.
LEMMA NamesAreListed ==
  ASSUME NEW s \in Texts
  PROVE  PyGpio!ListsNames(PyGpio!NamesIn(s), s) /\ PyGpio!NamesIn(s) \in Seq(Texts)
<1> DEFINE n == Len(s)
           T == {k \in 0..n : (k = n \/ s[n - k] = 0) /\ ~After(From(s)[n - k], s, n - k)}
<1>0. n \in Nat
  BY LenProperties DEF Texts
<1>1. T = {}
  <2> SUFFICES ASSUME T # {} PROVE FALSE
    OBVIOUS
  <2>1. PICK k \in T : \A l \in T : k <= l
    <3>1. T \in SUBSET Nat
      BY <1>0
    <3> QED BY <3>1, Least
  <2>2. k \in 0..n /\ n - k \in 0..n
    BY <1>0
  <2>3. ASSUME NEW q \in (n - k + 1)..n, s[q] = 0 PROVE After(From(s)[q], s, q)
    <3>1. n - q \in 0..n /\ n - q < k /\ n - (n - q) = q
      BY <1>0, <2>2
    <3>2. n - q \notin T
      BY <2>1, <2>2, <3>1
    <3> QED BY <2>3, <3>1, <3>2
  <2>4. n - k = 0 \/ s[n - k] = 0
    BY <1>0, <2>1
  <2>5. After(From(s)[n - k], s, n - k)
    BY <2>2, <2>3, <2>4, ScanAfter
  <2> QED BY <2>1, <2>5
<1>2. After(From(s)[0], s, 0)
  <2>1. n \in 0..n /\ n - n = 0 /\ n \notin T
    BY <1>0, <1>1
  <2> QED BY <2>1
<1>3. {x \in PyGpio!Stretches(s) : x[1] > 0} = PyGpio!Stretches(s)
      /\ \A x \in PyGpio!Stretches(s) : x[1] > 0
  BY StretchFacts
<1>4. PyGpio!ListsNames(From(s)[0], s) /\ From(s)[0] \in Seq(Texts)
  BY <1>2, <1>3 DEF After, PyGpio!ListsNames
<1> QED
  BY <1>4, NamesFrom

------------------------------------------------------------------------------
(* What a parsing call reads. *)

\* A list that is returned is that of the whole file.
ReturnsAll(names) ==
  parsing = "returned" /\ outcome = "list" =>
    IF call = "cells" THEN ~broken /\ Len(result) = Len(file) \div 3
                      ELSE ~broken => result = names

\* How far a parsing call has come: every third word is an entry of the list; the buffer of
\* the names has room, and a short read that was no error has reached the end of the file.
ReadType ==
  file \in Seq(Int) /\ at \in 0..Len(file) /\ bufsize \in Nat \ {0}

CellsSoFar ==
  parsing \in Cells \cup {"cells"} =>
    /\ call = "cells" /\ result \in Seq(Seq(Int))
    /\ at = 3 * Len(result) + (IF parsing \in Entry THEN 3 ELSE 0)

\* The list has the first of the names.
Listed(names) ==
  /\ result \in Seq(Texts)
  /\ Len(result) <= Len(names)
  /\ \A u \in 1..Len(result) : result[u] = names[u]

Scanned == {"names_next", "names_append"}

NamesSoFar ==
  /\ parsing \in {"names", "names_grow", "names_list"} => at < bufsize /\ result = <<>>
  /\ parsing \in Scanned \cup {"names_list"} => (~broken => at = Len(file))
  /\ parsing \in Scanned => Listed(PyGpio!Names)
  /\ parsing = "names_append" => Len(result) < Len(PyGpio!Names)
  /\ parsing \in Scanned \cup {"names", "names_grow", "names_list"} => call # "cells"

ReadInv == ReadType /\ CellsSoFar /\ NamesSoFar /\ ReturnsAll(PyGpio!NamesIn(file))

\* The names of a file that stays the same.
LEMMA SameNames ==
  ASSUME file' = file PROVE PyGpio!NamesIn(file)' = PyGpio!NamesIn(file)
  BY DEF PyGpio!NamesIn

LEMMA ReadStart ==
  ASSUME Init PROVE ReadInv
  <1>1. file = <<>> /\ at = 0 /\ bufsize = BufSize /\ parsing = "idle"
    BY DEF Init, PyGpio!Init
  <1>2. ReadType
    <2>1. <<>> \in Seq(Int) /\ Len(<<>>) = 0
      OBVIOUS
    <2> QED BY <1>1, <2>1, ConstantsAssumption DEF ReadType
  <1> QED
    BY <1>1, <1>2 DEF ReadInv, CellsSoFar, NamesSoFar, ReturnsAll, Cells, Entry, Scanned

\* A call that raises returns no list.
LEMMA RaiseReads ==
  ASSUME ReadInv, NEW blocks, NEW objects, PyGpio!Raise(blocks, objects)
  PROVE  ReadInv'
  <1>1. /\ parsing' = "returned" /\ outcome' = "raise"
        /\ UNCHANGED <<file, at, broken, bufsize>>
    BY DEF PyGpio!Raise, PyGpio!Goto, PyGpio!Same
  <1>2. ReadType'
    BY <1>1 DEF ReadInv, ReadType
  <1>3. CellsSoFar' /\ NamesSoFar'
    BY <1>1 DEF CellsSoFar, NamesSoFar, Cells, Entry, Scanned
  <1>4. ReturnsAll(PyGpio!NamesIn(file))'
    BY <1>1 DEF ReturnsAll
  <1> QED BY <1>2, <1>3, <1>4 DEF ReadInv

\* A file is a sequence of numbers.
LEMMA FilesType ==
  ASSUME NEW S \in SUBSET Int, NEW f \in PyGpio!Files(S) PROVE f \in Seq(Int)
  <1>1. PICK n \in 0..MaxFile : f \in [1..n -> S]
    BY Zenon DEF PyGpio!Files
  <1>2. n \in Nat
    BY ConstantsAssumption
  <1>3. f \in [1..n -> Int]
    BY <1>1, Zenon
  <1> QED BY <1>2, <1>3

LEMMA StartReads ==
  ASSUME ReadInv, NEW name \in {"cells", "names"}, NEW f \in Seq(Int), PyGpio!Start(name, f)
  PROVE  ReadInv'
  <1>1. /\ call' = name /\ file' = f /\ at' = 0 /\ result' = <<>> /\ bufsize' = BufSize
        /\ parsing' = name \/ (parsing' = "returned" /\ outcome' = "raise")
    BY Zenon DEF PyGpio!Start, PyGpio!Goto
  <1>2. ReadType'
    BY <1>1, ConstantsAssumption DEF ReadType
  <1>3. <<>> \in Seq(Seq(Int)) /\ Len(<<>>) = 0 /\ 0 = 3 * 0
    OBVIOUS
  <1>4. CellsSoFar'
    BY <1>1, <1>3 DEF CellsSoFar, Cells, Entry
  <1>5. NamesSoFar'
    BY <1>1, ConstantsAssumption DEF NamesSoFar, Scanned
  <1>6. ReturnsAll(PyGpio!NamesIn(file))'
    BY <1>1 DEF ReturnsAll
  <1> QED BY <1>2, <1>4, <1>5, <1>6 DEF ReadInv

LEMMA Thirds ==
  ASSUME NEW k \in Nat, NEW l \in Nat, l >= 3 * k, l - 3 * k < 3 PROVE k = l \div 3
  OBVIOUS

\* dt_read_gpio_cells: an entry of three words, its tuple, or the end.
LEMMA CellsRead ==
  ASSUME ReadInv,
         \/ PyGpio!CellsEntry \/ PyGpio!CellsTuple \/ PyGpio!CellsItems
         \/ PyGpio!CellsAppend \/ PyGpio!CellsEnd
  PROVE  ReadInv'
  <1>1. /\ parsing \in Entry \cup {"cells_read"} /\ call = "cells" /\ result \in Seq(Seq(Int))
        /\ at = 3 * Len(result) + (IF parsing \in Entry THEN 3 ELSE 0)
        /\ at \in Nat /\ Len(file) \in Nat /\ at <= Len(file)
        /\ Len(result) \in Nat /\ file \in Seq(Int)
    BY DEF PyGpio!CellsEntry, PyGpio!CellsTuple, PyGpio!CellsItems, PyGpio!CellsAppend,
       PyGpio!CellsEnd, ReadInv, CellsSoFar, ReadType, Cells, Entry
  <1>2. ASSUME NEW blocks, NEW objects, PyGpio!Raise(blocks, objects) PROVE ReadInv'
    BY <1>2, RaiseReads
  <1>3. ASSUME parsing' \in Cells, CellsSoFar', ReadType' PROVE ReadInv'
    BY <1>3 DEF ReadInv, NamesSoFar, ReturnsAll, Cells, Entry, Scanned
  <1>4. CASE PyGpio!CellsEntry
    <2>1. CASE /\ at' = at + 3 /\ parsing' = "cells_tuple"
               /\ UNCHANGED <<file, bufsize, result, call>>
      <3>1. Len(file) - at >= 3 /\ parsing = "cells_read"
        BY <1>4 DEF PyGpio!CellsEntry
      <3>2. CellsSoFar' /\ ReadType'
        BY <1>1, <2>1, <3>1 DEF ReadInv, ReadType, CellsSoFar, Entry
      <3> QED BY <1>3, <2>1, <3>2 DEF Cells, Entry
    <2>2. CASE UNCHANGED <<parsing, file, at, bufsize, result, call>>
      <3>1. CellsSoFar' /\ ReadType'
        BY <2>2 DEF ReadInv, ReadType, CellsSoFar
      <3> QED BY <1>1, <1>3, <2>2, <3>1 DEF Cells
    <2> QED BY <1>4, <2>1, <2>2 DEF PyGpio!CellsEntry, PyGpio!Goto, PyGpio!Same
  <1>5. CASE PyGpio!CellsTuple \/ PyGpio!CellsItems
    <2>1. CASE /\ parsing \in Entry /\ parsing' \in Entry
               /\ UNCHANGED <<file, at, bufsize, result, call>>
      <3>1. CellsSoFar' /\ ReadType'
        BY <1>1, <2>1 DEF ReadInv, ReadType, CellsSoFar
      <3> QED BY <1>3, <2>1, <3>1 DEF Cells
    <2> QED
      BY <1>2, <1>5, <2>1
         DEF PyGpio!CellsTuple, PyGpio!CellsItems, PyGpio!Goto, PyGpio!Same, Entry
  <1>6. CASE PyGpio!CellsAppend
    <2> DEFINE entry == SubSeq(file, at - 2, at)
    <2>1. CASE /\ parsing' = "cells_read" /\ result' = Append(result, entry)
               /\ UNCHANGED <<file, at, bufsize, call>>
      <3>1. parsing = "cells_append" /\ at = 3 * Len(result) + 3
        BY <1>1, <1>6 DEF PyGpio!CellsAppend, Entry
      <3>2. entry \in Seq(Int)
        <4>1. \A j \in (at - 2)..at : file[j] \in Int
          BY <1>1, <3>1
        <4> QED BY <1>1, <3>1, <4>1, SubSeqProperties
      <3> HIDE DEF entry
      <3>3. result' \in Seq(Seq(Int)) /\ Len(result') = Len(result) + 1
        BY <1>1, <2>1, <3>2
      <3>4. CellsSoFar'
        BY <1>1, <2>1, <3>1, <3>3 DEF CellsSoFar, Entry
      <3>5. ReadType'
        BY <2>1 DEF ReadInv, ReadType
      <3> QED BY <1>3, <2>1, <3>4, <3>5 DEF Cells
    <2> QED BY <1>2, <1>6, <2>1 DEF PyGpio!CellsAppend, PyGpio!Goto, PyGpio!Same
  <1>7. CASE PyGpio!CellsEnd
    <2>1. CASE ~broken
      <3>1. /\ Len(file) - at < 3 /\ parsing = "cells_read" /\ parsing' = "returned"
            /\ UNCHANGED <<file, at, broken, bufsize, result, call>>
        BY <1>7, <2>1 DEF PyGpio!CellsEnd, PyGpio!Same, PyGpio!Goto
      <3>2. at = 3 * Len(result)
        BY <1>1, <3>1 DEF Entry
      <3>3. Len(result) = Len(file) \div 3
        BY <1>1, <3>1, <3>2, Thirds
      <3>4. ReadType' /\ CellsSoFar' /\ NamesSoFar'
        BY <3>1 DEF ReadInv, ReadType, CellsSoFar, NamesSoFar, Cells, Entry, Scanned
      <3>5. ReturnsAll(PyGpio!NamesIn(file))'
        BY <1>1, <2>1, <3>1, <3>3 DEF ReturnsAll
      <3> QED BY <3>4, <3>5 DEF ReadInv
    <2> QED BY <1>2, <1>7, <2>1 DEF PyGpio!CellsEnd
  <1> QED BY <1>4, <1>5, <1>6, <1>7

\* dt_read_line_names: the buffer is filled but for one character, or the reading is over.
LEMMA NamesAreRead ==
  ASSUME ReadInv, PyGpio!NamesRead
  PROVE  ReadInv'
  <1>1. /\ parsing = "names" /\ call # "cells" /\ result = <<>> /\ at < bufsize /\ at \in Nat
        /\ bufsize \in Nat \ {0} /\ Len(file) \in Nat
    BY DEF PyGpio!NamesRead, ReadInv, ReadType, NamesSoFar
  <1>2. PICK n \in 0..(bufsize - at - 1) :
          /\ at + n <= Len(file) /\ at' = at + n
          /\ broken' = (at + n < bufsize - 1 /\ at + n < Len(file))
          /\ parsing' = IF at + n < bufsize - 1 THEN "names_list" ELSE "names_grow"
    BY DEF PyGpio!NamesRead, PyGpio!Goto
  <1>3. UNCHANGED <<file, bufsize, call, result>>
    BY DEF PyGpio!NamesRead, PyGpio!Same
  <1>4. at' \in 0..Len(file) /\ at' < bufsize
    BY <1>1, <1>2
  <1>5. parsing' = "names_list" /\ ~broken' => at' = Len(file)
    <2>1. ASSUME at + n < bufsize - 1, ~(at + n < bufsize - 1 /\ at + n < Len(file))
          PROVE  at' = Len(file)
      BY <1>1, <1>2, <2>1
    <2> QED BY <1>2, <2>1
  <1>6. ReadType'
    BY <1>3, <1>4 DEF ReadInv, ReadType
  <1>7. parsing' \in {"names_list", "names_grow"}
    BY <1>2
  <1>8. CellsSoFar' /\ ReturnsAll(PyGpio!NamesIn(file))'
    BY <1>7 DEF CellsSoFar, ReturnsAll, Cells, Entry
  <1>9. NamesSoFar'
    BY <1>1, <1>3, <1>4, <1>5, <1>7 DEF NamesSoFar, Scanned
  <1> QED BY <1>6, <1>8, <1>9 DEF ReadInv

\* The names of what has been read are texts, and those of the file when it was read whole.
LEMMA NamesOfRead ==
  ASSUME ReadType
  PROVE  /\ PyGpio!Names \in Seq(Texts)
         /\ at = Len(file) => PyGpio!Names = PyGpio!NamesIn(file)
  <1>1. file \in Seq(Int) /\ at \in 0..Len(file) /\ Len(file) \in Nat
    BY DEF ReadType
  <1>2. SubSeq(file, 1, at) \in Texts
    <2>1. \A j \in 1..at : file[j] \in Int
      BY <1>1
    <2> QED BY <1>1, <2>1, SubSeqProperties DEF Texts
  <1>3. SubSeq(file, 1, Len(file)) = file
    BY <1>1
  <1> QED BY <1>2, <1>3, NamesAreListed DEF PyGpio!Names

LEMMA NamesGoOn ==
  ASSUME ReadInv,
         \/ PyGpio!NamesGrow \/ PyGpio!NamesList \/ PyGpio!NamesString
         \/ PyGpio!NamesAppend \/ PyGpio!NamesEnd
  PROVE  ReadInv'
  <1> DEFINE N == PyGpio!Names
  <1>1. ASSUME NEW blocks, NEW objects, PyGpio!Raise(blocks, objects) PROVE ReadInv'
    BY <1>1, RaiseReads
  <1>2. N \in Seq(Texts) /\ Len(N) \in Nat /\ (at = Len(file) => N = PyGpio!NamesIn(file))
    BY NamesOfRead DEF ReadInv
  <1>3. UNCHANGED <<file, at>> => N' = N
    BY DEF PyGpio!Names, PyGpio!NamesIn
  <1> HIDE DEF N
  <1>4. ASSUME UNCHANGED <<file, at, broken, bufsize, call>>, parsing \in Scanned \cup {"names_list"},
               parsing' \in Scanned, Listed(N)', parsing' = "names_append" => Len(result') < Len(N)
        PROVE  ReadInv'
    <2>1. Listed(N)' /\ N' = PyGpio!Names' /\ N' = N
      BY <1>3, <1>4 DEF N
    <2>2. NamesSoFar'
      BY <1>4, <2>1 DEF ReadInv, NamesSoFar, Scanned, Listed
    <2> QED BY <1>4, <2>2 DEF ReadInv, ReadType, CellsSoFar, ReturnsAll, Scanned, Cells, Entry
  <1>5. CASE PyGpio!NamesGrow
    <2>1. CASE /\ parsing = "names_grow" /\ parsing' = "names" /\ bufsize' = 2 * bufsize
               /\ UNCHANGED <<file, at, broken, result, call>>
      <3>1. at < bufsize /\ at \in Nat /\ bufsize \in Nat \ {0}
        BY <2>1 DEF ReadInv, ReadType, NamesSoFar
      <3>2. at' < bufsize' /\ bufsize' \in Nat \ {0}
        BY <2>1, <3>1
      <3> QED
        BY <2>1, <3>2 DEF ReadInv, ReadType, CellsSoFar, NamesSoFar, ReturnsAll, Cells, Entry, Scanned
    <2> QED BY <1>1, <1>5, <2>1 DEF PyGpio!NamesGrow, PyGpio!Goto, PyGpio!Same
  <1>6. CASE PyGpio!NamesList
    <2>1. CASE /\ parsing = "names_list" /\ parsing' = "names_next"
               /\ UNCHANGED <<file, at, broken, bufsize, result, call>>
      <3>1. result' = <<>>
        BY <2>1 DEF ReadInv, NamesSoFar
      <3>2. <<>> \in Seq(Texts) /\ Len(<<>>) = 0
        OBVIOUS
      <3>3. N' = N
        BY <1>3, <2>1
      <3>4. Listed(N)'
        BY <1>2, <3>1, <3>2, <3>3 DEF Listed
      <3> QED BY <1>4, <2>1, <3>4 DEF Scanned
    <2> QED BY <1>1, <1>6, <2>1 DEF PyGpio!NamesList, PyGpio!Goto, PyGpio!Same
  <1>7. CASE PyGpio!NamesString
    <2>1. CASE /\ parsing = "names_next" /\ parsing' = "names_append" /\ Len(result) < Len(N)
               /\ UNCHANGED <<file, at, broken, bufsize, result, call>>
      <3>1. Listed(N)
        BY <2>1 DEF ReadInv, NamesSoFar, Scanned, N
      <3>2. Listed(N)'
        BY <1>3, <2>1, <3>1 DEF Listed
      <3> QED BY <1>4, <2>1, <3>2 DEF Scanned
    <2> QED BY <1>1, <1>7, <2>1 DEF PyGpio!NamesString, PyGpio!Goto, PyGpio!Same, N
  <1>8. CASE PyGpio!NamesAppend
    <2>1. CASE /\ parsing = "names_append" /\ parsing' = "names_next"
               /\ result' = Append(result, N[Len(result) + 1])
               /\ UNCHANGED <<file, at, broken, bufsize, call>>
      <3>1. Listed(N) /\ Len(result) < Len(N) /\ Len(result) \in Nat /\ result \in Seq(Texts)
        BY <2>1 DEF ReadInv, NamesSoFar, Scanned, Listed, N
      <3>2. N[Len(result) + 1] \in Texts
        BY <1>2, <3>1
      <3>3. /\ result' \in Seq(Texts) /\ Len(result') = Len(result) + 1
            /\ \A u \in 1..Len(result) : result'[u] = result[u]
            /\ result'[Len(result) + 1] = N[Len(result) + 1]
        BY <2>1, <3>1, <3>2
      <3>4. \A u \in 1..Len(result') : result'[u] = N[u]
        <4> TAKE u \in 1..Len(result')
        <4>1. u \in 1..Len(result) \/ u = Len(result) + 1
          BY <3>1, <3>3
        <4> QED BY <3>1, <3>3, <4>1 DEF Listed
      <3>5. Listed(N)'
        BY <1>2, <1>3, <2>1, <3>1, <3>3, <3>4 DEF Listed
      <3> QED BY <1>4, <2>1, <3>5 DEF Scanned
    <2> QED BY <1>1, <1>8, <2>1 DEF PyGpio!NamesAppend, PyGpio!Goto, PyGpio!Same, N
  <1>9. CASE PyGpio!NamesEnd
    <2>1. /\ parsing = "names_next" /\ parsing' = "returned" /\ Len(result) = Len(N)
          /\ UNCHANGED <<file, at, broken, bufsize, result, call>>
      BY <1>9 DEF PyGpio!NamesEnd, PyGpio!Goto, PyGpio!Same, N
    <2>2. Listed(N) /\ (~broken => at = Len(file)) /\ call # "cells"
      BY <2>1 DEF ReadInv, NamesSoFar, Scanned, N
    <2>3. result = N
      BY <1>2, <2>1, <2>2 DEF Listed
    <2>4. PyGpio!NamesIn(file)' = PyGpio!NamesIn(file)
      BY <2>1, SameNames
    <2>5. ReturnsAll(PyGpio!NamesIn(file))'
      BY <1>2, <2>1, <2>2, <2>3, <2>4 DEF ReturnsAll
    <2> QED
      BY <2>1, <2>5 DEF ReadInv, ReadType, CellsSoFar, NamesSoFar, Cells, Entry, Scanned
  <1> QED BY <1>5, <1>6, <1>7, <1>8, <1>9

\* Steps that leave what is read, and the place of it, as they are.
LEMMA NothingRead ==
  ASSUME ReadInv, UNCHANGED <<parsing, file, at, broken, bufsize, call, result, outcome>>
  PROVE  ReadInv'
  <1>1. PyGpio!NamesIn(file)' = PyGpio!NamesIn(file) /\ PyGpio!Names' = PyGpio!Names
    BY SameNames DEF PyGpio!Names, PyGpio!NamesIn
  <1> QED BY <1>1 DEF ReadInv, ReadType, CellsSoFar, NamesSoFar, ReturnsAll, Listed

LEMMA ReadKept ==
  ASSUME ReadInv, PyGpio!Next
  PROVE  ReadInv'
  <1>1. ASSUME PyGpio!Idle PROVE ReadInv'
    BY <1>1, NothingRead DEF PyGpio!Idle, PyGpio!parse
  <1>2. ASSUME NEW f \in PyGpio!Fds, NEW flags, NEW attrs, NEW offs,
               \/ PyGpio!SetConfig(f, flags, attrs)
               \/ PyGpio!RequestLine(f, offs, flags, attrs)
               \/ PyGpio!Close(f)
        PROVE  ReadInv'
    BY <1>1, <1>2 DEF PyGpio!SetConfig, PyGpio!RequestLine, PyGpio!Close
  <1>3. ASSUME NEW name \in {"cells", "names"}, NEW S \in SUBSET Int, NEW f \in PyGpio!Files(S),
               PyGpio!Start(name, f)
        PROVE  ReadInv'
    BY <1>3, FilesType, StartReads
  <1>4. CASE PyGpio!Drop
    <2>1. parsing' = "idle" /\ file' = <<>> /\ at' = 0 /\ bufsize' = BufSize
      BY <1>4 DEF PyGpio!Drop, PyGpio!Goto
    <2>2. <<>> \in Seq(Int) /\ Len(<<>>) = 0
      OBVIOUS
    <2>3. ReadType'
      BY <2>1, <2>2, ConstantsAssumption DEF ReadType
    <2> QED BY <2>1, <2>3 DEF ReadInv, CellsSoFar, NamesSoFar, ReturnsAll, Cells, Entry, Scanned
  <1>5. CASE PyGpio!CellsBuf \/ PyGpio!CellsList
    <2>1. CASE \E blocks, objects : PyGpio!Raise(blocks, objects)
      BY <2>1, RaiseReads
    <2>2. CASE /\ parsing \in {"cells", "cells_list"} /\ parsing' \in {"cells_list", "cells_read"}
               /\ UNCHANGED <<file, at, broken, bufsize, result, call>>
      BY <2>2 DEF ReadInv, ReadType, CellsSoFar, NamesSoFar, ReturnsAll, Cells, Entry, Scanned
    <2> QED
      BY <1>5, <2>1, <2>2 DEF PyGpio!CellsBuf, PyGpio!CellsList, PyGpio!Goto, PyGpio!Same
  <1>6. CASE \/ PyGpio!CellsEntry \/ PyGpio!CellsTuple \/ PyGpio!CellsItems
             \/ PyGpio!CellsAppend \/ PyGpio!CellsEnd
    BY <1>6, CellsRead
  <1>7. CASE PyGpio!NamesRead
    BY <1>7, NamesAreRead
  <1>8. CASE \/ PyGpio!NamesGrow \/ PyGpio!NamesList \/ PyGpio!NamesString
             \/ PyGpio!NamesAppend \/ PyGpio!NamesEnd
    BY <1>8, NamesGoOn
  <1>9. {1} \in SUBSET Int /\ {0, 1} \in SUBSET Int
    OBVIOUS
  <1> QED BY <1>2, <1>3, <1>4, <1>5, <1>6, <1>7, <1>8, <1>9 DEF PyGpio!Next

\* A parsing call never reads past its buffer, and the list it returns is that of the whole
\* file, for every file and every size of the buffer: dt_read_gpio_cells has an entry for
\* every three words, and dt_read_line_names has each name of the text once and in order,
\* unless the read failed (pygpio.c:322-386, 393-471).
THEOREM ParsersReadAll == Spec => [](PyGpio!FitsBuffer /\ PyGpio!WholeFile)
  <1>1. ReadInv /\ [Next]_vars => ReadInv'
    <2> SUFFICES ASSUME ReadInv, [Next]_vars PROVE ReadInv'
      OBVIOUS
    <2>1. CASE PyGpioStep
      BY <2>1, ReadKept DEF PyGpioStep
    <2>2. CASE UNCHANGED pygpioVars
      BY <2>2, NothingRead DEF pygpioVars
    <2> QED BY <2>1, <2>2 DEF Next, CounterStep, EpollStep, DisplayStep, vars
  <1>2. ReadInv => PyGpio!FitsBuffer /\ PyGpio!WholeFile
    <2> SUFFICES ASSUME ReadInv PROVE PyGpio!FitsBuffer /\ PyGpio!WholeFile
      OBVIOUS
    <2>1. PyGpio!ListsNames(PyGpio!NamesIn(file), file)
      BY NamesAreListed DEF ReadInv, ReadType, Texts
    <2>2. PyGpio!WholeFile
      BY <2>1 DEF ReadInv, ReturnsAll, PyGpio!WholeFile
    <2> QED BY <2>2 DEF ReadInv, NamesSoFar, PyGpio!FitsBuffer
  <1> QED BY ReadStart, <1>1, <1>2, PTL DEF Spec

\* Nothing is lost or changed on its way between Python, the kernel and the device tree
\* (pygpio.c:184, 322-386, 393-471).
THEOREM NothingIsChanged == Spec => []ExactlyAsAsked
  <1>1. PyGpio!LinesAsAsked /\ PyGpio!FitsBuffer /\ PyGpio!WholeFile => ExactlyAsAsked
    BY DEF ExactlyAsAsked, PyGpio!ExactlyAsAsked
  <1> QED BY LinesAreAsAsked, ParsersReadAll, <1>1, PTL

------------------------------------------------------------------------------
(* EpollServer. *)

Bytes == Epoll!Commands \cup Clients

\* Between the read of a request and its answer.
Busy == pc \in {"forward", "reply", "dead"}

\* The request of c that has been read and not answered.
Taken(c) == IF Busy /\ fd = c THEN 1 ELSE 0

EpollType ==
  /\ wire \in [Clients -> Seq(Bytes)]
  /\ asked \in [Clients -> Seq(Epoll!Commands)]
  /\ told \in [Clients -> Seq(Epoll!Commands)]
  /\ pc \in {"wait", "batch", "forward", "reply", "dead"}
  /\ Busy => fd \in Clients

\* The first bytes of the pairs on w are the requests of a after the first k.
Paired(w, a, k) ==
  /\ k <= Len(a)
  /\ Len(w) = 2 * (Len(a) - k)
  /\ \A j \in 1..(Len(a) - k) : w[2 * j - 1] = a[k + j]

\* t repeats the first requests of a.
Repeats(t, a) ==
  /\ Len(t) <= Len(a)
  /\ \A j \in 1..Len(t) : t[j] = a[j]

\* What c has asked is what it was told, then the request being handled, then the wire.
Framed(c) ==
  /\ Paired(wire[c], asked[c], Len(told[c]) + Taken(c))
  /\ Taken(c) = 1 => Head(chunk) = asked[c][Len(told[c]) + 1]
  /\ Repeats(told[c], asked[c])

EpollInv == EpollType /\ \A c \in Clients \ mixed : Framed(c)

LEMMA EpollStart ==
  ASSUME Init PROVE EpollInv
  <1>1. /\ wire = [c \in Clients |-> <<>>] /\ asked = wire /\ told = wire
        /\ pc = "wait"
    BY DEF Init, Epoll!Init
  <1>2. EpollType
    BY <1>1 DEF EpollType, Busy
  <1>3. ASSUME NEW c \in Clients PROVE Framed(c)
    BY <1>1 DEF Framed, Taken, Busy, Paired, Repeats
  <1> QED BY <1>2, <1>3 DEF EpollInv

\* One more request at the end of both.
LEMMA PairedSend ==
  ASSUME NEW S, NEW B, NEW w \in Seq(B), NEW a \in Seq(S), NEW k \in Nat, Paired(w, a, k),
         NEW cmd, NEW x
  PROVE  Paired(w \o <<cmd, x>>, Append(a, cmd), k)
  <1> DEFINE v == w \o <<cmd, x>>
             b == Append(a, cmd)
  <1>1. Len(w) \in Nat /\ Len(a) \in Nat /\ Len(v) = Len(w) + 2 /\ Len(b) = Len(a) + 1
    OBVIOUS
  <1>2. /\ \A j \in 1..Len(w) : v[j] = w[j]
        /\ v[Len(w) + 1] = cmd
    OBVIOUS
  <1>3. /\ \A j \in 1..Len(a) : b[j] = a[j]
        /\ b[Len(a) + 1] = cmd
    OBVIOUS
  <1> HIDE DEF v, b
  <1>4. ASSUME NEW j \in 1..(Len(b) - k)
        PROVE  v[2 * j - 1] = b[k + j]
    <2>1. CASE j \in 1..(Len(a) - k)
      <3>1. 2 * j - 1 \in 1..Len(w) /\ k + j \in 1..Len(a)
        BY <1>1, <2>1 DEF Paired
      <3> QED BY <1>2, <1>3, <2>1, <3>1 DEF Paired
    <2>2. CASE j = Len(a) + 1 - k
      <3>1. 2 * j - 1 = Len(w) + 1 /\ k + j = Len(a) + 1
        BY <1>1, <2>2 DEF Paired
      <3> QED BY <1>2, <1>3, <3>1
    <2> QED BY <1>1, <2>1, <2>2 DEF Paired
  <1>5. Paired(v, b, k)
    BY <1>1, <1>4 DEF Paired
  <1> QED BY <1>5 DEF v, b

\* The first pair is taken.
LEMMA PairedTake ==
  ASSUME NEW S, NEW B, NEW w \in Seq(B), NEW a \in Seq(S), NEW k \in Nat, Paired(w, a, k),
         Len(w) >= 2
  PROVE  /\ Paired(SubSeq(w, 3, Len(w)), a, k + 1)
         /\ w[1] = a[k + 1]
  <1> DEFINE v == SubSeq(w, 3, Len(w))
  <1>1. Len(w) \in Nat /\ Len(a) \in Nat
    OBVIOUS
  <1>2. Len(v) = Len(w) - 2
    <2>1. \A j \in 3..Len(w) : w[j] \in B
      BY <1>1
    <2>2. 3 \in Int /\ Len(w) \in Int
      BY <1>1
    <2> HIDE DEF v
    <2>3. Len(v) = IF 3 <= Len(w) THEN Len(w) - 3 + 1 ELSE 0
      BY <2>1, <2>2, SubSeqProperties DEF v
    <2>4. \A m \in Nat : m >= 2 => (IF 3 <= m THEN m - 3 + 1 ELSE 0) = m - 2
      OBVIOUS
    <2> QED BY <1>1, <2>3, <2>4, Zenon
  <1>3. \A j \in 1..(Len(w) - 2) : v[j] = w[j + 2]
    BY <1>1
  <1> HIDE DEF v
  <1>4. w[1] = a[k + 1] /\ k + 1 <= Len(a)
    <2>1. 1 \in 1..(Len(a) - k)
      BY <1>1 DEF Paired
    <2>2. w[2 * 1 - 1] = a[k + 1]
      BY <2>1 DEF Paired
    <2> QED BY <1>1, <2>1, <2>2
  <1>5. ASSUME NEW j \in 1..(Len(a) - (k + 1))
        PROVE  v[2 * j - 1] = a[k + 1 + j]
    <2>1. /\ 2 * j - 1 \in 1..(Len(w) - 2)
          /\ (2 * j - 1) + 2 = 2 * (j + 1) - 1
          /\ j + 1 \in 1..(Len(a) - k)
          /\ k + (j + 1) = k + 1 + j
      BY <1>1 DEF Paired
    <2>2. v[2 * j - 1] = w[2 * (j + 1) - 1]
      BY <1>3, <2>1
    <2>3. w[2 * (j + 1) - 1] = a[k + (j + 1)]
      BY <2>1 DEF Paired
    <2> QED BY <2>1, <2>2, <2>3
  <1>6. Len(v) = 2 * (Len(a) - (k + 1))
    BY <1>1, <1>2 DEF Paired
  <1>7. Paired(v, a, k + 1)
    BY <1>4, <1>5, <1>6 DEF Paired
  <1> QED BY <1>4, <1>7 DEF v

\* One more answer, the next one.
LEMMA RepeatsMore ==
  ASSUME NEW S, NEW t \in Seq(S), NEW a \in Seq(S), Repeats(t, a), Len(t) + 1 <= Len(a),
         NEW x, x = a[Len(t) + 1]
  PROVE  Repeats(Append(t, x), a)
  <1>1. Len(t) \in Nat /\ Len(Append(t, x)) = Len(t) + 1
    OBVIOUS
  <1>2. \A j \in 1..(Len(t) + 1) : Append(t, x)[j] = IF j = Len(t) + 1 THEN x ELSE t[j]
    OBVIOUS
  <1> QED BY <1>1, <1>2 DEF Repeats

\* A repeated prefix stays one when a request is added.
LEMMA RepeatsStill ==
  ASSUME NEW S, NEW t \in Seq(S), NEW a \in Seq(S), Repeats(t, a), NEW cmd
  PROVE  Repeats(t, Append(a, cmd))
  <1>1. Len(t) \in Nat /\ Len(a) \in Nat /\ Len(Append(a, cmd)) = Len(a) + 1
    OBVIOUS
  <1>2. \A j \in 1..Len(a) : Append(a, cmd)[j] = a[j]
    OBVIOUS
  <1> QED BY <1>1, <1>2 DEF Repeats

\* Steps that neither read nor answer.
LEMMA NothingPassed ==
  ASSUME EpollInv, UNCHANGED <<wire, asked, told, mixed, fd, chunk>>,
         pc' \in {"wait", "batch", "forward", "reply", "dead"}, Busy' <=> Busy
  PROVE  EpollInv'
  <1>1. EpollType'
    BY DEF EpollInv, EpollType
  <1>2. ASSUME NEW c \in Clients PROVE Taken(c)' = Taken(c)
    BY DEF Taken
  <1>3. ASSUME NEW c \in Clients, Framed(c) PROVE Framed(c)'
    BY <1>2, <1>3 DEF Framed
  <1> QED BY <1>1, <1>3 DEF EpollInv

\* A request that is sent comes after those on the wire.
LEMMA SendKeeps ==
  ASSUME EpollInv, NEW c \in Clients, NEW cmd \in Epoll!Commands, Epoll!Send(c, cmd)
  PROVE  EpollInv'
  <1>1. /\ asked' = [asked EXCEPT ![c] = Append(asked[c], cmd)]
        /\ wire' = [wire EXCEPT ![c] = wire[c] \o <<cmd, c>>]
        /\ UNCHANGED <<told, mixed, fd, chunk, pc>>
    BY DEF Epoll!Send, Epoll!Outside
  <1>2. /\ wire \in [Clients -> Seq(Bytes)] /\ asked \in [Clients -> Seq(Epoll!Commands)]
        /\ told \in [Clients -> Seq(Epoll!Commands)]
    BY DEF EpollInv, EpollType
  <1>3. EpollType'
    <2>1. <<cmd, c>> \in Seq(Bytes)
      BY DEF Bytes
    <2>2. wire[c] \o <<cmd, c>> \in Seq(Bytes) /\ Append(asked[c], cmd) \in Seq(Epoll!Commands)
      BY <1>2, <2>1
    <2>3. /\ wire' \in [Clients -> Seq(Bytes)]
          /\ asked' \in [Clients -> Seq(Epoll!Commands)]
      BY <1>1, <1>2, <2>2
    <2> QED BY <1>1, <2>3 DEF EpollInv, EpollType, Busy
  <1>4. ASSUME NEW d \in Clients, Framed(d) PROVE Framed(d)'
    <2>1. Taken(d)' = Taken(d) /\ Taken(d) \in {0, 1}
      BY <1>1 DEF Taken, Busy
    <2>2. CASE d # c
      <3>1. wire'[d] = wire[d] /\ asked'[d] = asked[d]
        BY <1>1, <1>2, <2>2
      <3> QED BY <1>1, <1>4, <2>1, <3>1 DEF Framed
    <2>3. CASE d = c
      <3>1. /\ wire[c] \in Seq(Bytes) /\ asked[c] \in Seq(Epoll!Commands)
            /\ told[c] \in Seq(Epoll!Commands)
            /\ Len(told[c]) \in Nat /\ Len(told[c]) + Taken(c) \in Nat
        BY <1>2, <2>1, <2>3
      <3>2. wire'[c] = wire[c] \o <<cmd, c>> /\ asked'[c] = Append(asked[c], cmd)
        BY <1>1, <1>2
      <3>3. /\ Paired(wire[c], asked[c], Len(told[c]) + Taken(c))
            /\ Taken(c) = 1 => Head(chunk) = asked[c][Len(told[c]) + 1]
            /\ Repeats(told[c], asked[c])
        BY <1>4, <2>3 DEF Framed
      <3>4. Paired(wire'[c], asked'[c], Len(told[c]) + Taken(c))
        BY <3>1, <3>2, <3>3, PairedSend
      <3>5. Repeats(told[c], asked'[c])
        BY <3>1, <3>2, <3>3, RepeatsStill
      <3>6. Taken(c) = 1 => Head(chunk) = asked'[c][Len(told[c]) + 1]
        <4>1. Taken(c) = 1 => Len(told[c]) + 1 \in 1..Len(asked[c])
          BY <3>1, <3>3 DEF Paired
        <4> QED BY <3>1, <3>2, <3>3, <4>1
      <3>7. told'[c] = told[c] /\ chunk' = chunk /\ Taken(c)' = Taken(c)
        BY <1>1, <2>1, <2>3
      <3>8. Framed(c)'
        BY <3>4, <3>5, <3>6, <3>7 DEF Framed
      <3> QED BY <2>3, <3>8
    <2> QED BY <2>2, <2>3
  <1> QED BY <1>1, <1>3, <1>4 DEF EpollInv

\* A read of one request takes the first pair off the wire.
LEMMA ReadKeeps ==
  ASSUME EpollInv, NEW c \in Clients, Epoll!Read(c)
  PROVE  EpollInv'
  <1> DEFINE w == wire[c]
  <1>1. PICK n \in 1..Len(w) :
          /\ chunk' = SubSeq(w, 1, n)
          /\ wire' = [wire EXCEPT ![c] = SubSeq(w, n + 1, Len(w))]
    BY DEF Epoll!Read
  <1>2. /\ pc = "batch" /\ pc' \in {"forward", "reply"} /\ fd' = c
        /\ mixed \subseteq mixed'
        /\ c \notin mixed' => c \notin mixed /\ Len(chunk') = 2
        /\ UNCHANGED <<asked, told>>
    BY DEF Epoll!Read
  <1>3. /\ wire \in [Clients -> Seq(Bytes)] /\ w \in Seq(Bytes) /\ Len(w) \in Nat
        /\ asked[c] \in Seq(Epoll!Commands) /\ told[c] \in Seq(Epoll!Commands)
        /\ Len(asked[c]) \in Nat /\ Len(told[c]) \in Nat
    BY DEF EpollInv, EpollType
  <1>4. EpollType'
    <2>1. SubSeq(w, n + 1, Len(w)) \in Seq(Bytes)
      BY <1>3
    <2>2. wire' \in [Clients -> Seq(Bytes)]
      BY <1>1, <1>3, <2>1
    <2> QED BY <1>2, <2>2 DEF EpollInv, EpollType, Busy
  <1>5. ASSUME NEW d \in Clients PROVE Taken(d) = 0 /\ Taken(d)' = IF d = c THEN 1 ELSE 0
    BY <1>2 DEF Taken, Busy
  <1>6. ASSUME NEW d \in Clients, d # c, Framed(d) PROVE Framed(d)'
    <2>1. wire'[d] = wire[d] /\ Taken(d)' = Taken(d) /\ Taken(d) = 0
      BY <1>1, <1>3, <1>5, <1>6
    <2> QED BY <1>2, <1>6, <2>1 DEF Framed
  <1>7. ASSUME c \notin mixed' PROVE Framed(c)'
    <2>1. /\ Paired(w, asked[c], Len(told[c]))
          /\ Repeats(told[c], asked[c])
      <3>1. Framed(c) /\ Len(told[c]) + Taken(c) = Len(told[c])
        BY <1>2, <1>3, <1>5, <1>7 DEF EpollInv
      <3> QED BY <3>1 DEF Framed
    <2>2. n = 2 /\ 2 <= Len(w)
      <3>1. Len(chunk') = n
        BY <1>1, <1>3
      <3> QED BY <1>2, <1>3, <1>7, <3>1
    <2>3. wire'[c] = SubSeq(w, 3, Len(w))
      BY <1>1, <1>3, <2>2
    <2>4. Head(chunk') = w[1]
      BY <1>1, <1>3, <2>2
    <2> HIDE DEF w
    <2>5. /\ Paired(wire'[c], asked[c], Len(told[c]) + 1)
          /\ w[1] = asked[c][Len(told[c]) + 1]
      BY <1>3, <2>1, <2>2, <2>3, PairedTake
    <2>6. Taken(c)' = 1 /\ told'[c] = told[c] /\ asked'[c] = asked[c]
      BY <1>2, <1>5
    <2> QED BY <2>1, <2>4, <2>5, <2>6 DEF Framed
  <1>8. ASSUME NEW d \in Clients \ mixed' PROVE Framed(d)'
    BY <1>2, <1>6, <1>7 DEF EpollInv
  <1> QED BY <1>4, <1>8 DEF EpollInv

\* The answer repeats the request.
LEMMA ReplyKeeps ==
  ASSUME EpollInv, Epoll!Reply, pc' = "batch"
  PROVE  EpollInv'
  <1> DEFINE ans == IF Head(chunk) \in Epoll!Commands THEN Head(chunk) ELSE "?"
  <1>1. /\ pc = "reply" /\ told' = [told EXCEPT ![fd] = Append(told[fd], ans)]
        /\ UNCHANGED <<wire, asked, mixed, fd, chunk>>
    BY DEF Epoll!Reply, Epoll!World
  <1>2. /\ fd \in Clients /\ told \in [Clients -> Seq(Epoll!Commands)]
        /\ asked \in [Clients -> Seq(Epoll!Commands)]
        /\ ans \in Epoll!Commands
    BY <1>1 DEF EpollInv, EpollType, Busy, Epoll!Commands
  <1> HIDE DEF ans
  <1>3. EpollType'
    <2>1. Append(told[fd], ans) \in Seq(Epoll!Commands)
      BY <1>2
    <2>2. told' \in [Clients -> Seq(Epoll!Commands)]
      BY <1>1, <1>2, <2>1
    <2> QED BY <1>1, <2>2 DEF EpollInv, EpollType, Busy
  <1>4. ASSUME NEW d \in Clients PROVE Taken(d)' = 0 /\ Taken(d) = IF d = fd THEN 1 ELSE 0
    BY <1>1 DEF Taken, Busy
  <1>5. ASSUME NEW d \in Clients, d # fd, Framed(d) PROVE Framed(d)'
    <2>1. told'[d] = told[d] /\ Taken(d)' = Taken(d) /\ Taken(d) = 0
      BY <1>1, <1>2, <1>4, <1>5
    <2> QED BY <1>1, <1>5, <2>1 DEF Framed
  <1>6. ASSUME NEW d \in Clients, d = fd, Framed(d) PROVE Framed(d)'
    <2>1. /\ told[d] \in Seq(Epoll!Commands) /\ asked[d] \in Seq(Epoll!Commands)
          /\ Len(told[d]) \in Nat /\ Len(asked[d]) \in Nat
          /\ Taken(d) = 1 /\ Taken(d)' = 0
      BY <1>2, <1>4, <1>6
    <2>2. /\ Paired(wire[d], asked[d], Len(told[d]) + 1)
          /\ Head(chunk) = asked[d][Len(told[d]) + 1]
          /\ Repeats(told[d], asked[d])
      BY <1>6, <2>1 DEF Framed
    <2>3. Len(told[d]) + 1 <= Len(asked[d])
      BY <2>2 DEF Paired
    <2>4. ans = asked[d][Len(told[d]) + 1]
      <3>1. asked[d][Len(told[d]) + 1] \in Epoll!Commands
        BY <2>1, <2>3
      <3> QED BY <2>2, <3>1 DEF ans
    <2>5. told'[d] = Append(told[d], ans) /\ Len(told'[d]) = Len(told[d]) + 1
      <3>1. told'[d] = Append(told[d], ans)
        BY <1>1, <1>2, <1>6
      <3> QED BY <1>2, <2>1, <3>1
    <2>6. Repeats(told'[d], asked[d])
      BY <2>1, <2>2, <2>3, <2>4, <2>5, RepeatsMore
    <2>7. Len(told'[d]) + 0 = Len(told[d]) + 1
      BY <2>1, <2>5
    <2> QED BY <1>1, <2>1, <2>2, <2>6, <2>7 DEF Framed
  <1>7. ASSUME NEW d \in Clients \ mixed' PROVE Framed(d)'
    BY <1>1, <1>2, <1>5, <1>6 DEF EpollInv
  <1> QED BY <1>3, <1>7 DEF EpollInv

LEMMA EpollKept ==
  ASSUME EpollInv, Epoll!Next
  PROVE  EpollInv'
  <1>1. ASSUME NEW c \in Clients, NEW cmd \in Epoll!Commands, Epoll!Send(c, cmd) PROVE EpollInv'
    BY <1>1, SendKeeps
  <1>2. ASSUME NEW c \in Clients, Epoll!Read(c) PROVE EpollInv'
    BY <1>2, ReadKeeps
  <1>3. CASE Epoll!Reply /\ pc' = "batch"
    BY <1>3, ReplyKeeps
  <1>4. CASE Epoll!Reply /\ pc' # "batch"
    <2>1. /\ UNCHANGED <<wire, asked, told, mixed, fd, chunk>>
          /\ pc = "reply" /\ pc' = "dead"
      BY <1>4 DEF Epoll!Reply, Epoll!World
    <2> QED BY <2>1, NothingPassed DEF Busy
  <1>5. ASSUME NEW c \in Clients, Epoll!Connect(c) \/ Epoll!Hangup(c) \/ Epoll!ReadEof(c)
        PROVE  EpollInv'
    <2>1. UNCHANGED <<wire, asked, told, mixed, fd, chunk, pc>>
      BY <1>5 DEF Epoll!Connect, Epoll!Hangup, Epoll!ReadEof, Epoll!Outside, Epoll!World
    <2> QED BY <2>1, NothingPassed DEF EpollInv, EpollType, Busy
  <1>6. CASE Epoll!PaymentReads \/ Epoll!PaymentEnds \/ Epoll!Accept
    <2>1. UNCHANGED <<wire, asked, told, mixed, fd, chunk, pc>>
      BY <1>6 DEF Epoll!PaymentReads, Epoll!PaymentEnds, Epoll!Accept, Epoll!Outside, Epoll!World
    <2> QED BY <2>1, NothingPassed DEF EpollInv, EpollType, Busy
  <1>7. CASE Epoll!Wait \/ Epoll!BatchEnd \/ Epoll!Forward
    <2>1. /\ UNCHANGED <<wire, asked, told, mixed, fd, chunk>>
          /\ pc' \in {"wait", "batch", "reply", "dead"}
          /\ Busy' <=> Busy
      BY <1>7 DEF Epoll!Wait, Epoll!BatchEnd, Epoll!Forward, Epoll!World, Busy
    <2> QED BY <2>1, NothingPassed
  <1> QED
    BY <1>1, <1>2, <1>3, <1>4, <1>5, <1>6, <1>7 DEF Epoll!Next, Epoll!Server

\* The other programs serve nobody.
LEMMA EpollInvariant == Spec => []EpollInv
  <1>1. EpollInv /\ [Next]_vars => EpollInv'
    <2> SUFFICES ASSUME EpollInv, [Next]_vars PROVE EpollInv'
      OBVIOUS
    <2>1. CASE EpollStep
      BY <2>1, EpollKept DEF EpollStep
    <2>2. CASE UNCHANGED epollVars
      <3>1. UNCHANGED <<wire, asked, told, mixed, fd, chunk, pc>>
        BY <2>2 DEF epollVars
      <3> QED BY <3>1, NothingPassed DEF EpollInv, EpollType, Busy
    <2> QED BY <2>1, <2>2 DEF Next, PyGpioStep, CounterStep, DisplayStep, vars
  <1> QED BY EpollStart, <1>1, PTL DEF Spec

\* The n-th answer a client gets is the one to its n-th request, as long as every read took
\* one request; for every number of clients and requests and every order of the events.
THEOREM AnswersAreInOrder == Spec => []AnswersInOrder
  <1>1. ASSUME EpollInv, NEW c \in Clients \ mixed
        PROVE  Epoll!IsPrefix(told[c], asked[c])
    <2>1. /\ told[c] \in Seq(Epoll!Commands) /\ asked[c] \in Seq(Epoll!Commands)
          /\ Len(told[c]) \in Nat /\ Len(asked[c]) \in Nat
      BY <1>1 DEF EpollInv, EpollType
    <2>2. /\ Len(told[c]) <= Len(asked[c])
          /\ \A j \in 1..Len(told[c]) : told[c][j] = asked[c][j]
      BY <1>1 DEF EpollInv, Framed, Repeats
    <2>3. SubSeq(told[c], 1, Len(told[c])) = SubSeq(asked[c], 1, Len(told[c]))
      BY <2>1, <2>2
    <2> QED BY <2>2, <2>3 DEF Epoll!IsPrefix
  <1>2. EpollInv => AnswersInOrder
    BY <1>1 DEF AnswersInOrder, Epoll!AnswersInOrder
  <1> QED BY EpollInvariant, <1>2, PTL

------------------------------------------------------------------------------
(* Display. *)

Digits == 0..9

\* The list of a digit has its final 0 at m.
EndsAt(n, m) == /\ DOMAIN Display!seg2pat[n + 1] = 1..m
                /\ Display!seg2pat[n + 1][m] = 0
                /\ \A j \in 1..(m - 1) : Display!seg2pat[n + 1][j] # 0

\* gen_regpat stops at the final 0.
LEMMA ListDrawn ==
  ASSUME NEW n \in Digits, NEW m \in Nat \ {0}, EndsAt(n, m)
  PROVE  Display!gen_regpat(n) =
           {7, 8} \cup {Display!pat2reg[Display!seg2pat[n + 1][k]] : k \in 1..(m - 1)}
  <1> DEFINE p == Display!seg2pat[n + 1]
  <1>1. (CHOOSE k \in DOMAIN p : p[k] = 0 /\ \A j \in 1..(k - 1) : p[j] # 0) = m
    <2>1. m \in DOMAIN p /\ p[m] = 0 /\ \A j \in 1..(m - 1) : p[j] # 0
      BY DEF EndsAt
    <2>2. ASSUME NEW k \in DOMAIN p, p[k] = 0, k # m PROVE FALSE
      BY <2>2 DEF EndsAt
    <2> HIDE DEF p
    <2> QED BY <2>1, <2>2
  <1> QED BY <1>1 DEF Display!gen_regpat, Display!Disp1, Display!Disp2

\* 7seg.h draws the shapes of seg7.py, on both displays.
LEMMA SamePatterns ==
  ASSUME NEW n \in Digits PROVE Display!gen_regpat(n) = {7, 8} \cup Display!Shape(n)
  <1> DEFINE drawn(m) == {Display!pat2reg[Display!seg2pat[n + 1][k]] : k \in 1..(m - 1)}
  <1>0. CASE n = 0
    <2>1. EndsAt(n, 7) /\ drawn(7) = Display!Shape(n)
      BY <1>0 DEF EndsAt, Display!seg2pat, Display!pat2reg, Display!Shape, Display!PinOf,
         Display!num2seg
    <2> QED BY <2>1, ListDrawn
  <1>1. CASE n = 1
    <2>1. EndsAt(n, 3) /\ drawn(3) = Display!Shape(n)
      BY <1>1 DEF EndsAt, Display!seg2pat, Display!pat2reg, Display!Shape, Display!PinOf,
         Display!num2seg
    <2> QED BY <2>1, ListDrawn
  <1>2. CASE n = 2
    <2>1. EndsAt(n, 6) /\ drawn(6) = Display!Shape(n)
      BY <1>2 DEF EndsAt, Display!seg2pat, Display!pat2reg, Display!Shape, Display!PinOf,
         Display!num2seg
    <2> QED BY <2>1, ListDrawn
  <1>3. CASE n = 3
    <2>1. EndsAt(n, 6) /\ drawn(6) = Display!Shape(n)
      BY <1>3 DEF EndsAt, Display!seg2pat, Display!pat2reg, Display!Shape, Display!PinOf,
         Display!num2seg
    <2> QED BY <2>1, ListDrawn
  <1>4. CASE n = 4
    <2>1. EndsAt(n, 5) /\ drawn(5) = Display!Shape(n)
      BY <1>4 DEF EndsAt, Display!seg2pat, Display!pat2reg, Display!Shape, Display!PinOf,
         Display!num2seg
    <2> QED BY <2>1, ListDrawn
  <1>5. CASE n = 5
    <2>1. EndsAt(n, 6) /\ drawn(6) = Display!Shape(n)
      BY <1>5 DEF EndsAt, Display!seg2pat, Display!pat2reg, Display!Shape, Display!PinOf,
         Display!num2seg
    <2> QED BY <2>1, ListDrawn
  <1>6. CASE n = 6
    <2>1. EndsAt(n, 7) /\ drawn(7) = Display!Shape(n)
      BY <1>6 DEF EndsAt, Display!seg2pat, Display!pat2reg, Display!Shape, Display!PinOf,
         Display!num2seg
    <2> QED BY <2>1, ListDrawn
  <1>7. CASE n = 7
    <2>1. EndsAt(n, 4) /\ drawn(4) = Display!Shape(n)
      BY <1>7 DEF EndsAt, Display!seg2pat, Display!pat2reg, Display!Shape, Display!PinOf,
         Display!num2seg
    <2> QED BY <2>1, ListDrawn
  <1>8. CASE n = 8
    <2>1. EndsAt(n, 8) /\ drawn(8) = Display!Shape(n)
      BY <1>8 DEF EndsAt, Display!seg2pat, Display!pat2reg, Display!Shape, Display!PinOf,
         Display!num2seg
    <2> QED BY <2>1, ListDrawn
  <1>9. CASE n = 9
    <2>1. EndsAt(n, 7) /\ drawn(7) = Display!Shape(n)
      BY <1>9 DEF EndsAt, Display!seg2pat, Display!pat2reg, Display!Shape, Display!PinOf,
         Display!num2seg
    <2> QED BY <2>1, ListDrawn
  <1> QED BY <1>0, <1>1, <1>2, <1>3, <1>4, <1>5, <1>6, <1>7, <1>8, <1>9 DEF Digits

\* ledseg.c draws them too, but for its 7; an 8 takes all segments but the point.
LEMMA Shapes ==
  ASSUME NEW n \in Digits
  PROVE  /\ Display!Shape(n) \subseteq Display!Segments
         /\ Display!Pat(n) = Display!Shape(n) \cup (IF n = 7 THEN {23} ELSE {})
         /\ Display!Segments \ Display!Shape(8) = {25}
  <1> USE DEF Display!Shape, Display!PinOf, Display!num2seg, Display!Segments, Display!Pat
  <1>1. /\ Display!Shape(n) \subseteq Display!Segments
        /\ Display!Segments \ Display!Shape(8) = {25}
    BY DEF Digits
  <1>2. Display!Pat(n) = Display!Shape(n) \cup (IF n = 7 THEN {23} ELSE {})
    BY DEF Digits
  <1> QED BY <1>1, <1>2

Selected == IF digit2 THEN 7 ELSE 8

\* Which program makes which writes.
DisplayPlaces ==
  /\ rep \in Digits
  /\ digit2 \in BOOLEAN
  /\ phase \in {"clear", "set", "shown"} => app \in {"count", "ledseg"}
  /\ phase \in {"reset", "deselect", "select"} => app = "ledseg"

\* count.c: the segments are those of its pattern and what it has found; before it draws a 9
\* it has cleared an 8.
CountLit ==
  app = "count" =>
    /\ stale \subseteq Display!Segments
    /\ phase = "clear" =>
         /\ \A x \in Display!Segments : x \in lit <=> x \in pat \cup stale
         /\ rep > 0 => pat = Display!gen_regpat(rep - 1)
    /\ phase = "set" => \A x \in Display!Segments : x \in lit <=> x \in stale
    /\ phase = "shown" =>
         /\ pat = Display!gen_regpat(rep)
         /\ \A x \in Display!Segments : x \in lit <=> x \in pat \cup stale
         /\ {7, 8} \subseteq lit
    /\ round \/ (rep = 9 /\ phase \in {"set", "shown"}) => stale \subseteq {25}

\* ledseg.c: the segments are those of its pattern, the display is the selected one.
LedsegLit ==
  app = "ledseg" =>
    /\ pat \subseteq Display!Segments
    /\ phase = "reset" => pat = {}
    /\ phase \in {"deselect", "select", "clear", "shown"} =>
         \A x \in Display!Segments : x \in lit <=> x \in pat
    /\ phase = "set" => \A x \in Display!Segments : x \notin lit
    /\ phase = "select" => lit \cap {7, 8} \subseteq {Selected}
    /\ phase \in {"clear", "set", "shown"} => lit \cap {7, 8} = {Selected}
    /\ phase = "shown" => pat = Display!Pat(rep)

DisplayInv == DisplayPlaces /\ CountLit /\ LedsegLit

\* The pins that select a display are no segments, and ledseg resets all of both.
LEMMA Pins ==
  /\ Display!Segments \cap {7, 8} = {}
  /\ Display!Segments \subseteq Display!AllPins
  /\ Display!Disp1 = 7 /\ Display!Disp2 = 8
  BY DEF Display!Segments, Display!AllPins, Display!Disp1, Display!Disp2

LEMMA DisplayStart ==
  ASSUME Init PROVE DisplayInv
  <1>1. app = "none" /\ phase = ""
    BY DEF Init, Display!Init
  <1>2. digit2 \in BOOLEAN
    BY Zenon DEF Init, Display!Init
  <1>3. rep \in Digits
    <2>1. rep = 0
      BY Zenon DEF Init, Display!Init
    <2> QED BY <2>1 DEF Digits
  <1>4. DisplayPlaces
    BY <1>1, <1>2, <1>3, Zenon DEF DisplayPlaces
  <1> QED BY <1>1, <1>4 DEF DisplayInv, CountLit, LedsegLit

LEMMA StartShows ==
  ASSUME DisplayInv, NEW p \in DOMAIN Display!First, Display!Start(p)
  PROVE  DisplayInv'
  <1>1. /\ app' = p /\ phase' = Display!First[p] /\ rep' = 0 /\ pat' = {}
        /\ stale' = lit \cap Display!Segments /\ ~round' /\ lit' = lit
    BY DEF Display!Start
  <1>0. digit2' \in BOOLEAN
    BY Zenon DEF Display!Start
  <1>2. /\ p \in {"count", "ledseg", "ex1_gpio", "gptest"}
        /\ p = "count" => phase' = "clear"
        /\ p = "ledseg" => phase' = "reset"
        /\ p \notin {"count", "ledseg"} => phase' \in {"on", "pin"}
    BY <1>1 DEF Display!First
  <1>3. DisplayPlaces'
    BY <1>0, <1>1, <1>2 DEF DisplayPlaces, Digits
  <1>4. CountLit'
    BY <1>1, <1>2 DEF CountLit
  <1>5. LedsegLit'
    BY <1>1, <1>2 DEF LedsegLit
  <1> QED BY <1>3, <1>4, <1>5 DEF DisplayInv

\* The writes of count.c and ledseg.c that change the segments.
LEMMA ClearShows ==
  ASSUME DisplayInv, Display!Clear
  PROVE  DisplayInv'
  <1>1. /\ phase = "clear" /\ phase' = "set" /\ app' = app
        /\ lit' = lit \ pat /\ stale' = stale \ pat
        /\ UNCHANGED <<rep, digit2, pat, round>>
    BY DEF Display!Clear, Display!Write
  <1>2. DisplayPlaces'
    BY <1>1 DEF DisplayInv, DisplayPlaces
  <1>3. CountLit'
    <2> SUFFICES ASSUME app = "count" PROVE CountLit'
      BY <1>1 DEF CountLit
    <2>1. rep = 9 => stale' \subseteq {25}
      <3>1. rep = 9 => pat = {7, 8} \cup Display!Shape(8)
        BY <1>1, SamePatterns DEF DisplayInv, CountLit, Digits
      <3>2. Display!Segments \ Display!Shape(8) = {25}
        BY Shapes DEF Digits
      <3> QED BY <1>1, <3>1, <3>2 DEF DisplayInv, CountLit
    <2> QED BY <1>1, <2>1 DEF DisplayInv, CountLit
  <1>4. LedsegLit'
    <2> SUFFICES ASSUME app = "ledseg" PROVE LedsegLit'
      BY <1>1 DEF LedsegLit
    <2>1. Selected' = Selected /\ Selected \in {7, 8}
      BY <1>1 DEF Selected
    <2>2. lit' \cap {7, 8} = lit \cap {7, 8}
      BY <1>1, Pins DEF DisplayInv, LedsegLit
    <2> QED BY <1>1, <2>1, <2>2 DEF DisplayInv, LedsegLit
  <1> QED BY <1>2, <1>3, <1>4 DEF DisplayInv

LEMMA SetShows ==
  ASSUME DisplayInv, Display!SetDigit
  PROVE  DisplayInv'
  <1>1. /\ phase = "set" /\ phase' = "shown" /\ app' = app
        /\ pat' = (IF app = "count" THEN Display!gen_regpat(rep) ELSE Display!Pat(rep))
        /\ lit' = lit \cup pat'
        /\ UNCHANGED <<rep, digit2, stale, round>>
    BY DEF Display!SetDigit, Display!Write
  <1>2. DisplayPlaces'
    BY <1>1 DEF DisplayInv, DisplayPlaces
  <1>3. rep \in Digits
    BY DEF DisplayInv, DisplayPlaces
  <1>4. CountLit'
    <2> SUFFICES ASSUME app = "count" PROVE CountLit'
      BY <1>1 DEF CountLit
    <2>1. {7, 8} \subseteq pat' /\ pat' = Display!gen_regpat(rep')
      BY <1>1, <1>3, SamePatterns
    <2> QED BY <1>1, <2>1 DEF DisplayInv, CountLit
  <1>5. LedsegLit'
    <2> SUFFICES ASSUME app = "ledseg" PROVE LedsegLit'
      BY <1>1 DEF LedsegLit
    <2>1. pat' = Display!Pat(rep') /\ pat' \subseteq Display!Segments
      <3>1. 23 \in Display!Segments
        BY DEF Display!Segments
      <3> QED BY <1>1, <1>3, <3>1, Shapes
    <2>2. Selected' = Selected /\ lit' \cap {7, 8} = lit \cap {7, 8}
      BY <1>1, <2>1, Pins DEF Selected
    <2> QED BY <1>1, <2>1, <2>2 DEF DisplayInv, LedsegLit
  <1> QED BY <1>2, <1>4, <1>5 DEF DisplayInv

LEMMA NextShows ==
  ASSUME DisplayInv, Display!NextDigit
  PROVE  DisplayInv'
  <1>1. /\ phase = "shown" /\ app' = app
        /\ phase' = (IF app = "ledseg" /\ rep = 9 THEN "deselect" ELSE "clear")
        /\ rep' = (rep + 1) % 10
        /\ round' = (round \/ rep = 9)
        /\ UNCHANGED <<lit, pat, stale>>
    BY DEF Display!NextDigit, Display!Write
  <1>2. /\ ~(app = "ledseg" /\ rep = 9) => digit2' = digit2
        /\ digit2' \in BOOLEAN
    BY DEF Display!NextDigit, DisplayInv, DisplayPlaces
  <1>3. rep \in Digits /\ app \in {"count", "ledseg"}
    BY <1>1 DEF DisplayInv, DisplayPlaces
  <1>4. rep' \in Digits /\ (rep' > 0 => rep = rep' - 1)
    BY <1>1, <1>3 DEF Digits
  <1>5. DisplayPlaces'
    BY <1>1, <1>2, <1>3, <1>4 DEF DisplayPlaces
  <1>6. CountLit'
    BY <1>1, <1>4 DEF DisplayInv, CountLit
  <1>7. LedsegLit'
    <2> SUFFICES ASSUME app = "ledseg" PROVE LedsegLit'
      BY <1>1 DEF LedsegLit
    <2>1. CASE rep = 9
      BY <1>1, <2>1 DEF DisplayInv, LedsegLit
    <2>2. CASE rep # 9
      BY <1>1, <1>2, <2>2 DEF DisplayInv, LedsegLit, Selected
    <2> QED BY <2>1, <2>2
  <1> QED BY <1>5, <1>6, <1>7 DEF DisplayInv

\* The writes of ledseg.c to the pins that select a display.
LEMMA SelectShows ==
  ASSUME DisplayInv, Display!Reset \/ Display!Deselect \/ Display!Select
  PROVE  DisplayInv'
  <1>1. /\ phase \in {"reset", "deselect", "select"} /\ app = "ledseg" /\ app' = app
        /\ UNCHANGED <<rep, digit2, pat, round>>
    BY DEF Display!Reset, Display!Deselect, Display!Select, Display!Write, Display!same,
       DisplayInv, DisplayPlaces
  <1>2. Selected' = Selected /\ Selected \in {7, 8}
    BY <1>1 DEF Selected
  <1>3. phase' \in {"deselect", "select", "clear"}
    BY DEF Display!Reset, Display!Deselect, Display!Select, Display!Write
  <1>4. DisplayPlaces' /\ CountLit'
    BY <1>1, <1>3 DEF DisplayInv, DisplayPlaces, CountLit
  <1>5. CASE Display!Reset
    <2>1. phase = "reset" /\ phase' = "deselect" /\ lit' = lit \ Display!AllPins
      BY <1>5 DEF Display!Reset, Display!Write
    <2> QED BY <1>1, <1>4, <2>1, Pins DEF DisplayInv, LedsegLit
  <1>6. CASE Display!Deselect
    <2>1. phase = "deselect" /\ phase' = "select" /\ lit' = lit \ {IF digit2 THEN 8 ELSE 7}
      BY <1>6, Pins DEF Display!Deselect, Display!Write
    <2>2. lit' \cap {7, 8} \subseteq {Selected}
      BY <2>1 DEF Selected
    <2>3. \A x \in Display!Segments : x \in lit' <=> x \in lit
      BY <2>1, Pins
    <2> QED BY <1>1, <1>2, <1>4, <2>1, <2>2, <2>3 DEF DisplayInv, LedsegLit
  <1>7. CASE Display!Select
    <2>1. phase = "select" /\ phase' = "clear" /\ lit' = lit \cup {Selected}
      BY <1>7, Pins DEF Display!Select, Display!Write, Selected
    <2>2. lit' \cap {7, 8} = {Selected}
      BY <1>1, <1>2, <2>1 DEF DisplayInv, LedsegLit
    <2>3. \A x \in Display!Segments : x \in lit' <=> x \in lit
      BY <1>2, <2>1, Pins
    <2> QED BY <1>1, <1>2, <1>4, <2>1, <2>2, <2>3 DEF DisplayInv, LedsegLit
  <1> QED BY <1>5, <1>6, <1>7

LEMMA DisplayKept ==
  ASSUME DisplayInv, Display!Next
  PROVE  DisplayInv'
  <1>1. ASSUME phase' \in {"", "on", "off", "pin"}, app' \notin {"count", "ledseg"},
               rep' \in Digits, digit2' \in BOOLEAN
        PROVE  DisplayInv'
    BY <1>1 DEF DisplayInv, DisplayPlaces, CountLit, LedsegLit
  <1>2. CASE Display!Stop
    <2>1. app' = "none" /\ phase' = "" /\ UNCHANGED <<rep, digit2>>
      BY <1>2 DEF Display!Stop, Display!same
    <2> QED BY <1>1, <2>1 DEF DisplayInv, DisplayPlaces
  <1>3. CASE Display!AllOn \/ Display!AllOff
    BY <1>3 DEF Display!AllOn, Display!AllOff, Display!Write, Display!same, DisplayInv,
       DisplayPlaces, CountLit, LedsegLit
  <1>4. CASE Display!Pin
    <2>1. phase = "pin" /\ phase' = "pin" /\ app' = app /\ rep' = (rep + 1) % 10
          /\ UNCHANGED <<digit2, pat, stale, round>>
      BY <1>4 DEF Display!Pin, Display!Write
    <2>2. rep' \in Digits
      BY <2>1 DEF DisplayInv, DisplayPlaces, Digits
    <2> QED BY <2>1, <2>2 DEF DisplayInv, DisplayPlaces, CountLit, LedsegLit
  <1> QED
    BY <1>2, <1>3, <1>4, StartShows, ClearShows, SetShows, NextShows, SelectShows
       DEF Display!Next

\* Whatever pins the programs before have left high, ledseg.c shows the digit on one display,
\* and count.c shows it on both, with what it has found lit until a round of digits has
\* cleared all of it but the decimal point.
THEOREM DisplaysShowDigit == Spec => []ShowsDigit
  <1>1. DisplayInv /\ [Next]_vars => DisplayInv'
    <2> SUFFICES ASSUME DisplayInv, [Next]_vars PROVE DisplayInv'
      OBVIOUS
    <2>1. CASE DisplayStep
      BY <2>1, DisplayKept DEF DisplayStep
    <2>2. CASE UNCHANGED displayVars
      BY <2>2 DEF displayVars, DisplayInv, DisplayPlaces, CountLit, LedsegLit, Selected
    <2> QED BY <2>1, <2>2 DEF Next, CounterStep, EpollStep, PyGpioStep, vars
  <1>2. ASSUME DisplayInv, phase = "shown", app = "ledseg" PROVE ShowsDigit
    <2>1. /\ \A x \in Display!Segments : x \in lit <=> x \in Display!Pat(rep)
          /\ lit \cap {7, 8} = {Selected}
          /\ rep \in Digits
      BY <1>2 DEF DisplayInv, LedsegLit, DisplayPlaces
    <2>2. /\ Display!Pat(rep) = Display!Shape(rep) \cup (IF rep = 7 THEN {23} ELSE {})
          /\ Display!Pat(rep) \subseteq Display!Segments
      <3>1. 23 \in Display!Segments
        BY DEF Display!Segments
      <3> QED BY <2>1, <3>1, Shapes
    <2>3. lit \cap Display!Segments = Display!Shape(rep) \cup (IF rep = 7 THEN {23} ELSE {})
      BY <2>1, <2>2
    <2> QED
      BY <1>2, <2>1, <2>3, Pins DEF ShowsDigit, Display!ShowsDigit, Selected, Display!PinOf
  <1>3. ASSUME DisplayInv, phase = "shown", app # "ledseg" PROVE ShowsDigit
    <2>1. app = "count" /\ rep \in Digits
      BY <1>3 DEF DisplayInv, DisplayPlaces
    <2>2. /\ \A x \in Display!Segments :
               x \in lit <=> x \in ({7, 8} \cup Display!Shape(rep)) \cup stale
          /\ {7, 8} \subseteq lit /\ stale \subseteq Display!Segments
          /\ round => stale \subseteq {25}
      BY <1>3, <2>1, SamePatterns DEF DisplayInv, CountLit
    <2>3. Display!Shape(rep) \subseteq Display!Segments
      BY <2>1, Shapes
    <2>4. lit \cap Display!Segments = Display!Shape(rep) \cup stale
      BY <2>2, <2>3, Pins
    <2> QED
      BY <1>3, <2>2, <2>4, Pins DEF ShowsDigit, Display!ShowsDigit, Display!PinOf
  <1>4. DisplayInv => ShowsDigit
    BY <1>2, <1>3 DEF ShowsDigit, Display!ShowsDigit
  <1> QED BY DisplayStart, <1>1, <1>4, PTL DEF Spec
===============================================================================
