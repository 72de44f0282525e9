----------------------------- MODULE PyTimerProofs -----------------------------
(***************************************************************************)
(* PyTimer for any number of timers, callbacks and notification threads:   *)
(* an expiry calls the callback of its timer, once, after what failed      *)
(* creations have left under the timer's id.                               *)
(***************************************************************************)
EXTENDS PyTimer, FiniteSetTheorems, TLAPS

Entries == [timerid : Timers, cb : Callbacks]

\* The entries with an id among the first n of a list, and how many they are.
At(s, id, n)    == {p \in 1..n : s[p].timerid = id}
Count(s, id, n) == Cardinality(At(s, id, n))

------------------------------------------------------------------------------
(* Counting. *)

\* A prefix has finitely many entries, and the empty one none.
LEMMA CountType ==
  ASSUME NEW s \in Seq(Entries), NEW id, NEW n \in Nat
  PROVE  /\ IsFiniteSet(At(s, id, n))
         /\ Count(s, id, n) \in Nat
         /\ (\A p \in 1..n : s[p].timerid # id) => Count(s, id, n) = 0
  <1>1. IsFiniteSet(1..n)
    BY FS_Interval
  <1>2. At(s, id, n) \in SUBSET (1..n)
    BY DEF At
  <1>3. IsFiniteSet(At(s, id, n))
    BY <1>1, <1>2, FS_Subset
  <1>4. ASSUME \A p \in 1..n : s[p].timerid # id
        PROVE  Count(s, id, n) = 0
    <2>1. At(s, id, n) = {}
      BY <1>4 DEF At
    <2> QED BY <2>1, FS_EmptySet DEF Count
  <1> QED BY <1>3, <1>4, FS_CardinalityType DEF Count

\* Nothing is counted in the empty prefix.
LEMMA CountNone ==
  ASSUME NEW s \in Seq(Entries), NEW id
  PROVE  Count(s, id, 0) = 0
  <1>1. At(s, id, 0) = {}
    BY DEF At
  <1> QED BY <1>1, FS_EmptySet DEF Count

\* One entry more.
LEMMA CountNext ==
  ASSUME NEW s \in Seq(Entries), NEW id, NEW n \in Nat
  PROVE  Count(s, id, n + 1) = Count(s, id, n) + (IF s[n + 1].timerid = id THEN 1 ELSE 0)
  <1>1. IsFiniteSet(At(s, id, n)) /\ Count(s, id, n) \in Nat
    BY CountType
  <1>2. n + 1 \notin At(s, id, n)
    BY DEF At
  <1>3. CASE s[n + 1].timerid = id
    <2>1. At(s, id, n + 1) = At(s, id, n) \cup {n + 1}
      BY <1>3 DEF At
    <2> QED BY <1>1, <1>2, <1>3, <2>1, FS_AddElement DEF Count
  <1>4. CASE s[n + 1].timerid # id
    <2>1. At(s, id, n + 1) = At(s, id, n)
      BY <1>4 DEF At
    <2> QED BY <1>1, <1>4, <2>1 DEF Count
  <1> QED BY <1>3, <1>4

\* What follows the last entry under an id adds nothing.
LEMMA CountRest ==
  ASSUME NEW s \in Seq(Entries), NEW id, NEW m \in Nat, NEW n \in 0..m, NEW p \in 0..n,
         \A q \in (p + 1)..m : s[q].timerid # id
  PROVE  Count(s, id, n) = Count(s, id, m)
  <1>1. At(s, id, m) = At(s, id, n)
    BY DEF At
  <1> QED BY <1>1 DEF Count

\* Lengthening the list does not change what is counted before its end.
LEMMA CountAppend ==
  ASSUME NEW s \in Seq(Entries), NEW e \in Entries, NEW id, NEW n \in 0..Len(s)
  PROVE  Count(Append(s, e), id, n) = Count(s, id, n)
  <1>1. \A p \in 1..n : Append(s, e)[p] = s[p]
    OBVIOUS
  <1>2. At(Append(s, e), id, n) = At(s, id, n)
    BY <1>1 DEF At
  <1> QED BY <1>2 DEF Count

------------------------------------------------------------------------------
(* The invariant. *)

\* What create has given out: entries in the order of their ids, none beyond the next id.
Ids ==
  /\ timercount \in 1..(creates + 1)
  /\ \A p \in 1..Len(callbacks) : callbacks[p].timerid <= timercount
  /\ \A k \in Timers : event[k].id < timercount
  /\ \A k \in Timers : k > creates => event[k].cb = NoCallback
  /\ \A i \in Timers : i > timercount => strays[i] = 0
  /\ timercount \in Timers => Count(callbacks, timercount, Len(callbacks)) = strays[timercount]

Fires(k) == event[k].cb # NoCallback

\* p is the last entry of the list under id.
LastOf(s, id, p) ==
  /\ p \in 1..Len(s) /\ s[p].timerid = id
  /\ \A q \in (p + 1)..Len(s) : s[q].timerid # id

\* A timer that notifies has its callback on the list since it was created, behind the strays
\* of its id.
Listed(k) ==
  LET id == event[k].id IN
  /\ id \in Timers
  /\ Count(callbacks, id, Len(callbacks)) = 1 + strays[id]
  /\ size[k] \in 1..Len(callbacks)
  /\ \E p \in 1..size[k] : LastOf(callbacks, id, p) /\ callbacks[p].cb = event[k].cb

\* A thread has called what it has passed, the last one last.
Passed(t) ==
  LET id == event[th[t].timer].id
      n  == th[t].cur - 1 IN
  /\ n \in 0..Len(callbacks)
  /\ th[t].calls = Count(callbacks, id, n)
  /\ \A p \in 1..n :
       /\ callbacks[p].timerid = id
       /\ \A q \in (p + 1)..n : callbacks[q].timerid # id
       => th[t].last = callbacks[p].cb
  /\ th[t].pc = "gil" => n < Len(callbacks) /\ callbacks[n + 1].timerid = id

Finished(t) ==
  LET e == event[th[t].timer] IN
  /\ th[t].last = e.cb
  /\ th[t].calls = 1 + strays[e.id]

Walks ==
  \A t \in Threads :
    /\ th[t].pc # "idle" \/ th[t].cur > 1 => Fires(th[t].timer)
    /\ th[t].pc # "idle" => Passed(t)
    /\ th[t].pc = "idle" /\ th[t].cur > 1 => Finished(t)

TimerInv == TypeOK /\ Ids /\ (\A k \in Timers : Fires(k) => Listed(k)) /\ Walks

------------------------------------------------------------------------------
(* Create. *)

\* add_py_callback leaves what is on the list where it is.
LEMMA Appended ==
  ASSUME TypeOK, timercount \in Timers, NEW cb \in Callbacks \cup {NoCallback}, AddCallback(cb)
  PROVE  /\ callbacks' \in Seq(Entries)
         /\ Len(callbacks') = Len(callbacks) + (IF cb = NoCallback THEN 0 ELSE 1)
         /\ \A p \in 1..Len(callbacks) : callbacks'[p] = callbacks[p]
         /\ cb # NoCallback =>
              callbacks'[Len(callbacks) + 1] = [timerid |-> timercount, cb |-> cb]
         /\ \A id : \A n \in 0..Len(callbacks) :
              Count(callbacks', id, n) = Count(callbacks, id, n)
  <1>1. CASE cb = NoCallback
    BY <1>1 DEF TypeOK, Entries, AddCallback
  <1>2. CASE cb # NoCallback
    <2> DEFINE e == [timerid |-> timercount, cb |-> cb]
    <2>1. e \in Entries /\ callbacks \in Seq(Entries) /\ callbacks' = Append(callbacks, e)
      BY <1>2 DEF TypeOK, Entries, AddCallback
    <2>2. \A id : \A n \in 0..Len(callbacks) :
            Count(callbacks', id, n) = Count(callbacks, id, n)
      BY <2>1, CountAppend
    <2> HIDE DEF e
    <2>3. /\ callbacks' \in Seq(Entries)
          /\ Len(callbacks') = Len(callbacks) + 1
          /\ \A p \in 1..Len(callbacks) : callbacks'[p] = callbacks[p]
          /\ callbacks'[Len(callbacks) + 1] = e
      BY <2>1
    <2> QED BY <1>2, <2>2, <2>3 DEF e
  <1> QED BY <1>1, <1>2

\* An entry that is added counts for its own id only.
LEMMA CountAll ==
  ASSUME TypeOK, timercount \in Timers, NEW cb \in Callbacks \cup {NoCallback}, AddCallback(cb),
         NEW id \in Timers
  PROVE  Count(callbacks', id, Len(callbacks')) =
           Count(callbacks, id, Len(callbacks))
             + (IF id = timercount /\ cb # NoCallback THEN 1 ELSE 0)
  <1>1. Len(callbacks) \in Nat /\ callbacks \in Seq(Entries)
    BY DEF TypeOK, Entries
  <1>a. /\ callbacks' \in Seq(Entries)
        /\ Len(callbacks') = Len(callbacks) + (IF cb = NoCallback THEN 0 ELSE 1)
        /\ cb # NoCallback =>
             callbacks'[Len(callbacks) + 1] = [timerid |-> timercount, cb |-> cb]
    BY Appended
  <1>b. \A j : \A n \in 0..Len(callbacks) : Count(callbacks', j, n) = Count(callbacks, j, n)
    BY Appended
  <1>2. Count(callbacks', id, Len(callbacks)) = Count(callbacks, id, Len(callbacks))
    BY <1>1, <1>b
  <1>3. Count(callbacks, id, Len(callbacks)) \in Nat
    BY <1>1, CountType
  <1>4. CASE cb = NoCallback
    BY <1>2, <1>3, <1>4, <1>a, <1>1
  <1>5. CASE cb # NoCallback
    <2>1. /\ Len(callbacks') = Len(callbacks) + 1 /\ callbacks' \in Seq(Entries)
          /\ callbacks'[Len(callbacks) + 1].timerid = timercount
      BY <1>5, <1>a
    <2>2. Count(callbacks', id, Len(callbacks) + 1) =
            Count(callbacks', id, Len(callbacks))
              + (IF callbacks'[Len(callbacks) + 1].timerid = id THEN 1 ELSE 0)
      BY <1>1, <2>1, CountNext
    <2> QED BY <1>2, <1>3, <1>5, <2>1, <2>2
  <1> QED BY <1>4, <1>5

\* A creation, successful or not, changes nothing for the timers and the threads there are.
LEMMA CreateKeeps ==
  ASSUME TimerInv, timercount \in Timers, NEW cb \in Callbacks \cup {NoCallback}, AddCallback(cb),
         \A k \in Timers : Fires(k) => event'[k] = event[k] /\ size'[k] = size[k],
         \A i \in Timers : i < timercount => strays'[i] = strays[i],
         th' = th
  PROVE  /\ \A k \in Timers : Fires(k) => Listed(k)'
         /\ Walks'
  <1> TypeOK /\ Walks /\ \A k \in Timers : Fires(k) => Listed(k)
    BY DEF TimerInv
  <1>a. /\ callbacks' \in Seq(Entries)
        /\ Len(callbacks') = Len(callbacks) + (IF cb = NoCallback THEN 0 ELSE 1)
        /\ \A p \in 1..Len(callbacks) : callbacks'[p] = callbacks[p]
        /\ cb # NoCallback =>
             callbacks'[Len(callbacks) + 1] = [timerid |-> timercount, cb |-> cb]
    BY Appended
  <1>b. \A id : \A n \in 0..Len(callbacks) : Count(callbacks', id, n) = Count(callbacks, id, n)
    BY Appended
  <1>1. Len(callbacks) \in Nat /\ Len(callbacks') \in Nat /\ Len(callbacks) <= Len(callbacks')
    BY <1>a DEF TypeOK
  <1>2. \A q \in (Len(callbacks) + 1)..Len(callbacks') : callbacks'[q].timerid = timercount
    BY <1>1, <1>a
  <1>3. ASSUME NEW k \in Timers, Fires(k) PROVE Listed(k)'
    <2> DEFINE id == event[k].id
    <2>1. id \in Timers /\ id < timercount /\ event'[k] = event[k] /\ strays'[id] = strays[id]
      <3>1. id \in Timers /\ id < timercount
        BY <1>3 DEF TimerInv, Listed, Ids
      <3> QED BY <1>3, <3>1
    <2>2. Count(callbacks', id, Len(callbacks')) = 1 + strays[id]
      <3>1. Count(callbacks, id, Len(callbacks)) = 1 + strays[id] /\ strays[id] \in Nat
        BY <1>3, <2>1 DEF TimerInv, Listed, TypeOK
      <3>2. Count(callbacks', id, Len(callbacks')) = Count(callbacks, id, Len(callbacks)) + 0
        <4>1. id # timercount
          BY <2>1 DEF Timers
        <4> QED BY <2>1, <4>1, CountAll
      <3> QED BY <3>1, <3>2
    <2>s. size[k] \in 1..Len(callbacks) /\ size'[k] = size[k]
      BY <1>3 DEF TimerInv, Listed
    <2>3. PICK p \in 1..size[k] :
            LastOf(callbacks, id, p) /\ callbacks[p].cb = event[k].cb
      BY <1>3 DEF TimerInv, Listed
    <2>4. /\ p \in 1..Len(callbacks) /\ p \in 1..Len(callbacks') /\ callbacks'[p] = callbacks[p]
          /\ size'[k] \in 1..Len(callbacks') /\ p \in 1..size'[k]
      BY <1>1, <2>s, <2>3, <1>a
    <2>5. ASSUME NEW q \in (p + 1)..Len(callbacks') PROVE callbacks'[q].timerid # id
      <3>1. CASE q <= Len(callbacks)
        <4>1. q \in (p + 1)..Len(callbacks) /\ q \in 1..Len(callbacks)
          BY <1>1, <2>4, <3>1
        <4>2. callbacks[q].timerid # id
          BY <2>3, <4>1 DEF LastOf
        <4>3. callbacks'[q] = callbacks[q]
          BY <4>1, <1>a
        <4> QED BY <4>2, <4>3
      <3>2. CASE ~(q <= Len(callbacks))
        <4>1. callbacks'[q].timerid = timercount
          BY <1>1, <1>2, <2>4, <3>2
        <4> QED BY <2>1, <4>1 DEF Timers
      <3> QED BY <3>1, <3>2
    <2>6. LastOf(callbacks', id, p)
      BY <2>3, <2>4, <2>5 DEF LastOf
    <2> QED BY <2>1, <2>2, <2>3, <2>4, <2>6 DEF Listed
  <1>4. ASSUME NEW t \in Threads
        PROVE  /\ th[t].pc # "idle" \/ th[t].cur > 1 => Fires(th[t].timer)'
               /\ th[t].pc # "idle" => Passed(t)'
               /\ th[t].pc = "idle" /\ th[t].cur > 1 => Finished(t)'
    <2> DEFINE k == th[t].timer
               id == event[k].id
               n == th[t].cur - 1
    <2>1. k \in Timers
      BY <1>4 DEF TimerInv, TypeOK
    <2>2. SUFFICES ASSUME th[t].pc # "idle" \/ th[t].cur > 1
                   PROVE  /\ Fires(k)'
                          /\ th[t].pc # "idle" => Passed(t)'
                          /\ th[t].pc = "idle" /\ th[t].cur > 1 => Finished(t)'
      BY DEF Fires
    <2>3. Fires(k) /\ event'[k] = event[k]
      BY <2>1, <2>2 DEF TimerInv, Walks
    <2>4. id \in Timers /\ id < timercount /\ strays'[id] = strays[id]
      BY <2>1, <2>3 DEF TimerInv, Listed, Ids
    <2>5. ASSUME th[t].pc # "idle" PROVE Passed(t)'
      <3>1. Passed(t)
        BY <2>5 DEF TimerInv, Walks
      <3>2. n \in 0..Len(callbacks) /\ n \in 0..Len(callbacks')
        BY <1>1, <3>1 DEF Passed
      <3>3. Count(callbacks', id, n) = Count(callbacks, id, n)
        BY <3>2, <1>b
      <3>4. \A p \in 1..n : callbacks'[p] = callbacks[p]
        BY <1>1, <3>2, <1>a
      <3>5. \A p \in 1..n : \A q \in (p + 1)..n : callbacks'[q] = callbacks[q]
        BY <3>2, <3>4
      <3>6. n < Len(callbacks) => n < Len(callbacks') /\ callbacks'[n + 1] = callbacks[n + 1]
        BY <1>1, <3>2, <1>a
      <3>7. (event[th[t].timer].id)' = id /\ (th[t].cur - 1)' = n /\ th'[t] = th[t]
        BY <2>3
      <3>8. th[t].calls = Count(callbacks', id, n)
        BY <3>1, <3>3 DEF Passed
      <3>9. ASSUME NEW p \in 1..n, callbacks'[p].timerid = id,
                   \A q \in (p + 1)..n : callbacks'[q].timerid # id
            PROVE  th[t].last = callbacks'[p].cb
        <4>1. callbacks[p].timerid = id /\ \A q \in (p + 1)..n : callbacks[q].timerid # id
          BY <3>4, <3>5, <3>9
        <4>2. th[t].last = callbacks[p].cb
          BY <3>1, <4>1 DEF Passed
        <4> QED BY <3>4, <4>2
      <3>10. th[t].pc = "gil" => n < Len(callbacks') /\ callbacks'[n + 1].timerid = id
        BY <3>1, <3>6 DEF Passed
      <3> QED BY <3>2, <3>7, <3>8, <3>9, <3>10 DEF Passed
    <2>6. ASSUME th[t].pc = "idle", th[t].cur > 1 PROVE Finished(t)'
      BY <2>3, <2>4, <2>6 DEF TimerInv, Walks, Finished
    <2> QED BY <2>3, <2>5, <2>6 DEF Fires
  <1>5. Walks'
    BY <1>4 DEF Walks
  <1> QED BY <1>3, <1>5

\* There is an id for another timer, and nobody uses the timer itself yet.
LEMMA Room ==
  ASSUME TimerInv, creates < MaxCreate
  PROVE  /\ timercount \in Timers /\ creates \in Nat /\ creates + 1 \in Timers
         /\ ~Fires(creates + 1)
  <1>1. creates \in 0..MaxCreate /\ timercount \in 1..(creates + 1)
    BY DEF TimerInv, TypeOK, Ids
  <1>2. timercount \in Timers /\ creates \in Nat /\ creates + 1 \in Timers
    BY <1>1, PyTimerAssumption DEF Timers
  <1>3. \A k \in Timers : k > creates => event[k].cb = NoCallback
    BY DEF TimerInv, Ids
  <1> QED BY <1>2, <1>3 DEF Fires

\* create: the id is used up, and the callback is the last under it.
LEMMA CreateOkKeeps ==
  ASSUME TimerInv, NEW cb \in Callbacks \cup {NoCallback}, CreateOk(cb)
  PROVE  TimerInv'
  <1> DEFINE new == creates + 1
  <1>1. TypeOK /\ Ids
    BY DEF TimerInv
  <1>2. /\ timercount \in Timers /\ creates \in Nat /\ new \in Timers /\ ~Fires(new)
        /\ AddCallback(cb)
    BY Room DEF CreateOk
  <1>3. /\ callbacks' \in Seq(Entries)
        /\ Len(callbacks') = Len(callbacks) + (IF cb = NoCallback THEN 0 ELSE 1)
        /\ \A p \in 1..Len(callbacks) : callbacks'[p] = callbacks[p]
        /\ cb # NoCallback =>
             callbacks'[Len(callbacks) + 1] = [timerid |-> timercount, cb |-> cb]
    BY <1>1, <1>2, Appended
  <1>4. /\ event' = [event EXCEPT ![new] = [id |-> timercount, cb |-> cb]]
        /\ creates' = creates + 1 /\ timercount' = timercount + 1
        /\ timers' = timers \cup {[id |-> timercount, timer |-> new]}
        /\ size' = [size EXCEPT ![new] = Len(callbacks')]
        /\ UNCHANGED <<armed, th, strays>>
    BY DEF CreateOk
  <1>5. TypeOK'
    <2>1. creates' \in 0..MaxCreate /\ timercount' \in Nat
      BY <1>1, <1>2, <1>4 DEF CreateOk, TypeOK, Timers
    <2>2. /\ event' \in [Timers -> [id : Nat, cb : Callbacks \cup {NoCallback}]]
          /\ size' \in [Timers -> Nat]
      BY <1>1, <1>2, <1>3, <1>4 DEF TypeOK, Timers
    <2>3. timers' \in SUBSET [id : Nat, timer : Timers]
      BY <1>1, <1>2, <1>4 DEF TypeOK, Timers
    <2> QED BY <1>1, <1>3, <1>4, <2>1, <2>2, <2>3 DEF TypeOK, Entries
  <1>6. Len(callbacks) \in Nat /\ Len(callbacks') \in Nat
    BY <1>1, <1>3 DEF TypeOK
  <1>7. \A p \in 1..Len(callbacks') : callbacks'[p].timerid <= timercount
    <2>1. ASSUME NEW p \in 1..Len(callbacks), callbacks'[p] = callbacks[p]
          PROVE  callbacks'[p].timerid <= timercount
      BY <1>1, <2>1 DEF Ids
    <2>2. cb # NoCallback => callbacks'[Len(callbacks) + 1].timerid <= timercount
      BY <1>2, <1>3 DEF Timers
    <2> QED BY <1>3, <1>6, <2>1, <2>2
  <1>8. Ids'
    <2>1. timercount' \in 1..(creates' + 1)
      BY <1>1, <1>2, <1>4 DEF Ids
    <2>2. \A p \in 1..Len(callbacks') : callbacks'[p].timerid \in Nat
      <3>1. \A p \in 1..Len(callbacks') : callbacks'[p] \in Entries
        BY <1>3, <1>6
      <3> QED BY <3>1 DEF Entries, Timers
    <2>3. \A p \in 1..Len(callbacks') : callbacks'[p].timerid <= timercount'
      BY <1>2, <1>4, <1>7, <2>2 DEF Timers
    <2>4. ASSUME NEW k \in Timers PROVE event'[k].id < timercount'
      <3>1. CASE k = new
        <4>1. event'[k].id = timercount
          BY <1>1, <1>2, <1>4, <3>1 DEF TypeOK
        <4> QED BY <1>2, <1>4, <4>1 DEF Timers
      <3>2. CASE k # new
        <4>1. event'[k] = event[k] /\ event[k].id \in Nat /\ event[k].id < timercount
          BY <1>1, <1>4, <3>2 DEF Ids, TypeOK
        <4> QED BY <1>2, <1>4, <4>1 DEF Timers
      <3> QED BY <3>1, <3>2
    <2>5. \A k \in Timers : k > creates' => event'[k].cb = NoCallback
      BY <1>1, <1>2, <1>4 DEF Ids, TypeOK, Timers
    <2>6. \A j \in Timers : j > timercount' => strays'[j] = 0
      BY <1>1, <1>2, <1>4 DEF Ids, Timers
    <2>7. ASSUME timercount' \in Timers
          PROVE  Count(callbacks', timercount', Len(callbacks')) = strays'[timercount']
      <3>1. strays'[timercount'] = 0
        BY <1>1, <1>2, <1>4, <2>7 DEF Ids, Timers
      <3>2. \A p \in 1..Len(callbacks') : callbacks'[p].timerid # timercount'
        BY <1>2, <1>4, <1>7, <2>2 DEF Timers
      <3> HIDE DEF new
      <3>3. Count(callbacks', timercount', Len(callbacks')) = 0
        BY <1>3, <1>6, <3>2, CountType
      <3> QED BY <3>1, <3>3
    <2> QED BY <2>1, <2>3, <2>4, <2>5, <2>6, <2>7 DEF Ids
  <1>9. /\ \A k \in Timers : Fires(k) => Listed(k)'
        /\ Walks'
    <2>1. \A k \in Timers : Fires(k) => event'[k] = event[k] /\ size'[k] = size[k]
      BY <1>1, <1>2, <1>4 DEF TypeOK, Fires
    <2> QED BY <1>2, <1>4, <2>1, CreateKeeps
  <1>10. ASSUME NEW k \in Timers, Fires(k)' PROVE Listed(k)'
    <2>1. CASE k # new
      <3>1. Fires(k)
        BY <1>1, <1>4, <1>10, <2>1 DEF Fires, TypeOK
      <3> QED BY <1>9, <3>1
    <2>2. CASE k = new
      <3>1. event'[k] = [id |-> timercount, cb |-> cb] /\ cb # NoCallback
        BY <1>1, <1>2, <1>4, <1>10, <2>2 DEF Fires, TypeOK
      <3>2. Count(callbacks', timercount, Len(callbacks')) =
              Count(callbacks, timercount, Len(callbacks)) + 1
        BY <1>1, <1>2, <3>1, CountAll
      <3>3. /\ Count(callbacks, timercount, Len(callbacks)) = strays[timercount]
            /\ strays[timercount] \in Nat
        BY <1>1, <1>2 DEF Ids, TypeOK
      <3>4. Count(callbacks', timercount, Len(callbacks')) = 1 + strays'[timercount]
        BY <1>4, <3>2, <3>3
      <3>5. Len(callbacks') = Len(callbacks) + 1
        BY <1>3, <3>1
      <3>6. LastOf(callbacks', timercount, Len(callbacks'))
        BY <1>3, <1>6, <3>1, <3>5 DEF LastOf
      <3>7. callbacks'[Len(callbacks')].cb = cb
        BY <1>3, <3>1, <3>5
      <3>8. Len(callbacks') \in 1..Len(callbacks') /\ size'[k] = Len(callbacks')
        BY <1>1, <1>2, <1>4, <1>6, <2>2, <3>5 DEF TypeOK
      <3> QED BY <1>2, <3>1, <3>4, <3>6, <3>7, <3>8 DEF Listed
    <2> QED BY <2>1, <2>2
  <1> QED BY <1>5, <1>8, <1>9, <1>10 DEF TimerInv

\* A failed create counts one more stray under the id that stays the next.
LEMMA CreateFailedKeeps ==
  ASSUME TimerInv, NEW cb \in Callbacks \cup {NoCallback}, CreateFailed(cb)
  PROVE  TimerInv'
  <1>1. TypeOK /\ Ids
    BY DEF TimerInv
  <1>2. timercount \in Timers /\ creates \in Nat /\ AddCallback(cb)
    BY Room DEF CreateFailed
  <1>3. /\ callbacks' \in Seq(Entries)
        /\ Len(callbacks') = Len(callbacks) + (IF cb = NoCallback THEN 0 ELSE 1)
        /\ \A p \in 1..Len(callbacks) : callbacks'[p] = callbacks[p]
        /\ cb # NoCallback =>
             callbacks'[Len(callbacks) + 1] = [timerid |-> timercount, cb |-> cb]
    BY <1>1, <1>2, Appended
  <1>4. /\ creates' = creates + 1
        /\ strays' = [strays EXCEPT ![timercount] = @ + (IF cb = NoCallback THEN 0 ELSE 1)]
        /\ UNCHANGED <<timercount, timers, armed, event, th, size>>
    BY DEF CreateFailed
  <1>5. TypeOK'
    <2>1. creates' \in 0..MaxCreate
      BY <1>2, <1>4, PyTimerAssumption DEF CreateFailed
    <2>2. strays' \in [Timers -> Nat]
      BY <1>1, <1>2, <1>4 DEF TypeOK
    <2> QED BY <1>1, <1>3, <1>4, <2>1, <2>2 DEF TypeOK, Entries
  <1>6. Len(callbacks) \in Nat /\ Len(callbacks') \in Nat
    BY <1>1, <1>3 DEF TypeOK
  <1>7. Ids'
    <2>1. \A p \in 1..Len(callbacks') : callbacks'[p].timerid <= timercount'
      BY <1>1, <1>2, <1>3, <1>4, <1>6 DEF Ids, Timers
    <2>2. Count(callbacks', timercount, Len(callbacks')) = strays'[timercount]
      <3>1. Count(callbacks', timercount, Len(callbacks')) =
              Count(callbacks, timercount, Len(callbacks))
                + (IF timercount = timercount /\ cb # NoCallback THEN 1 ELSE 0)
        BY <1>1, <1>2, CountAll
      <3>2. /\ Count(callbacks, timercount, Len(callbacks)) = strays[timercount]
            /\ strays[timercount] \in Nat
        BY <1>1, <1>2 DEF Ids, TypeOK
      <3>3. strays'[timercount] = strays[timercount] + (IF cb = NoCallback THEN 0 ELSE 1)
        BY <1>1, <1>2, <1>4 DEF TypeOK
      <3> QED BY <3>1, <3>2, <3>3
    <2>3. timercount' \in 1..(creates' + 1)
      BY <1>1, <1>2, <1>4 DEF Ids
    <2>4. \A j \in Timers : j > timercount' => strays'[j] = 0
      BY <1>1, <1>2, <1>4 DEF Ids, TypeOK, Timers
    <2>5. \A k \in Timers : k > creates' => event'[k].cb = NoCallback
      BY <1>1, <1>2, <1>4 DEF Ids, Timers
    <2> QED BY <1>1, <1>4, <2>1, <2>2, <2>3, <2>4, <2>5 DEF Ids
  <1>8. /\ \A k \in Timers : Fires(k) => Listed(k)'
        /\ Walks'
    <2>1. \A j \in Timers : j < timercount => strays'[j] = strays[j]
      BY <1>1, <1>2, <1>4 DEF TypeOK, Timers
    <2> QED BY <1>2, <1>4, <2>1, CreateKeeps
  <1> QED BY <1>4, <1>5, <1>7, <1>8 DEF TimerInv, Fires

------------------------------------------------------------------------------
(* Expiries. *)

ThreadType == [pc : {"idle", "walk", "gil"}, timer : Timers, cur : Nat, calls : Nat,
               last : Callbacks \cup {NoCallback}]

Walking(t) ==
  /\ th[t].pc # "idle" \/ th[t].cur > 1 => Fires(th[t].timer)
  /\ th[t].pc # "idle" => Passed(t)
  /\ th[t].pc = "idle" /\ th[t].cur > 1 => Finished(t)

\* While nothing is created, a thread answers for itself only.
LEMMA OneThread ==
  ASSUME TimerInv, TypeOK', UNCHANGED <<timercount, callbacks, creates, event, strays, size>>,
         NEW t \in Threads, \A u \in Threads \ {t} : th'[u] = th[u], Walking(t)'
  PROVE  TimerInv'
  <1>1. Ids' /\ \A k \in Timers : Fires(k)' => Listed(k)'
    BY DEF TimerInv, Ids, Fires, Listed
  <1>2. ASSUME NEW u \in Threads PROVE Walking(u)'
    <2>1. CASE u = t
      BY <2>1
    <2>2. CASE u # t
      <3>1. Walking(u) /\ th'[u] = th[u]
        BY <2>2 DEF TimerInv, Walks, Walking
      <3> QED BY <3>1 DEF Walking, Fires, Passed, Finished
    <2> QED BY <2>1, <2>2
  <1>3. Walks'
    BY <1>2 DEF Walks, Walking
  <1> QED BY <1>1, <1>3 DEF TimerInv

\* timer_delete and timer_settime only arm and disarm.
LEMMA ArmingKeeps ==
  ASSUME TimerInv, NEW tm \in timers,
         Delete(tm) \/ \E how \in {"off", "once", "periodic"} : Settime(tm, how)
  PROVE  TimerInv'
  <1>1. tm.timer \in Timers
    BY DEF TimerInv, TypeOK
  <1>2. UNCHANGED <<timercount, callbacks, creates, event, th, strays, size>>
    BY DEF Delete, Settime
  <1>3. timers' \in SUBSET timers
    BY DEF Delete, Settime
  <1>4. armed' \in [Timers -> {"off", "once", "periodic"}]
    BY <1>1 DEF Delete, Settime, TimerInv, TypeOK
  <1>5. TypeOK'
    BY <1>2, <1>3, <1>4 DEF TimerInv, TypeOK
  <1> QED BY <1>2, <1>5 DEF TimerInv, Ids, Fires, Listed, Walks, Passed, Finished

\* A thread starts at the head of the list with nothing called.
LEMMA ExpireKeeps ==
  ASSUME TimerInv, NEW k \in Timers, NEW t \in Threads, Expire(k, t)
  PROVE  TimerInv'
  <1>1. TypeOK
    BY DEF TimerInv
  <1>2. armed' \in [Timers -> {"off", "once", "periodic"}]
    BY <1>1 DEF Expire, TypeOK
  <1>3. UNCHANGED <<timercount, callbacks, timers, creates, event, strays, size>>
    BY DEF Expire
  <1>4. CASE event[k].cb = NoCallback
    <2>1. th' = th
      BY <1>4 DEF Expire
    <2>2. TypeOK'
      BY <1>1, <1>2, <1>3, <2>1 DEF TypeOK
    <2> QED BY <1>3, <2>1, <2>2 DEF TimerInv, Ids, Fires, Listed, Walks, Passed, Finished
  <1>5. CASE event[k].cb # NoCallback
    <2> DEFINE r == [pc |-> "walk", timer |-> k, cur |-> 1, calls |-> 0, last |-> NoCallback]
    <2>1. th' = [th EXCEPT ![t] = r]
      BY <1>5 DEF Expire, Idle
    <2>2. r \in [pc : {"idle", "walk", "gil"}, timer : Timers, cur : Nat, calls : Nat,
                last : Callbacks \cup {NoCallback}]
      OBVIOUS
    <2>3. th'[t] = r /\ \A u \in Threads \ {t} : th'[u] = th[u]
      BY <1>1, <2>1 DEF TypeOK
    <2>4. TypeOK'
      <3> HIDE DEF r
      <3> QED BY <1>1, <1>2, <1>3, <2>1, <2>2 DEF TypeOK
    <2>5. Count(callbacks, event[k].id, 0) = 0
      BY <1>1, CountNone DEF TypeOK, Entries
    <2>6. Passed(t)'
      BY <1>1, <1>3, <2>3, <2>5 DEF Passed, TypeOK
    <2>7. Walking(t)'
      BY <1>3, <1>5, <2>3, <2>6 DEF Walking, Fires
    <2> QED BY <1>3, <2>3, <2>4, <2>7, OneThread
  <1> QED BY <1>4, <1>5

\* At the end of the list the thread has called the strays and, last, the callback.
LEMMA WalkKeeps ==
  ASSUME TimerInv, NEW t \in Threads, Walk(t)
  PROVE  TimerInv'
  <1> DEFINE e == event[th[t].timer]
             n == th[t].cur - 1
  <1>1. TypeOK /\ th[t].pc = "walk"
    BY DEF TimerInv, Walk
  <1>2. /\ th[t].timer \in Timers /\ th[t].cur \in Nat /\ th[t].calls \in Nat
        /\ Len(callbacks) \in Nat /\ callbacks \in Seq(Entries)
    BY <1>1 DEF TypeOK, Entries
  <1>3. Passed(t) /\ Fires(th[t].timer) /\ Listed(th[t].timer)
    BY <1>1, <1>2 DEF TimerInv, Walks
  <1>4. n \in 0..Len(callbacks) /\ th[t].calls = Count(callbacks, e.id, n)
    BY <1>3 DEF Passed
  <1>5. UNCHANGED <<timercount, callbacks, timers, creates, armed, event, strays, size>>
    BY DEF Walk
  <1>6. CASE th[t].cur > Len(callbacks)
    <2>1. th' = [th EXCEPT ![t].pc = "idle"]
      BY <1>6 DEF Walk
    <2>2. TypeOK'
      BY <1>1, <1>5, <2>1 DEF TypeOK
    <2>3. /\ th'[t] = [th[t] EXCEPT !.pc = "idle"]
          /\ \A u \in Threads \ {t} : th'[u] = th[u]
      BY <1>1, <2>1 DEF TypeOK
    <2>4. /\ th'[t].pc = "idle" /\ th'[t].timer = th[t].timer /\ th'[t].last = th[t].last
          /\ th'[t].calls = th[t].calls
      BY <1>1, <2>3 DEF TypeOK
    <2>5. n = Len(callbacks)
      BY <1>2, <1>4, <1>6
    <2>6. th[t].calls = 1 + strays[e.id]
      BY <1>3, <1>4, <2>5 DEF Listed
    <2>7. th[t].last = e.cb
      <3>1. PICK p \in 1..Len(callbacks) : LastOf(callbacks, e.id, p) /\ callbacks[p].cb = e.cb
        BY <1>2, <1>3 DEF Listed, LastOf
      <3> QED BY <1>3, <2>5, <3>1 DEF LastOf, Passed
    <2>8. Walking(t)'
      BY <1>3, <1>5, <2>4, <2>6, <2>7 DEF Walking, Fires, Finished
    <2> QED BY <1>5, <2>2, <2>3, <2>8, OneThread
  <1>7. CASE ~(th[t].cur > Len(callbacks)) /\ callbacks[th[t].cur].timerid = e.id
    <2>1. th' = [th EXCEPT ![t].pc = "gil"]
      BY <1>7 DEF Walk
    <2>2. TypeOK'
      BY <1>1, <1>5, <2>1 DEF TypeOK
    <2>3. /\ th'[t] = [th[t] EXCEPT !.pc = "gil"]
          /\ \A u \in Threads \ {t} : th'[u] = th[u]
      BY <1>1, <2>1 DEF TypeOK
    <2>4. /\ th'[t].pc = "gil" /\ th'[t].timer = th[t].timer /\ th'[t].last = th[t].last
          /\ th'[t].calls = th[t].calls /\ th'[t].cur = th[t].cur
      BY <1>1, <2>3 DEF TypeOK
    <2>5. n < Len(callbacks) /\ n + 1 = th[t].cur
      BY <1>2, <1>4, <1>7
    <2>6. Passed(t)'
      BY <1>3, <1>5, <1>7, <2>4, <2>5 DEF Passed
    <2>7. Walking(t)'
      BY <1>3, <1>5, <2>4, <2>6 DEF Walking, Fires
    <2> QED BY <1>5, <2>2, <2>3, <2>7, OneThread
  <1>8. CASE ~(th[t].cur > Len(callbacks)) /\ callbacks[th[t].cur].timerid # e.id
    <2> DEFINE r == [pc |-> "walk", timer |-> th[t].timer, cur |-> th[t].cur + 1,
                     calls |-> th[t].calls, last |-> th[t].last]
    <2>1. th' = [th EXCEPT ![t] = r]
      BY <1>1, <1>8 DEF Walk, Advance, TypeOK
    <2>2. TypeOK'
      <3>1. th[t] \in ThreadType /\ th \in [Threads -> ThreadType]
        BY <1>1 DEF TypeOK, ThreadType
      <3>2. r \in ThreadType
        <4>1. th[t].cur + 1 \in Nat
          BY <1>2
        <4>2. /\ th[t].timer \in Timers /\ th[t].calls \in Nat
              /\ th[t].last \in Callbacks \cup {NoCallback}
          BY <3>1 DEF ThreadType
        <4> QED BY <4>1, <4>2 DEF ThreadType
      <3> HIDE DEF r
      <3>3. th' \in [Threads -> ThreadType]
        BY <2>1, <3>1, <3>2
      <3> QED BY <1>1, <1>5, <3>3 DEF TypeOK, ThreadType
    <2>3. /\ th'[t] = r
          /\ \A u \in Threads \ {t} : th'[u] = th[u]
      <3> HIDE DEF r
      <3> QED BY <1>1, <2>1 DEF TypeOK
    <2>4. /\ th'[t].pc = "walk" /\ th'[t].timer = th[t].timer /\ th'[t].last = th[t].last
          /\ th'[t].calls = th[t].calls /\ th'[t].cur - 1 = n + 1
      BY <1>1, <1>2, <2>3 DEF TypeOK
    <2>5. n + 1 \in 0..Len(callbacks) /\ n \in Nat /\ n + 1 = th[t].cur
      BY <1>2, <1>4, <1>8
    <2>6. Count(callbacks, e.id, n + 1) = Count(callbacks, e.id, n)
      <3>1. Count(callbacks, e.id, n) \in Nat
        BY <1>2, <2>5, CountType
      <3>2. Count(callbacks, e.id, n + 1) =
              Count(callbacks, e.id, n) + (IF callbacks[n + 1].timerid = e.id THEN 1 ELSE 0)
        BY <1>2, <2>5, CountNext
      <3> QED BY <1>8, <2>5, <3>1, <3>2
    <2>7. ASSUME NEW p \in 1..(n + 1), callbacks[p].timerid = e.id,
                 \A q \in (p + 1)..(n + 1) : callbacks[q].timerid # e.id
          PROVE  th[t].last = callbacks[p].cb
      <3>1. p # n + 1
        BY <1>8, <2>5, <2>7
      <3>2. p \in 1..n /\ \A q \in (p + 1)..n : callbacks[q].timerid # e.id
        BY <2>5, <2>7, <3>1
      <3> QED BY <1>3, <2>7, <3>2 DEF Passed
    <2>8. Passed(t)'
      BY <1>4, <1>5, <2>4, <2>5, <2>6, <2>7 DEF Passed
    <2>9. Walking(t)'
      BY <1>3, <1>5, <2>4, <2>8 DEF Walking, Fires
    <2> QED BY <1>5, <2>2, <2>3, <2>9, OneThread
  <1> QED BY <1>6, <1>7, <1>8

\* The call of a matching entry.
LEMMA CallBackKeeps ==
  ASSUME TimerInv, NEW t \in Threads, CallBack(t)
  PROVE  TimerInv'
  <1> DEFINE e == event[th[t].timer]
             n == th[t].cur - 1
  <1>1. TypeOK /\ th[t].pc = "gil"
    BY DEF TimerInv, CallBack
  <1>2. /\ th[t].timer \in Timers /\ th[t].cur \in Nat /\ th[t].calls \in Nat
        /\ Len(callbacks) \in Nat /\ callbacks \in Seq(Entries)
    BY <1>1 DEF TypeOK, Entries
  <1>3. Passed(t) /\ Fires(th[t].timer)
    BY <1>1 DEF TimerInv, Walks
  <1>4. /\ n \in 0..Len(callbacks) /\ th[t].calls = Count(callbacks, e.id, n)
        /\ n < Len(callbacks) /\ callbacks[n + 1].timerid = e.id
    BY <1>1, <1>3 DEF Passed
  <1>5. n + 1 \in 1..Len(callbacks) /\ n \in Nat /\ n + 1 = th[t].cur
    BY <1>2, <1>4
  <1> DEFINE r == [pc |-> "walk", timer |-> th[t].timer, cur |-> th[t].cur + 1,
                   calls |-> th[t].calls + 1, last |-> callbacks[th[t].cur].cb]
  <1>6. /\ UNCHANGED <<timercount, callbacks, timers, creates, armed, event, strays, size>>
        /\ th' = [th EXCEPT ![t] = r]
    <2>1. UNCHANGED <<timercount, callbacks, timers, creates, armed, event, strays, size>>
      BY DEF CallBack
    <2>2. /\ th \in [Threads -> ThreadType]
          /\ th' = [th EXCEPT ![t].calls = @ + 1, ![t].last = callbacks[th[t].cur].cb,
                              ![t].cur = @ + 1, ![t].pc = "walk"]
      BY <1>1 DEF CallBack, TypeOK, ThreadType
    <2>3. th' = [th EXCEPT ![t] = r]
      BY <2>2 DEF ThreadType
    <2> QED BY <2>1, <2>3
  <1>7. callbacks[th[t].cur].cb \in Callbacks
    <2>1. callbacks[th[t].cur] \in Entries
      BY <1>2, <1>5
    <2> QED BY <2>1 DEF Entries
  <1>8. TypeOK'
    <2>1. r \in ThreadType /\ th \in [Threads -> ThreadType]
      BY <1>1, <1>2, <1>7 DEF TypeOK, ThreadType
    <2> HIDE DEF r
    <2>2. th' \in [Threads -> ThreadType]
      BY <1>6, <2>1
    <2> QED BY <1>1, <1>6, <2>2 DEF TypeOK, ThreadType
  <1>9. /\ th'[t].pc = "walk" /\ th'[t].timer = th[t].timer
        /\ th'[t].last = callbacks[n + 1].cb
        /\ th'[t].calls = th[t].calls + 1 /\ th'[t].cur - 1 = n + 1
        /\ \A u \in Threads \ {t} : th'[u] = th[u]
    <2>1. th'[t] = r /\ \A u \in Threads \ {t} : th'[u] = th[u]
      <3> HIDE DEF r
      <3> QED BY <1>1, <1>6 DEF TypeOK
    <2> QED BY <1>2, <1>5, <2>1
  <1>10. Count(callbacks, e.id, n + 1) = Count(callbacks, e.id, n) + 1
    BY <1>2, <1>4, <1>5, CountNext
  <1>11. ASSUME NEW p \in 1..(n + 1), callbacks[p].timerid = e.id,
                \A q \in (p + 1)..(n + 1) : callbacks[q].timerid # e.id
         PROVE  p = n + 1
    BY <1>4, <1>5, <1>11
  <1>12. Passed(t)'
    BY <1>4, <1>5, <1>6, <1>9, <1>10, <1>11 DEF Passed
  <1>13. Walking(t)'
    BY <1>3, <1>6, <1>9, <1>12 DEF Walking, Fires
  <1> QED BY <1>6, <1>8, <1>9, <1>13, OneThread

------------------------------------------------------------------------------
\* The module starts with nothing created and no thread.
LEMMA TimerStart ==
  ASSUME Init
  PROVE  TimerInv
  <1>1. TypeOK
    BY PyTimerAssumption DEF Init, TypeOK, Idle, Timers
  <1>2. Count(callbacks, 1, 0) = 0
    BY <1>1, CountNone DEF TypeOK, Entries
  <1>3. Ids
    BY <1>1, <1>2, PyTimerAssumption DEF Init, Ids, Timers
  <1> QED BY <1>1, <1>3 DEF Init, TimerInv, Fires, Walks, Idle

\* Every step keeps the invariant.
LEMMA TimerInvariant == Spec => []TimerInv
  <1>1. TimerInv /\ [Next]_vars => TimerInv'
    <2> SUFFICES ASSUME TimerInv, [Next]_vars PROVE TimerInv'
      OBVIOUS
    <2>1. CASE UNCHANGED vars
      <3>1. TypeOK' /\ Ids' /\ \A k \in Timers : Fires(k)' => Listed(k)'
        BY <2>1 DEF vars, TimerInv, TypeOK, Ids, Fires, Listed
      <3>2. Walks'
        BY <2>1 DEF vars, TimerInv, Walks, Fires, Passed, Finished
      <3> QED BY <3>1, <3>2 DEF TimerInv
    <2>2. CASE Python
      BY <2>2, CreateOkKeeps, CreateFailedKeeps, ArmingKeeps DEF Python
    <2>3. CASE Notify
      BY <2>3, WalkKeeps, CallBackKeeps DEF Notify
    <2>4. CASE \E k \in Timers, t \in Threads : Expire(k, t)
      BY <2>4, ExpireKeeps
    <2> QED BY <2>1, <2>2, <2>3, <2>4 DEF Next
  <1> QED BY TimerStart, <1>1, PTL DEF Spec

\* Every variable keeps its type.
THEOREM TypeCorrect == Spec => []TypeOK
  <1>1. TimerInv => TypeOK
    BY DEF TimerInv
  <1> QED BY TimerInvariant, <1>1, PTL

\* A thread that has passed what was on the list when its timer was created has called what it
\* will ever call.
LEMMA PastIsFinished ==
  ASSUME TimerInv, NEW t \in Threads, th[t].cur > 1, th[t].cur > size[th[t].timer]
  PROVE  Finished(t)
  <1> DEFINE k == th[t].timer
             id == event[k].id
             n == th[t].cur - 1
  <1>1. /\ k \in Timers /\ th[t].cur \in Nat /\ Len(callbacks) \in Nat
        /\ callbacks \in Seq(Entries)
    BY DEF TimerInv, TypeOK, Entries
  <1>2. CASE th[t].pc = "idle"
    BY <1>2 DEF TimerInv, Walks
  <1>3. CASE th[t].pc # "idle"
    <2>1. Fires(k) /\ Listed(k) /\ Passed(t)
      BY <1>1, <1>3 DEF TimerInv, Walks
    <2>2. PICK p \in 1..size[k] : LastOf(callbacks, id, p) /\ callbacks[p].cb = event[k].cb
      BY <2>1 DEF Listed
    <2>3. /\ n \in 0..Len(callbacks) /\ p \in 1..n
          /\ \A q \in (p + 1)..Len(callbacks) : callbacks[q].timerid # id
          /\ callbacks[p].timerid = id
      BY <1>1, <2>1, <2>2 DEF Listed, Passed, LastOf
    <2>4. Count(callbacks, id, n) = Count(callbacks, id, Len(callbacks))
      <3>1. p \in 0..n
        BY <1>1, <2>3
      <3> HIDE DEF n, id
      <3> QED BY <1>1, <2>3, <3>1, CountRest
    <2>5. th[t].last = event[k].cb
      BY <2>1, <2>2, <2>3 DEF Passed
    <2> QED BY <2>1, <2>4, <2>5 DEF Passed, Listed, Finished
  <1> QED BY <1>2, <1>3

\* A thread past the entries there were when its timer was created has called the callback
\* given for that timer, once and last, and before it only what failed creations have left
\* under the id, however many entries are added while it walks.
THEOREM CallsTheRightOne == Spec => []RightCallback
  <1>1. TimerInv => RightCallback
    BY PastIsFinished DEF Finished, RightCallback
  <1> QED BY TimerInvariant, <1>1, PTL

\* Timers that exist together have different ids, and the next id is unused, also after
\* creations that failed and timers that were deleted.
THEOREM TimersDiffer == Spec => []UniqueIds
  <1>1. Init => UniqueIds
    BY DEF Init, UniqueIds
  <1>2. TypeOK /\ UniqueIds /\ [Next]_vars => UniqueIds'
    <2> SUFFICES ASSUME TypeOK, UniqueIds, [Next]_vars PROVE UniqueIds'
      OBVIOUS
    <2>1. timercount \in Nat /\ timers \in SUBSET [id : Nat, timer : Timers]
      BY DEF TypeOK
    <2>2. ASSUME NEW cb \in Callbacks \cup {NoCallback}, CreateOk(cb) PROVE UniqueIds'
      <3>1. /\ timers' = timers \cup {[id |-> timercount, timer |-> creates + 1]}
            /\ timercount' = timercount + 1
        BY <2>2 DEF CreateOk
      <3> QED BY <2>1, <3>1 DEF UniqueIds
    <2>3. ASSUME timercount' = timercount, timers' \in SUBSET timers PROVE UniqueIds'
      BY <2>3 DEF UniqueIds
    <2>4. ASSUME NEW cb \in Callbacks \cup {NoCallback}, CreateFailed(cb) PROVE UniqueIds'
      BY <2>3, <2>4 DEF CreateFailed
    <2>5. ASSUME NEW tm \in timers,
                 Delete(tm) \/ \E how \in {"off", "once", "periodic"} : Settime(tm, how)
          PROVE  UniqueIds'
      BY <2>3, <2>5 DEF Delete, Settime
    <2>6. CASE Notify \/ \E k \in Timers, t \in Threads : Expire(k, t)
      BY <2>3, <2>6 DEF Notify, Walk, CallBack, Expire
    <2>7. CASE UNCHANGED vars
      BY <2>3, <2>7 DEF vars
    <2> QED BY <2>2, <2>4, <2>5, <2>6, <2>7 DEF Next, Python
  <1> QED BY <1>1, <1>2, TypeCorrect, PTL DEF Spec
================================================================================
