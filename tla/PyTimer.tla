------------------------------- MODULE PyTimer -------------------------------
(***************************************************************************)
(* The PyTimer extension module (py_timer.c): POSIX timers for Python.     *)
(* create puts the callback on a list that is never shortened, and the     *)
(* timer on another one.  An expiry runs run_py_callbacks in a thread of   *)
(* its own, which walks the callback list without a lock and takes the GIL *)
(* only for the call; the Python-level functions hold the GIL throughout.  *)
(***************************************************************************)
EXTENDS Integers, Sequences

CONSTANTS Callbacks,    \* Python callables
          NoCallback,   \* create was called without one
          Threads,      \* notification threads that can exist at once
          MaxCreate     \* bound: calls of create that reach timer_create

ASSUME PyTimerAssumption ==
  /\ NoCallback \notin Callbacks
  /\ MaxCreate \in Nat \ {0}

Timers == 1..MaxCreate    \* kernel timers, in order of creation

VARIABLES
  timercount,  \* the id the next timer gets
  callbacks,   \* py_callbacks: sequence of (timerid, callback)
  timers,      \* pytimers: ids of the timers and the kernel timers behind them
  creates,     \* calls of create so far
  armed,       \* armed[k]: "off", "once", "periodic"
  event,       \* event[k]: the sigevent of k, its id and the callback meant for it
  th,          \* th[t]: what notification thread t is doing
  strays,      \* history: strays[i]: callbacks of failed creations under the id i
  size         \* history: size[k]: length of the callback list when k had been created

vars == <<timercount, callbacks, timers, creates, armed, event, th, strays, size>>

Idle == [pc |-> "idle", timer |-> 1, cur |-> 1, calls |-> 0, last |-> NoCallback]

TypeOK ==
  /\ timercount \in Nat /\ creates \in 0..MaxCreate
  /\ callbacks \in Seq([timerid : Timers, cb : Callbacks])
  /\ timers \in SUBSET [id : Nat, timer : Timers]
  /\ armed \in [Timers -> {"off", "once", "periodic"}]
  /\ event \in [Timers -> [id : Nat, cb : Callbacks \cup {NoCallback}]]
  /\ th \in [Threads -> [pc : {"idle", "walk", "gil"}, timer : Timers, cur : Nat,
                         calls : Nat, last : Callbacks \cup {NoCallback}]]
  /\ strays \in [Timers -> Nat] /\ size \in [Timers -> Nat]

Init ==
  /\ timercount = 1 /\ creates = 0
  /\ callbacks = <<>> /\ timers = {}
  /\ armed = [k \in Timers |-> "off"]
  /\ event = [k \in Timers |-> [id |-> 0, cb |-> NoCallback]]
  /\ th = [t \in Threads |-> Idle]
  /\ strays = [k \in Timers |-> 0] /\ size = [k \in Timers |-> 0]

------------------------------------------------------------------------------
(* Python calls *)

\* add_py_callback: at the end of the list, under the id the timer is going to get.
AddCallback(cb) ==
  callbacks' = IF cb = NoCallback THEN callbacks
               ELSE Append(callbacks, [timerid |-> timercount, cb |-> cb])

\* Mutant: the id is not counted up.
CreateSameId(cb) ==
  /\ creates < MaxCreate
  /\ AddCallback(cb)
  /\ creates' = creates + 1
  /\ event' = [event EXCEPT ![creates + 1] = [id |-> timercount, cb |-> cb]]
  /\ timers' = timers \cup {[id |-> timercount, timer |-> creates + 1]}
  /\ size' = [size EXCEPT ![creates + 1] = Len(callbacks')]
  /\ UNCHANGED <<timercount, armed, th, strays>>

CreateOk(cb) ==
  /\ creates < MaxCreate
  /\ AddCallback(cb)
  /\ creates' = creates + 1
  /\ event' = [event EXCEPT ![creates + 1] = [id |-> timercount, cb |-> cb]]
  /\ timers' = timers \cup {[id |-> timercount, timer |-> creates + 1]}
  /\ timercount' = timercount + 1
  /\ size' = [size EXCEPT ![creates + 1] = Len(callbacks')]
  /\ UNCHANGED <<armed, th, strays>>

\* timer_create fails (EAGAIN): the callback stays on the list and the id is not used up.
CreateFailed(cb) ==
  /\ creates < MaxCreate
  /\ AddCallback(cb)
  /\ creates' = creates + 1
  /\ strays' = [strays EXCEPT ![timercount] = @ + (IF cb = NoCallback THEN 0 ELSE 1)]
  /\ UNCHANGED <<timercount, timers, armed, event, th, size>>

\* timer_delete; a notification thread already started goes on.
Delete(tm) ==
  /\ timers' = timers \ {tm}
  /\ armed' = [armed EXCEPT ![tm.timer] = "off"]
  /\ UNCHANGED <<timercount, callbacks, creates, event, th, strays, size>>

\* An it_value of 0 disarms, a zero it_interval gives a single expiry.
Settime(tm, how) ==
  /\ armed' = [armed EXCEPT ![tm.timer] = how]
  /\ UNCHANGED <<timercount, callbacks, timers, creates, event, th, strays, size>>

Python ==
  \/ \E cb \in Callbacks \cup {NoCallback} : CreateOk(cb) \/ CreateFailed(cb)
  \/ \E tm \in timers : Delete(tm) \/ \E how \in {"off", "once", "periodic"} : Settime(tm, how)

------------------------------------------------------------------------------
(* Expiries *)

\* SIGEV_THREAD starts a thread, which reads the head of the list; SIGEV_NONE does nothing.
Expire(k, t) ==
  /\ armed[k] # "off"
  /\ armed' = [armed EXCEPT ![k] = IF @ = "periodic" THEN @ ELSE "off"]
  /\ IF event[k].cb = NoCallback THEN UNCHANGED th
     ELSE /\ th[t].pc = "idle"
          /\ th' = [th EXCEPT ![t] = [Idle EXCEPT !.pc = "walk", !.timer = k, !.calls = 0]]
  /\ UNCHANGED <<timercount, callbacks, timers, creates, event, strays, size>>

Advance(t, pc) == th' = [th EXCEPT ![t].cur = @ + 1, ![t].pc = pc]

\* One turn of the while loop, up to the call.
Walk(t) ==
  /\ th[t].pc = "walk"
  /\ IF th[t].cur > Len(callbacks)
       THEN th' = [th EXCEPT ![t].pc = "idle"]
       ELSE IF callbacks[th[t].cur].timerid = event[th[t].timer].id
              THEN th' = [th EXCEPT ![t].pc = "gil"]
              ELSE Advance(t, "walk")
  /\ UNCHANGED <<timercount, callbacks, timers, creates, armed, event, strays, size>>

\* PyGILState_Ensure and the call.
CallBack(t) ==
  /\ th[t].pc = "gil"
  /\ th' = [th EXCEPT ![t].calls = @ + 1,
                      ![t].last = callbacks[th[t].cur].cb,
                      ![t].cur = @ + 1, ![t].pc = "walk"]
  /\ UNCHANGED <<timercount, callbacks, timers, creates, armed, event, strays, size>>

Notify == \E t \in Threads : Walk(t) \/ CallBack(t)

Next == Python \/ Notify \/ \E k \in Timers, t \in Threads : Expire(k, t)

Spec == Init /\ [][Next]_vars

------------------------------------------------------------------------------
\* Timers that exist together have different ids, and the next id is unused
\* (py_timer.c:169-174).
UniqueIds ==
  /\ \A a, b \in timers : a.id = b.id => a = b
  /\ \A a \in timers : a.id < timercount

\* Whatever is created, armed or deleted while a thread walks the list, and however long the
\* list has become since the timer was created: a thread that is past the entries there were
\* then has called the callback given to create for that timer, once and last, and before it
\* what failed creations have left under the id (py_timer.c:156 does not take it off).
\* Nothing that was added since is called.
RightCallback ==
  \A t \in Threads : th[t].cur > 1 /\ th[t].cur > size[th[t].timer] =>
    /\ th[t].last = event[th[t].timer].cb
    /\ th[t].calls = 1 + strays[event[th[t].timer].id]
==============================================================================
