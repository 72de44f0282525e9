-------------------------------- MODULE Counter -------------------------------
(***************************************************************************)
(* C/API/pthread.c: two threads add 1 to a counter LOOP times each, under  *)
(* a mutex if the program has an argument.                                 *)
(***************************************************************************)
EXTENDS Integers

CONSTANT LOOP    \* 500000 in the source; at least 2

VARIABLES
  mx,            \* the program was given an argument
  comm, lock,    \* the counter; the thread that holds the mutex, 0 if none
  reg, step, i   \* thread -> its register, its next statement, iterations done

vars == <<mx, comm, lock, reg, step, i>>

Threads == {1, 2}

Init ==
  /\ mx \in BOOLEAN /\ comm = 0 /\ lock = 0
  /\ reg = [t \in Threads |-> 0] /\ i = reg /\ step = [t \in Threads |-> "lock"]

Step(t, now, next) ==
  /\ i[t] < LOOP /\ step[t] = now
  /\ step' = [step EXCEPT ![t] = next]
  /\ mx' = mx

\* Mutant: the new thread does not lock.
LockMain(t) ==
  /\ Step(t, "lock", "load")
  /\ IF mx /\ t = 1 THEN lock = 0 /\ lock' = t ELSE lock' = lock
  /\ UNCHANGED <<comm, reg, i>>

Lock(t) ==
  /\ Step(t, "lock", "load")
  /\ IF mx THEN lock = 0 /\ lock' = t ELSE lock' = lock
  /\ UNCHANGED <<comm, reg, i>>

\* comm++ is a load and a store.
Load(t) ==
  /\ Step(t, "load", "store")
  /\ reg' = [reg EXCEPT ![t] = comm]
  /\ UNCHANGED <<comm, lock, i>>

Store(t) ==
  /\ Step(t, "store", "unlock")
  /\ comm' = reg[t] + 1
  /\ UNCHANGED <<lock, reg, i>>

Unlock(t) ==
  /\ Step(t, "unlock", "lock")
  /\ lock' = (IF mx THEN 0 ELSE lock)
  /\ i' = [i EXCEPT ![t] = @ + 1]
  /\ UNCHANGED <<comm, reg>>

Next == \E t \in Threads : Lock(t) \/ Load(t) \/ Store(t) \/ Unlock(t)

Spec == Init /\ [][Next]_vars

\* When both threads have been joined the counter is exact under the mutex; without it
\* almost every update can be lost, but never the last of each thread together with the
\* first of the other: 2 is left however large LOOP is.
CommCounts ==
  (\A t \in Threads : i[t] = LOOP) =>
     /\ mx => comm = 2 * LOOP
     /\ comm \in 2..(2 * LOOP)
==============================================================================
