------------------------------- MODULE ShmLock -------------------------------
(***************************************************************************)
(* C/shm.c: processes that write a shared memory segment under a System V  *)
(* semaphore taken with SEM_UNDO.  The kernel keeps, per process, the      *)
(* adjustment it applies to the semaphore when the process ends, however   *)
(* it ends; SETVAL clears the adjustments of every process.                *)
(***************************************************************************)
EXTENDS Integers, FiniteSets

CONSTANTS Procs,      \* the processes that are started
          NoOne       \* none of them: "nobody has written the segment yet"

VARIABLES
  pc,     \* "off", "get" (semget done), "lock", "write", "unlock", "end", "gone"
  exists, \* the semaphore set has been created
  val,    \* its value
  adj,    \* adj[p]: undo adjustment of p
  shm,    \* who wrote the segment last
  seen,   \* seen[p]: the segment still holds what p wrote when p leaves
  clean   \* history: every SETVAL so far was done while nobody was inside

vars == <<pc, exists, val, adj, shm, seen, clean>>

Inside(p) == pc[p] \in {"write", "unlock"}

TypeOK ==
  /\ pc \in [Procs -> {"off", "get", "lock", "write", "unlock", "end", "gone"}]
  /\ exists \in BOOLEAN
  /\ val \in Nat
  /\ adj \in [Procs -> -1..1]
  /\ shm \in Procs \cup {NoOne}
  /\ seen \in [Procs -> BOOLEAN]
  /\ clean \in BOOLEAN

Init ==
  /\ pc = [p \in Procs |-> "off"]
  /\ exists = FALSE /\ val = 0
  /\ adj = [p \in Procs |-> 0]
  /\ shm = NoOne
  /\ seen = [p \in Procs |-> TRUE]
  /\ clean = TRUE

Goto(p, l) == pc' = [pc EXCEPT ![p] = l]

\* semget(key, 1, IPC_CREAT): a new set starts at 0.
Semget(p) ==
  /\ pc[p] = "off"
  /\ exists' = TRUE
  /\ Goto(p, "get")
  /\ UNCHANGED <<val, adj, shm, seen, clean>>

\* semctl(SETVAL, 1), whether or not the set is new; then shmget and shmat.
Setval(p) ==
  /\ pc[p] = "get"
  /\ val' = 1
  /\ adj' = [q \in Procs |-> 0]
  /\ clean' = (clean /\ \A q \in Procs : ~Inside(q))
  /\ Goto(p, "lock")
  /\ UNCHANGED <<exists, shm, seen>>

Lock(p) ==
  /\ pc[p] = "lock" /\ val > 0
  /\ val' = val - 1
  /\ adj' = [adj EXCEPT ![p] = @ + 1]
  /\ Goto(p, "write")
  /\ UNCHANGED <<exists, shm, seen, clean>>

\* sprintf(ptr, ...), then two seconds of sleep with the lock held.
Write(p) ==
  /\ pc[p] = "write"
  /\ shm' = p
  /\ Goto(p, "unlock")
  /\ UNCHANGED <<exists, val, adj, seen, clean>>

\* Mutant: the lock is given back without SEM_UNDO, and again at the end.
UnlockNoUndo(p) ==
  /\ pc[p] = "unlock"
  /\ val' = val + 1
  /\ seen' = [seen EXCEPT ![p] = shm = p]
  /\ Goto(p, "end")
  /\ UNCHANGED <<exists, adj, shm, clean>>

\* Mutant: the lock is not given back before the process ends.
UnlockForgotten(p) ==
  /\ pc[p] = "unlock"
  /\ seen' = [seen EXCEPT ![p] = shm = p]
  /\ Goto(p, "end")
  /\ UNCHANGED <<exists, val, adj, shm, clean>>

Unlock(p) ==
  /\ pc[p] = "unlock"
  /\ val' = val + 1
  /\ adj' = [adj EXCEPT ![p] = @ - 1]
  /\ seen' = [seen EXCEPT ![p] = shm = p]
  /\ Goto(p, "end")
  /\ UNCHANGED <<exists, shm, clean>>

\* The end of p, at return 0 or by a signal: the kernel applies the adjustment,
\* and not below zero.
End(p) ==
  /\ pc[p] \notin {"off", "gone"}
  /\ val' = IF val + adj[p] < 0 THEN 0 ELSE val + adj[p]
  /\ adj' = [adj EXCEPT ![p] = 0]
  /\ Goto(p, "gone")
  /\ UNCHANGED <<exists, shm, seen, clean>>

Next == \E p \in Procs : \/ Semget(p) \/ Setval(p) \/ Lock(p)
                         \/ Write(p) \/ Unlock(p) \/ End(p)

Spec == Init /\ [][Next]_vars

\* Every started process runs; the kernel serves waiters of a semaphore in turn.
FairSpec == Spec /\ \A p \in Procs : /\ WF_vars(Setval(p) \/ Write(p) \/ Unlock(p))
                                     /\ SF_vars(Lock(p))

------------------------------------------------------------------------------
\* Only one process is between lock and unlock, whoever is killed and when, as long as
\* no process has reset the semaphore under another one (shm.c:93-104).
OneLocker == clean => \A p, q \in Procs : Inside(p) /\ Inside(q) => p = q

\* What a process wrote is still in the segment when it gives the lock back.
NotOverwritten == clean => \A p \in Procs : seen[p]

\* A process that waits for the lock enters, or is killed while it waits.
EveryoneEnters == \A p \in Procs : pc[p] = "lock" ~> pc[p] \in {"write", "gone"}

\* shm.c:37 and 98: the semaphore is set to 1 when it is new, and the section between
\* lock and unlock is critical.
Exclusive == \A p, q \in Procs : Inside(p) /\ Inside(q) => p = q
==============================================================================
