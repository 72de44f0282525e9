---------------------------- MODULE SharedSegment -----------------------------
(***************************************************************************)
(* The processes of C/shm.c as a system of their own: ShmLock with names   *)
(* that leave those of SemOpen free, so that SemaphoreProofs is about both *)
(* semaphores.                                                             *)
(***************************************************************************)
EXTENDS Integers, TLC

CONSTANTS Writers,  \* the processes that write the segment
          NoOne     \* "nobody has written it yet"

ASSUME ShmAssumption == NoOne \notin Writers

VARIABLES at,       \* where the processes are
          exists, sem, adj, shm, seen, clean   \* as in ShmLock

Shm == INSTANCE ShmLock WITH Procs <- Writers, pc <- at, val <- sem

ShmSpec     == Shm!Spec
FairShmSpec == Shm!FairSpec

\* shm.c:93-104: one process at most is between lock and unlock, whoever is killed and when,
\* as long as no process has reset the semaphore under another one.
OneLocker == Shm!OneLocker

\* shm.c:37-40: the same without the condition, as if the value were set only when the
\* semaphore is new, which is what the comment says.
Exclusive == Shm!Exclusive

\* shm.c:93: everyone that waits for the lock gets it, whoever is killed and when.
EveryoneEnters == Shm!EveryoneEnters

\* The processes are interchangeable.
Symmetry == Permutations(Writers)
==============================================================================
