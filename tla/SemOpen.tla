------------------------------- MODULE SemOpen -------------------------------
(***************************************************************************)
(* How logger, payment and health come to share one semaphore: the name    *)
(* /health_payment_log_sem, the object it refers to, and the handle each   *)
(* process keeps.  logger unlinks the name and creates the object; the     *)
(* other two open it, trying again for a while.  With USE_PI_SEM the       *)
(* object is a shared-memory mutex that is created, sized, mapped and      *)
(* initialised in separate steps.  run_poll.sh starts logger first and     *)
(* kill_poll.sh kills everybody, which leaves name and object behind.      *)
(***************************************************************************)
EXTENDS Integers

CONSTANTS Tries,    \* attempts of payment and health (20 in the code)
          MaxKills, \* bound: uses of kill_poll.sh
          MaxObj    \* bound: objects ever created

ASSUME SemOpenAssumption ==
  /\ Tries \in Nat \ {0} /\ MaxKills \in Nat /\ MaxObj \in Nat \ {0}

Logger  == "logger"
Clients == {"payment", "health"}
Procs   == {Logger} \cup Clients
Users   == {Logger, "health"}      \* payment opens the semaphore and never waits on it
Objs    == 1..MaxObj
NoObj   == 0

VARIABLES
  pi,      \* the programs are built with USE_PI_SEM
  ordered, \* the others start only once logger has its handle (sleep 1)
  name,    \* the object the name refers to
  nobj,    \* objects created so far
  sized,   \* sized[o]: ftruncate done, so that the mapping can be touched
  inited,  \* inited[o]: the lock has been initialised by its creator
  val,     \* val[o]: 1 when free
  kills,   \* uses of kill_poll.sh so far
  pc, handle, tries

objVars == <<nobj, sized, inited, val>>
build == <<pi, ordered>>   \* chosen once
vars == <<build, name, objVars, kills, pc, handle, tries>>

Init ==
  /\ pi \in BOOLEAN /\ ordered \in BOOLEAN
  /\ name = NoObj /\ nobj = 0 /\ kills = 0
  /\ sized = [o \in Objs |-> FALSE] /\ inited = [o \in Objs |-> FALSE]
  /\ val = [o \in Objs |-> 1]
  /\ pc = [p \in Procs |-> "off"]
  /\ handle = [p \in Procs |-> NoObj]
  /\ tries = [p \in Procs |-> 0]

Goto(p, l) == pc' = [pc EXCEPT ![p] = l]

------------------------------------------------------------------------------
\* run_poll.sh
Start(p) ==
  /\ pc[p] = "off"
  /\ p \in Clients /\ ordered => pc[Logger] \in {"ready", "inside"}
  /\ Goto(p, IF p = Logger THEN "unlink" ELSE "open")
  /\ tries' = [tries EXCEPT ![p] = 0]
  /\ UNCHANGED <<build, name, objVars, kills, handle>>

\* Mutant: kill_poll.sh kills logger alone.
KillLogger ==
  /\ kills < MaxKills
  /\ kills' = kills + 1
  /\ pc' = [pc EXCEPT ![Logger] = "off"]
  /\ handle' = [handle EXCEPT ![Logger] = NoObj]
  /\ UNCHANGED <<build, name, objVars, tries>>

\* kill_poll.sh: killall; a lock that is held stays held.
KillAll ==
  /\ kills < MaxKills
  /\ kills' = kills + 1
  /\ pc' = [p \in Procs |-> "off"]
  /\ handle' = [p \in Procs |-> NoObj]
  /\ UNCHANGED <<build, name, objVars, tries>>

\* logger.c: pi_sem_unlink(SEM_NAME)
Unlink ==
  /\ pc[Logger] = "unlink"
  /\ name' = NoObj
  /\ Goto(Logger, "open")
  /\ UNCHANGED <<build, objVars, kills, handle, tries>>

\* A new object under the name; a POSIX semaphore is linked when it is complete.
Create(p, complete) ==
  /\ nobj < MaxObj
  /\ nobj' = nobj + 1 /\ name' = nobj + 1
  /\ sized' = [sized EXCEPT ![nobj + 1] = complete]
  /\ inited' = [inited EXCEPT ![nobj + 1] = complete]
  /\ handle' = [handle EXCEPT ![p] = nobj + 1]
  /\ UNCHANGED <<val, kills>>

\* A NULL from pi_sem_open_or_create: logger exits, the others try again.
OpenFails(p) ==
  /\ IF p = Logger THEN Goto(p, "dead") /\ UNCHANGED tries
     ELSE /\ tries' = [tries EXCEPT ![p] = @ + 1]
          /\ Goto(p, IF tries[p] + 1 = Tries THEN "dead" ELSE "open")
  /\ UNCHANGED <<name, objVars, kills, handle>>

\* sem_open: O_CREAT for logger, 0 for the others.
SemOpenPosix(p) ==
  /\ ~pi /\ pc[p] = "open"
  /\ \/ /\ name # NoObj
        /\ handle' = [handle EXCEPT ![p] = name]
        /\ Goto(p, "ready") /\ UNCHANGED <<name, objVars, kills, tries>>
     \/ /\ name = NoObj /\ p = Logger
        /\ Create(p, TRUE) /\ Goto(p, "ready") /\ UNCHANGED tries
     \/ name = NoObj /\ p # Logger /\ OpenFails(p)
  /\ UNCHANGED build

\* Mutant: only logger opens with O_CREAT, as with a POSIX semaphore.
ShmCreateLogger(p) ==
  /\ pi /\ pc[p] = "open"
  /\ IF name # NoObj
       THEN Goto(p, "reopen") /\ UNCHANGED <<name, objVars, kills, handle, tries>>
       ELSE IF p = Logger THEN Create(p, FALSE) /\ Goto(p, "trunc") /\ UNCHANGED tries
                          ELSE OpenFails(p)
  /\ UNCHANGED build

\* shm_open(O_CREAT | O_EXCL): whoever comes first creates.
ShmCreate(p) ==
  /\ pi /\ pc[p] = "open"
  /\ IF name = NoObj
       THEN Create(p, FALSE) /\ Goto(p, "trunc") /\ UNCHANGED tries
       ELSE Goto(p, "reopen") /\ UNCHANGED <<name, objVars, kills, handle, tries>>
  /\ UNCHANGED build

\* shm_open(O_RDWR): the name may have been unlinked in between.
ShmReopen(p) ==
  /\ pc[p] = "reopen"
  /\ IF name = NoObj THEN OpenFails(p)
     ELSE /\ handle' = [handle EXCEPT ![p] = name]
          /\ Goto(p, "map") /\ UNCHANGED <<name, objVars, kills, tries>>
  /\ UNCHANGED build

Truncate(p) ==
  /\ pc[p] = "trunc"
  /\ sized' = [sized EXCEPT ![handle[p]] = TRUE]
  /\ Goto(p, "mapnew")
  /\ UNCHANGED <<build, name, nobj, inited, val, kills, handle, tries>>

\* Mutant: whoever maps the mutex initialises it.
MapAndInit(p) ==
  /\ pc[p] \in {"map", "mapnew"}
  /\ Goto(p, "init")
  /\ UNCHANGED <<build, name, objVars, kills, handle, tries>>

\* mmap; only the creator goes on to pi_sem_init.
Map(p) ==
  /\ pc[p] \in {"map", "mapnew"}
  /\ Goto(p, IF pc[p] = "mapnew" THEN "init" ELSE "ready")
  /\ UNCHANGED <<build, name, objVars, kills, handle, tries>>

\* pthread_mutex_init overwrites the mutex, locked or not.
PiSemInit(p) ==
  /\ pc[p] = "init"
  /\ inited' = [inited EXCEPT ![handle[p]] = TRUE]
  /\ val' = [val EXCEPT ![handle[p]] = 1]
  /\ Goto(p, "ready")
  /\ UNCHANGED <<build, name, nobj, sized, kills, handle, tries>>

\* pi_sem_wait and pi_sem_post; touching an object of size 0 raises SIGBUS.
Lock(p) ==
  /\ pc[p] = "ready"
  /\ IF sized[handle[p]]
       THEN /\ val[handle[p]] = 1
            /\ val' = [val EXCEPT ![handle[p]] = 0]
            /\ Goto(p, "inside")
       ELSE Goto(p, "dead") /\ UNCHANGED val
  /\ UNCHANGED <<build, name, nobj, sized, inited, kills, handle, tries>>

\* Mutant: the loop goes round with the semaphore held.
KeepLock(p) ==
  /\ pc[p] = "inside"
  /\ UNCHANGED vars

Unlock(p) ==
  /\ pc[p] = "inside"
  /\ val' = [val EXCEPT ![handle[p]] = 1]
  /\ Goto(p, "ready")
  /\ UNCHANGED <<build, name, nobj, sized, inited, kills, handle, tries>>

Step(p) == \/ SemOpenPosix(p) \/ ShmCreate(p) \/ ShmReopen(p)
           \/ Truncate(p) \/ Map(p) \/ PiSemInit(p)

Next == \/ KillAll \/ Unlink
        \/ \E p \in Procs : Start(p) \/ Step(p)
        \/ \E q \in Users : Lock(q) \/ Unlock(q)

Spec == Init /\ [][Next]_vars

\* The kernel runs every process; a blocked waiter is woken when the lock is free.
FairSpec ==
  /\ Spec /\ WF_vars(Unlink)
  /\ \A p \in Procs : WF_vars(Step(p))
  /\ \A q \in Users : WF_vars(Unlock(q)) /\ SF_vars(Lock(q))

------------------------------------------------------------------------------
Live(p) == pc[p] \in {"ready", "inside"}

\* The start-ups the programs are made for: logger first, as run_poll.sh does; or in
\* any order with a POSIX semaphore, if nothing was left behind by an earlier run.
GoodStart == ordered \/ (~pi /\ kills = 0)

\* Whoever has a handle uses the same object, whatever earlier runs left behind, and one
\* that has been sized and initialised (pi_sem.h:32-47, logger.c:22).
SameObject ==
  GoodStart =>
    \A p, q \in Procs : Live(p) /\ Live(q) => handle[p] = handle[q] /\ inited[handle[p]]

\* Only one user is inside its critical section, on whichever object
\* (logger.c:43-55, health.c:84-94).
OneInside ==
  GoodStart => \A p, q \in Users : pc[p] = "inside" /\ pc[q] = "inside" => p = q

\* With the mutex payment and health find or create it before they run out of attempts,
\* in whatever order everybody is started (payment.c:22-31, health.c:26-35).
NobodyGivesUp == pi => \A p \in Clients : tries[p] < Tries

\* A running user that wants the semaphore gets it, unless everybody is killed.
UserServed == \A p \in Users : GoodStart /\ pc[p] = "ready" ~> pc[p] \in {"inside", "off"}
==============================================================================
