---------------------------- MODULE SemaphoreProofs ---------------------------
(***************************************************************************)
(* The two semaphores.  First the named one of the exercise: how its       *)
(* processes come to share one, for any number of attempts, of uses of     *)
(* kill_poll.sh and of objects.  Then, of SharedSegment, the System V      *)
(* semaphore of C/shm.c, for any number of processes.                      *)
(***************************************************************************)
EXTENDS SemOpen, SharedSegment, TLAPS

PCs == {"off", "unlink", "open", "reopen", "trunc", "mapnew", "map", "init", "ready",
        "inside", "dead"}

\* Control points at which a process has a handle it goes on to use.
WithHandle == {"trunc", "mapnew", "map", "init", "ready", "inside"}

TypeOK ==
  /\ pi \in BOOLEAN /\ ordered \in BOOLEAN
  /\ nobj \in 0..MaxObj /\ name \in 0..nobj
  /\ sized \in [Objs -> BOOLEAN] /\ inited \in [Objs -> BOOLEAN] /\ val \in [Objs -> 0..1]
  /\ kills \in Nat
  /\ pc \in [Procs -> PCs] /\ handle \in [Procs -> 0..nobj] /\ tries \in [Procs -> Nat]

\* Handles are of objects that exist; an object that does not exist yet is free.
HandleInv ==
  /\ \A p \in Procs : /\ pc[p] \in WithHandle => handle[p] # NoObj
                      /\ pc[p] = "unlink" => p = Logger
                      /\ pc[p] = "inside" => p \in Users
  /\ \A o \in Objs : o > nobj => val[o] = 1

\* logger has come out of pi_sem_open_or_create.
Up == pc[Logger] \in {"ready", "inside"}

\* A good start: until logger is up nobody has a handle ...
BeforeUp ==
  /\ pc[Logger] \notin {"reopen", "map", "dead"}
  /\ pc[Logger] = "open" => name = NoObj
  /\ pc[Logger] \in {"trunc", "mapnew", "init"} => pi /\ name = handle[Logger]
  /\ pc[Logger] \in {"mapnew", "init"} => sized[name]
  /\ ~Up /\ ~ordered => name = NoObj
  /\ \A c \in Clients : /\ ~Up => pc[c] \in {"off", "open", "dead"}
                        /\ ~Up /\ ordered => pc[c] = "off"

\* ... while it is up the name is that of its object, which is complete, and every other
\* handle is of that object ...
WhileUp ==
  /\ Up => name = handle[Logger] /\ sized[name] /\ inited[name]
  /\ \A c \in Clients : /\ pc[c] \notin {"trunc", "mapnew", "init"}
                        /\ pc[c] \in WithHandle => handle[c] = name

\* ... and the object is taken exactly when a user is inside.
Taken ==
  Up => /\ val[name] = 0 => pc[Logger] = "inside" \/ pc["health"] = "inside"
        /\ pc[Logger] = "inside" \/ pc["health"] = "inside" => val[name] = 0
        /\ ~(pc[Logger] = "inside" /\ pc["health"] = "inside")

ShareInv == GoodStart => BeforeUp /\ WhileUp /\ Taken

\* With the mutex, the name disappears once between two uses of kill_poll.sh, so an attempt
\* fails once: at a second one the name is there, or the process creates the object itself.
TriesInv ==
  pi => \A c \in Clients :
          /\ tries[c] <= 1
          /\ pc[Logger] \in {"off", "unlink"} =>
               /\ pc[c] # "off" => tries[c] = 0
               /\ pc[c] = "reopen" => name # NoObj
          /\ pc[c] = "reopen" /\ tries[c] = 1 => name # NoObj

OpenInv == TypeOK /\ HandleInv /\ ShareInv /\ TriesInv

LEMMA OpenInvInit == Init => OpenInv
<1> SUFFICES ASSUME Init PROVE OpenInv
  OBVIOUS
<1>1. TypeOK
  <2>1. pi \in BOOLEAN /\ ordered \in BOOLEAN
    BY DEF Init
  <2>2. /\ sized \in [Objs -> BOOLEAN] /\ inited \in [Objs -> BOOLEAN] /\ val \in [Objs -> 0..1]
    BY DEF Init
  <2>3. nobj \in 0..MaxObj /\ name \in 0..nobj /\ kills \in Nat
    BY SemOpenAssumption DEF Init, NoObj
  <2>4. pc \in [Procs -> PCs] /\ handle \in [Procs -> 0..nobj] /\ tries \in [Procs -> Nat]
    BY DEF Init, PCs, NoObj
  <2> QED BY <2>1, <2>2, <2>3, <2>4 DEF TypeOK
<1>2. HandleInv
  BY DEF Init, HandleInv, WithHandle
<1>3. ShareInv
  BY DEF Init, ShareInv, BeforeUp, WhileUp, Taken, Up, WithHandle, Procs, Clients, Logger
<1>4. TriesInv
  BY DEF Init, TriesInv, Procs, Clients
<1> QED BY <1>1, <1>2, <1>3, <1>4 DEF OpenInv

------------------------------------------------------------------------------
(* Types and handles *)

\* A new object, and the handle of p on it.
LEMMA CreateType ==
  ASSUME TypeOK, HandleInv, NEW p \in Procs, NEW complete \in BOOLEAN, Create(p, complete)
  PROVE  /\ nobj' = nobj + 1 /\ nobj' \in 0..MaxObj /\ name' = nobj + 1 /\ name' \in Objs
         /\ sized' \in [Objs -> BOOLEAN] /\ inited' \in [Objs -> BOOLEAN]
         /\ sized'[name'] = complete /\ inited'[name'] = complete
         /\ val' = val /\ val[name'] = 1 /\ kills' = kills
         /\ handle' \in [Procs -> 0..nobj'] /\ handle'[p] = name'
         /\ \A q \in Procs \ {p} : handle'[q] = handle[q]
<1>1. nobj \in Nat /\ nobj + 1 \in Objs /\ nobj + 1 \in 0..MaxObj /\ nobj + 1 > nobj
  BY SemOpenAssumption DEF TypeOK, Create, Objs
<1>2. handle' \in [Procs -> 0..(nobj + 1)]
  BY <1>1 DEF TypeOK, Create
<1>3. sized' = [sized EXCEPT ![nobj + 1] = complete]
      /\ inited' = [inited EXCEPT ![nobj + 1] = complete]
      /\ nobj' = nobj + 1 /\ name' = nobj + 1 /\ val' = val /\ kills' = kills
      /\ handle' = [handle EXCEPT ![p] = nobj + 1]
  BY DEF Create
<1>4. sized' \in [Objs -> BOOLEAN] /\ inited' \in [Objs -> BOOLEAN]
  BY <1>3, Zenon DEF TypeOK
<1>5. sized'[name'] = complete /\ inited'[name'] = complete
  BY <1>1, <1>3, Zenon DEF TypeOK
<1>6. handle'[p] = name' /\ \A q \in Procs \ {p} : handle'[q] = handle[q]
  BY <1>3 DEF TypeOK
<1>7. val[name'] = 1
  BY <1>1, <1>3 DEF HandleInv
<1> QED
  BY <1>1, <1>2, <1>3, <1>4, <1>5, <1>6, <1>7

LEMMA CreateKeeps ==
  ASSUME TypeOK, HandleInv, NEW p \in Procs, NEW complete \in BOOLEAN, Create(p, complete),
         NEW l \in WithHandle \ {"inside"}, Goto(p, l), UNCHANGED <<build, tries>>
  PROVE  TypeOK' /\ HandleInv'
<1>1. /\ nobj' = nobj + 1 /\ nobj' \in 0..MaxObj /\ name' = nobj + 1 /\ name' \in Objs
      /\ sized' \in [Objs -> BOOLEAN] /\ inited' \in [Objs -> BOOLEAN]
      /\ val' = val /\ kills' = kills
      /\ handle' \in [Procs -> 0..nobj'] /\ handle'[p] = name'
      /\ \A q \in Procs \ {p} : handle'[q] = handle[q]
  BY CreateType
<1>2. pc' \in [Procs -> PCs] /\ pc'[p] = l /\ \A q \in Procs \ {p} : pc'[q] = pc[q]
  BY DEF TypeOK, Goto, PCs, WithHandle
<1>3. TypeOK'
  BY <1>1, <1>2 DEF TypeOK, build
<1>4. handle'[p] # NoObj
  BY <1>1 DEF Objs, NoObj
<1>5. HandleInv'
  BY <1>1, <1>2, <1>4 DEF TypeOK, HandleInv, WithHandle, Objs
<1> QED BY <1>3, <1>5

LEMMA PosixType ==
  ASSUME TypeOK, HandleInv, NEW p \in Procs, SemOpenPosix(p) PROVE TypeOK' /\ HandleInv'
<1>1. CASE Create(p, TRUE) /\ Goto(p, "ready") /\ UNCHANGED <<build, tries>>
  BY <1>1, CreateKeeps DEF WithHandle
<1>2. CASE /\ name # NoObj /\ handle' = [handle EXCEPT ![p] = name]
           /\ Goto(p, "ready") /\ UNCHANGED <<build, name, objVars, kills, tries>>
  BY <1>2 DEF TypeOK, HandleInv, PCs, WithHandle, Goto, NoObj, build, objVars
<1>3. CASE p # Logger /\ OpenFails(p) /\ UNCHANGED build
  BY <1>3 DEF TypeOK, HandleInv, PCs, WithHandle, Goto, OpenFails, build, objVars
<1> QED
  BY <1>1, <1>2, <1>3 DEF SemOpenPosix

LEMMA ShmType ==
  ASSUME TypeOK, HandleInv, NEW p \in Procs, ShmCreate(p) PROVE TypeOK' /\ HandleInv'
<1>1. CASE name = NoObj
  BY <1>1, CreateKeeps DEF ShmCreate, WithHandle
<1>2. CASE name # NoObj
  BY <1>2 DEF ShmCreate, TypeOK, HandleInv, PCs, WithHandle, Goto, build, objVars
<1> QED BY <1>1, <1>2

LEMMA TypeNext == TypeOK /\ HandleInv /\ [Next]_vars => TypeOK' /\ HandleInv'
<1> SUFFICES ASSUME TypeOK, HandleInv, [Next]_vars PROVE TypeOK' /\ HandleInv'
  OBVIOUS
<1> USE SemOpenAssumption
    DEF TypeOK, HandleInv, PCs, WithHandle, Procs, Users, Clients, Objs, Logger, NoObj, Goto
<1>1. CASE KillAll
  BY <1>1 DEF KillAll, build, objVars
<1>2. CASE Unlink
  BY <1>2 DEF Unlink, build, objVars
<1>3. ASSUME NEW p \in Procs, Start(p) PROVE TypeOK' /\ HandleInv'
  BY <1>3 DEF Start, build, objVars
<1>4. ASSUME NEW p \in Procs, SemOpenPosix(p) PROVE TypeOK' /\ HandleInv'
  BY <1>4, PosixType
<1>5. ASSUME NEW p \in Procs, ShmCreate(p) PROVE TypeOK' /\ HandleInv'
  BY <1>5, ShmType
<1>6. ASSUME NEW p \in Procs, ShmReopen(p) PROVE TypeOK' /\ HandleInv'
  BY <1>6 DEF ShmReopen, OpenFails, build, objVars
<1>7. ASSUME NEW p \in Procs, Truncate(p) PROVE TypeOK' /\ HandleInv'
  BY <1>7 DEF Truncate, build, objVars
<1>8. ASSUME NEW p \in Procs, Map(p) PROVE TypeOK' /\ HandleInv'
  BY <1>8 DEF Map, build, objVars
<1>9. ASSUME NEW p \in Procs, PiSemInit(p) PROVE TypeOK' /\ HandleInv'
  BY <1>9 DEF PiSemInit, build, objVars
<1>10. ASSUME NEW q \in Users, Lock(q) PROVE TypeOK' /\ HandleInv'
  BY <1>10 DEF Lock, build, objVars
<1>11. ASSUME NEW q \in Users, Unlock(q) PROVE TypeOK' /\ HandleInv'
  BY <1>11 DEF Unlock, build, objVars
<1>12. CASE UNCHANGED vars
  BY <1>12 DEF vars, build, objVars
<1> QED
  BY <1>1, <1>2, <1>3, <1>4, <1>5, <1>6, <1>7, <1>8, <1>9, <1>10, <1>11, <1>12 DEF Next, Step

------------------------------------------------------------------------------
(* One object *)

\* Nobody changes how the programs are built and started, and kills are counted.
LEMMA GoodBefore == TypeOK /\ [Next]_vars => UNCHANGED build /\ (GoodStart' => GoodStart)
<1> SUFFICES ASSUME TypeOK, [Next]_vars PROVE UNCHANGED build /\ (GoodStart' => GoodStart)
  OBVIOUS
<1>1. UNCHANGED build /\ (kills' = kills \/ kills' = kills + 1)
  BY DEF Next, KillAll, Unlink, Start, Step, SemOpenPosix, Create, OpenFails, ShmCreate, ShmReopen,
     Truncate, Map, PiSemInit, Lock, Unlock, vars, objVars
<1>2. kills \in Nat
  BY DEF TypeOK
<1> QED
  BY <1>1, <1>2 DEF GoodStart, build

LEMMA ShareNext == TypeOK /\ HandleInv /\ ShareInv /\ [Next]_vars => ShareInv'
<1> DEFINE Share == BeforeUp /\ WhileUp /\ Taken
<1> SUFFICES ASSUME TypeOK, HandleInv, Share, GoodStart, GoodStart', [Next]_vars PROVE Share'
  BY GoodBefore DEF ShareInv
<1>0. (pi => ordered) /\ UNCHANGED build
  BY GoodBefore DEF GoodStart
<1>a. /\ pc \in [Procs -> PCs] /\ handle \in [Procs -> 0..nobj]
      /\ sized \in [Objs -> BOOLEAN] /\ inited \in [Objs -> BOOLEAN] /\ val \in [Objs -> 0..1]
      /\ nobj \in 0..MaxObj
      /\ \A p \in Procs : pc[p] \in WithHandle => handle[p] \in Objs /\ handle[p] # NoObj
  BY SemOpenAssumption DEF TypeOK, HandleInv, Objs, NoObj
<1>b. ~KillAll \/ ordered
  <2>1. kills \in Nat
    BY DEF TypeOK
  <2>2. ASSUME KillAll PROVE kills' # 0
    BY <2>1, <2>2 DEF KillAll
  <2> QED BY <1>0, <2>2 DEF GoodStart, build
<1>c. ASSUME NEW complete \in BOOLEAN, Create(Logger, complete), pc[Logger] = "open",
             IF complete THEN ~pi /\ Goto(Logger, "ready") ELSE pi /\ Goto(Logger, "trunc")
      PROVE  Share'
  <2>1. Logger \in Procs /\ Clients = Procs \ {Logger}
    BY DEF Procs, Clients, Logger
  <2>2. /\ handle'[Logger] = name' /\ sized'[name'] = complete /\ inited'[name'] = complete
        /\ val'[name'] = 1 /\ name' # NoObj
    BY <1>c, <2>1, CreateType DEF Objs, NoObj
  <2>3. /\ pc'[Logger] = IF complete THEN "ready" ELSE "trunc"
        /\ \A c \in Clients : pc'[c] = pc[c]
    BY <1>c, <1>a, <2>1 DEF Goto
  <2>4. \A c \in Clients : pc[c] \in {"off", "open", "dead"} /\ (ordered => pc[c] = "off")
    BY <1>c DEF Share, BeforeUp, Up
  <2>5. BeforeUp'
    BY <1>0, <1>c, <2>2, <2>3, <2>4 DEF BeforeUp, Up, build
  <2>6. WhileUp'
    BY <1>c, <2>2, <2>3, <2>4 DEF WhileUp, WithHandle, Up
  <2>7. Taken'
    BY <1>c, <2>2, <2>3, <2>4 DEF Taken, Up, Clients
  <2> QED BY <2>5, <2>6, <2>7
<1> USE <1>0, <1>a
    DEF Share, BeforeUp, WhileUp, Taken, Up, WithHandle, Procs, Clients, Logger, NoObj, Goto
<1>1. CASE KillAll
  BY <1>1, <1>b DEF KillAll, build, objVars
<1>2. CASE Unlink
  BY <1>2 DEF Unlink, build, objVars
<1>3. ASSUME NEW p \in Procs, Start(p) PROVE Share'
  <2>1. CASE p = Logger
    BY <1>3, <2>1 DEF Start, build, objVars
  <2>2. CASE p \in Clients
    BY <1>3, <2>2 DEF Start, build, objVars
  <2> QED BY <2>1, <2>2
<1>4. ASSUME NEW p \in Procs, SemOpenPosix(p) PROVE Share'
  <2>1. CASE p = Logger
    BY <1>4, <1>c, <2>1 DEF SemOpenPosix
  <2>2. CASE p \in Clients
    BY <1>4, <2>2 DEF SemOpenPosix, Create, OpenFails, build, objVars
  <2> QED BY <2>1, <2>2
<1>5. ASSUME NEW p \in Procs, ShmCreate(p) PROVE Share'
  <2>1. CASE p = Logger
    BY <1>5, <1>c, <2>1 DEF ShmCreate
  <2>2. CASE p \in Clients
    BY <1>5, <2>2 DEF ShmCreate, Create, build, objVars
  <2> QED BY <2>1, <2>2
<1>6. ASSUME NEW p \in Procs, ShmReopen(p) PROVE Share'
  <2>1. CASE p = Logger
    BY <1>6, <2>1 DEF ShmReopen, OpenFails, build, objVars
  <2>2. CASE p \in Clients
    BY <1>6, <2>2 DEF ShmReopen, OpenFails, build, objVars
  <2> QED BY <2>1, <2>2
<1>7. ASSUME NEW p \in Procs, Truncate(p) PROVE Share'
  <2>1. CASE p = Logger
    BY <1>7, <2>1 DEF Truncate, build, objVars
  <2>2. CASE p \in Clients
    BY <1>7, <2>2 DEF Truncate, build, objVars
  <2> QED BY <2>1, <2>2
<1>8. ASSUME NEW p \in Procs, Map(p) PROVE Share'
  <2>1. CASE p = Logger
    BY <1>8, <2>1 DEF Map, build, objVars
  <2>2. CASE p \in Clients
    BY <1>8, <2>2 DEF Map, build, objVars
  <2> QED BY <2>1, <2>2
<1>9. ASSUME NEW p \in Procs, PiSemInit(p) PROVE Share'
  <2>1. CASE p = Logger
    BY <1>9, <2>1 DEF PiSemInit, build, objVars
  <2>2. CASE p \in Clients
    BY <1>9, <2>2 DEF PiSemInit, build, objVars
  <2> QED BY <2>1, <2>2
<1>10. ASSUME NEW q \in Users, Lock(q) PROVE Share'
  BY <1>10 DEF Lock, Users, build, objVars
<1>11. ASSUME NEW q \in Users, Unlock(q) PROVE Share'
  BY <1>11 DEF Unlock, Users, build, objVars
<1>12. CASE UNCHANGED vars
  BY <1>12 DEF vars, build, objVars
<1> QED
  BY <1>1, <1>2, <1>3, <1>4, <1>5, <1>6, <1>7, <1>8, <1>9, <1>10, <1>11, <1>12 DEF Next, Step

------------------------------------------------------------------------------
(* Attempts *)

LEMMA TriesNext == TypeOK /\ HandleInv /\ TriesInv /\ [Next]_vars => TriesInv'
<1> SUFFICES ASSUME TypeOK, HandleInv, TriesInv, [Next]_vars, pi' PROVE TriesInv'
  BY DEF TriesInv
<1> USE DEF TypeOK, HandleInv, TriesInv, PCs, Procs, Users, Clients, Objs, Logger, NoObj, Goto
<1>0. pi
  BY DEF Next, KillAll, Unlink, Start, Step, SemOpenPosix, ShmCreate, ShmReopen, Truncate, Map,
     PiSemInit, Lock, Unlock, vars, build
<1>1. CASE KillAll
  BY <1>1 DEF KillAll, build, objVars
<1>2. CASE Unlink
  BY <1>2 DEF Unlink, build, objVars
<1>3. ASSUME NEW p \in Procs, Start(p) PROVE TriesInv'
  BY <1>3 DEF Start, build, objVars
<1>4. ASSUME NEW p \in Procs, SemOpenPosix(p) PROVE FALSE
  BY <1>0, <1>4 DEF SemOpenPosix
<1>5. ASSUME NEW p \in Procs, ShmCreate(p) PROVE TriesInv'
  BY <1>0, <1>5 DEF ShmCreate, Create, build, objVars
<1>6. ASSUME NEW p \in Procs, ShmReopen(p) PROVE TriesInv'
  BY <1>0, <1>6 DEF ShmReopen, OpenFails, build, objVars
<1>7. ASSUME NEW p \in Procs, Truncate(p) PROVE TriesInv'
  BY <1>0, <1>7 DEF Truncate, build, objVars
<1>8. ASSUME NEW p \in Procs, Map(p) PROVE TriesInv'
  BY <1>0, <1>8 DEF Map, build, objVars
<1>9. ASSUME NEW p \in Procs, PiSemInit(p) PROVE TriesInv'
  BY <1>0, <1>9 DEF PiSemInit, build, objVars
<1>10. ASSUME NEW q \in Users, Lock(q) PROVE TriesInv'
  BY <1>0, <1>10 DEF Lock, build, objVars
<1>11. ASSUME NEW q \in Users, Unlock(q) PROVE TriesInv'
  BY <1>0, <1>11 DEF Unlock, build, objVars
<1>12. CASE UNCHANGED vars
  BY <1>0, <1>12 DEF vars, build, objVars
<1> QED
  BY <1>1, <1>2, <1>3, <1>4, <1>5, <1>6, <1>7, <1>8, <1>9, <1>10, <1>11, <1>12 DEF Next, Step
------------------------------------------------------------------------------

\* The inductive invariant of the opening (pi_sem.h:30-62, kill_poll.sh), whatever the bounds.
THEOREM OpenInvariant == Spec => []OpenInv
<1>1. OpenInv /\ [Next]_vars => OpenInv'
  BY TypeNext, ShareNext, TriesNext DEF OpenInv
<1> QED
  BY OpenInvInit, <1>1, PTL DEF Spec

\* Every variable keeps its type.
THEOREM TypeCorrect == Spec => []TypeOK
<1>1. OpenInv => TypeOK
  BY DEF OpenInv
<1> QED
  BY OpenInvariant, <1>1, PTL

\* Whoever has a handle after a good start uses one object, the same one, complete
\* (pi_sem.h:32-47, logger.c:22).
THEOREM ShareOneObject == Spec => []SameObject
<1>1. OpenInv => SameObject
  <2> SUFFICES ASSUME OpenInv, GoodStart, NEW p \in Procs, NEW q \in Procs, Live(p), Live(q)
               PROVE  handle[p] = handle[q] /\ inited[handle[p]]
    BY DEF SameObject
  <2>1. BeforeUp /\ WhileUp
    BY DEF OpenInv, ShareInv
  <2>2. Up
    BY <2>1 DEF BeforeUp, Up, Live, Procs, Clients
  <2>3. handle[p] = name /\ handle[q] = name
    BY <2>1, <2>2 DEF WhileUp, WithHandle, Live, Procs, Clients
  <2> QED
    BY <2>1, <2>2, <2>3 DEF WhileUp
<1> QED
  BY OpenInvariant, <1>1, PTL

\* After a good start one user at a time is inside its critical section, on whichever
\* object (logger.c:43-55, health.c:84-94).
THEOREM OneUserInside == Spec => []OneInside
<1>1. OpenInv => OneInside
  <2> SUFFICES ASSUME OpenInv, GoodStart, NEW p \in Users, NEW q \in Users,
                      pc[p] = "inside", pc[q] = "inside"
               PROVE  p = q
    BY DEF OneInside
  <2>1. BeforeUp /\ Taken
    BY DEF OpenInv, ShareInv
  <2>2. Up
    BY <2>1 DEF BeforeUp, Up, Users, Clients
  <2> QED
    BY <2>1, <2>2 DEF Taken, Users
<1> QED
  BY OpenInvariant, <1>1, PTL

\* With the mutex payment and health never run out of attempts, in whatever order everybody
\* is started: one attempt may fail, the second does not (payment.c:22-31, health.c:26-35).
THEOREM NeverGivesUp == ASSUME Tries >= 2 PROVE Spec => []NobodyGivesUp
<1>1. OpenInv => NobodyGivesUp
  <2> SUFFICES ASSUME OpenInv, pi, NEW c \in Clients PROVE tries[c] < Tries
    BY DEF NobodyGivesUp
  <2>1. tries[c] \in Nat /\ tries[c] <= 1
    BY DEF OpenInv, TypeOK, TriesInv, Procs
  <2> QED
    BY <2>1, SemOpenAssumption
<1> QED
  BY OpenInvariant, <1>1, PTL

------------------------------------------------------------------------------
(* The System V semaphore of C/shm.c: as long as nobody runs SETVAL while another process is  *)
(* inside, the lock excludes, also when processes are killed at any point.                    *)

\* The semaphore is 0 when somebody is inside, and each process has the adjustment
\* it will need if it is killed.
LockOk ==
  /\ Shm!TypeOK
  /\ sem \in 0..1
  /\ \A p \in Writers : adj[p] = IF Shm!Inside(p) THEN 1 ELSE 0
  /\ \A p \in Writers : Shm!Inside(p) => sem = 0
  /\ Shm!Exclusive

LockInv == clean => LockOk

LEMMA LockInvInit == Shm!Init => LockInv
<1> SUFFICES ASSUME Shm!Init PROVE LockOk
  BY DEF LockInv
<1>1. exists \in BOOLEAN /\ seen \in [Writers -> BOOLEAN]
  BY DEF Shm!Init
<1>2. Shm!TypeOK
  BY <1>1 DEF Shm!Init, Shm!TypeOK
<1>3. \A p \in Writers : ~Shm!Inside(p) /\ adj[p] = 0
  BY DEF Shm!Init, Shm!Inside
<1> QED
  BY <1>2, <1>3 DEF Shm!Init, LockOk, Shm!Exclusive

\* The effect of moving one process to another control point.
LEMMA Moved ==
  ASSUME Shm!TypeOK, NEW p \in Writers, NEW l, Shm!Goto(p, l)
  PROVE  /\ at'[p] = l /\ \A q \in Writers \ {p} : at'[q] = at[q]
         /\ Shm!Inside(p)' <=> l \in {"write", "unlock"}
         /\ \A q \in Writers \ {p} : Shm!Inside(q)' <=> Shm!Inside(q)
  BY DEF Shm!TypeOK, Shm!Goto, Shm!Inside

LEMMA LockInvNext == LockInv /\ [Shm!Next]_(Shm!vars) => LockInv'
<1> SUFFICES ASSUME clean', LockInv, [Shm!Next]_(Shm!vars) PROVE LockOk'
  BY DEF LockInv
<1>0. clean /\ LockOk
  BY DEF Shm!Next, Shm!Semget, Shm!Setval, Shm!Lock, Shm!Write, Shm!Unlock, Shm!End, Shm!vars,
         LockInv
<1>1. ASSUME NEW p \in Writers, Shm!Semget(p) PROVE LockOk'
  <2>1. Shm!TypeOK' /\ sem' = sem /\ adj' = adj
    BY <1>0, <1>1 DEF Shm!Semget, Shm!Goto, LockOk, Shm!TypeOK
  <2>2. \A q \in Writers : Shm!Inside(q)' <=> Shm!Inside(q)
    BY <1>0, <1>1, Moved DEF Shm!Semget, LockOk, Shm!Inside
  <2> QED
    BY <1>0, <2>1, <2>2 DEF LockOk, Shm!Exclusive
<1>2. ASSUME NEW p \in Writers, Shm!Setval(p) PROVE LockOk'
  <2>1. Shm!TypeOK' /\ sem' = 1 /\ \A q \in Writers : adj'[q] = 0
    BY <1>0, <1>2 DEF Shm!Setval, Shm!Goto, LockOk, Shm!TypeOK
  <2>2. \A q \in Writers : ~Shm!Inside(q) /\ ~Shm!Inside(q)'
    BY <1>0, <1>2, Moved DEF Shm!Setval, LockOk
  <2> QED
    BY <1>0, <2>1, <2>2 DEF LockOk, Shm!Exclusive
<1>3. ASSUME NEW p \in Writers, Shm!Lock(p) PROVE LockOk'
  <2>1. sem = 1 /\ sem' = 0 /\ \A q \in Writers : ~Shm!Inside(q) /\ adj[q] = 0
    BY <1>0, <1>3 DEF Shm!Lock, LockOk
  <2>2. Shm!TypeOK' /\ adj'[p] = 1 /\ \A q \in Writers \ {p} : adj'[q] = 0
    BY <1>0, <1>3, <2>1 DEF Shm!Lock, Shm!Goto, LockOk, Shm!TypeOK
  <2>3. Shm!Inside(p)' /\ \A q \in Writers \ {p} : ~Shm!Inside(q)'
    BY <1>0, <1>3, <2>1, Moved DEF Shm!Lock, LockOk
  <2> QED
    BY <1>0, <2>1, <2>2, <2>3 DEF LockOk, Shm!Exclusive
<1>4. ASSUME NEW p \in Writers, Shm!Write(p) PROVE LockOk'
  <2>1. Shm!TypeOK' /\ sem' = sem /\ adj' = adj
    BY <1>0, <1>4 DEF Shm!Write, Shm!Goto, LockOk, Shm!TypeOK
  <2>2. \A q \in Writers : Shm!Inside(q)' <=> Shm!Inside(q)
    BY <1>0, <1>4, Moved DEF Shm!Write, LockOk, Shm!Inside
  <2> QED
    BY <1>0, <2>1, <2>2 DEF LockOk, Shm!Exclusive
<1>5. ASSUME NEW p \in Writers, Shm!Unlock(p) PROVE LockOk'
  <2>1. sem = 0 /\ adj[p] = 1 /\ \A q \in Writers \ {p} : ~Shm!Inside(q) /\ adj[q] = 0
    BY <1>0, <1>5 DEF Shm!Unlock, LockOk, Shm!Exclusive, Shm!Inside
  <2>2. Shm!TypeOK' /\ sem' = 1 /\ \A q \in Writers : adj'[q] = 0
    BY <1>0, <1>5, <2>1 DEF Shm!Unlock, Shm!Goto, LockOk, Shm!TypeOK
  <2>3. \A q \in Writers : ~Shm!Inside(q)'
    BY <1>0, <1>5, <2>1, Moved DEF Shm!Unlock, LockOk
  <2> QED
    BY <1>0, <2>2, <2>3 DEF LockOk, Shm!Exclusive
<1>6. ASSUME NEW p \in Writers, Shm!End(p) PROVE LockOk'
  <2>0. ~Shm!Inside(p)' /\ \A q \in Writers : Shm!Inside(q)' => Shm!Inside(q)
    BY <1>0, <1>6, Moved DEF Shm!End, LockOk
  <2>1. CASE Shm!Inside(p)
    <3>1. sem = 0 /\ adj[p] = 1 /\ \A q \in Writers \ {p} : ~Shm!Inside(q) /\ adj[q] = 0
      BY <1>0, <2>1 DEF LockOk, Shm!Exclusive
    <3>2. Shm!TypeOK' /\ sem' = 1 /\ \A q \in Writers : adj'[q] = 0
      BY <1>0, <1>6, <3>1 DEF Shm!End, Shm!Goto, LockOk, Shm!TypeOK
    <3>3. \A q \in Writers : ~Shm!Inside(q)'
      BY <1>0, <2>0, <3>1
    <3> QED
      BY <3>2, <3>3 DEF LockOk, Shm!Exclusive
  <2>2. CASE ~Shm!Inside(p)
    <3>1. Shm!TypeOK' /\ sem' = sem /\ \A q \in Writers : adj'[q] = adj[q]
      BY <1>0, <1>6, <2>2 DEF Shm!End, Shm!Goto, LockOk, Shm!TypeOK
    <3>2. \A q \in Writers : Shm!Inside(q)' <=> Shm!Inside(q)
      BY <1>0, <1>6, <2>2, <2>0, Moved DEF Shm!End, LockOk
    <3> QED
      BY <1>0, <2>0, <3>1, <3>2 DEF LockOk, Shm!Exclusive
  <2> QED BY <1>0, <2>1, <2>2
<1>7. CASE UNCHANGED Shm!vars
  BY <1>0, <1>7 DEF Shm!vars, LockOk, Shm!TypeOK, Shm!Exclusive, Shm!Inside
<1> QED
  BY <1>1, <1>2, <1>3, <1>4, <1>5, <1>6, <1>7 DEF Shm!Next

\* Only one process is between lock and unlock, whoever is killed and when
\* (shm.c:93-104), as long as no SETVAL is done while a process is inside.
THEOREM Exclusion == ShmSpec => []OneLocker
<1>1. LockInv /\ [Shm!Next]_(Shm!vars) => LockInv'
  BY LockInvNext
<1>2. LockInv => OneLocker
  BY DEF LockInv, LockOk, Shm!Exclusive, OneLocker, Shm!OneLocker
<1> QED
  BY LockInvInit, <1>1, <1>2, PTL DEF ShmSpec, Shm!Spec

------------------------------------------------------------------------------
\* The segment holds what a process inside has written.
SegmentInv == clean => \A p \in Writers : seen[p] /\ (at[p] = "unlock" => shm = p)

\* What a process wrote is still in the segment when it gives the lock back
\* (shm.c:95-104).
THEOREM WriteKept == ShmSpec => []Shm!NotOverwritten
<1>1. Shm!Init => SegmentInv
  BY DEF Shm!Init, SegmentInv
<1>2. LockInv /\ SegmentInv /\ [Shm!Next]_(Shm!vars) => SegmentInv'
  <2> DEFINE Kept == \A p \in Writers : seen[p] /\ (at[p] = "unlock" => shm = p)
  <2> SUFFICES ASSUME LockInv, SegmentInv, [Shm!Next]_(Shm!vars), clean' PROVE Kept'
    BY DEF SegmentInv
  <2>0. LockOk /\ Kept
    BY DEF Shm!Next, Shm!Semget, Shm!Setval, Shm!Lock, Shm!Write, Shm!Unlock, Shm!End, Shm!vars,
           LockInv, SegmentInv
  <2>1. ASSUME NEW p \in Writers, Shm!Semget(p) \/ Shm!Setval(p) \/ Shm!Lock(p) \/ Shm!End(p)
        PROVE  Kept'
    BY <2>0, <2>1 DEF Shm!Semget, Shm!Setval, Shm!Lock, Shm!End, Shm!Goto, LockOk, Shm!TypeOK
  <2>2. ASSUME NEW p \in Writers, Shm!Write(p) PROVE Kept'
    <3>1. \A q \in Writers \ {p} : at[q] # "unlock"
      BY <2>0, <2>2 DEF Shm!Write, LockOk, Shm!Exclusive, Shm!Inside
    <3> QED
      BY <2>0, <2>2, <3>1 DEF Shm!Write, Shm!Goto, LockOk, Shm!TypeOK
  <2>3. ASSUME NEW p \in Writers, Shm!Unlock(p) PROVE Kept'
    BY <2>0, <2>3 DEF Shm!Unlock, Shm!Goto, LockOk, Shm!TypeOK
  <2>4. CASE UNCHANGED Shm!vars
    BY <2>0, <2>4 DEF Shm!vars
  <2> QED
    BY <2>1, <2>2, <2>3, <2>4 DEF Shm!Next
<1>3. LockInv /\ [Shm!Next]_(Shm!vars) => LockInv'
  BY LockInvNext
<1>4. SegmentInv => Shm!NotOverwritten
  BY DEF SegmentInv, Shm!NotOverwritten
<1> QED
  BY LockInvInit, <1>1, <1>2, <1>3, <1>4, PTL DEF ShmSpec, Shm!Spec
==============================================================================
