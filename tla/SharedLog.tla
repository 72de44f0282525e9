------------------------------ MODULE SharedLog ------------------------------
(***************************************************************************)
(* What the named semaphore of the priority-inversion exercise promises:   *)
(* at most one process is inside its critical section; a process that has  *)
(* to wait is blocked until it gets the section, either free or handed     *)
(* over by the one that leaves; and every line of /tmp/shared_log is       *)
(* appended by the process that is inside.                                 *)
(* The detailed specification, Inversion, is shown to implement this one.  *)
(***************************************************************************)
EXTENDS Integers, Sequences, SequencesExt

CONSTANTS Procs,   \* the processes that share the semaphore
          None,    \* "nobody is inside"
          Entries  \* the possible lines of the log

VARIABLES holder,  \* who is inside
          blocked, \* who waits to get inside
          lines    \* the shared log

avars == <<holder, blocked, lines>>

Init == /\ holder = None
        /\ blocked = {}
        /\ lines = <<>>

Acquire(p) == /\ holder = None
              /\ holder' = p
              /\ blocked' = blocked \ {p}
              /\ UNCHANGED lines

Block(p) == /\ holder \notin {None, p} /\ p \notin blocked
            /\ blocked' = blocked \cup {p}
            /\ UNCHANGED <<holder, lines>>

Release(p) == /\ holder = p
              /\ \/ holder' = None /\ UNCHANGED blocked
                 \/ \E q \in blocked : holder' = q /\ blocked' = blocked \ {q}
              /\ UNCHANGED lines

Write(p) == /\ holder = p
            /\ Len(lines') = Len(lines) + 1
            /\ lines' = Append(lines, Last(lines'))
            /\ Last(lines').by = p /\ Last(lines').what \in Entries
            /\ UNCHANGED <<holder, blocked>>

Next == \E p \in Procs : Acquire(p) \/ Block(p) \/ Release(p) \/ Write(p)

Spec == Init /\ [][Next]_avars
==============================================================================
