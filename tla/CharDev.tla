------------------------------- MODULE CharDev -------------------------------
(***************************************************************************)
(* modules/chardev.c: the file operations of /dev/mychardev.  One page,    *)
(* kernel_buffer, whose first data_len bytes are the file.  dev_mutex is   *)
(* held while a call copies; mmap gives processes the page itself.         *)
(*                                                                         *)
(* A character device has no lock on the file position: read(2) and        *)
(* write(2) take a copy of f_pos, hand it to the driver, and store it back *)
(* when the call returns.  Threads that share a descriptor therefore run   *)
(* with positions that may be stale.  A byte is a cell; the user copies    *)
(* move one cell at a time and may stop early at a bad user page.          *)
(***************************************************************************)
EXTENDS Integers, Sequences

CONSTANTS Threads,   \* threads that make calls
          Files,     \* open files; threads may share one
          Values,    \* contents of a cell
          Zero,      \* the value memset leaves
          Size       \* BUFFER_SIZE

Free == "free"    \* nobody holds dev_mutex

ASSUME CharDevAssumption ==
  /\ Size \in Nat \ {0}
  /\ Free \notin Threads
  /\ Files # {} /\ Zero \in Values

Addr == 0..(Size - 1)

VARIABLES
  kernel_buffer, data_len,
  f_pos,      \* f_pos[f]: position of an open file
  owner,      \* who holds dev_mutex
  pc,         \* "idle", "want", "copy", "ret"
  op,         \* op[t]: the call of t (count, offset, data, what it copied so far)
  got,        \* got[t]: what the read that t returns from has read
  mapped,     \* a process has mapped the page
  shadow      \* history: the page when dev_mutex was last released

vars == <<kernel_buffer, data_len, f_pos, owner, pc, op, got, mapped, shadow>>

Ops == [kind : {"read", "write"}, file : Files, explicit : BOOLEAN, pos : Nat,
        count : Nat, n : 0..Size, out : Seq(Values), data : Values, ret : -1..Size]

TypeOK ==
  /\ kernel_buffer \in [Addr -> Values]
  /\ data_len \in 0..Size
  /\ f_pos \in [Files -> Nat]
  /\ owner \in Threads \cup {Free}
  /\ pc \in [Threads -> {"idle", "want", "copy", "ret"}]
  /\ op \in [Threads -> Ops]
  /\ got \in [Threads -> Seq(Values)]
  /\ mapped \in BOOLEAN
  /\ shadow \in [Addr -> Values]

NoOp == [kind |-> "read", file |-> CHOOSE f \in Files : TRUE, explicit |-> FALSE, pos |-> 0,
         count |-> 0, n |-> 0, out |-> <<>>, data |-> Zero, ret |-> 0]

Init ==
  /\ kernel_buffer = [a \in Addr |-> Zero] /\ data_len = 0
  /\ f_pos = [f \in Files |-> 0]
  /\ owner = Free
  /\ pc = [t \in Threads |-> "idle"]
  /\ op = [t \in Threads |-> NoOp]
  /\ got = [t \in Threads |-> <<>>]
  /\ mapped = FALSE
  /\ shadow = kernel_buffer

Goto(t, l) == pc' = [pc EXCEPT ![t] = l]

------------------------------------------------------------------------------
(* The system call layer: f_pos is copied on the way in, stored on the way *)
(* out of a call that did not fail; pread and pwrite bring their offset.   *)

Enter(t, f, kind, count, data) ==
  /\ pc[t] = "idle"
  /\ op' = [op EXCEPT ![t] = [NoOp EXCEPT !.kind = kind, !.file = f, !.count = count,
                                          !.data = data, !.pos = f_pos[f]]]
  /\ Goto(t, "want")
  /\ UNCHANGED <<kernel_buffer, data_len, f_pos, owner, got, mapped, shadow>>

EnterAt(t, f, kind, count, data, offset) ==
  /\ pc[t] = "idle"
  /\ op' = [op EXCEPT ![t] = [NoOp EXCEPT !.kind = kind, !.file = f, !.count = count,
                                          !.data = data, !.pos = offset, !.explicit = TRUE]]
  /\ Goto(t, "want")
  /\ UNCHANGED <<kernel_buffer, data_len, f_pos, owner, got, mapped, shadow>>

Return(t) ==
  /\ pc[t] = "ret"
  /\ f_pos' = IF op[t].ret >= 0 /\ ~op[t].explicit
                THEN [f_pos EXCEPT ![op[t].file] = op[t].pos] ELSE f_pos
  /\ op' = [op EXCEPT ![t] = NoOp]
  /\ got' = [got EXCEPT ![t] = <<>>]
  /\ Goto(t, "idle")
  /\ UNCHANGED <<kernel_buffer, data_len, owner, mapped, shadow>>

------------------------------------------------------------------------------
Smaller(a, b) == IF a < b THEN a ELSE b

\* The call ends under the mutex with ret, before anything is copied.
Refuse(t, ret) ==
  /\ op' = [op EXCEPT ![t] = [NoOp EXCEPT !.file = op[t].file, !.explicit = op[t].explicit,
                                          !.pos = op[t].pos, !.ret = ret]]
  /\ Goto(t, "ret")
  /\ UNCHANGED owner

\* mutex_lock; the call will copy n cells.
Begin(t, n) ==
  /\ owner' = t
  /\ op' = [op EXCEPT ![t].n = n, ![t].count = 0]
  /\ Goto(t, "copy")

\* Mutant: at the end of the file a read tries again instead of returning 0.
ReadLockAgain(t) ==
  /\ pc[t] = "want" /\ op[t].kind = "read" /\ owner = Free
  /\ IF op[t].pos >= data_len
       THEN UNCHANGED <<op, pc, owner>>
       ELSE Begin(t, Smaller(op[t].count, data_len - op[t].pos))
  /\ UNCHANGED <<kernel_buffer, data_len, f_pos, got, mapped, shadow>>

\* dev_read up to the copy: nothing at or after data_len.
ReadLock(t) ==
  /\ pc[t] = "want" /\ op[t].kind = "read" /\ owner = Free
  /\ IF op[t].pos >= data_len
       THEN Refuse(t, 0) /\ got' = [got EXCEPT ![t] = <<>>]
       ELSE Begin(t, Smaller(op[t].count, data_len - op[t].pos)) /\ UNCHANGED got
  /\ UNCHANGED <<kernel_buffer, data_len, f_pos, mapped, shadow>>

\* dev_write up to the copy: -ENOSPC at the end of the page, and for an empty write.
WriteLock(t) ==
  /\ pc[t] = "want" /\ op[t].kind = "write" /\ owner = Free
  /\ IF op[t].pos >= Size \/ op[t].count = 0
       THEN Refuse(t, -1)
       ELSE Begin(t, Smaller(op[t].count, Size - op[t].pos))
  /\ UNCHANGED <<kernel_buffer, data_len, f_pos, got, mapped, shadow>>

\* copy_to_user and copy_from_user, one cell; out keeps what has been moved.
Here(t) == op[t].pos + Len(op[t].out)

\* Mutant: every cell comes from, or goes to, the place of the first one.
CopyInPlace(t) ==
  /\ pc[t] = "copy" /\ Len(op[t].out) < op[t].n
  /\ LET v == IF op[t].kind = "read" THEN kernel_buffer[op[t].pos] ELSE op[t].data
     IN /\ op' = [op EXCEPT ![t].out = Append(@, v)]
        /\ kernel_buffer' = IF op[t].kind = "read" THEN kernel_buffer
                            ELSE [kernel_buffer EXCEPT ![op[t].pos] = v]
  /\ UNCHANGED <<data_len, f_pos, owner, pc, got, mapped, shadow>>

Copy(t) ==
  /\ pc[t] = "copy" /\ Len(op[t].out) < op[t].n
  /\ LET v == IF op[t].kind = "read" THEN kernel_buffer[Here(t)] ELSE op[t].data
     IN /\ op' = [op EXCEPT ![t].out = Append(@, v)]
        /\ kernel_buffer' = IF op[t].kind = "read" THEN kernel_buffer
                            ELSE [kernel_buffer EXCEPT ![Here(t)] = v]
  /\ UNCHANGED <<data_len, f_pos, owner, pc, got, mapped, shadow>>

\* copy_from_user fills what it could not copy with zeros, inside the file too.
Tail0(t) == [a \in Addr |-> IF op[t].kind = "write" /\ a >= Here(t) /\ a < op[t].pos + op[t].n
                              THEN Zero ELSE kernel_buffer[a]]

\* A variant of the end of a call that leaves len in data_len.
UnlockLen(t, len) ==
  /\ pc[t] = "copy"
  /\ owner' = Free
  /\ op' = [op EXCEPT ![t] = [NoOp EXCEPT !.file = op[t].file, !.explicit = op[t].explicit,
                                          !.pos = Here(t), !.ret = Len(op[t].out)]]
  /\ data_len' = IF op[t].kind = "write" THEN len ELSE data_len
  /\ got' = IF op[t].kind = "read" THEN [got EXCEPT ![t] = op[t].out] ELSE got
  /\ kernel_buffer' = Tail0(t) /\ shadow' = Tail0(t)
  /\ Goto(t, "ret")
  /\ UNCHANGED <<f_pos, mapped>>

\* The copy is complete, or has met a page of the user that is not there:
\* *pos += bytes; data_len grows with a write; mutex_unlock.
Unlock(t) ==
  /\ pc[t] = "copy"
  /\ owner' = Free
  /\ op' = [op EXCEPT ![t] = [NoOp EXCEPT !.file = op[t].file, !.explicit = op[t].explicit,
                                          !.pos = Here(t), !.ret = Len(op[t].out)]]
  /\ data_len' = IF op[t].kind = "write" /\ Here(t) > data_len
                   THEN Smaller(Here(t), Size) ELSE data_len
  /\ got' = IF op[t].kind = "read" THEN [got EXCEPT ![t] = op[t].out] ELSE got
  /\ kernel_buffer' = Tail0(t) /\ shadow' = Tail0(t)
  /\ Goto(t, "ret")
  /\ UNCHANGED <<f_pos, mapped>>

\* Mutant: fixed_size_llseek with the size of the page.
LlseekPage(t, f, new_pos) ==
  /\ pc[t] = "idle" /\ owner = Free
  /\ new_pos <= Size
  /\ f_pos' = [f_pos EXCEPT ![f] = new_pos]
  /\ UNCHANGED <<kernel_buffer, data_len, owner, pc, op, got, mapped, shadow>>

\* dev_llseek: fixed_size_llseek accepts a position within the file only.
Llseek(t, f, new_pos) ==
  /\ pc[t] = "idle" /\ owner = Free
  /\ new_pos <= data_len
  /\ f_pos' = [f_pos EXCEPT ![f] = new_pos]
  /\ UNCHANGED <<kernel_buffer, data_len, owner, pc, op, got, mapped, shadow>>

\* remap_mm, when the size and the offset are those of the page.
MapPage ==
  /\ mapped' = TRUE
  /\ UNCHANGED <<kernel_buffer, data_len, f_pos, owner, pc, op, got, shadow>>

\* A store through the mapping: any cell of the page, no mutex.
Store(a, v) ==
  /\ mapped
  /\ kernel_buffer' = [kernel_buffer EXCEPT ![a] = v]
  /\ shadow' = [shadow EXCEPT ![a] = v]
  /\ UNCHANGED <<data_len, f_pos, owner, pc, op, got, mapped>>

Step(t) == \/ ReadLock(t) \/ WriteLock(t) \/ Copy(t) \/ Unlock(t) \/ Return(t)

Call(t) == \E f \in Files, count \in 0..Size :
  \/ Enter(t, f, "read", count, Zero)
  \/ \E data \in Values : Enter(t, f, "write", count, data)
  \/ \E offset \in 0..Size : \/ EnterAt(t, f, "read", count, Zero, offset)
                            \/ \E data \in Values : EnterAt(t, f, "write", count, data, offset)
  \/ Llseek(t, f, count)

Next == \/ \E t \in Threads : Step(t) \/ Call(t)
        \/ MapPage
        \/ \E a \in Addr, v \in Values : Store(a, v)

Spec == Init /\ [][Next]_vars

\* A call that has been made runs, and gets dev_mutex in its turn.
FairSpec == Spec /\ \A t \in Threads : /\ WF_vars(Copy(t) \/ Unlock(t) \/ Return(t))
                                       /\ SF_vars(ReadLock(t) \/ WriteLock(t))

------------------------------------------------------------------------------
\* Positions stay inside the file although they are copied before the mutex
\* is taken and stored after it is released: a later write never starts beyond
\* data_len, so a sequence of plain calls leaves no gap (chardev.c:41, 69, 99).
PositionsInside ==
  /\ data_len <= Size
  /\ \A f \in Files : f_pos[f] <= data_len
  /\ \A t \in Threads : pc[t] # "idle" /\ ~op[t].explicit => op[t].pos <= data_len

\* A copy stays inside the page, whatever offset and count the call brought
\* (chardev.c:65-68, 90-98).
CopyInPage ==
  \A t \in Threads : pc[t] = "copy" =>
    /\ op[t].pos + op[t].n <= Size
    /\ op[t].kind = "read" => op[t].pos + op[t].n <= data_len

\* One thread at a time is between mutex_lock and mutex_unlock, and every
\* early return has released the mutex (chardev.c:57-71, 83-104).
MutexOwner ==
  \A t \in Threads : (pc[t] = "copy") <=> (owner = t)

\* The file never shrinks.
NeverShrinks == [][data_len' >= data_len]_vars

\* Every call returns: no path keeps the mutex or waits for what never comes.
CallsReturn == \A t \in Threads : pc[t] = "want" ~> pc[t] = "idle"

AF == INSTANCE AtomicFile WITH cells <- shadow, len <- data_len, shared <- mapped

\* Until a process maps the page the device is a file with atomic reads and writes;
\* after that a call still changes and returns no more than its range.
ImplementsAtomicFile == AF!Spec
==============================================================================
