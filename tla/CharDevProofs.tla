---------------------------- MODULE CharDevProofs ----------------------------
(***************************************************************************)
(* /dev/mychardev for any number of threads and open files and any size of *)
(* the page: the mutex has one owner, copies stay in the page, positions   *)
(* stay in the file.                                                       *)
(***************************************************************************)
EXTENDS CharDev, TLAPS, SequenceTheorems

\* A call that copies has a place in the page for all it will copy.
Fits(t) ==
  /\ Len(op[t].out) <= op[t].n
  /\ op[t].pos + op[t].n <= Size
  /\ op[t].kind = "read" => op[t].pos + op[t].n <= data_len

OkCall(t) ==
  /\ (pc[t] = "copy") <=> (owner = t)
  /\ pc[t] = "copy" => Fits(t)
  /\ pc[t] # "idle" /\ ~op[t].explicit => op[t].pos <= data_len
  /\ pc[t] = "want" => op[t].out = <<>>

OkFiles == \A f \in Files : f_pos[f] <= data_len

DevInv == TypeOK /\ OkFiles /\ \A t \in Threads : OkCall(t)

------------------------------------------------------------------------------
\* A call of t becomes r and moves to l; nothing else in op and pc changes.
Call1(t, r, l) ==
  /\ op' \in [Threads -> Ops] /\ op'[t] = r /\ \A u \in Threads \ {t} : op'[u] = op[u]
  /\ pc' \in [Threads -> {"idle", "want", "copy", "ret"}]
  /\ pc'[t] = l /\ \A u \in Threads \ {t} : pc'[u] = pc[u]

LEMMA NoOpType == NoOp \in Ops
<1>1. (CHOOSE f \in Files : TRUE) \in Files
  BY CharDevAssumption
<1>2. <<>> \in Seq(Values)
  BY EmptySeq
<1>3. 0 \in 0..Size /\ 0 \in -1..Size
  BY CharDevAssumption
<1>4. FALSE \in BOOLEAN
  OBVIOUS
<1> QED
  BY <1>1, <1>2, <1>3, <1>4, CharDevAssumption DEF NoOp, Ops

LEMMA OneCall ==
  ASSUME TypeOK, NEW t \in Threads, NEW r \in Ops, NEW l \in {"idle", "want", "copy", "ret"},
         op' = [op EXCEPT ![t] = r], pc' = [pc EXCEPT ![t] = l]
  PROVE  Call1(t, r, l)
  BY DEF TypeOK, Call1

\* The record of a call that is entered, refused or complete.
LEMMA NewOp ==
  ASSUME NEW kind \in {"read", "write"}, NEW f \in Files, NEW e \in BOOLEAN, NEW p \in Nat,
         NEW c \in Nat, NEW d \in Values, NEW ret \in -1..Size
  PROVE  /\ [NoOp EXCEPT !.kind = kind, !.file = f, !.count = c, !.data = d, !.pos = p] \in Ops
         /\ [NoOp EXCEPT !.kind = kind, !.file = f, !.count = c, !.data = d, !.pos = p,
                         !.explicit = TRUE] \in Ops
         /\ [NoOp EXCEPT !.file = f, !.explicit = e, !.pos = p, !.ret = ret] \in Ops
<1>1. TRUE \in BOOLEAN
  OBVIOUS
<1> QED
  BY <1>1, NoOpType DEF Ops

LEMMA DevInvInit == Init => DevInv
<1> SUFFICES ASSUME Init PROVE DevInv
  OBVIOUS
<1>1. op \in [Threads -> Ops] /\ got \in [Threads -> Seq(Values)]
  BY NoOpType, EmptySeq DEF Init
<1>2. TypeOK
  <2>1. mapped \in BOOLEAN
    BY DEF Init
  <2>2. /\ kernel_buffer \in [Addr -> Values] /\ shadow \in [Addr -> Values]
        /\ data_len \in 0..Size /\ f_pos \in [Files -> Nat] /\ owner \in Threads \cup {Free}
        /\ pc \in [Threads -> {"idle", "want", "copy", "ret"}]
    BY CharDevAssumption DEF Init
  <2> QED
    BY <1>1, <2>1, <2>2 DEF TypeOK
<1>3. OkFiles /\ \A t \in Threads : OkCall(t)
  BY CharDevAssumption DEF Init, OkFiles, OkCall
<1> QED
  BY <1>2, <1>3 DEF DevInv

------------------------------------------------------------------------------
\* A thread that does not move stays as it is while the file does not shrink and the
\* mutex is taken or released by others.
LEMMA Others ==
  ASSUME NEW t \in Threads, NEW u \in Threads \ {t}, TypeOK, TypeOK', OkCall(u),
         op'[u] = op[u], pc'[u] = pc[u], data_len <= data_len',
         owner = u <=> owner' = u
  PROVE  OkCall(u)'
<1>1. op[u].pos \in Nat /\ op[u].n \in Int /\ data_len \in Int /\ data_len' \in Int
  <2>1. op[u] \in Ops /\ data_len \in 0..Size /\ data_len' \in 0..Size
    BY DEF TypeOK
  <2> QED
    BY <2>1, CharDevAssumption DEF Ops
<1>2. Fits(u) => Fits(u)'
  BY <1>1, CharDevAssumption DEF Fits
<1> QED
  BY <1>1, <1>2 DEF OkCall

\* The typing of everything but op and pc.
RestType ==
  /\ kernel_buffer \in [Addr -> Values]
  /\ data_len \in 0..Size
  /\ f_pos \in [Files -> Nat]
  /\ owner \in Threads \cup {Free}
  /\ got \in [Threads -> Seq(Values)]
  /\ mapped \in BOOLEAN
  /\ shadow \in [Addr -> Values]

\* A step of one thread.
LEMMA OneStep ==
  ASSUME DevInv, NEW t \in Threads, NEW r \in Ops, NEW l \in {"idle", "want", "copy", "ret"},
         op' = [op EXCEPT ![t] = r], pc' = [pc EXCEPT ![t] = l],
         RestType', OkFiles', data_len <= data_len',
         \A u \in Threads \ {t} : owner = u <=> owner' = u,
         Call1(t, r, l) => OkCall(t)'
  PROVE  DevInv'
<1>1. Call1(t, r, l)
  BY OneCall DEF DevInv
<1>2. TypeOK'
  BY <1>1 DEF TypeOK, RestType, Call1
<1>3. \A u \in Threads \ {t} : OkCall(u)'
  BY <1>1, <1>2, Others DEF Call1, DevInv
<1> QED
  BY <1>1, <1>2, <1>3 DEF DevInv

\* The arithmetic of the invariant.
LEMMA Numbers ==
  ASSUME TypeOK, NEW t \in Threads
  PROVE  /\ op[t] \in Ops /\ op[t].pos \in Nat /\ op[t].count \in Nat /\ op[t].n \in 0..Size
         /\ op[t].file \in Files /\ op[t].explicit \in BOOLEAN /\ op[t].kind \in {"read", "write"}
         /\ op[t].out \in Seq(Values) /\ Len(op[t].out) \in Nat /\ op[t].data \in Values
         /\ data_len \in 0..Size /\ Size \in Nat \ {0}
<1>1. op[t] \in Ops /\ data_len \in 0..Size
  BY DEF TypeOK
<1>2. op[t].out \in Seq(Values)
  BY <1>1 DEF Ops
<1>3. Len(op[t].out) \in Nat
  BY <1>2, LenProperties
<1>4. /\ op[t].pos \in Nat /\ op[t].count \in Nat /\ op[t].n \in 0..Size
      /\ op[t].file \in Files /\ op[t].kind \in {"read", "write"} /\ op[t].data \in Values
  BY <1>1 DEF Ops
<1>5. op[t].explicit \in BOOLEAN
  BY <1>1, Zenon DEF Ops
<1> QED
  BY <1>1, <1>2, <1>3, <1>4, <1>5, CharDevAssumption

------------------------------------------------------------------------------
(* The system call layer *)

LEMMA EnterOk ==
  ASSUME DevInv, NEW t \in Threads, NEW f \in Files, NEW kind \in {"read", "write"},
         NEW count \in 0..Size, NEW data \in Values, Enter(t, f, kind, count, data)
  PROVE  DevInv'
<1> DEFINE r == [NoOp EXCEPT !.kind = kind, !.file = f, !.count = count, !.data = data,
                             !.pos = f_pos[f]]
<1>1. r \in Ops /\ r.pos = f_pos[f] /\ r.out = <<>>
  <2>1. f_pos[f] \in Nat /\ count \in Nat
    BY CharDevAssumption DEF DevInv, TypeOK
  <2>2. 0 \in -1..Size /\ TRUE \in BOOLEAN
    BY CharDevAssumption
  <2>3. r \in Ops
    BY <2>1, <2>2, NewOp
  <2> QED BY <2>1, <2>3 DEF NoOp
<1>2. op' = [op EXCEPT ![t] = r] /\ pc' = [pc EXCEPT ![t] = "want"] /\ pc[t] = "idle"
  BY DEF Enter, Goto
<1> HIDE DEF r
<1>3. UNCHANGED <<kernel_buffer, data_len, f_pos, owner, got, mapped, shadow>>
  BY DEF Enter
<1>4. RestType' /\ OkFiles' /\ data_len <= data_len'
  BY <1>3, Numbers DEF DevInv, TypeOK, RestType, OkFiles
<1>5. Call1(t, r, "want") => OkCall(t)'
  BY <1>1, <1>2, <1>3 DEF DevInv, OkFiles, OkCall, Call1
<1> QED
  BY <1>1, <1>2, <1>3, <1>4, <1>5, OneStep

LEMMA EnterAtOk ==
  ASSUME DevInv, NEW t \in Threads, NEW f \in Files, NEW kind \in {"read", "write"},
         NEW count \in 0..Size, NEW data \in Values, NEW offset \in 0..Size,
         EnterAt(t, f, kind, count, data, offset)
  PROVE  DevInv'
<1> DEFINE r == [NoOp EXCEPT !.kind = kind, !.file = f, !.count = count, !.data = data,
                             !.pos = offset, !.explicit = TRUE]
<1>1. r \in Ops /\ r.explicit /\ r.out = <<>>
  <2>1. offset \in Nat /\ count \in Nat /\ 0 \in -1..Size /\ TRUE \in BOOLEAN
    BY CharDevAssumption
  <2>2. r \in Ops
    BY <2>1, NewOp
  <2> QED BY <2>1, <2>2 DEF NoOp
<1>2. op' = [op EXCEPT ![t] = r] /\ pc' = [pc EXCEPT ![t] = "want"] /\ pc[t] = "idle"
  BY DEF EnterAt, Goto
<1> HIDE DEF r
<1>3. UNCHANGED <<kernel_buffer, data_len, f_pos, owner, got, mapped, shadow>>
  BY DEF EnterAt
<1>4. RestType' /\ OkFiles' /\ data_len <= data_len'
  BY <1>3, Numbers DEF DevInv, TypeOK, RestType, OkFiles
<1>5. Call1(t, r, "want") => OkCall(t)'
  BY <1>1, <1>2, <1>3 DEF DevInv, OkCall, Call1
<1> QED
  BY <1>1, <1>2, <1>3, <1>4, <1>5, OneStep

LEMMA ReturnOk ==
  ASSUME DevInv, NEW t \in Threads, Return(t) PROVE DevInv'
<1>1. op' = [op EXCEPT ![t] = NoOp] /\ pc' = [pc EXCEPT ![t] = "idle"] /\ pc[t] = "ret"
  BY DEF Return, Goto
<1>2. UNCHANGED <<kernel_buffer, data_len, owner, mapped, shadow>>
  BY DEF Return
<1>3. f_pos' \in [Files -> Nat] /\ OkFiles'
  <2>1. CASE op[t].ret >= 0 /\ ~op[t].explicit
    <3>1. f_pos' = [f_pos EXCEPT ![op[t].file] = op[t].pos]
      BY <2>1 DEF Return
    <3>2. op[t].pos \in Nat /\ op[t].file \in Files /\ op[t].pos <= data_len
      BY <1>1, <2>1, Numbers DEF DevInv, OkCall
    <3> QED
      BY <1>2, <3>1, <3>2 DEF DevInv, TypeOK, OkFiles
  <2>2. CASE ~(op[t].ret >= 0 /\ ~op[t].explicit)
    BY <1>2, <2>2 DEF Return, DevInv, TypeOK, OkFiles
  <2> QED BY <2>1, <2>2
<1>4. RestType' /\ data_len <= data_len'
  <2>1. got' \in [Threads -> Seq(Values)]
    BY EmptySeq DEF Return, DevInv, TypeOK
  <2> QED
    BY <1>2, <1>3, <2>1, Numbers DEF DevInv, TypeOK, RestType
<1>5. Call1(t, NoOp, "idle") => OkCall(t)'
  BY <1>1, <1>2 DEF DevInv, OkCall, Call1
<1> QED
  BY <1>1, <1>2, <1>3, <1>4, <1>5, OneStep, NoOpType

------------------------------------------------------------------------------
(* The driver *)

\* An early return: the position does not move, and the mutex is free again.
LEMMA RefuseOk ==
  ASSUME DevInv, NEW t \in Threads, NEW ret \in -1..0, Refuse(t, ret), pc[t] = "want",
         UNCHANGED <<kernel_buffer, data_len, f_pos, mapped, shadow>>, got' \in [Threads -> Seq(Values)]
  PROVE  DevInv'
<1> DEFINE r == [NoOp EXCEPT !.file = op[t].file, !.explicit = op[t].explicit,
                             !.pos = op[t].pos, !.ret = ret]
<1>1. r \in Ops /\ r.pos = op[t].pos /\ r.explicit = op[t].explicit
  <2>1. /\ op[t].file \in Files /\ op[t].explicit \in BOOLEAN /\ op[t].pos \in Nat
        /\ ret \in -1..Size /\ "read" \in {"read", "write"} /\ 0 \in Nat
    BY Numbers DEF DevInv
  <2>2. r \in Ops
    BY <2>1, NewOp, CharDevAssumption
  <2> QED BY <2>1, <2>2 DEF NoOp
<1>2. op' = [op EXCEPT ![t] = r] /\ pc' = [pc EXCEPT ![t] = "ret"] /\ owner' = owner
  BY DEF Refuse, Goto
<1> HIDE DEF r
<1>3. RestType' /\ OkFiles' /\ data_len <= data_len'
  BY <1>2, Numbers DEF DevInv, TypeOK, RestType, OkFiles
<1>4. Call1(t, r, "ret") => OkCall(t)'
  BY <1>1, <1>2 DEF DevInv, OkCall, Call1
<1> QED
  BY <1>1, <1>2, <1>3, <1>4, OneStep

\* The mutex is taken for a copy of n cells that fit.
LEMMA BeginOk ==
  ASSUME DevInv, NEW t \in Threads, NEW n \in 0..Size, Begin(t, n), pc[t] = "want", owner = Free,
         op[t].out = <<>>, op[t].pos + n <= Size, op[t].kind = "read" => op[t].pos + n <= data_len,
         UNCHANGED <<kernel_buffer, data_len, f_pos, got, mapped, shadow>>
  PROVE  DevInv'
<1> DEFINE r == [op[t] EXCEPT !.n = n, !.count = 0]
<1>1. /\ r \in Ops /\ r.pos = op[t].pos /\ r.explicit = op[t].explicit /\ r.n = n
      /\ r.out = <<>> /\ r.kind = op[t].kind
  BY Numbers DEF DevInv, Ops
<1>2. op' = [op EXCEPT ![t] = r] /\ pc' = [pc EXCEPT ![t] = "copy"] /\ owner' = t
  BY DEF Begin, Goto
<1> HIDE DEF r
<1>3. RestType' /\ OkFiles' /\ data_len <= data_len'
  BY <1>2, Numbers DEF DevInv, TypeOK, RestType, OkFiles
<1>4. Call1(t, r, "copy") => OkCall(t)'
  BY <1>1, <1>2 DEF DevInv, OkCall, Call1, Fits
<1> QED
  BY <1>1, <1>2, <1>3, <1>4, OneStep, CharDevAssumption

LEMMA ReadLockOk ==
  ASSUME DevInv, NEW t \in Threads, ReadLock(t) PROVE DevInv'
<1>1. CASE op[t].pos >= data_len
  <2>1. got' \in [Threads -> Seq(Values)] /\ Refuse(t, 0) /\ pc[t] = "want"
        /\ UNCHANGED <<kernel_buffer, data_len, f_pos, mapped, shadow>>
    BY <1>1, EmptySeq DEF ReadLock, DevInv, TypeOK
  <2> QED
    BY <2>1, RefuseOk
<1>2. CASE ~(op[t].pos >= data_len)
  <2> DEFINE n == Smaller(op[t].count, data_len - op[t].pos)
  <2>1. n \in 0..Size /\ op[t].pos + n <= data_len /\ op[t].pos + n <= Size
    BY <1>2, Numbers DEF DevInv, Smaller
  <2>2. Begin(t, n) /\ pc[t] = "want" /\ owner = Free
        /\ UNCHANGED <<kernel_buffer, data_len, f_pos, got, mapped, shadow>>
    BY <1>2 DEF ReadLock
  <2>3. op[t].out = <<>>
    BY <2>2 DEF DevInv, OkCall
  <2> HIDE DEF n
  <2> QED
    BY <2>1, <2>2, <2>3, BeginOk
<1> QED BY <1>1, <1>2

LEMMA WriteLockOk ==
  ASSUME DevInv, NEW t \in Threads, WriteLock(t) PROVE DevInv'
<1>0. got' \in [Threads -> Seq(Values)] /\ pc[t] = "want" /\ op[t].kind = "write" /\ owner = Free
      /\ UNCHANGED <<kernel_buffer, data_len, f_pos, got, mapped, shadow>>
  BY DEF WriteLock, DevInv, TypeOK
<1>1. CASE op[t].pos >= Size \/ op[t].count = 0
  <2>1. Refuse(t, -1)
    BY <1>1 DEF WriteLock
  <2> QED
    BY <1>0, <2>1, RefuseOk
<1>2. CASE ~(op[t].pos >= Size \/ op[t].count = 0)
  <2> DEFINE n == Smaller(op[t].count, Size - op[t].pos)
  <2>1. n \in 0..Size /\ op[t].pos + n <= Size
    BY <1>2, Numbers DEF DevInv, Smaller
  <2>2. Begin(t, n)
    BY <1>2 DEF WriteLock
  <2>3. op[t].out = <<>>
    BY <1>0 DEF DevInv, OkCall
  <2> HIDE DEF n
  <2> QED
    BY <1>0, <2>1, <2>2, <2>3, BeginOk
<1> QED BY <1>1, <1>2

LEMMA CopyOk ==
  ASSUME DevInv, NEW t \in Threads, Copy(t) PROVE DevInv'
<1> DEFINE v == IF op[t].kind = "read" THEN kernel_buffer[Here(t)] ELSE op[t].data
           r == [op[t] EXCEPT !.out = Append(@, v)]
<1>1. pc[t] = "copy" /\ Fits(t) /\ Len(op[t].out) < op[t].n
  BY DEF Copy, DevInv, OkCall
<1>2. Here(t) \in Addr
  BY <1>1, Numbers DEF DevInv, Fits, Here, Addr
<1>3. v \in Values
  BY <1>2, Numbers DEF DevInv, TypeOK
<1>4. op' = [op EXCEPT ![t] = r] /\ kernel_buffer' \in [Addr -> Values]
  BY <1>2, <1>3 DEF Copy, DevInv, TypeOK
<1> HIDE DEF v
<1>5. Append(op[t].out, v) \in Seq(Values) /\ Len(Append(op[t].out, v)) = Len(op[t].out) + 1
  BY <1>3, Numbers, AppendProperties DEF DevInv
<1>6. /\ r \in Ops /\ r.pos = op[t].pos /\ r.explicit = op[t].explicit /\ r.n = op[t].n
      /\ Len(r.out) = Len(op[t].out) + 1 /\ r.kind = op[t].kind
  BY <1>5, Numbers DEF DevInv, Ops
<1> HIDE DEF r
<1>7. pc' = [pc EXCEPT ![t] = "copy"] /\ UNCHANGED <<data_len, f_pos, owner, got, mapped, shadow>>
  BY <1>1 DEF Copy, DevInv, TypeOK
<1>8. RestType' /\ OkFiles' /\ data_len <= data_len'
  BY <1>4, <1>7, Numbers DEF DevInv, TypeOK, RestType, OkFiles
<1>9. Call1(t, r, "copy") => OkCall(t)'
  <2>1. Len(op[t].out) + 1 <= op[t].n
    BY <1>1, Numbers DEF DevInv
  <2> QED
    BY <1>1, <1>6, <1>7, <2>1 DEF DevInv, OkCall, Call1, Fits
<1> QED
  BY <1>4, <1>6, <1>7, <1>8, <1>9, OneStep

LEMMA UnlockOk ==
  ASSUME DevInv, NEW t \in Threads, Unlock(t) PROVE DevInv' /\ data_len' >= data_len
<1> DEFINE r == [NoOp EXCEPT !.file = op[t].file, !.explicit = op[t].explicit,
                             !.pos = Here(t), !.ret = Len(op[t].out)]
<1>1. pc[t] = "copy" /\ owner = t /\ Fits(t)
  BY DEF Unlock, DevInv, OkCall
<1>2. /\ Len(op[t].out) \in -1..Size /\ Here(t) \in Nat /\ Here(t) <= Size
      /\ op[t].kind = "read" => Here(t) <= data_len
  <2>1. /\ op[t].pos \in Nat /\ op[t].n \in 0..Size /\ Len(op[t].out) \in Nat
        /\ data_len \in 0..Size /\ Size \in Nat
    BY Numbers DEF DevInv
  <2>2. /\ Len(op[t].out) <= op[t].n /\ op[t].pos + op[t].n <= Size
        /\ op[t].kind = "read" => op[t].pos + op[t].n <= data_len
    BY <1>1 DEF Fits
  <2>3. Len(op[t].out) \in -1..Size
    BY <2>1, <2>2
  <2>4. Here(t) \in Nat /\ Here(t) <= op[t].pos + op[t].n
    BY <2>1, <2>2 DEF Here
  <2>5. op[t].pos + op[t].n \in Int
    BY <2>1
  <2> QED
    BY <2>1, <2>2, <2>3, <2>4, <2>5
<1>3. r \in Ops /\ r.pos = Here(t) /\ r.explicit = op[t].explicit
  <2>1. /\ op[t].file \in Files /\ op[t].explicit \in BOOLEAN
        /\ "read" \in {"read", "write"} /\ 0 \in Nat
    BY Numbers DEF DevInv
  <2>2. r \in Ops
    BY <1>2, <2>1, NewOp, CharDevAssumption
  <2> QED BY <2>1, <2>2 DEF NoOp
<1>4. op' = [op EXCEPT ![t] = r] /\ pc' = [pc EXCEPT ![t] = "ret"] /\ owner' = Free
      /\ shadow' = Tail0(t) /\ kernel_buffer' = Tail0(t)
      /\ UNCHANGED <<f_pos, mapped>>
  BY DEF Unlock, Goto
<1> HIDE DEF r
<1>5. data_len' \in 0..Size /\ data_len' >= data_len /\ Here(t) <= data_len'
  <2>1. CASE op[t].kind = "write" /\ Here(t) > data_len
    BY <1>2, <2>1, Numbers DEF DevInv, Unlock, Smaller
  <2>2. CASE ~(op[t].kind = "write" /\ Here(t) > data_len)
    <3>1. data_len' = data_len
      BY <2>2 DEF Unlock
    <3> QED
      BY <1>2, <2>2, <3>1, Numbers DEF DevInv
  <2> QED BY <2>1, <2>2
<1>6. got' \in [Threads -> Seq(Values)]
  BY Numbers DEF DevInv, TypeOK, Unlock
<1>7. data_len <= data_len' /\ data_len \in Int /\ data_len' \in Int
  BY <1>5, Numbers DEF DevInv
<1>8. RestType'
  <2>1. Tail0(t) \in [Addr -> Values]
    BY CharDevAssumption DEF DevInv, TypeOK, Tail0
  <2> QED
    BY <1>4, <1>5, <1>6, <2>1 DEF DevInv, TypeOK, RestType
<1>9. OkFiles'
  BY <1>4, <1>7 DEF DevInv, TypeOK, OkFiles
<1>10. Call1(t, r, "ret") => OkCall(t)'
  BY <1>3, <1>4, <1>5, CharDevAssumption DEF DevInv, OkCall, Call1
<1>11. \A u \in Threads \ {t} : owner = u <=> owner' = u
  BY <1>1, <1>4, CharDevAssumption
<1>12. DevInv'
  BY <1>3, <1>4, <1>7, <1>8, <1>9, <1>10, <1>11, OneStep
<1> QED
  BY <1>5, <1>12

LEMMA SeekAndStoreOk ==
  ASSUME DevInv,
         \/ \E t \in Threads, f \in Files, new_pos \in 0..Size : Llseek(t, f, new_pos)
         \/ MapPage
         \/ \E a \in Addr, v \in Values : Store(a, v)
         \/ UNCHANGED vars
  PROVE  DevInv' /\ data_len' = data_len
<1>0. UNCHANGED <<data_len, owner, pc, op, got>>
  BY DEF Llseek, MapPage, Store, vars
<1>1. f_pos' \in [Files -> Nat] /\ OkFiles'
  <2>1. ASSUME NEW t \in Threads, NEW f \in Files, NEW new_pos \in 0..Size, Llseek(t, f, new_pos)
        PROVE  f_pos' \in [Files -> Nat] /\ OkFiles'
    <3>1. new_pos \in Nat /\ new_pos <= data_len /\ f_pos' = [f_pos EXCEPT ![f] = new_pos]
      BY <2>1, CharDevAssumption DEF Llseek
    <3> QED
      BY <1>0, <3>1 DEF DevInv, TypeOK, OkFiles
  <2>2. CASE UNCHANGED f_pos
    BY <1>0, <2>2 DEF DevInv, TypeOK, OkFiles
  <2> QED BY <2>1, <2>2 DEF MapPage, Store, vars
<1>2. kernel_buffer' \in [Addr -> Values] /\ shadow' \in [Addr -> Values] /\ mapped' \in BOOLEAN
  BY DEF Llseek, MapPage, Store, vars, DevInv, TypeOK
<1>3. TypeOK'
  BY <1>0, <1>1, <1>2 DEF DevInv, TypeOK
<1>4. \A t \in Threads : OkCall(t)'
  BY <1>0 DEF DevInv, OkCall, Fits
<1> QED
  BY <1>0, <1>1, <1>3, <1>4 DEF DevInv

LEMMA DevInvNext == DevInv /\ [Next]_vars => DevInv' /\ data_len' >= data_len
<1> SUFFICES ASSUME DevInv, [Next]_vars PROVE DevInv' /\ data_len' >= data_len
  OBVIOUS
<1>0. data_len \in Int /\ (data_len' = data_len => data_len' >= data_len) /\ Zero \in Values
  BY CharDevAssumption DEF DevInv, TypeOK
<1>1. ASSUME NEW t \in Threads, Step(t) PROVE DevInv' /\ data_len' >= data_len
  <2>1. CASE ReadLock(t)
    BY <1>0, <2>1, ReadLockOk DEF ReadLock
  <2>2. CASE WriteLock(t)
    BY <1>0, <2>2, WriteLockOk DEF WriteLock
  <2>3. CASE Copy(t)
    BY <1>0, <2>3, CopyOk DEF Copy
  <2>4. CASE Unlock(t)
    BY <2>4, UnlockOk
  <2>5. CASE Return(t)
    BY <1>0, <2>5, ReturnOk DEF Return
  <2> QED
    BY <1>1, <2>1, <2>2, <2>3, <2>4, <2>5 DEF Step
<1>2. ASSUME NEW t \in Threads, Call(t) PROVE DevInv' /\ data_len' >= data_len
  <2>1. PICK f \in Files, count \in 0..Size :
          \/ Enter(t, f, "read", count, Zero)
          \/ \E data \in Values : Enter(t, f, "write", count, data)
          \/ \E offset \in 0..Size :
               \/ EnterAt(t, f, "read", count, Zero, offset)
               \/ \E data \in Values : EnterAt(t, f, "write", count, data, offset)
          \/ Llseek(t, f, count)
    BY <1>2 DEF Call
  <2>2. ASSUME NEW kind \in {"read", "write"}, NEW data \in Values, Enter(t, f, kind, count, data)
        PROVE  DevInv' /\ data_len' >= data_len
    BY <1>0, <2>2, EnterOk DEF Enter
  <2>3. ASSUME NEW kind \in {"read", "write"}, NEW data \in Values, NEW offset \in 0..Size,
               EnterAt(t, f, kind, count, data, offset)
        PROVE  DevInv' /\ data_len' >= data_len
    BY <1>0, <2>3, EnterAtOk DEF EnterAt
  <2>4. CASE Llseek(t, f, count)
    BY <1>0, <2>4, SeekAndStoreOk
  <2> QED
    BY <1>0, <2>1, <2>2, <2>3, <2>4
<1>3. CASE MapPage \/ (\E a \in Addr, v \in Values : Store(a, v)) \/ UNCHANGED vars
  BY <1>0, <1>3, SeekAndStoreOk
<1> QED
  BY <1>1, <1>2, <1>3 DEF Next

\* The inductive invariant of the calls (chardev.c:50-106).
THEOREM DevInvariant == Spec => []DevInv
<1>1. DevInv /\ [Next]_vars => DevInv'
  BY DevInvNext
<1> QED
  BY DevInvInit, <1>1, PTL DEF Spec

\* Every variable of the device keeps its type.
THEOREM TypeCorrect == Spec => []TypeOK
<1>1. DevInv => TypeOK
  BY DEF DevInv
<1> QED
  BY DevInvariant, <1>1, PTL

\* One thread at a time is between mutex_lock and mutex_unlock (chardev.c:57-71, 83-104).
THEOREM OneOwner == Spec => []MutexOwner
<1>1. DevInv => MutexOwner
  BY DEF DevInv, OkCall, MutexOwner
<1> QED
  BY DevInvariant, <1>1, PTL

\* No copy leaves the page, and no read returns what is beyond the end of the file,
\* whatever offsets and counts the calls bring (chardev.c:65-68, 90-98).
THEOREM CopiesInPage == Spec => []CopyInPage
<1>1. DevInv => CopyInPage
  BY DEF DevInv, OkCall, Fits, CopyInPage
<1> QED
  BY DevInvariant, <1>1, PTL

\* Positions stay inside the file, although they are copied before the mutex is taken
\* and stored after it is released (chardev.c:41, 69, 99).
THEOREM PositionsStayInside == Spec => []PositionsInside
<1>1. DevInv => PositionsInside
  BY CharDevAssumption DEF DevInv, TypeOK, OkFiles, OkCall, PositionsInside
<1> QED
  BY DevInvariant, <1>1, PTL

\* The file never shrinks (chardev.c:101-102).
THEOREM LengthGrows == Spec => NeverShrinks
<1>1. DevInv /\ [Next]_vars => [data_len' >= data_len]_vars
  BY DevInvNext
<1> QED
  BY DevInvariant, <1>1, PTL DEF Spec, NeverShrinks

------------------------------------------------------------------------------
(* The device implements AtomicFile, whose file is the page as it was when *)
(* the mutex was last released.                                            *)

\* The page is that file, but for what the writer that holds the mutex has copied so far;
\* a reader that holds it has copied a piece of the file.
BufInv ==
  /\ owner = Free => kernel_buffer = shadow
  /\ owner # Free /\ op[owner].kind = "read" =>
       /\ kernel_buffer = shadow
       /\ mapped \/ \A i \in 1..Len(op[owner].out) :
                     op[owner].out[i] = shadow[op[owner].pos + i - 1]
  /\ owner # Free /\ op[owner].kind = "write" =>
       /\ op[owner].pos < Size
       /\ \A a \in Addr : a < op[owner].pos \/ a >= op[owner].pos + op[owner].n
                          => kernel_buffer[a] = shadow[a]
       /\ mapped \/ \A a \in Addr : a >= op[owner].pos /\ a < Here(owner)
                                     => kernel_buffer[a] = op[owner].data

LEMMA BufInit == Init => BufInv /\ AF!Init
<1> SUFFICES ASSUME Init PROVE BufInv /\ AF!Init
  OBVIOUS
<1>1. kernel_buffer = shadow /\ owner = Free
  BY DEF Init
<1> QED
  BY <1>1 DEF Init, BufInv, AF!Init, AF!Cells, Addr

\* A step that leaves page, mutex and the call of the holder alone.
LEMMA BufFrame ==
  ASSUME BufInv, UNCHANGED <<kernel_buffer, shadow, mapped, owner>>,
         owner # Free => op'[owner] = op[owner]
  PROVE  BufInv'
  BY DEF BufInv, Here

\* A step of a thread that does not hold the mutex, and does not take it.
LEMMA BufOther ==
  ASSUME DevInv, BufInv, NEW t \in Threads, NEW r, op' = [op EXCEPT ![t] = r], owner # t,
         UNCHANGED <<kernel_buffer, shadow, mapped, owner>>
  PROVE  BufInv'
<1>1. owner # Free => op'[owner] = op[owner]
  BY DEF DevInv, TypeOK
<1> QED
  BY <1>1, BufFrame

Refines == AF!Next \/ UNCHANGED AF!avars

LEMMA Stutters == ASSUME UNCHANGED <<shadow, data_len, got, mapped>> PROVE Refines
  BY DEF Refines, AF!avars

\* A read of nothing, and the end of a call that forgets what was read.
LEMMA ReadsNothing ==
  ASSUME DevInv, NEW t \in Threads, got' = [got EXCEPT ![t] = <<>>],
         UNCHANGED <<shadow, data_len, mapped>>
  PROVE  Refines
<1>1. data_len \in Nat
  BY Numbers DEF DevInv
<1>2. AF!Piece(0, 0) = <<>> /\ <<>> \in [1..0 -> Values]
  BY DEF AF!Piece
<1>3. 0 \in 0..data_len /\ 0 \in 0..(data_len - 0)
      /\ <<>> \in (IF mapped THEN [1..0 -> Values] ELSE {AF!Piece(0, 0)})
  BY <1>1, <1>2
<1>4. AF!Read(t)
  BY <1>3 DEF AF!Read
<1> QED
  BY <1>4 DEF Refines, AF!Next

LEMMA CallRefines ==
  ASSUME DevInv, BufInv, NEW t \in Threads, NEW r, op' = [op EXCEPT ![t] = r], pc[t] = "idle",
         UNCHANGED <<kernel_buffer, data_len, owner, got, mapped, shadow>>
  PROVE  BufInv' /\ Refines
<1>1. owner # t
  BY DEF DevInv, OkCall
<1> QED
  BY <1>1, BufOther, Stutters

LEMMA LockRefines ==
  ASSUME DevInv, BufInv, NEW t \in Threads, ReadLock(t) \/ WriteLock(t) PROVE BufInv' /\ Refines
<1>0. /\ pc[t] = "want" /\ owner = Free /\ UNCHANGED <<kernel_buffer, data_len, shadow, mapped>>
      /\ op[t].out = <<>> /\ Len(op[t].out) = 0
  BY EmptySeq DEF ReadLock, WriteLock, DevInv, OkCall
<1>1. ASSUME NEW ret, Refuse(t, ret) PROVE BufInv'
  <2>1. owner # t /\ owner' = owner
    BY <1>0, <1>1, CharDevAssumption DEF Refuse
  <2> QED
    BY <1>0, <1>1, <2>1, BufOther DEF Refuse
<1>2. ASSUME NEW n, Begin(t, n), op[t].kind = "write" => op[t].pos < Size PROVE BufInv'
  <2> DEFINE r == [op[t] EXCEPT !.n = n, !.count = 0]
  <2>1. owner' = t /\ t # Free /\ op' = [op EXCEPT ![t] = r]
    BY <1>2, CharDevAssumption DEF Begin
  <2>2. op'[t] = r
    BY <2>1 DEF DevInv, TypeOK
  <2>3. r.pos = op[t].pos /\ r.out = <<>> /\ Len(r.out) = 0 /\ r.kind = op[t].kind
        /\ op[t].pos \in Nat
    BY <1>0, Numbers DEF DevInv, Ops
  <2> HIDE DEF r
  <2>4. kernel_buffer' = shadow'
    BY <1>0 DEF BufInv
  <2>5. \A a \in Addr : ~(a >= op[t].pos /\ a < op[t].pos + 0)
    BY <2>3, CharDevAssumption DEF Addr
  <2> QED
    BY <1>2, <2>1, <2>2, <2>3, <2>4, <2>5 DEF BufInv, Here
<1>3. CASE ReadLock(t)
  <2>1. CASE op[t].pos >= data_len
    BY <1>0, <1>1, <1>3, <2>1, ReadsNothing DEF ReadLock
  <2>2. CASE ~(op[t].pos >= data_len)
    BY <1>0, <1>2, <1>3, <2>2, Stutters DEF ReadLock
  <2> QED BY <2>1, <2>2
<1>4. CASE WriteLock(t)
  <2>1. UNCHANGED got
    BY <1>4 DEF WriteLock
  <2>2. CASE op[t].pos >= Size \/ op[t].count = 0
    BY <1>0, <1>1, <1>4, <2>1, <2>2, Stutters DEF WriteLock
  <2>3. CASE ~(op[t].pos >= Size \/ op[t].count = 0)
    <3>1. op[t].pos < Size
      BY <2>3, Numbers DEF DevInv
    <3> QED BY <1>0, <1>2, <1>4, <2>1, <2>3, <3>1, Stutters DEF WriteLock
  <2> QED BY <2>2, <2>3
<1> QED BY <1>3, <1>4

LEMMA CopyRefines ==
  ASSUME DevInv, BufInv, NEW t \in Threads, Copy(t) PROVE BufInv' /\ Refines
<1> DEFINE v == IF op[t].kind = "read" THEN kernel_buffer[Here(t)] ELSE op[t].data
           r == [op[t] EXCEPT !.out = Append(@, v)]
           h == Here(t)
           p == op[t].pos
           n == Len(op[t].out)
<1>1. owner = t /\ t # Free /\ Fits(t) /\ n < op[t].n
  BY CharDevAssumption DEF Copy, DevInv, OkCall
<1>2. h = p + n /\ p \in Nat /\ n \in Nat /\ h \in Addr
  BY <1>1, Numbers DEF DevInv, Fits, Here, Addr
<1>3. v \in Values
  BY <1>2, Numbers DEF DevInv, TypeOK
<1>4. op'[t] = r /\ owner' = owner /\ UNCHANGED <<shadow, data_len, got, mapped>>
  BY DEF Copy, DevInv, TypeOK
<1>5. /\ op[t].kind = "read" => kernel_buffer' = kernel_buffer
      /\ op[t].kind # "read" => kernel_buffer' = [kernel_buffer EXCEPT ![h] = v]
  BY DEF Copy
<1>6. /\ r.out = Append(op[t].out, v) /\ r.pos = p /\ r.kind = op[t].kind /\ r.n = op[t].n
      /\ r.data = op[t].data
  BY Numbers DEF DevInv, Ops
<1>7. /\ Len(r.out) = n + 1 /\ r.out[n + 1] = v /\ \A i \in 1..n : r.out[i] = op[t].out[i]
  BY <1>3, <1>6, Numbers, AppendProperties DEF DevInv
<1> HIDE DEF r
<1>8. CASE op[t].kind = "read"
  <2>1. kernel_buffer' = shadow'
    BY <1>1, <1>4, <1>5, <1>8 DEF BufInv
  <2>2. v = shadow[h]
    BY <1>1, <1>8 DEF BufInv
  <2>3. ASSUME ~mapped, NEW i \in 1..(n + 1) PROVE r.out[i] = shadow[p + i - 1]
    <3>1. CASE i \in 1..n
      BY <1>1, <1>7, <1>8, <2>3, <3>1 DEF BufInv
    <3>2. CASE i = n + 1
      <4>1. p + i - 1 = h
        BY <1>2, <3>2
      <4> QED BY <1>7, <2>2, <3>2, <4>1
    <3> QED BY <1>2, <2>3, <3>1, <3>2
  <2> QED
    BY <1>1, <1>4, <1>6, <1>7, <1>8, <2>1, <2>3, Stutters DEF BufInv
<1>9. CASE op[t].kind # "read"
  <2>1. op[t].kind = "write" /\ v = op[t].data
    BY <1>9, Numbers DEF DevInv
  <2>2. kernel_buffer'[h] = v /\ \A a \in Addr \ {h} : kernel_buffer'[a] = kernel_buffer[a]
    BY <1>2, <1>5, <1>9 DEF DevInv, TypeOK
  <2>3. p < Size
    BY <1>1, <2>1 DEF BufInv
  <2>4. ASSUME NEW a \in Addr, a < p \/ a >= p + op[t].n PROVE kernel_buffer'[a] = shadow[a]
    <3>1. a # h
      BY <1>1, <1>2, <2>4, Numbers DEF DevInv, Addr
    <3> QED BY <1>1, <2>1, <2>2, <2>4, <3>1 DEF BufInv
  <2>5. ASSUME ~mapped, NEW a \in Addr, a >= p, a < p + (n + 1) PROVE kernel_buffer'[a] = v
    <3>1. CASE a = h
      BY <2>2, <3>1
    <3>2. CASE a # h
      <4>1. a < h
        BY <1>2, <2>5, <3>2 DEF Addr
      <4> QED BY <1>1, <2>1, <2>2, <2>5, <3>2, <4>1 DEF BufInv
    <3> QED BY <3>1, <3>2
  <2>6. Here(t)' = p + (n + 1)
    BY <1>4, <1>6, <1>7 DEF Here
  <2> QED
    BY <1>1, <1>4, <1>6, <2>1, <2>3, <2>4, <2>5, <2>6, Stutters DEF BufInv
<1> QED BY <1>8, <1>9

\* The read that ends returns the piece of the file it has copied.
LEMMA ReadEnds ==
  ASSUME DevInv, BufInv, NEW t \in Threads, Unlock(t), op[t].kind = "read" PROVE Refines
<1> DEFINE p == op[t].pos
           out == op[t].out
           n == Len(out)
<1>1. owner = t /\ t # Free /\ Fits(t)
  BY CharDevAssumption DEF Unlock, DevInv, OkCall
<1>2. /\ p \in Nat /\ n \in Nat /\ op[t].n \in Nat /\ data_len \in Nat
      /\ n <= op[t].n /\ p + op[t].n <= data_len
  <2>1. p \in Nat /\ n \in Nat /\ op[t].n \in 0..Size /\ data_len \in 0..Size /\ Size \in Nat
    BY Numbers DEF DevInv
  <2> QED
    BY <1>1, <2>1 DEF Fits
<1>3. p \in 0..data_len /\ n \in 0..(data_len - p)
  BY <1>2
<1>4. out \in [1..n -> Values]
  BY Numbers, LenProperties DEF DevInv
<1>5. ~mapped => out = AF!Piece(p, n)
  <2>1. ~mapped => \A i \in 1..n : out[i] = shadow[p + i - 1]
    BY <1>1 DEF BufInv
  <2> QED
    BY <1>4, <2>1 DEF AF!Piece
<1>6. out \in IF mapped THEN [1..n -> Values] ELSE {AF!Piece(p, n)}
  BY <1>4, <1>5
<1>7. got' = [got EXCEPT ![t] = out] /\ UNCHANGED <<data_len, mapped>>
  BY DEF Unlock
<1>8. shadow' = shadow
  <2>1. Tail0(t) = [a \in Addr |-> kernel_buffer[a]]
    BY DEF Tail0
  <2>2. kernel_buffer = shadow /\ kernel_buffer \in [Addr -> Values]
    BY <1>1 DEF BufInv, DevInv, TypeOK
  <2> QED
    BY <2>1, <2>2 DEF Unlock
<1> HIDE DEF p, out, n
<1>9. AF!Read(t)
  BY <1>3, <1>6, <1>7, <1>8 DEF AF!Read
<1> QED
  BY <1>9 DEF Refines, AF!Next

\* The write that ends has replaced a range of the file by its data, and by zeros
\* where the copy from the user was cut short.
LEMMA WriteEnds ==
  ASSUME DevInv, BufInv, NEW t \in Threads, Unlock(t), op[t].kind = "write" PROVE Refines
<1> DEFINE p == op[t].pos
           n == Len(op[t].out)
           m == op[t].n - n
           h == Here(t)
           d == op[t].data
<1>1. owner = t /\ t # Free /\ Fits(t)
  BY CharDevAssumption DEF Unlock, DevInv, OkCall
<1>2. /\ p \in Nat /\ n \in Nat /\ m \in Nat /\ Size \in Nat /\ data_len \in 0..Size
      /\ p + n + m <= Size /\ p < Size /\ h = p + n /\ p + op[t].n = p + n + m
  <2>1. p \in Nat /\ n \in Nat /\ op[t].n \in 0..Size /\ Size \in Nat /\ data_len \in 0..Size
    BY Numbers DEF DevInv
  <2>2. n <= op[t].n /\ p + op[t].n <= Size
    BY <1>1 DEF Fits
  <2>3. m \in Nat /\ p + op[t].n = p + n + m
    BY <2>1, <2>2
  <2>4. p < Size
    BY <1>1 DEF BufInv
  <2> QED
    BY <2>1, <2>2, <2>3, <2>4 DEF Here
<1>3. d \in Values
  BY Numbers DEF DevInv
<1>4. /\ shadow' = [a \in Addr |-> IF a >= h /\ a < p + n + m THEN Zero ELSE kernel_buffer[a]]
      /\ UNCHANGED <<got, mapped>>
  <2>1. Tail0(t) = [a \in Addr |-> IF a >= h /\ a < p + op[t].n THEN Zero ELSE kernel_buffer[a]]
    BY DEF Tail0
  <2> QED
    BY <1>2, <2>1 DEF Unlock
<1>5. /\ \A a \in Addr : a < p \/ a >= p + n + m => kernel_buffer[a] = shadow[a]
      /\ mapped \/ \A a \in Addr : a >= p /\ a < h => kernel_buffer[a] = d
  BY <1>1, <1>2 DEF BufInv
<1>6. data_len' = IF p + n > data_len THEN p + n ELSE data_len
  <2>1. h <= Size
    BY <1>2
  <2> QED
    BY <1>2, <2>1 DEF Unlock, Smaller
<1>7. kernel_buffer \in [Addr -> Values]
  BY DEF DevInv, TypeOK
<1> HIDE DEF p, n, m, h, d
<1>8. p \in Addr /\ n \in 0..(Size - p) /\ m \in 0..(Size - p - n)
  BY <1>2 DEF Addr
<1>9. shadow' \in [Addr -> Values]
  BY <1>4, <1>7, CharDevAssumption
<1>10. \A i \in Addr \ (p..(p + n + m - 1)) : shadow'[i] = shadow[i]
  <2> SUFFICES ASSUME NEW i \in Addr, i \notin p..(p + n + m - 1) PROVE shadow'[i] = shadow[i]
    OBVIOUS
  <2>1. i < p \/ i >= p + n + m
    BY <1>2 DEF Addr
  <2>2. ~(i >= h /\ i < p + n + m)
    BY <1>2, <2>1 DEF Addr
  <2> QED
    BY <1>4, <1>5, <2>1, <2>2
<1>11. mapped \/ \A i \in p..(p + n + m - 1) : shadow'[i] = IF i < p + n THEN d ELSE Zero
  <2> SUFFICES ASSUME ~mapped, NEW i \in p..(p + n + m - 1)
               PROVE  shadow'[i] = IF i < p + n THEN d ELSE Zero
    OBVIOUS
  <2>1. i \in Addr /\ i >= p /\ i < p + n + m
    BY <1>2 DEF Addr
  <2>2. CASE i < p + n
    BY <1>2, <1>4, <1>5, <2>1, <2>2
  <2>3. CASE ~(i < p + n)
    BY <1>2, <1>4, <2>1, <2>3
  <2> QED BY <2>2, <2>3
<1>12. AF!Cells = Addr
  BY DEF AF!Cells, Addr
<1>13. AF!Write(t)
  BY <1>3, <1>4, <1>6, <1>8, <1>9, <1>10, <1>11, <1>12 DEF AF!Write
<1> QED
  BY <1>13 DEF Refines, AF!Next

LEMMA UnlockRefines ==
  ASSUME DevInv, BufInv, NEW t \in Threads, Unlock(t) PROVE BufInv' /\ Refines
<1>1. owner' = Free /\ kernel_buffer' = shadow'
  BY DEF Unlock
<1>2. BufInv'
  BY <1>1 DEF BufInv
<1>3. op[t].kind \in {"read", "write"}
  BY Numbers DEF DevInv
<1> QED
  BY <1>2, <1>3, ReadEnds, WriteEnds

LEMMA ReturnRefines ==
  ASSUME DevInv, BufInv, NEW t \in Threads, Return(t) PROVE BufInv' /\ Refines
<1>1. owner # t
  BY DEF Return, DevInv, OkCall
<1>2. op' = [op EXCEPT ![t] = NoOp] /\ UNCHANGED <<kernel_buffer, shadow, mapped, owner>>
  BY DEF Return
<1>3. BufInv'
  BY <1>1, <1>2, BufOther
<1> QED
  BY <1>3, ReadsNothing DEF Return

\* A store through a mapping changes one cell, of the page and of the file.
LEMMA StoreRefines ==
  ASSUME DevInv, BufInv, NEW a \in Addr, NEW v \in Values, Store(a, v) PROVE BufInv' /\ Refines
<1>1. /\ mapped /\ kernel_buffer' = [kernel_buffer EXCEPT ![a] = v]
      /\ shadow' = [shadow EXCEPT ![a] = v] /\ UNCHANGED <<data_len, owner, op, got, mapped>>
  BY DEF Store
<1>2. kernel_buffer \in [Addr -> Values] /\ shadow \in [Addr -> Values]
  BY DEF DevInv, TypeOK
<1>3. \A b \in Addr : kernel_buffer[b] = shadow[b] => kernel_buffer'[b] = shadow'[b]
  BY <1>1, <1>2
<1>4. kernel_buffer = shadow => kernel_buffer' = shadow'
  BY <1>1
<1>5. BufInv'
  BY <1>1, <1>3, <1>4 DEF BufInv
<1>6. AF!Poke
  BY <1>1 DEF AF!Poke, AF!Cells, Addr
<1> QED
  BY <1>5, <1>6 DEF Refines, AF!Next

LEMMA RefineNext == DevInv /\ BufInv /\ [Next]_vars => BufInv' /\ Refines
<1> SUFFICES ASSUME DevInv, BufInv, [Next]_vars PROVE BufInv' /\ Refines
  OBVIOUS
<1>1. ASSUME NEW t \in Threads, Step(t) PROVE BufInv' /\ Refines
  BY <1>1, LockRefines, CopyRefines, UnlockRefines, ReturnRefines DEF Step
<1>2. ASSUME NEW t \in Threads, Call(t) PROVE BufInv' /\ Refines
  <2>1. PICK f \in Files, count \in 0..Size :
          \/ Enter(t, f, "read", count, Zero)
          \/ \E data \in Values : Enter(t, f, "write", count, data)
          \/ \E offset \in 0..Size :
               \/ EnterAt(t, f, "read", count, Zero, offset)
               \/ \E data \in Values : EnterAt(t, f, "write", count, data, offset)
          \/ Llseek(t, f, count)
    BY <1>2 DEF Call
  <2>2. ASSUME NEW kind, NEW data, Enter(t, f, kind, count, data) PROVE BufInv' /\ Refines
    BY <2>2, CallRefines DEF Enter
  <2>3. ASSUME NEW kind, NEW data, NEW offset, EnterAt(t, f, kind, count, data, offset)
        PROVE  BufInv' /\ Refines
    BY <2>3, CallRefines DEF EnterAt
  <2>4. CASE Llseek(t, f, count)
    BY <2>4, BufFrame, Stutters DEF Llseek
  <2> QED
    BY <2>1, <2>2, <2>3, <2>4
<1>3. CASE MapPage
  <2>1. BufInv'
    BY <1>3 DEF MapPage, BufInv, Here
  <2>2. AF!Share
    BY <1>3 DEF MapPage, AF!Share
  <2> QED
    BY <2>1, <2>2 DEF Refines, AF!Next
<1>4. CASE \E a \in Addr, v \in Values : Store(a, v)
  BY <1>4, StoreRefines
<1>5. CASE UNCHANGED vars
  BY <1>5, BufFrame, Stutters DEF vars
<1> QED
  BY <1>1, <1>2, <1>3, <1>4, <1>5 DEF Next

\* Until a process maps the page, reads and writes of any number of threads are those of
\* a file that serves them one at a time, each as a whole; after that a call still
\* changes and returns no more than its range (chardev.c:57-71, 83-104).
THEOREM IsAtomicFile == Spec => ImplementsAtomicFile
<1>1. DevInv /\ BufInv /\ [Next]_vars => BufInv' /\ [AF!Next]_(AF!avars)
  BY RefineNext DEF Refines
<1> QED
  BY DevInvariant, BufInit, <1>1, PTL DEF Spec, ImplementsAtomicFile, AF!Spec
==============================================================================
