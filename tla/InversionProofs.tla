--------------------------- MODULE InversionProofs ---------------------------
(***************************************************************************)
(* What holds of the priority-inversion exercise for every value of the    *)
(* bounds, with a POSIX semaphore and with a priority-inheritance mutex.   *)
(***************************************************************************)
EXTENDS Inversion, TLAPS, SequenceTheorems

\* The semaphore and the control points of its two users agree.
SemInv ==
  /\ sem \in 0..1
  /\ waiting \in SUBSET Procs
  /\ SemMatchesHolder
  /\ MutualExclusion
  /\ Logger \in waiting => lpc = "wait"
  /\ Health \in waiting => hpc \in {"twait", "cwait"}

LEMMA SemInvInit == Init => SemInv
  BY DEF Init, SemInv, SemMatchesHolder, MutualExclusion, InLogger, InHealth, Procs, Logger, Health

\* The steps that neither wait nor post, nor enter or leave a section.
LEMMA SemInvFrame ==
  ASSUME SemInv, UNCHANGED semVars, InLogger' = InLogger, InHealth' = InHealth,
         lpc = "wait" => lpc' = "wait",
         hpc \in {"twait", "cwait"} => hpc' \in {"twait", "cwait"}
  PROVE  SemInv'
  BY DEF SemInv, SemMatchesHolder, MutualExclusion, semVars

\* The three things a program does to the semaphore, for either program.
LEMMA LoggerTakes ==
  ASSUME SemInv, lpc = "poll", Wait(Logger), hpc' = hpc,
         lpc' = IF sem = 1 THEN "read" ELSE "wait"
  PROVE  SemInv'
<1> USE DEF SemInv, SemMatchesHolder, MutualExclusion, InLogger, InHealth, Wait, Procs, Logger, Health
<1>1. CASE sem = 1
  <2>1. sem' = 0 /\ waiting' = waiting /\ lpc' = "read" /\ ~InHealth
    BY <1>1
  <2> QED BY <2>1
<1>2. CASE sem # 1
  <2>1. sem = 0 /\ sem' = 0 /\ waiting' = waiting \cup {Logger} /\ lpc' = "wait" /\ InHealth
    BY <1>2
  <2>2. ~InLogger' /\ InHealth'
    BY <2>1
  <2> QED BY <2>1, <2>2
<1> QED BY <1>1, <1>2

LEMMA HealthTakes ==
  ASSUME SemInv, NEW inside, NEW blocked, hpc \in {"timer", "recv"}, lpc' = lpc,
         \/ inside = "check" /\ blocked = "twait"
         \/ inside = "apply" /\ blocked = "cwait",
         HealthEnter(inside, blocked)
  PROVE  SemInv'
<1> USE DEF SemInv, SemMatchesHolder, MutualExclusion, InLogger, InHealth, HealthEnter, Wait,
        Procs, Logger, Health
<1>1. CASE sem = 1
  <2>1. sem' = 0 /\ waiting' = waiting /\ hpc' \in {"check", "apply"} /\ ~InLogger
    BY <1>1
  <2>2. InHealth' /\ ~InLogger'
    BY <2>1
  <2> QED BY <2>1, <2>2
<1>2. CASE sem # 1
  <2>1. sem = 0 /\ sem' = 0 /\ waiting' = waiting \cup {Health} /\ hpc' \in {"twait", "cwait"}
        /\ InLogger
    BY <1>2
  <2>2. ~InHealth' /\ InLogger'
    BY <2>1
  <2> QED BY <2>1, <2>2
<1> QED BY <1>1, <1>2

LEMMA Gives ==
  ASSUME SemInv, Post,
         \/ lpc = "post" /\ lpc' = "poll" /\ hpc' = hpc
         \/ hpc \in {"tpost", "cpost"} /\ hpc' = "dispatch" /\ lpc' = lpc
  PROVE  SemInv'
<1> USE DEF SemInv, SemMatchesHolder, MutualExclusion, InLogger, InHealth, Post, Procs, Logger, Health
<1>1. CASE PI /\ waiting # {}
  <2>1. PICK q \in waiting : waiting' = waiting \ {q} /\ sem' = sem
    BY <1>1
  <2>2. CASE lpc = "post" /\ lpc' = "poll" /\ hpc' = hpc
    <3>1. q = "health" /\ waiting' = {} /\ sem' = 0
      BY <2>1, <2>2
    <3>2. InHealth' /\ ~InLogger'
      BY <1>1, <2>1, <2>2, <3>1
    <3> QED BY <3>1, <3>2, <2>2
  <2>3. CASE hpc \in {"tpost", "cpost"} /\ hpc' = "dispatch" /\ lpc' = lpc
    <3>1. q = "logger" /\ waiting' = {} /\ sem' = 0
      BY <2>1, <2>3
    <3>2. ~InHealth' /\ InLogger'
      BY <1>1, <2>1, <2>3, <3>1
    <3> QED BY <3>1, <3>2, <2>3
  <2> QED BY <2>2, <2>3
<1>2. CASE ~(PI /\ waiting # {})
  <2>1. sem' = 1 /\ waiting' = waiting
    BY <1>2
  <2>2. ~InLogger' /\ ~InHealth'
    BY <1>2, <2>1
  <2> QED BY <2>1, <2>2
<1> QED BY <1>1, <1>2

LEMMA Wakes ==
  ASSUME SemInv,
         \/ lpc = "wait" /\ Woken(Logger) /\ lpc' = "read" /\ hpc' = hpc
         \/ hpc = "twait" /\ Woken(Health) /\ hpc' = "check" /\ lpc' = lpc
         \/ hpc = "cwait" /\ Woken(Health) /\ hpc' = "apply" /\ lpc' = lpc
  PROVE  SemInv'
<1> USE DEF SemInv, SemMatchesHolder, MutualExclusion, InLogger, InHealth, Woken, Procs, Logger,
        Health, semVars
<1>1. CASE lpc = "wait" /\ Woken(Logger) /\ lpc' = "read" /\ hpc' = hpc
  <2>1. sem' = 0 /\ waiting' \subseteq waiting \ {Logger}
    BY <1>1
  <2>2. InLogger' /\ ~InHealth'
    BY <1>1
  <2> QED BY <1>1, <2>1, <2>2
<1>2. CASE hpc \in {"twait", "cwait"} /\ Woken(Health) /\ hpc' \in {"check", "apply"} /\ lpc' = lpc
  <2>1. sem' = 0 /\ waiting' \subseteq waiting \ {Health}
    BY <1>2
  <2>2. ~InLogger' /\ InHealth'
    BY <1>2
  <2> QED BY <1>2, <2>1, <2>2
<1> QED BY <1>1, <1>2

LEMMA SemInvNext == SemInv /\ [Next]_vars => SemInv'
<1> SUFFICES ASSUME SemInv, [Next]_vars PROVE SemInv'
  OBVIOUS
<1>1. CASE LoggerOpen
  BY <1>1, SemInvFrame DEF LoggerOpen, InLogger, InHealth, semVars, healthVars
<1>2. CASE LoggerPoll
  BY <1>2, LoggerTakes DEF LoggerPoll, healthVars
<1>3. CASE LoggerWoken
  BY <1>3, Wakes DEF LoggerWoken, healthVars
<1>4. CASE LoggerRead
  BY <1>4, SemInvFrame DEF LoggerRead, InLogger, InHealth, semVars, healthVars
<1>5. CASE LoggerLog
  BY <1>5, SemInvFrame DEF LoggerLog, InLogger, InHealth, semVars, healthVars
<1>6. CASE LoggerPost
  BY <1>6, Gives DEF LoggerPost, healthVars
<1>7. CASE PaymentNext
  BY <1>7, SemInvFrame DEF PaymentNext, PaymentAccept, PaymentRead, PaymentBusy,
     InLogger, InHealth, semVars, loggerVars, healthVars
<1>8. CASE HealthAccept \/ HealthEpoll \/ HealthDispatch
  BY <1>8, SemInvFrame DEF HealthAccept, HealthEpoll, HealthDispatch, InLogger, InHealth,
     semVars, loggerVars
<1>9. CASE HealthTimer
  <2>1. CASE running
    BY <1>9, <2>1, HealthTakes DEF HealthTimer, loggerVars
  <2>2. CASE ~running
    BY <1>9, <2>2, SemInvFrame DEF HealthTimer, InLogger, InHealth, semVars, loggerVars
  <2> QED BY <2>1, <2>2
<1>10. CASE HealthCheck \/ HealthLate
  BY <1>10, SemInvFrame DEF HealthCheck, HealthLate, InLogger, InHealth, semVars, loggerVars
<1>11. CASE HealthRecv
  <2>1. CASE cmds = <<>>
    BY <1>11, <2>1, SemInvFrame DEF HealthRecv, InLogger, InHealth, semVars, loggerVars
  <2>2. CASE cmds # <<>>
    BY <1>11, <2>2, HealthTakes DEF HealthRecv, loggerVars
  <2> QED BY <2>1, <2>2
<1>12. CASE HealthApply
  BY <1>12, SemInvFrame DEF HealthApply, InLogger, InHealth, semVars, loggerVars
<1>13. CASE HealthWoken
  BY <1>13, Wakes DEF HealthWoken, loggerVars
<1>14. CASE HealthPost
  BY <1>14, Gives DEF HealthPost, loggerVars
<1>15. CASE EnvNext
  BY <1>15, SemInvFrame DEF EnvNext, PipeOpen, PipeWrite, PipeClose, PayConnect, PayRequest,
     PayHangup, TimerTick, HealthConnect, HealthCommand, HealthHangup,
     InLogger, InHealth, semVars, loggerVars, healthVars
<1>16. CASE UNCHANGED vars
  BY <1>16, SemInvFrame DEF vars, InLogger, InHealth, semVars, loggerVars, healthVars
<1> QED
  BY <1>1, <1>2, <1>3, <1>4, <1>5, <1>6, <1>7, <1>8, <1>9, <1>10, <1>11, <1>12, <1>13,
     <1>14, <1>15, <1>16 DEF Next, LoggerNext, HealthNext

\* The invariant of the semaphore, whatever the bounds.
THEOREM SemInvariant == Spec => []SemInv
<1>1. SemInv /\ [Next]_vars => SemInv'
  BY SemInvNext
<1> QED
  BY SemInvInit, <1>1, PTL DEF Spec

\* The semaphore is free exactly when nobody is inside, and logger and health are
\* never inside together (logger.c:43-55, health.c:84-94 and 101-111).
THEOREM Exclusion == Spec => [](SemMatchesHolder /\ MutualExclusion)
<1>1. SemInv => SemMatchesHolder /\ MutualExclusion
  BY DEF SemInv
<1> QED
  BY SemInvariant, <1>1, PTL

------------------------------------------------------------------------------
(* Types.  The busy loop of payment needs its index below the bound while  *)
(* it runs.                                                                *)

TypeInv == TypeOK /\ (ppc = "busy" => slice < Slices)

LEMMA TypeInvInit == Init => TypeInv
<1> SUFFICES ASSUME Init PROVE TypeInv
  OBVIOUS
<1>1. <<>> \in Seq(Nat) /\ <<>> \in Seq(Cmds) /\ <<>> \in Seq([by : Procs, what : Lines])
  BY EmptySeq
<1>2. writers \in BOOLEAN /\ running \in BOOLEAN /\ expired \in BOOLEAN
  BY DEF Init
<1>3. waiting \in SUBSET Procs /\ evs \in SUBSET {"timer", "client"} /\ chunk \in SUBSET Cmds
  BY DEF Init
<1>4. slice \in 0..Slices
  BY InversionAssumption DEF Init
<1>5. /\ sem \in 0..1 /\ opens \in Nat /\ sent \in Nat /\ pay \in Nat
      /\ ticks \in Nat /\ ncmds \in Nat /\ stall \in Nat
  BY DEF Init
<1> QED
  BY <1>1, <1>2, <1>3, <1>4, <1>5 DEF Init, TypeInv, TypeOK, ConnStates

\* pi_sem_wait and pi_sem_post keep the types of the semaphore.
LEMMA WaitType ==
  ASSUME TypeOK, NEW p \in Procs, Wait(p) PROVE sem' \in 0..1 /\ waiting' \in SUBSET Procs
  BY DEF TypeOK, Wait

LEMMA PostType ==
  ASSUME TypeOK, Post PROVE sem' \in 0..1 /\ waiting' \in SUBSET Procs
  BY DEF TypeOK, Post

LEMMA WokenType ==
  ASSUME TypeOK, NEW p \in Procs, Woken(p) PROVE sem' \in 0..1 /\ waiting' \in SUBSET Procs
  BY DEF TypeOK, Woken, semVars

\* The first n elements of a sequence, and the rest.
LEMMA Split ==
  ASSUME NEW S, NEW s \in Seq(S), NEW n \in 1..Len(s)
  PROVE  SubSeq(s, 1, n) \in Seq(S) /\ SubSeq(s, n + 1, Len(s)) \in Seq(S)
<1>1. \A i \in 1..Len(s) : s[i] \in S
  BY ElementOfSeq
<1>2. Len(s) \in Nat /\ n \in Int /\ n + 1 \in Int
  BY LenProperties
<1>3. (\A i \in 1..n : s[i] \in S) /\ (\A i \in (n + 1)..Len(s) : s[i] \in S)
  BY <1>1, <1>2
<1> QED
  BY <1>2, <1>3, SubSeqProperties

\* A sequence cut in two.
LEMMA Cut ==
  ASSUME NEW S, NEW q \in Seq(S), NEW n \in 1..Len(q)
  PROVE  /\ Len(SubSeq(q, 1, n)) = n /\ Len(SubSeq(q, n + 1, Len(q))) = Len(q) - n
         /\ \A i \in 1..n : SubSeq(q, 1, n)[i] = q[i]
         /\ \A i \in 1..(Len(q) - n) : SubSeq(q, n + 1, Len(q))[i] = q[n + i]
<1> DEFINE l == Len(q)
           t == SubSeq(q, n + 1, l)
           h == SubSeq(q, 1, n)
<1>1. l \in Nat /\ n \in Nat /\ n <= l /\ n >= 1
  BY LenProperties
<1>2. (\A i \in (n + 1)..l : q[i] \in S) /\ (\A i \in 1..n : q[i] \in S)
  BY <1>1, ElementOfSeq
<1>3. /\ Len(t) = IF n + 1 <= l THEN l - (n + 1) + 1 ELSE 0
      /\ \A i \in 1..(l - (n + 1) + 1) : t[i] = q[n + 1 + i - 1]
  BY <1>1, <1>2, SubSeqProperties
<1>4. /\ Len(h) = IF 1 <= n THEN n - 1 + 1 ELSE 0
      /\ \A i \in 1..(n - 1 + 1) : h[i] = q[1 + i - 1]
  BY <1>1, <1>2, SubSeqProperties
<1> HIDE DEF l, t, h
<1>5. l - (n + 1) + 1 = l - n /\ n - 1 + 1 = n
      /\ \A i \in Nat : n + 1 + i - 1 = n + i /\ 1 + i - 1 = i
  BY <1>1
<1>6. Len(t) = l - n /\ Len(h) = n
  BY <1>1, <1>3, <1>4
<1>7. (\A i \in 1..n : h[i] = q[i]) /\ \A i \in 1..(l - n) : t[i] = q[n + i]
  BY <1>1, <1>3, <1>4, <1>5
<1> QED BY <1>6, <1>7 DEF l, t, h

LEMMA LogType ==
  ASSUME TypeOK, NEW p \in Procs, NEW k \in {"LOG", "CHECK", "LATE", "STOPPED", "STARTED"},
         NEW b \in Seq(Nat), log' = Append(log, [by |-> p, what |-> [kind |-> k, body |-> b]])
  PROVE  log' \in Seq([by : Procs, what : Lines])
<1>1. [by |-> p, what |-> [kind |-> k, body |-> b]] \in [by : Procs, what : Lines]
  BY DEF Lines
<1> QED
  BY <1>1, AppendProperties DEF TypeOK

LEMMA TypeInvNext == TypeInv /\ [Next]_vars => TypeInv'
<1> SUFFICES ASSUME TypeInv, TypeOK, [Next]_vars PROVE TypeInv'
  BY DEF TypeInv
<1>0. Logger \in Procs /\ Health \in Procs /\ <<>> \in Seq(Nat)
  BY EmptySeq DEF Procs
<1> USE DEF TypeInv
<1>1. CASE LoggerOpen
  BY <1>1 DEF LoggerOpen, TypeOK, semVars, fifoVars, payVars, healthVars, srcVars
<1>2. CASE LoggerPoll
  BY <1>2, <1>0, WaitType DEF LoggerPoll, TypeOK, fifoVars, payVars, healthVars, srcVars
<1>3. CASE LoggerWoken
  BY <1>3, <1>0, WokenType DEF LoggerWoken, TypeOK, fifoVars, payVars, healthVars, srcVars
<1>4. CASE LoggerRead
  <2>1. lbuf' \in Seq(Nat) /\ fifo' \in Seq(Nat) /\ lpc' \in {"post", "log"}
    <3>1. CASE fifo = <<>>
      BY <1>4, <3>1 DEF LoggerRead, TypeOK
    <3>2. CASE fifo # <<>>
      <4>1. PICK n \in 1..Len(fifo) : /\ lbuf' = SubSeq(fifo, 1, n)
                                      /\ fifo' = SubSeq(fifo, n + 1, Len(fifo))
                                      /\ lpc' = "log"
        BY <1>4, <3>2 DEF LoggerRead
      <4> QED
        BY <4>1, Split DEF TypeOK
    <3> QED BY <3>1, <3>2
  <2> QED
    BY <1>4, <2>1 DEF LoggerRead, TypeOK, semVars, payVars, healthVars, srcVars
<1>5. CASE LoggerLog
  <2>1. log' \in Seq([by : Procs, what : Lines])
    BY <1>5, <1>0, LogType DEF LoggerLog, TypeOK
  <2> QED
    BY <1>5, <1>0, <2>1 DEF LoggerLog, TypeOK, semVars, fifoVars, payVars, healthVars, srcVars
<1>6. CASE LoggerPost
  BY <1>6, PostType DEF LoggerPost, TypeOK, fifoVars, payVars, healthVars, srcVars
<1>7. CASE PaymentAccept
  BY <1>7 DEF PaymentAccept, TypeOK, semVars, loggerVars, fifoVars, healthVars, srcVars
<1>8. CASE PaymentRead
  BY <1>8, InversionAssumption DEF PaymentRead, TypeOK, semVars, loggerVars, fifoVars,
     healthVars, srcVars
<1>9. CASE PaymentBusy
  <2>1. slice' \in 0..Slices /\ ppc' \in {"read", "busy"} /\ (ppc' = "busy" => slice' < Slices)
    BY <1>9, InversionAssumption DEF PaymentBusy, TypeOK
  <2>2. stall' \in Nat
    BY <1>9 DEF PaymentBusy, TypeOK
  <2> QED
    BY <1>9, <2>1, <2>2 DEF PaymentBusy, TypeOK, semVars, loggerVars, fifoVars, healthVars, srcVars
<1>10. CASE HealthAccept
  BY <1>10 DEF HealthAccept, TypeOK, semVars, loggerVars, fifoVars, payVars, srcVars
<1>11. CASE HealthEpoll
  BY <1>11 DEF HealthEpoll, ReadyFds, TypeOK, semVars, loggerVars, fifoVars, payVars, srcVars
<1>12. CASE HealthDispatch
  BY <1>12 DEF HealthDispatch, TypeOK, semVars, loggerVars, fifoVars, payVars, srcVars
<1>13. CASE HealthTimer
  <2>1. sem' \in 0..1 /\ waiting' \in SUBSET Procs /\ stall' \in Nat
        /\ hpc' \in {"check", "twait", "dispatch"}
    BY <1>13, <1>0, WaitType DEF HealthTimer, HealthEnter, TypeOK, semVars
  <2> QED
    BY <1>13, <2>1 DEF HealthTimer, TypeOK, loggerVars, fifoVars
<1>14. CASE HealthCheck \/ HealthLate
  <2>1. log' \in Seq([by : Procs, what : Lines]) /\ hpc' \in {"late", "tpost"}
    BY <1>14, <1>0, LogType DEF HealthCheck, HealthLate
  <2>2. UNCHANGED <<semVars, loggerVars, fifoVars, payVars, evs, running, chunk, srcVars>>
    BY <1>14 DEF HealthCheck, HealthLate
  <2> QED
    BY <2>1, <2>2 DEF TypeOK, semVars, loggerVars, fifoVars, payVars, srcVars
<1>15. CASE HealthRecv
  <2>1. sem' \in 0..1 /\ waiting' \in SUBSET Procs /\ stall' \in Nat
        /\ hpc' \in {"apply", "cwait", "dispatch"}
    BY <1>15, <1>0, WaitType DEF HealthRecv, HealthEnter, TypeOK, semVars
  <2>2. cmds' \in Seq(Cmds) /\ chunk' \in SUBSET Cmds
    <3>1. CASE cmds = <<>>
      BY <1>15, <3>1 DEF HealthRecv, TypeOK
    <3>2. CASE cmds # <<>>
      <4>1. PICK n \in 1..Len(cmds) : /\ chunk' = {cmds[i] : i \in 1..n}
                                      /\ cmds' = SubSeq(cmds, n + 1, Len(cmds))
        BY <1>15, <3>2 DEF HealthRecv
      <4>2. cmds' \in Seq(Cmds)
        BY <4>1, Split DEF TypeOK
      <4>3. \A i \in 1..n : cmds[i] \in Cmds
        BY ElementOfSeq, LenProperties DEF TypeOK
      <4> QED
        BY <4>1, <4>2, <4>3
    <3> QED BY <3>1, <3>2
  <2> QED
    BY <1>15, <2>1, <2>2 DEF HealthRecv, TypeOK, loggerVars, fifoVars
<1>16. CASE HealthApply
  <2>1. log' \in Seq([by : Procs, what : Lines]) /\ running' \in BOOLEAN
    BY <1>16, <1>0, LogType DEF HealthApply, TypeOK
  <2> QED
    BY <1>16, <2>1 DEF HealthApply, TypeOK, semVars, loggerVars, fifoVars, payVars, srcVars
<1>17. CASE HealthWoken
  BY <1>17, <1>0, WokenType DEF HealthWoken, TypeOK, loggerVars, fifoVars, payVars, srcVars
<1>18. CASE HealthPost
  BY <1>18, PostType DEF HealthPost, TypeOK, loggerVars, fifoVars, payVars, srcVars
<1>19. CASE EnvNext
  <2>1. CASE PipeOpen \/ PipeClose
    <3>1. writers' \in BOOLEAN
      BY <2>1 DEF PipeOpen, PipeClose
    <3>2. opens' \in Nat
      BY <2>1 DEF PipeOpen, PipeClose, TypeOK
    <3>3. UNCHANGED <<semVars, loggerVars, fifo, sent, payVars, healthVars, srcVars, log>>
      BY <2>1 DEF PipeOpen, PipeClose
    <3> QED
      BY <3>1, <3>2, <3>3 DEF TypeOK, semVars, loggerVars, payVars, healthVars, srcVars
  <2>2. CASE PipeWrite
    <3>1. fifo' \in Seq(Nat) /\ sent' \in Nat
      BY <2>2, AppendProperties DEF PipeWrite, TypeOK
    <3> QED
      BY <2>2, <3>1 DEF PipeWrite, TypeOK, semVars, loggerVars, payVars, healthVars, srcVars
  <2>3. CASE PayConnect \/ PayRequest \/ PayHangup
    <3>1. pay' \in Nat /\ payConn' \in ConnStates
      BY <2>3 DEF PayConnect, PayRequest, PayHangup, TypeOK, ConnStates
    <3>2. UNCHANGED <<semVars, loggerVars, fifoVars, ppc, slice, stall, healthVars, srcVars, log>>
      BY <2>3 DEF PayConnect, PayRequest, PayHangup
    <3> QED
      BY <3>1, <3>2 DEF TypeOK, semVars, loggerVars, fifoVars, healthVars, srcVars
  <2>4. CASE TimerTick \/ HealthConnect \/ HealthHangup
    <3>1. ticks' \in Nat /\ cmdConn' \in ConnStates
      BY <2>4 DEF TimerTick, HealthConnect, HealthHangup, TypeOK, ConnStates
    <3>2. expired' \in BOOLEAN
      BY <2>4 DEF TimerTick, HealthConnect, HealthHangup, TypeOK
    <3>3. UNCHANGED <<semVars, loggerVars, fifoVars, payVars, healthVars, cmds, ncmds, lastCmd, log>>
      BY <2>4 DEF TimerTick, HealthConnect, HealthHangup
    <3> QED
      BY <3>1, <3>2, <3>3 DEF TypeOK, semVars, loggerVars, fifoVars, payVars, healthVars
  <2>5. CASE HealthCommand
    <3>1. cmds' \in Seq(Cmds) /\ lastCmd' \in {"STOP", "START"} /\ ncmds' \in Nat
      BY <2>5, AppendProperties DEF HealthCommand, TypeOK, Cmds
    <3> QED
      BY <2>5, <3>1 DEF HealthCommand, TypeOK, semVars, loggerVars, fifoVars, payVars, healthVars
  <2> QED
    BY <1>19, <2>1, <2>2, <2>3, <2>4, <2>5 DEF EnvNext
<1>20. CASE UNCHANGED vars
  BY <1>20 DEF vars, TypeOK, semVars, loggerVars, fifoVars, payVars, healthVars, srcVars
<1> QED
  BY <1>1, <1>2, <1>3, <1>4, <1>5, <1>6, <1>7, <1>8, <1>9, <1>10, <1>11, <1>12, <1>13, <1>14,
     <1>15, <1>16, <1>17, <1>18, <1>19, <1>20 DEF Next, LoggerNext, PaymentNext, HealthNext

\* Every variable keeps its type, for every number of slices, messages and commands.
THEOREM TypeCorrect == Spec => []TypeOK
<1>1. Spec => []TypeInv
  <2>1. TypeInv /\ [Next]_vars => TypeInv'
    BY TypeInvNext
  <2> QED BY TypeInvInit, <2>1, PTL DEF Spec
<1>2. TypeInv => TypeOK
  BY DEF TypeInv
<1> QED
  BY <1>1, <1>2, PTL

------------------------------------------------------------------------------
(* The inversion itself.  Priority inheritance keeps payment off the CPU   *)
(* only while logger can use it: a logger that blocks in read with the     *)
(* semaphore held lets payment run.  That read never blocks when only one  *)
(* producer ever opens the pipe, and the argument needs just that.         *)

\* Once logger is past open the pipe has been opened; what poll has reported
\* stays true until logger reads.
PipeInv ==
  /\ writers => opens >= 1
  /\ lpc # "open" => opens >= 1
  /\ lpc \in {"wait", "read"} => PipeReady

LEMMA PipeInvNext ==
  ASSUME MaxOpens <= 1, TypeOK, PipeInv, [Next]_vars PROVE PipeInv'
<1> USE DEF PipeInv, PipeReady
<1>1. CASE LoggerOpen
  BY <1>1 DEF LoggerOpen, fifoVars
<1>2. CASE LoggerPoll
  BY <1>2 DEF LoggerPoll, fifoVars
<1>3. CASE LoggerWoken
  BY <1>3 DEF LoggerWoken, fifoVars
<1>4. CASE LoggerRead
  <2>1. lpc' \in {"post", "log"} /\ UNCHANGED <<writers, opens>> /\ lpc # "open"
    BY <1>4 DEF LoggerRead
  <2> QED BY <2>1
<1>5. CASE LoggerLog \/ LoggerPost
  BY <1>5 DEF LoggerLog, LoggerPost, fifoVars
<1>6. CASE PipeOpen
  <2>1. opens = 0
    BY <1>6, InversionAssumption DEF PipeOpen, TypeOK
  <2>2. lpc = "open" /\ lpc' = lpc /\ opens' = 1
    BY <1>6, <2>1 DEF PipeOpen, loggerVars
  <2> QED BY <2>2
<1>7. CASE PipeWrite
  <2>0. sent + 1 \in Nat /\ fifo \in Seq(Nat)
    BY DEF TypeOK
  <2>1. fifo' # <<>>
    BY <1>7, <2>0, AppendProperties DEF PipeWrite
  <2> QED BY <1>7, <2>1 DEF PipeWrite, loggerVars
<1>8. CASE PipeClose
  BY <1>8 DEF PipeClose, loggerVars
<1>9. CASE UNCHANGED <<loggerVars, fifoVars>>
  BY <1>9 DEF loggerVars, fifoVars
<1>10. ASSUME PaymentNext \/ HealthNext \/ UNCHANGED vars PROVE UNCHANGED <<loggerVars, fifoVars>>
  BY <1>10 DEF PaymentNext, PaymentAccept, PaymentRead, PaymentBusy,
     HealthNext, HealthAccept, HealthEpoll, HealthDispatch, HealthTimer, HealthCheck, HealthLate,
     HealthRecv, HealthApply, HealthWoken, HealthPost, vars
<1>11. ASSUME PayConnect \/ PayRequest \/ PayHangup \/ TimerTick \/ HealthConnect
              \/ HealthCommand \/ HealthHangup
       PROVE  UNCHANGED <<loggerVars, fifoVars>>
  BY <1>11 DEF PayConnect, PayRequest, PayHangup, TimerTick, HealthConnect, HealthCommand,
     HealthHangup
<1> QED
  BY <1>1, <1>2, <1>3, <1>4, <1>5, <1>6, <1>7, <1>8, <1>9, <1>10, <1>11
     DEF Next, LoggerNext, EnvNext

LEMMA PipeInvInit == Init => PipeInv
  BY DEF Init, PipeInv

\* poll has said that the pipe is readable, and the read made with the semaphore held
\* does not block (logger.c:41-44), when one producer opens the pipe at most once.
THEOREM NoBlockingRead == ASSUME MaxOpens <= 1 PROVE Spec => []ReadNeverBlocks
<1>1. TypeOK /\ PipeInv /\ [Next]_vars => PipeInv'
  BY PipeInvNext
<1>2. PipeInv => ReadNeverBlocks
  BY DEF PipeInv, ReadNeverBlocks
<1> QED
  BY PipeInvInit, <1>1, <1>2, TypeCorrect, PTL DEF Spec

\* Somebody who waits for a priority-inheritance mutex waits for a holder, and
\* payment has not run since.
WaitInv == PI => (waiting # {} => sem = 0) /\ stall = 0

LEMMA WaitInvInit == Init => WaitInv
  BY DEF Init, WaitInv

\* What a step does to the semaphore and to stall.
LEMMA Steps ==
  ASSUME [Next]_vars
  PROVE  /\ UNCHANGED semVars \/ Post \/ \E p \in Procs : Wait(p) \/ Woken(p)
         /\ stall' = stall \/ stall' = 0 \/ PaymentBusy
<1>0. Logger \in Procs /\ Health \in Procs
  BY DEF Procs
<1>1. CASE LoggerNext
  BY <1>1, <1>0 DEF LoggerNext, LoggerOpen, LoggerPoll, LoggerWoken, LoggerRead, LoggerLog,
     LoggerPost, payVars
<1>2. CASE PaymentNext
  BY <1>2 DEF PaymentNext, PaymentAccept, PaymentRead, PaymentBusy
<1>3. CASE HealthAccept \/ HealthEpoll \/ HealthDispatch \/ HealthCheck \/ HealthLate
           \/ HealthApply \/ HealthWoken \/ HealthPost
  BY <1>3, <1>0 DEF HealthAccept, HealthEpoll, HealthDispatch, HealthCheck, HealthLate,
     HealthApply, HealthWoken, HealthPost, payVars
<1>4. CASE HealthTimer \/ HealthRecv
  BY <1>4, <1>0 DEF HealthTimer, HealthRecv, HealthEnter
<1>5. CASE EnvNext
  BY <1>5 DEF EnvNext, PipeOpen, PipeWrite, PipeClose, PayConnect, PayRequest, PayHangup,
     TimerTick, HealthConnect, HealthCommand, HealthHangup, payVars
<1>6. CASE UNCHANGED vars
  BY <1>6 DEF vars, payVars
<1> QED
  BY <1>1, <1>2, <1>3, <1>4, <1>5, <1>6 DEF Next, HealthNext

\* A health that waits for the mutex keeps payment off the CPU.
LEMMA PaymentOff ==
  ASSUME PI, SemInv, PipeInv, WaitInv, Health \in waiting, TypeOK PROVE ~PaymentOnCpu
<1>1. sem = 0 /\ ~InHealth
  BY DEF WaitInv, SemInv, InHealth, Health
<1>2. InLogger /\ Boosted
  BY <1>1 DEF SemInv, SemMatchesHolder, Boosted
<1>3. LoggerRunnable
  <2>1. CASE lpc = "read"
    BY <2>1 DEF LoggerRunnable, PipeInv
  <2>2. CASE lpc \in {"log", "post"}
    BY <2>2 DEF LoggerRunnable
  <2>3. CASE lpc = "wait" /\ Logger \notin waiting
    BY <2>3 DEF LoggerRunnable
  <2> QED
    BY <1>2, <2>1, <2>2, <2>3 DEF InLogger
<1> QED
  BY <1>2, <1>3 DEF PaymentOnCpu

LEMMA WaitInvNext ==
  ASSUME TypeOK, SemInv, PipeInv, WaitInv, [Next]_vars PROVE WaitInv'
<1> SUFFICES ASSUME PI PROVE (waiting' # {} => sem' = 0) /\ stall' = 0
  BY DEF WaitInv
<1>1. waiting' # {} => sem' = 0
  <2>1. CASE UNCHANGED semVars
    BY <2>1 DEF semVars, WaitInv
  <2>2. CASE Post
    BY <2>2 DEF Post, WaitInv
  <2>3. ASSUME NEW p \in Procs, Wait(p) PROVE waiting' # {} => sem' = 0
    BY <2>3 DEF Wait, TypeOK
  <2>4. ASSUME NEW p \in Procs, Woken(p) PROVE waiting' # {} => sem' = 0
    BY <2>4 DEF Woken, semVars, WaitInv
  <2> QED
    BY <2>1, <2>2, <2>3, <2>4, Steps
<1>2. stall' = 0
  <2>1. ASSUME PaymentBusy PROVE stall' = 0
    BY <2>1, PaymentOff DEF PaymentBusy, WaitInv
  <2> QED
    BY <2>1, Steps DEF WaitInv
<1> QED BY <1>1, <1>2

\* With priority inheritance and a single producer of the pipe, payment does not run
\* one iteration of its busy loop while health waits for logger (payment.c:57-63,
\* pi_sem.h:23).
THEOREM NoPriorityInversion == ASSUME MaxOpens <= 1 PROVE Spec => []NoInversion
<1>1. TypeOK /\ PipeInv /\ [Next]_vars => PipeInv'
  BY PipeInvNext
<1>2. TypeOK /\ SemInv /\ PipeInv /\ WaitInv /\ [Next]_vars => WaitInv'
  BY WaitInvNext
<1>3. WaitInv => NoInversion
  BY DEF WaitInv, NoInversion
<1> QED
  BY PipeInvInit, WaitInvInit, <1>1, <1>2, <1>3, TypeCorrect, SemInvariant, PTL DEF Spec

------------------------------------------------------------------------------
(* The shared log: what health may write into it, and that only the holder *)
(* of the semaphore writes.                                                *)

Records == [by : Procs, what : Lines]

\* The log after one more line.
LEMMA Longer ==
  ASSUME log \in Seq(Records), NEW e \in Records, log' = Append(log, e)
  PROVE  /\ Len(log) \in Nat /\ Len(log') = Len(log) + 1
         /\ DOMAIN log = 1..Len(log) /\ DOMAIN log' = 1..(Len(log) + 1)
         /\ \A i \in 1..Len(log) : log'[i] = log[i]
         /\ log'[Len(log) + 1] = e
<1>1. log' \in Seq(Records) /\ Len(log') = Len(log) + 1 /\ Len(log) \in Nat
  BY AppendProperties, LenProperties
<1>2. DOMAIN log = 1..Len(log) /\ DOMAIN log' = 1..(Len(log) + 1)
  BY <1>1, LenProperties
<1> QED
  BY <1>1, <1>2, AppendProperties

------------------------------------------------------------------------------
\* health has logged a start that no stop follows.
Started == \E j \in DOMAIN log : /\ log[j].what.kind = "STARTED"
                                 /\ \A k \in j..Len(log) : log[k].what.kind # "STOPPED"

\* running is what the log says, and a check is under way only while it is set.
CheckInv ==
  /\ ChecksOnlyWhileStarted
  /\ running => Started
  /\ hpc \in {"twait", "check", "late"} => running

\* A line of another kind than STOPPED keeps the log started; a check needs that.
LEMMA OneMoreLine ==
  ASSUME log \in Seq(Records), NEW e \in Records, log' = Append(log, e),
         ChecksOnlyWhileStarted, e.what.kind \in {"CHECK", "LATE"} => Started
  PROVE  /\ ChecksOnlyWhileStarted'
         /\ e.what.kind # "STOPPED" /\ Started => Started'
         /\ e.what.kind = "STARTED" => Started'
<1> DEFINE n == Len(log)
<1>1. n \in Nat /\ Len(log') = n + 1 /\ DOMAIN log = 1..n /\ DOMAIN log' = 1..(n + 1)
      /\ (\A i \in 1..n : log'[i] = log[i]) /\ log'[n + 1] = e
  BY Longer
<1> HIDE DEF n
<1>2. ChecksOnlyWhileStarted'
  <2> SUFFICES ASSUME NEW i \in 1..(n + 1), log'[i].what.kind \in {"CHECK", "LATE"}
               PROVE  \E j \in 1..(i - 1) : /\ log'[j].what.kind = "STARTED"
                                            /\ \A k \in j..i : log'[k].what.kind # "STOPPED"
    BY <1>1 DEF ChecksOnlyWhileStarted
  <2>1. CASE i \in 1..n
    <3>1. log[i].what.kind \in {"CHECK", "LATE"}
      BY <1>1, <2>1
    <3>2. PICK j \in 1..(i - 1) : /\ log[j].what.kind = "STARTED"
                                  /\ \A k \in j..i : log[k].what.kind # "STOPPED"
      BY <1>1, <2>1, <3>1 DEF ChecksOnlyWhileStarted
    <3> QED
      BY <1>1, <2>1, <3>2
  <2>2. CASE i = n + 1
    <3>1. PICK j \in 1..n : /\ log[j].what.kind = "STARTED"
                            /\ \A k \in j..n : log[k].what.kind # "STOPPED"
      BY <1>1, <2>2 DEF Started, n
    <3>2. \A k \in j..i : log'[k].what.kind # "STOPPED"
      BY <1>1, <2>2, <3>1
    <3> QED
      BY <1>1, <2>2, <3>1, <3>2
  <2> QED
    BY <1>1, <2>1, <2>2
<1>3. ASSUME e.what.kind # "STOPPED", Started PROVE Started'
  <2>1. PICK j \in 1..n : /\ log[j].what.kind = "STARTED"
                          /\ \A k \in j..n : log[k].what.kind # "STOPPED"
    BY <1>1, <1>3 DEF Started, n
  <2>2. j \in 1..(n + 1) /\ log'[j].what.kind = "STARTED"
        /\ \A k \in j..(n + 1) : log'[k].what.kind # "STOPPED"
    BY <1>1, <1>3, <2>1
  <2> QED
    BY <1>1, <2>2 DEF Started
<1>4. ASSUME e.what.kind = "STARTED" PROVE Started'
  <2>1. \A k \in (n + 1)..(n + 1) : log'[k].what.kind # "STOPPED"
    BY <1>1, <1>4
  <2> QED
    BY <1>1, <1>4, <2>1 DEF Started
<1> QED
  BY <1>2, <1>3, <1>4

LEMMA CheckInvInit == Init => CheckInv
  BY DEF Init, CheckInv, ChecksOnlyWhileStarted

LEMMA SameLog ==
  ASSUME CheckInv, log' = log, running' = running,
         hpc' \in {"twait", "check", "late"} => hpc \in {"twait", "check", "late"} \/ running
  PROVE  CheckInv'
  BY DEF CheckInv, ChecksOnlyWhileStarted, Started

LEMMA CheckInvNext == TypeOK /\ CheckInv /\ [Next]_vars => CheckInv'
<1> SUFFICES ASSUME TypeOK, CheckInv, [Next]_vars PROVE CheckInv'
  OBVIOUS
<1>0. log \in Seq(Records) /\ Logger \in Procs /\ Health \in Procs /\ <<>> \in Seq(Nat)
  BY EmptySeq DEF TypeOK, Records, Procs
<1>1. CASE LoggerOpen \/ LoggerPoll \/ LoggerWoken \/ LoggerRead \/ LoggerPost
  BY <1>1, SameLog DEF LoggerOpen, LoggerPoll, LoggerWoken, LoggerRead, LoggerPost, healthVars
<1>2. CASE LoggerLog
  <2>1. [by |-> Logger, what |-> [kind |-> "LOG", body |-> lbuf]] \in Records
    BY <1>0 DEF Records, Lines, TypeOK
  <2>2. ChecksOnlyWhileStarted' /\ (Started => Started')
    BY <1>0, <1>2, <2>1, OneMoreLine DEF LoggerLog, CheckInv
  <2> QED
    BY <1>2, <2>2 DEF LoggerLog, CheckInv, healthVars
<1>3. CASE PaymentNext
  BY <1>3, SameLog DEF PaymentNext, PaymentAccept, PaymentRead, PaymentBusy, healthVars
<1>4. CASE HealthAccept \/ HealthEpoll \/ HealthDispatch \/ HealthWoken \/ HealthPost
  BY <1>4, SameLog DEF HealthAccept, HealthEpoll, HealthDispatch, HealthWoken, HealthPost
<1>5. CASE HealthTimer \/ HealthRecv
  BY <1>5, SameLog DEF HealthTimer, HealthRecv, HealthEnter
<1>6. CASE HealthCheck \/ HealthLate
  <2>1. PICK k \in {"CHECK", "LATE"} :
          log' = Append(log, [by |-> Health, what |-> [kind |-> k, body |-> <<>>]])
    BY <1>6 DEF HealthCheck, HealthLate
  <2>2. [by |-> Health, what |-> [kind |-> k, body |-> <<>>]] \in Records
    BY <1>0 DEF Records, Lines
  <2>3. running /\ Started
    BY <1>6 DEF HealthCheck, HealthLate, CheckInv
  <2>4. ChecksOnlyWhileStarted' /\ Started'
    BY <1>0, <2>1, <2>2, <2>3, OneMoreLine DEF CheckInv
  <2> QED
    BY <1>6, <2>3, <2>4 DEF HealthCheck, HealthLate, CheckInv
<1>7. CASE HealthApply
  <2>1. CASE running' = FALSE /\ log' = Append(log, [by |-> Health,
                                   what |-> [kind |-> "STOPPED", body |-> <<>>]])
    <3>1. [by |-> Health, what |-> [kind |-> "STOPPED", body |-> <<>>]] \in Records
      BY <1>0 DEF Records, Lines
    <3>2. ChecksOnlyWhileStarted'
      BY <1>0, <2>1, <3>1, OneMoreLine DEF CheckInv
    <3> QED
      BY <1>7, <2>1, <3>2 DEF HealthApply, CheckInv
  <2>2. CASE running' = TRUE /\ log' = Append(log, [by |-> Health,
                                   what |-> [kind |-> "STARTED", body |-> <<>>]])
    <3>1. [by |-> Health, what |-> [kind |-> "STARTED", body |-> <<>>]] \in Records
      BY <1>0 DEF Records, Lines
    <3>2. ChecksOnlyWhileStarted' /\ Started'
      BY <1>0, <2>2, <3>1, OneMoreLine DEF CheckInv
    <3> QED
      BY <1>7, <2>2, <3>2 DEF HealthApply, CheckInv
  <2>3. CASE UNCHANGED <<running, log>>
    BY <1>7, <2>3, SameLog DEF HealthApply
  <2> QED
    BY <1>7, <2>1, <2>2, <2>3 DEF HealthApply
<1>8. CASE EnvNext
  BY <1>8, SameLog DEF EnvNext, PipeOpen, PipeWrite, PipeClose, PayConnect, PayRequest,
     PayHangup, TimerTick, HealthConnect, HealthCommand, HealthHangup, healthVars
<1>9. CASE UNCHANGED vars
  BY <1>9, SameLog DEF vars, healthVars
<1> QED
  BY <1>1, <1>2, <1>3, <1>4, <1>5, <1>6, <1>7, <1>8, <1>9 DEF Next, LoggerNext, HealthNext

\* health logs a check only after a start that no stop follows, however long it waited
\* for the semaphore after it looked at running (health.c:81-106).
THEOREM ChecksAreStarted == Spec => []ChecksOnlyWhileStarted
<1>1. TypeOK /\ CheckInv /\ [Next]_vars => CheckInv'
  BY CheckInvNext
<1>2. CheckInv => ChecksOnlyWhileStarted
  BY DEF CheckInv
<1> QED
  BY CheckInvInit, <1>1, <1>2, TypeCorrect, PTL DEF Spec

------------------------------------------------------------------------------
(* Inversion implements SharedLog, which sees the holder of the semaphore, *)
(* who is blocked, and the log.                                            *)

LEMMA HolderIs ==
  ASSUME SemInv
  PROVE  /\ Holder = Logger <=> InLogger
         /\ Holder = Health <=> InHealth
         /\ Holder = "none" <=> sem = 1
         /\ Holder \in {Logger, Health, "none"}
  BY DEF Holder, SemInv, SemMatchesHolder, MutualExclusion, Logger, Health

LEMMA RefInit == Init => SL!Init
  BY DEF Init, SL!Init, Holder, InLogger, InHealth

\* A step that leaves semaphore, log and sections alone is a stutter.
LEMMA RefStutter ==
  ASSUME UNCHANGED <<semVars, log>>, InLogger' = InLogger, InHealth' = InHealth
  PROVE  UNCHANGED SL!avars
  BY DEF SL!avars, Holder, semVars

\* pi_sem_wait takes a free section, or blocks.
LEMMA RefWait ==
  ASSUME SemInv, SemInv', NEW p \in Procs, p \notin waiting, Holder # p, Wait(p), UNCHANGED log,
         sem = 1 => Holder' = p, sem # 1 => Holder' = Holder
  PROVE  SL!Next
<1>1. CASE sem = 1
  <2>1. SL!Acquire(p)
    BY <1>1, HolderIs DEF SL!Acquire, Wait
  <2> QED BY <2>1 DEF SL!Next
<1>2. CASE sem # 1
  <2>1. SL!Block(p)
    BY <1>2, HolderIs DEF SL!Block, Wait, SemInv
  <2> QED BY <2>1 DEF SL!Next
<1> QED BY <1>1, <1>2

\* pi_sem_post frees the section, or hands it to a blocked process.
LEMMA RefPost ==
  ASSUME SemInv, SemInv', NEW p \in Procs, Holder = p, Post, UNCHANGED log,
         \A q \in waiting : waiting' = waiting \ {q} /\ PI => Holder' = q
  PROVE  SL!Next
<1>1. CASE PI /\ waiting # {}
  <2>1. PICK q \in waiting : waiting' = waiting \ {q}
    BY <1>1 DEF Post
  <2>2. SL!Release(p)
    BY <1>1, <2>1 DEF SL!Release
  <2> QED BY <2>2 DEF SL!Next
<1>2. CASE ~(PI /\ waiting # {})
  <2>1. sem' = 1 /\ waiting' = waiting
    BY <1>2 DEF Post
  <2>2. Holder' = "none"
    BY <2>1 DEF Holder, SemInv, SemMatchesHolder
  <2>3. SL!Release(p)
    BY <2>1, <2>2 DEF SL!Release
  <2> QED BY <2>3 DEF SL!Next
<1> QED BY <1>1, <1>2

\* The return from a wait takes a free section; a mutex that was handed over is
\* already taken.
LEMMA RefWoken ==
  ASSUME SemInv, SemInv', NEW p \in Procs, Woken(p), UNCHANGED log, Holder' = p, PI => Holder = p
  PROVE  SL!Next \/ UNCHANGED SL!avars
<1>1. CASE PI
  BY <1>1 DEF Woken, semVars, SL!avars
<1>2. CASE ~PI
  <2>1. SL!Acquire(p)
    BY <1>2, HolderIs DEF SL!Acquire, Woken
  <2> QED BY <2>1 DEF SL!Next
<1> QED BY <1>1, <1>2

\* A line is appended by the holder.
LEMMA RefWrite ==
  ASSUME TypeOK, NEW p \in Procs, NEW e \in Lines, log' = Append(log, [by |-> p, what |-> e]),
         Holder = p, Holder' = Holder, waiting' = waiting
  PROVE  SL!Next
<1> DEFINE r == [by |-> p, what |-> e]
<1>1. log \in Seq(Records) /\ r \in Records /\ r.by = p /\ r.what = e
  BY DEF Records, TypeOK
<1> HIDE DEF r
<1>2. log' = Append(log, r)
  BY DEF r
<1>3. Len(log') = Len(log) + 1 /\ log'[Len(log) + 1] = r
  BY <1>1, <1>2, Longer
<1>4. SL!Last(log') = r
  BY <1>3 DEF SL!Last
<1>5. SL!Write(p)
  BY <1>1, <1>2, <1>3, <1>4 DEF SL!Write
<1> QED
  BY <1>5 DEF SL!Next

LEMMA RefNext ==
  ASSUME TypeOK, SemInv, SemInv', [Next]_vars PROVE SL!Next \/ UNCHANGED SL!avars
<1>0. Logger \in Procs /\ Health \in Procs /\ <<>> \in Seq(Nat)
  BY EmptySeq DEF Procs
<1>1. CASE LoggerOpen \/ LoggerRead
  BY <1>1, RefStutter DEF LoggerOpen, LoggerRead, InLogger, InHealth, semVars, healthVars
<1>2. CASE LoggerPoll
  <2>1. Logger \notin waiting /\ ~InLogger
    BY <1>2 DEF LoggerPoll, SemInv, InLogger
  <2>2. sem = 1 => Holder' = Logger
    BY <1>2 DEF LoggerPoll, Holder, InLogger
  <2>3. sem # 1 => InHealth' /\ ~InLogger'
    <3> SUFFICES ASSUME sem # 1 PROVE InHealth' /\ ~InLogger'
      OBVIOUS
    <3>1. sem' = sem /\ InHealth' = InHealth /\ lpc' = "wait" /\ Logger \in waiting'
      BY <1>2 DEF LoggerPoll, Wait, InHealth, healthVars, Logger, Health
    <3>2. InHealth
      BY <2>1 DEF SemInv, SemMatchesHolder
    <3> QED BY <3>1, <3>2 DEF InLogger
  <2>4. sem # 1 => Holder' = Holder
    BY <2>1, <2>3 DEF Holder, SemInv, SemMatchesHolder
  <2> QED
    BY <1>0, <1>2, <2>1, <2>2, <2>4, RefWait, HolderIs DEF LoggerPoll
<1>3. CASE LoggerWoken
  <2>1. Holder' = Logger /\ (PI => Holder = Logger)
    BY <1>3 DEF LoggerWoken, Woken, Holder, InLogger
  <2> QED
    BY <1>0, <1>3, <2>1, RefWoken DEF LoggerWoken
<1>4. CASE LoggerLog
  <2>1. InLogger /\ InLogger' /\ waiting' = waiting
    BY <1>4 DEF LoggerLog, InLogger, semVars
  <2>2. Holder = Logger /\ Holder' = Logger
    BY <2>1 DEF Holder
  <2>3. [kind |-> "LOG", body |-> lbuf] \in Lines
    BY DEF Lines, TypeOK
  <2> QED
    BY <1>0, <1>4, <2>1, <2>2, <2>3, RefWrite DEF LoggerLog
<1>5. CASE LoggerPost
  <2>1. Holder = Logger /\ Logger \notin waiting /\ lpc' = "poll" /\ hpc' = hpc
    BY <1>5 DEF LoggerPost, Holder, InLogger, SemInv, healthVars
  <2>2. ASSUME NEW q \in waiting, waiting' = waiting \ {q}, PI PROVE Holder' = q
    <3>1. q = Health /\ Health \notin waiting' /\ hpc \in {"twait", "cwait"}
      BY <2>1, <2>2 DEF SemInv, Procs
    <3>2. InHealth' /\ ~InLogger'
      BY <2>1, <2>2, <3>1 DEF InHealth, InLogger
    <3> QED BY <3>1, <3>2 DEF Holder
  <2> QED
    BY <1>0, <1>5, <2>1, <2>2, RefPost DEF LoggerPost
<1>6. CASE PaymentNext
  BY <1>6, RefStutter DEF PaymentNext, PaymentAccept, PaymentRead, PaymentBusy,
     InLogger, InHealth, semVars, loggerVars, healthVars
<1>7. CASE HealthAccept \/ HealthEpoll \/ HealthDispatch
  BY <1>7, RefStutter DEF HealthAccept, HealthEpoll, HealthDispatch, InLogger, InHealth, semVars,
     loggerVars
<1>8. ASSUME NEW inside, NEW blocked, hpc \in {"timer", "recv"}, UNCHANGED <<loggerVars, log>>,
             \/ inside = "check" /\ blocked = "twait"
             \/ inside = "apply" /\ blocked = "cwait",
             HealthEnter(inside, blocked)
      PROVE  SL!Next
  <2>1. Health \notin waiting /\ ~InHealth /\ lpc' = lpc /\ Wait(Health)
    BY <1>8 DEF HealthEnter, SemInv, InHealth, loggerVars
  <2>2. ASSUME sem = 1 PROVE Holder' = Health
    <3>1. InHealth'
      BY <1>8, <2>2 DEF HealthEnter, InHealth
    <3> QED BY <3>1, HolderIs DEF Holder, SemInv, MutualExclusion
  <2>3. ASSUME sem # 1 PROVE Holder' = Holder
    <3>1. InLogger
      BY <2>1, <2>3 DEF SemInv, SemMatchesHolder
    <3>2. Logger \in waiting' <=> Logger \in waiting
      BY <2>1, <2>3 DEF Wait, Logger, Health
    <3>3. InLogger'
      BY <2>1, <3>1, <3>2 DEF InLogger
    <3> QED BY <3>1, <3>3 DEF Holder
  <2> QED
    BY <1>0, <1>8, <2>1, <2>2, <2>3, RefWait, HolderIs
<1>9. CASE HealthTimer
  <2>1. CASE running
    BY <1>8, <1>9, <2>1 DEF HealthTimer
  <2>2. CASE ~running
    BY <1>9, <2>2, RefStutter DEF HealthTimer, InLogger, InHealth, semVars, loggerVars
  <2> QED BY <2>1, <2>2
<1>10. CASE HealthRecv
  <2>1. CASE cmds = <<>>
    BY <1>10, <2>1, RefStutter DEF HealthRecv, InLogger, InHealth, semVars, loggerVars
  <2>2. CASE cmds # <<>>
    BY <1>8, <1>10, <2>2 DEF HealthRecv
  <2> QED BY <2>1, <2>2
<1>11. CASE HealthCheck \/ HealthLate \/ HealthApply
  <2>1. InHealth /\ InHealth' /\ waiting' = waiting
    BY <1>11 DEF HealthCheck, HealthLate, HealthApply, InHealth, semVars
  <2>2. Holder = Health /\ Holder' = Health
    BY <2>1, HolderIs DEF Holder, SemInv, MutualExclusion
  <2>3. ASSUME NEW k \in {"CHECK", "LATE", "STOPPED", "STARTED"},
               log' = Append(log, [by |-> Health, what |-> [kind |-> k, body |-> <<>>]])
        PROVE  SL!Next
    <3>1. [kind |-> k, body |-> <<>>] \in Lines
      BY <1>0 DEF Lines
    <3> QED BY <1>0, <2>1, <2>2, <2>3, <3>1, RefWrite
  <2>4. CASE log' = log
    BY <2>1, <2>2, <2>4 DEF SL!avars
  <2> QED
    BY <1>11, <2>3, <2>4 DEF HealthCheck, HealthLate, HealthApply
<1>12. CASE HealthWoken
  <2>1. InHealth' /\ (PI => InHealth)
    BY <1>12 DEF HealthWoken, Woken, InHealth
  <2>2. Holder' = Health /\ (PI => Holder = Health)
    BY <2>1 DEF Holder, SemInv, MutualExclusion
  <2> QED
    BY <1>0, <1>12, <2>2, RefWoken DEF HealthWoken
<1>13. CASE HealthPost
  <2>1. InHealth /\ Health \notin waiting /\ hpc' = "dispatch" /\ lpc' = lpc
    BY <1>13 DEF HealthPost, InHealth, SemInv, loggerVars
  <2>2. Holder = Health
    BY <2>1 DEF Holder, SemInv, MutualExclusion
  <2>3. ASSUME NEW q \in waiting, waiting' = waiting \ {q}, PI PROVE Holder' = q
    <3>1. q = Logger /\ Logger \notin waiting' /\ lpc = "wait"
      BY <2>1, <2>3 DEF SemInv, Procs
    <3>2. InLogger'
      BY <2>1, <2>3, <3>1 DEF InLogger
    <3> QED BY <3>1, <3>2 DEF Holder
  <2> QED
    BY <1>0, <1>13, <2>2, <2>3, RefPost DEF HealthPost
<1>14. CASE EnvNext
  BY <1>14, RefStutter DEF EnvNext, PipeOpen, PipeWrite, PipeClose, PayConnect, PayRequest,
     PayHangup, TimerTick, HealthConnect, HealthCommand, HealthHangup,
     InLogger, InHealth, semVars, loggerVars, healthVars
<1>15. CASE UNCHANGED vars
  BY <1>15, RefStutter DEF vars, InLogger, InHealth, semVars, loggerVars, healthVars
<1> QED
  BY <1>1, <1>2, <1>3, <1>4, <1>5, <1>6, <1>7, <1>9, <1>10, <1>11, <1>12, <1>13, <1>14, <1>15
     DEF Next, LoggerNext, HealthNext

\* The three programs, with either kind of semaphore, implement the abstract shared
\* log: a blocked process gets the section free or from its holder's hand, and only
\* the holder writes a line.
THEOREM Refinement == Spec => ImplementsSharedLog
<1>1. TypeOK /\ SemInv /\ SemInv' /\ [Next]_vars => [SL!Next]_(SL!avars)
  BY RefNext
<1> QED
  BY RefInit, <1>1, TypeCorrect, SemInvariant, PTL DEF Spec, ImplementsSharedLog, SL!Spec

------------------------------------------------------------------------------
(* The commands of the health client. *)

\* A STOP that no START follows, and no order at all.
Stops(s) == \E i \in 1..Len(s) : s[i] = "STOP" /\ \A j \in i..Len(s) : s[j] # "START"
Quiet(s) == \A i \in 1..Len(s) : s[i] \notin {"STOP", "START"}

\* The last order is still in the connection, in the buffer, or has been obeyed.
StopInv ==
  /\ chunk # {} => hpc \in {"cwait", "apply"}
  /\ lastCmd = "STOP" => \/ Stops(cmds)
                         \/ Quiet(cmds) /\ "STOP" \in chunk
                         \/ Quiet(cmds) /\ "START" \notin chunk /\ ~running

LEMMA OneMoreCommand ==
  ASSUME NEW s \in Seq(Cmds), NEW c \in Cmds
  PROVE  /\ c = "STOP" => Stops(Append(s, c))
         /\ c # "START" /\ Stops(s) => Stops(Append(s, c))
         /\ c = "OTHER" /\ Quiet(s) => Quiet(Append(s, c))
<1> DEFINE n == Len(s)
           t == Append(s, c)
<1>1. n \in Nat /\ Len(t) = n + 1 /\ (\A i \in 1..n : t[i] = s[i]) /\ t[n + 1] = c
  BY AppendProperties, LenProperties
<1> HIDE DEF t
<1>2. ASSUME c = "STOP" PROVE Stops(t)
  BY <1>1, <1>2 DEF Stops
<1>3. ASSUME c # "START", Stops(s) PROVE Stops(t)
  <2>1. PICK i \in 1..n : s[i] = "STOP" /\ \A j \in i..n : s[j] # "START"
    BY <1>3 DEF Stops
  <2>2. i \in 1..(n + 1) /\ t[i] = "STOP" /\ \A j \in i..(n + 1) : t[j] # "START"
    BY <1>1, <1>3, <2>1
  <2> QED BY <1>1, <2>2 DEF Stops
<1>4. ASSUME c = "OTHER", Quiet(s) PROVE Quiet(t)
  BY <1>1, <1>4 DEF Quiet
<1> QED BY <1>2, <1>3, <1>4 DEF t

\* The first n commands are read into a buffer, the others stay.
LEMMA SomeCommands ==
  ASSUME NEW s \in Seq(Cmds), NEW n \in 1..Len(s)
  PROVE  /\ Stops(s) => \/ Stops(SubSeq(s, n + 1, Len(s)))
                        \/ Quiet(SubSeq(s, n + 1, Len(s))) /\ \E i \in 1..n : s[i] = "STOP"
         /\ Quiet(s) => /\ Quiet(SubSeq(s, n + 1, Len(s)))
                        /\ \A i \in 1..n : s[i] \notin {"STOP", "START"}
<1> DEFINE l == Len(s)
           t == SubSeq(s, n + 1, l)
<1>1. l \in Nat /\ n \in Nat /\ n <= l /\ n >= 1
  BY LenProperties
<1>2. Len(t) = l - n /\ \A i \in 1..(l - n) : t[i] = s[n + i]
  BY Cut
<1> HIDE DEF t
<1>3. ASSUME Stops(s) PROVE Stops(t) \/ (Quiet(t) /\ \E i \in 1..n : s[i] = "STOP")
  <2>1. PICK i \in 1..l : s[i] = "STOP" /\ \A j \in i..l : s[j] # "START"
    BY <1>3 DEF Stops
  <2> HIDE DEF l
  <2>2. CASE i <= n
    <3>1. i \in 1..n /\ \A j \in 1..(l - n) : t[j] # "START"
      BY <1>1, <1>2, <2>1, <2>2
    <3>2. ASSUME NEW k \in 1..(l - n), t[k] = "STOP" PROVE Stops(t)
      <4>1. k \in 1..Len(t) /\ \A j \in k..(l - n) : j \in 1..(l - n)
        BY <1>1, <1>2
      <4>2. \A j \in k..Len(t) : t[j] # "START"
        BY <1>2, <3>1, <4>1
      <4> QED BY <3>2, <4>1, <4>2 DEF Stops
    <3> QED BY <1>2, <2>1, <3>1, <3>2 DEF Quiet
  <2>3. CASE i > n
    <3>1. i - n \in 1..(l - n) /\ t[i - n] = "STOP"
          /\ \A j \in (i - n)..(l - n) : t[j] # "START"
      <4>1. /\ i - n \in 1..(l - n) /\ n + (i - n) = i
            /\ \A j \in (i - n)..(l - n) : j \in 1..(l - n) /\ n + j \in i..l
        BY <1>1, <2>1, <2>3
      <4> QED BY <1>2, <2>1, <4>1
    <3> QED BY <1>2, <3>1 DEF Stops
  <2> QED BY <1>1, <2>1, <2>2, <2>3
<1>4. ASSUME Quiet(s) PROVE Quiet(t) /\ \A i \in 1..n : s[i] \notin {"STOP", "START"}
  BY <1>1, <1>2, <1>4 DEF Quiet
<1> QED BY <1>3, <1>4 DEF t

LEMMA StopInvInit == Init => StopInv
  BY DEF Init, StopInv, Quiet

LEMMA StopInvNext == TypeOK /\ StopInv /\ [Next]_vars => StopInv'
<1> SUFFICES ASSUME TypeOK, StopInv, [Next]_vars PROVE StopInv'
  OBVIOUS
<1>0. cmds \in Seq(Cmds)
  BY DEF TypeOK
<1>1. ASSUME UNCHANGED <<chunk, lastCmd, cmds, running>>,
             hpc \in {"cwait", "apply"} => hpc' \in {"cwait", "apply"}
      PROVE  StopInv'
  BY <1>1 DEF StopInv, Stops, Quiet
<1>2. CASE LoggerNext \/ PaymentNext \/ UNCHANGED vars
  BY <1>1, <1>2 DEF LoggerNext, LoggerOpen, LoggerPoll, LoggerWoken, LoggerRead, LoggerLog,
     LoggerPost, PaymentNext, PaymentAccept, PaymentRead, PaymentBusy, vars, healthVars, srcVars
<1>3. CASE HealthAccept \/ HealthEpoll \/ HealthDispatch \/ HealthTimer \/ HealthCheck
           \/ HealthLate \/ HealthPost
  BY <1>1, <1>3 DEF HealthAccept, HealthEpoll, HealthDispatch, HealthTimer, HealthEnter,
     HealthCheck, HealthLate, HealthPost, srcVars
<1>4. CASE HealthWoken
  <2>1. UNCHANGED <<chunk, lastCmd, cmds, running>>
    BY <1>4 DEF HealthWoken, srcVars
  <2>2. hpc = "cwait" => hpc' = "apply"
    BY <1>4 DEF HealthWoken
  <2>3. hpc # "apply"
    BY <1>4 DEF HealthWoken
  <2> QED BY <1>1, <2>1, <2>2, <2>3
<1>5. CASE HealthRecv
  <2>1. hpc = "recv" /\ chunk = {} /\ UNCHANGED <<lastCmd, running>>
    BY <1>5 DEF HealthRecv, StopInv
  <2>2. CASE cmds = <<>>
    BY <1>1, <1>5, <2>1, <2>2 DEF HealthRecv
  <2>3. CASE cmds # <<>>
    <3>1. PICK n \in 1..Len(cmds) : /\ chunk' = {cmds[i] : i \in 1..n}
                                    /\ cmds' = SubSeq(cmds, n + 1, Len(cmds))
      BY <1>5, <2>3 DEF HealthRecv
    <3>2. /\ Stops(cmds) => \/ Stops(cmds')
                            \/ Quiet(cmds') /\ \E i \in 1..n : cmds[i] = "STOP"
          /\ Quiet(cmds) => Quiet(cmds') /\ \A i \in 1..n : cmds[i] \notin {"STOP", "START"}
      BY <1>0, <3>1, SomeCommands
    <3>3. /\ (\E i \in 1..n : cmds[i] = "STOP") => "STOP" \in chunk'
          /\ (\A i \in 1..n : cmds[i] \notin {"STOP", "START"}) => "START" \notin chunk'
      BY <3>1
    <3>4. hpc' \in {"cwait", "apply"}
      BY <1>5, <2>3 DEF HealthRecv, HealthEnter
    <3> QED BY <2>1, <3>2, <3>3, <3>4 DEF StopInv
  <2> QED BY <2>2, <2>3
<1>6. CASE HealthApply
  <2>1. chunk' = {} /\ UNCHANGED <<cmds, lastCmd>>
    BY <1>6 DEF HealthApply, srcVars
  <2>2. "STOP" \in chunk => running' = FALSE
    BY <1>6 DEF HealthApply
  <2>3. "STOP" \notin chunk /\ "START" \notin chunk => running' = running
    BY <1>6 DEF HealthApply
  <2> QED BY <2>1, <2>2, <2>3 DEF StopInv
<1>7. CASE HealthCommand
  <2>1. PICK c \in Cmds : /\ cmds' = Append(cmds, c)
                          /\ lastCmd' = IF c = "OTHER" THEN lastCmd ELSE c
    BY <1>7 DEF HealthCommand
  <2>2. UNCHANGED <<hpc, chunk, running>>
    BY <1>7 DEF HealthCommand, healthVars
  <2> QED BY <1>0, <2>1, <2>2, OneMoreCommand DEF StopInv, Cmds
<1>8. CASE EnvNext /\ ~HealthCommand
  BY <1>1, <1>8 DEF EnvNext, PipeOpen, PipeWrite, PipeClose, PayConnect, PayRequest, PayHangup,
     TimerTick, HealthConnect, HealthHangup, healthVars, srcVars
<1> QED
  BY <1>2, <1>3, <1>4, <1>5, <1>6, <1>7, <1>8 DEF Next, HealthNext, EnvNext

\* When health has read everything and the last order was STOP, it is stopped, however the
\* commands were cut into buffers (health.c:96-111).
THEOREM StopIsObeyed == Spec => []StopNotLost
<1>1. TypeOK /\ StopInv /\ [Next]_vars => StopInv'
  BY StopInvNext
<1>2. StopInv => StopNotLost
  <2> SUFFICES ASSUME StopInv, cmds = <<>>, chunk = {}, lastCmd = "STOP" PROVE ~running
    BY DEF StopNotLost
  <2>1. ~Stops(cmds)
    BY EmptySeq DEF Stops
  <2> QED BY <2>1 DEF StopInv
<1> QED
  BY StopInvInit, <1>1, <1>2, TypeCorrect, PTL DEF Spec

------------------------------------------------------------------------------
(* The way of a message from the pipe to the log. *)

\* The log l has the messages 1..d, each once and in order.
Kept(l, d) ==
  /\ \A i \in 1..Len(l) : \A k \in 1..Len(l[i].what.body) : l[i].what.body[k] \in 1..d
  /\ \A m \in 1..d : \E i \in 1..Len(l) : \E k \in 1..Len(l[i].what.body) : l[i].what.body[k] = m
  /\ \A i, j \in 1..Len(l) :
       \A k \in 1..Len(l[i].what.body), m \in 1..Len(l[j].what.body) :
         i < j \/ (i = j /\ k < m) => l[i].what.body[k] < l[j].what.body[m]

\* The sequence q has the messages from d + 1 on.
From(q, d) == \A i \in 1..Len(q) : q[i] = d + i

Done == sent - Len(lbuf) - Len(fifo)

LogInv ==
  /\ Done \in Nat /\ Kept(log, Done)
  /\ From(lbuf, Done) /\ From(fifo, Done + Len(lbuf))
  /\ lpc # "log" => lbuf = <<>>

\* A line with the next messages, or with none.
LEMMA KeptLonger ==
  ASSUME NEW l \in Seq(Records), NEW d \in Nat, Kept(l, d), NEW e \in Records,
         From(e.what.body, d)
  PROVE  Kept(Append(l, e), d + Len(e.what.body))
<1> DEFINE n == Len(l)
           b == e.what.body
           c == Len(b)
           h == Append(l, e)
<1>1. n \in Nat /\ Len(h) = n + 1 /\ (\A i \in 1..n : h[i] = l[i]) /\ h[n + 1] = e
  BY AppendProperties, LenProperties
<1>2. c \in Nat
  <2>1. b \in Seq(Nat)
    BY DEF Records, Lines
  <2> QED BY <2>1, LenProperties
<1>3. \A k \in 1..c : b[k] = d + k
  BY DEF From
<1>4. \A i \in 1..n : \A k \in 1..Len(l[i].what.body) : l[i].what.body[k] \in 1..d
  BY DEF Kept
<1>5. \A i \in 1..(n + 1) : i \in 1..n \/ i = n + 1
  BY <1>1
<1> HIDE DEF h, n, b, c
<1>6. \A i \in 1..(n + 1) : \A k \in 1..Len(h[i].what.body) : h[i].what.body[k] \in 1..(d + c)
  <2>1. ASSUME NEW i \in 1..n, NEW k \in 1..Len(h[i].what.body) PROVE h[i].what.body[k] \in 1..(d + c)
    BY <1>1, <1>2, <1>4
  <2>2. ASSUME NEW k \in 1..c PROVE b[k] \in 1..(d + c)
    BY <1>2, <1>3
  <2> QED BY <1>1, <1>5, <2>1, <2>2 DEF b, c
<1>7. \A m \in 1..(d + c) :
        \E i \in 1..(n + 1) : \E k \in 1..Len(h[i].what.body) : h[i].what.body[k] = m
  <2>1. ASSUME NEW m \in 1..d
        PROVE  \E i \in 1..(n + 1) : \E k \in 1..Len(h[i].what.body) : h[i].what.body[k] = m
    <3>1. PICK i \in 1..n : \E k \in 1..Len(l[i].what.body) : l[i].what.body[k] = m
      BY <2>1 DEF Kept, n
    <3>2. i \in 1..(n + 1) /\ h[i] = l[i]
      BY <1>1, <3>1
    <3> QED BY <3>1, <3>2
  <2>2. ASSUME NEW m \in (d + 1)..(d + c)
        PROVE  \E i \in 1..(n + 1) : \E k \in 1..Len(h[i].what.body) : h[i].what.body[k] = m
    <3>1. m - d \in 1..c /\ d + (m - d) = m
      BY <1>2, <2>2
    <3>2. n + 1 \in 1..(n + 1) /\ h[n + 1].what.body[m - d] = m /\ m - d \in 1..Len(h[n + 1].what.body)
      BY <1>1, <1>3, <3>1 DEF b, c
    <3> QED BY <3>2
  <2>3. \A m \in 1..(d + c) : m \in 1..d \/ m \in (d + 1)..(d + c)
    BY <1>2
  <2> QED BY <2>1, <2>2, <2>3
<1>8. ASSUME NEW i \in 1..(n + 1), NEW j \in 1..(n + 1), NEW k \in 1..Len(h[i].what.body),
             NEW m \in 1..Len(h[j].what.body), i < j \/ (i = j /\ k < m)
      PROVE  h[i].what.body[k] < h[j].what.body[m]
  <2>1. CASE i \in 1..n /\ j \in 1..n
    <3>1. h[i] = l[i] /\ h[j] = l[j]
      BY <1>1, <2>1
    <3> QED BY <1>8, <2>1, <3>1 DEF Kept, n
  <2>2. CASE i \in 1..n /\ j = n + 1
    <3>1. h[i] = l[i] /\ h[j].what.body = b /\ m \in 1..c
      BY <1>1, <2>2 DEF b, c
    <3>2. h[i].what.body[k] \in 1..d /\ b[m] = d + m
      BY <1>3, <1>4, <2>2, <3>1
    <3> QED BY <1>2, <3>1, <3>2
  <2>3. CASE i = n + 1 /\ j \in 1..n
    BY <1>1, <1>8, <2>3
  <2>4. CASE i = n + 1 /\ j = n + 1
    <3>1. h[i].what.body = b /\ h[j].what.body = b /\ k \in 1..c /\ m \in 1..c /\ k < m
      BY <1>1, <1>8, <2>4 DEF b, c
    <3> QED BY <1>2, <1>3, <3>1
  <2> QED BY <1>5, <2>1, <2>2, <2>3, <2>4
<1> QED
  BY <1>1, <1>6, <1>7, <1>8 DEF Kept, h, b, c

\* The places of a line.
LEMMA BodyDomain ==
  ASSUME NEW l \in Seq(Records)
  PROVE  /\ DOMAIN l = 1..Len(l)
         /\ \A i \in 1..Len(l) : DOMAIN l[i].what.body = 1..Len(l[i].what.body)
<1>1. DOMAIN l = 1..Len(l)
  BY LenProperties
<1>2. ASSUME NEW i \in 1..Len(l) PROVE DOMAIN l[i].what.body = 1..Len(l[i].what.body)
  <2>1. l[i] \in Records
    BY ElementOfSeq
  <2>2. l[i].what.body \in Seq(Nat)
    BY <2>1 DEF Records, Lines
  <2> QED BY <2>2, LenProperties
<1> QED BY <1>1, <1>2

LEMMA LogInvInit == Init => LogInv
  BY EmptySeq DEF Init, LogInv, Done, Kept, From

\* A line without messages, and no line.
LEMMA OtherLine ==
  ASSUME TypeOK, LogInv, UNCHANGED <<lbuf, fifo, sent>>, lpc' = "log" \/ lbuf = <<>>,
         \/ log' = log
         \/ \E k \in {"CHECK", "LATE", "STOPPED", "STARTED"} :
              log' = Append(log, [by |-> Health, what |-> [kind |-> k, body |-> <<>>]])
  PROVE  LogInv'
<1>1. Kept(log', Done)
  <2>1. CASE log' = log
    BY <2>1 DEF LogInv
  <2>2. ASSUME NEW k \in {"CHECK", "LATE", "STOPPED", "STARTED"},
               log' = Append(log, [by |-> Health, what |-> [kind |-> k, body |-> <<>>]])
        PROVE  Kept(log', Done)
    <3> DEFINE e == [by |-> Health, what |-> [kind |-> k, body |-> <<>>]]
    <3>1. e \in Records /\ e.what.body = <<>>
      BY EmptySeq DEF Records, Lines, Procs
    <3>2. log \in Seq(Records) /\ Done \in Nat /\ Kept(log, Done) /\ Len(<<>>) = 0
      BY EmptySeq DEF TypeOK, Records, LogInv
    <3> HIDE DEF e
    <3>3. From(e.what.body, Done) /\ Len(e.what.body) = 0 /\ Done + 0 = Done
      BY <3>1, <3>2 DEF From
    <3>4. Kept(Append(log, e), Done + Len(e.what.body))
      BY <3>1, <3>2, <3>3, KeptLonger
    <3>5. Kept(Append(log, e), Done)
      BY <3>3, <3>4
    <3> QED BY <2>2, <3>5 DEF e
  <2> QED BY <2>1, <2>2
<1>2. Done' = Done
  BY DEF Done
<1> QED
  BY <1>1, <1>2 DEF LogInv, From

LEMMA LogInvNext == TypeOK /\ LogInv /\ [Next]_vars => LogInv'
<1> SUFFICES ASSUME TypeOK, LogInv, [Next]_vars PROVE LogInv'
  OBVIOUS
<1>0. /\ lbuf \in Seq(Nat) /\ fifo \in Seq(Nat) /\ sent \in Nat /\ log \in Seq(Records)
      /\ Len(lbuf) \in Nat /\ Len(fifo) \in Nat
  <2>1. lbuf \in Seq(Nat) /\ fifo \in Seq(Nat) /\ sent \in Nat /\ log \in Seq(Records)
    BY DEF TypeOK, Records
  <2> QED BY <2>1, LenProperties
<1>1. CASE LoggerOpen \/ LoggerPoll \/ LoggerWoken \/ LoggerPost
  BY <1>1, OtherLine DEF LoggerOpen, LoggerPoll, LoggerWoken, LoggerPost, LogInv, fifoVars
<1>2. CASE LoggerRead
  <2>1. lbuf = <<>> /\ log' = log /\ sent' = sent /\ Len(<<>>) = 0
    BY <1>2, EmptySeq DEF LoggerRead, LogInv
  <2>2. CASE fifo = <<>>
    BY <1>2, <2>1, <2>2, OtherLine DEF LoggerRead
  <2>3. CASE fifo # <<>>
    <3>1. PICK n \in 1..Len(fifo) : /\ lbuf' = SubSeq(fifo, 1, n)
                                    /\ fifo' = SubSeq(fifo, n + 1, Len(fifo))
      BY <1>2, <2>3 DEF LoggerRead
    <3>2. /\ Len(lbuf') = n /\ Len(fifo') = Len(fifo) - n
          /\ \A i \in 1..n : lbuf'[i] = fifo[i]
          /\ \A i \in 1..(Len(fifo) - n) : fifo'[i] = fifo[n + i]
      BY <1>0, <3>1, Cut
    <3>3. Done' = Done /\ Done \in Nat
      BY <1>0, <2>1, <3>2 DEF Done, LogInv
    <3>4. \A i \in 1..Len(fifo) : fifo[i] = Done + i
      BY <2>1, <3>3 DEF LogInv, From
    <3>5. From(lbuf', Done)
      <4>1. \A i \in 1..n : i \in 1..Len(fifo)
        BY <1>0
      <4> QED BY <3>2, <3>4, <4>1 DEF From
    <3>6. From(fifo', Done + n)
      <4>1. \A i \in 1..(Len(fifo) - n) : n + i \in 1..Len(fifo) /\ Done + (n + i) = (Done + n) + i
        BY <1>0, <3>3
      <4> QED BY <3>2, <3>4, <4>1 DEF From
    <3>7. lpc' = "log"
      BY <1>2, <2>3 DEF LoggerRead
    <3>8. Kept(log, Done)
      BY DEF LogInv
    <3> QED BY <2>1, <3>2, <3>3, <3>5, <3>6, <3>7, <3>8 DEF LogInv
  <2> QED BY <2>2, <2>3
<1>3. CASE LoggerLog
  <2> DEFINE e == [by |-> Logger, what |-> [kind |-> "LOG", body |-> lbuf]]
  <2>1. e \in Records /\ e.what.body = lbuf
    BY <1>0 DEF Records, Lines, Procs
  <2>2. log' = Append(log, e) /\ lbuf' = <<>> /\ UNCHANGED <<fifo, sent>>
    BY <1>3 DEF LoggerLog, fifoVars
  <2> HIDE DEF e
  <2>3. Done \in Nat /\ Kept(log, Done) /\ From(lbuf, Done) /\ From(fifo, Done + Len(lbuf))
    BY DEF LogInv
  <2>4. Kept(log', Done + Len(lbuf))
    BY <1>0, <2>1, <2>2, <2>3, KeptLonger
  <2>5. Done' = Done + Len(lbuf) /\ Len(lbuf') = 0 /\ Done' \in Nat /\ Done' + 0 = Done'
    BY <1>0, <2>2, <2>3, EmptySeq DEF Done
  <2>6. From(lbuf', Done')
    BY <2>5 DEF From
  <2> QED BY <2>2, <2>3, <2>4, <2>5, <2>6 DEF LogInv
<1>4. CASE PaymentNext
  BY <1>4, OtherLine DEF PaymentNext, PaymentAccept, PaymentRead, PaymentBusy, LogInv,
     loggerVars, fifoVars
<1>5. CASE HealthAccept \/ HealthEpoll \/ HealthDispatch \/ HealthTimer \/ HealthRecv
           \/ HealthWoken \/ HealthPost
  BY <1>5, OtherLine DEF HealthAccept, HealthEpoll, HealthDispatch, HealthTimer, HealthRecv,
     HealthWoken, HealthPost, LogInv, loggerVars, fifoVars
<1>6. CASE HealthCheck \/ HealthLate \/ HealthApply
  <2>1. UNCHANGED <<lbuf, fifo, sent>> /\ (lpc' = "log" \/ lbuf = <<>>)
    BY <1>6 DEF HealthCheck, HealthLate, HealthApply, LogInv, loggerVars, fifoVars
  <2>2. \/ log' = log
        \/ \E k \in {"CHECK", "LATE", "STOPPED", "STARTED"} :
             log' = Append(log, [by |-> Health, what |-> [kind |-> k, body |-> <<>>]])
    BY <1>6 DEF HealthCheck, HealthLate, HealthApply
  <2> QED BY <2>1, <2>2, OtherLine
<1>7. CASE PipeWrite
  <2>1. fifo' = Append(fifo, sent + 1) /\ sent' = sent + 1 /\ UNCHANGED <<lpc, lbuf, log>>
    BY <1>7 DEF PipeWrite, loggerVars
  <2>2. /\ Len(fifo') = Len(fifo) + 1 /\ fifo'[Len(fifo) + 1] = sent + 1
        /\ \A i \in 1..Len(fifo) : fifo'[i] = fifo[i]
    BY <1>0, <2>1, AppendProperties
  <2>3. Done' = Done /\ Done + Len(lbuf) + (Len(fifo) + 1) = sent + 1
    BY <1>0, <2>1, <2>2 DEF Done
  <2>4. From(fifo, Done + Len(lbuf))
    BY DEF LogInv
  <2>5. \A i \in 1..(Len(fifo) + 1) : i \in 1..Len(fifo) \/ i = Len(fifo) + 1
    BY <1>0
  <2>6. From(fifo', Done + Len(lbuf))
    BY <2>2, <2>3, <2>4, <2>5 DEF From
  <2> QED BY <2>1, <2>3, <2>6 DEF LogInv
<1>8. CASE EnvNext /\ ~PipeWrite
  BY <1>8, OtherLine DEF EnvNext, PipeOpen, PipeClose, PayConnect, PayRequest, PayHangup,
     TimerTick, HealthConnect, HealthCommand, HealthHangup, LogInv, loggerVars, fifoVars
<1>9. CASE UNCHANGED vars
  BY <1>9, OtherLine DEF LogInv, vars, loggerVars, fifoVars
<1> QED
  BY <1>1, <1>2, <1>3, <1>4, <1>5, <1>6, <1>7, <1>8, <1>9 DEF Next, LoggerNext, HealthNext, EnvNext

\* What was written to the pipe is in the log, in logger's buffer and in the pipe, each
\* message once and in order, whatever the reads return (logger.c:44-52).
THEOREM LogIsFaithful == Spec => []LogFaithful
<1>1. TypeOK /\ LogInv /\ [Next]_vars => LogInv'
  BY LogInvNext
<1>2. TypeOK /\ LogInv => LogFaithful
  <2> SUFFICES ASSUME TypeOK, LogInv PROVE LogFaithful
    OBVIOUS
  <2> DEFINE rest == lbuf \o fifo
  <2>1. /\ lbuf \in Seq(Nat) /\ fifo \in Seq(Nat) /\ sent \in Nat /\ log \in Seq(Records)
        /\ Len(lbuf) \in Nat /\ Len(fifo) \in Nat
    <3>1. lbuf \in Seq(Nat) /\ fifo \in Seq(Nat) /\ sent \in Nat /\ log \in Seq(Records)
      BY DEF TypeOK, Records
    <3> QED BY <3>1, LenProperties
  <2>2. /\ rest \in Seq(Nat) /\ Len(rest) = Len(lbuf) + Len(fifo)
        /\ \A i \in 1..(Len(lbuf) + Len(fifo)) :
             rest[i] = IF i <= Len(lbuf) THEN lbuf[i] ELSE fifo[i - Len(lbuf)]
    BY <2>1, ConcatProperties
  <2>3. Done = sent - Len(rest) /\ Done \in Nat
    BY <2>1, <2>2 DEF Done, LogInv
  <2>4. rest = [i \in 1..Len(rest) |-> Done + i]
    <3>1. rest \in [1..Len(rest) -> Nat]
      BY <2>2, LenProperties
    <3>2. ASSUME NEW i \in 1..Len(rest) PROVE rest[i] = Done + i
      <4>1. CASE i <= Len(lbuf)
        BY <2>1, <2>2, <3>2, <4>1 DEF LogInv, From
      <4>2. CASE ~(i <= Len(lbuf))
        <5>1. i - Len(lbuf) \in 1..Len(fifo) /\ Done + Len(lbuf) + (i - Len(lbuf)) = Done + i
          BY <2>1, <2>2, <2>3, <3>2, <4>2
        <5>2. fifo[i - Len(lbuf)] = Done + Len(lbuf) + (i - Len(lbuf))
          BY <5>1 DEF LogInv, From
        <5> QED BY <2>1, <2>2, <3>2, <4>2, <5>1, <5>2
      <4> QED BY <4>1, <4>2
    <3> QED BY <3>1, <3>2
  <2>5. \A s : s \in Logged <=> \E i \in 1..Len(log) : \E k \in 1..Len(log[i].what.body) : s = <<i, k>>
    <3>1. \A s : s \in Logged <=> \E i \in DOMAIN log : s \in {i} \X DOMAIN log[i].what.body
      BY Zenon DEF Logged
    <3>2. \A s, i : s \in {i} \X DOMAIN log[i].what.body
                     <=> \E k \in DOMAIN log[i].what.body : s = <<i, k>>
      OBVIOUS
    <3>3. /\ DOMAIN log = 1..Len(log)
          /\ \A i \in 1..Len(log) : DOMAIN log[i].what.body = 1..Len(log[i].what.body)
      BY <2>1, BodyDomain
    <3> QED BY <3>1, <3>2, <3>3
  <2>6. Kept(log, Done)
    BY DEF LogInv
  <2>7. {Message(s) : s \in Logged} = 1..Done
    <3>1. ASSUME NEW s \in Logged PROVE Message(s) \in 1..Done
      BY <2>5, <2>6 DEF Kept, Message
    <3>2. ASSUME NEW m \in 1..Done PROVE \E s \in Logged : m = Message(s)
      <4>1. PICK i \in 1..Len(log) : \E k \in 1..Len(log[i].what.body) : log[i].what.body[k] = m
        BY <2>6 DEF Kept
      <4>2. PICK k \in 1..Len(log[i].what.body) : log[i].what.body[k] = m
        BY <4>1
      <4>3. <<i, k>> \in Logged /\ Message(<<i, k>>) = m
        BY <2>5, <4>2 DEF Message
      <4> QED BY <4>3
    <3> QED BY <3>1, <3>2
  <2>8. \A r, s \in Logged : Before(r, s) => Message(r) < Message(s)
    BY <2>5, <2>6 DEF Kept, Message, Before
  <2> QED
    BY <2>3, <2>4, <2>7, <2>8 DEF LogFaithful
<1> QED
  BY LogInvInit, <1>1, <1>2, TypeCorrect, PTL DEF Spec
==============================================================================
