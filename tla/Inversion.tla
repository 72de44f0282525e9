------------------------------ MODULE Inversion ------------------------------
(***************************************************************************)
(* The priority-inversion exercise of C/: logger, payment and health,      *)
(* started by run_poll.sh.  logger (SCHED_BATCH) and payment (SCHED_FIFO   *)
(* 50) are pinned to CPU 0; health (SCHED_DEADLINE) may run on any CPU.    *)
(* logger and health share one semaphore and one log file.                 *)
(*                                                                         *)
(* The producers of the pipe, of the payment connection and of the health  *)
(* connection are the environment: epoll_server leaves init_log_fifo and   *)
(* init_health_connection as stubs for the student to complete.            *)
(***************************************************************************)
EXTENDS Integers, Sequences, SequencesExt

CONSTANTS PI,            \* USE_PI_SEM: a priority-inheritance mutex, else a POSIX semaphore
          RtThrottling,  \* the kernel lets SCHED_BATCH run in spite of a busy FIFO task
          Slices,        \* iterations of the busy loop of one payment (20 in the code)
          MaxMsgs,       \* bound: messages written to the pipe
          MaxOpens,      \* bound: times a producer opens the pipe
          MaxPay,        \* bound: payment requests queued in the socket
          MaxTicks,      \* bound: expirations of health's timer
          MaxCmds        \* bound: commands sent to health

ASSUME InversionAssumption ==
  /\ PI \in BOOLEAN /\ RtThrottling \in BOOLEAN
  /\ Slices \in Nat \ {0}
  /\ MaxMsgs \in Nat /\ MaxOpens \in Nat /\ MaxPay \in Nat
  /\ MaxTicks \in Nat /\ MaxCmds \in Nat

Logger == "logger"
Health == "health"
Procs  == {Logger, Health}
ConnStates == {"none", "open", "closed"}
Cmds   == {"STOP", "START", "OTHER"}
Lines  == [kind : {"LOG", "CHECK", "LATE", "STOPPED", "STARTED"}, body : Seq(Nat)]

VARIABLES
  sem,      \* 1 when free, 0 when taken
  waiting,  \* processes blocked inside pi_sem_wait
  lpc, lbuf,            \* logger: control point, bytes read in this iteration
  fifo, writers, opens, sent,   \* /tmp/logpipe: content, is a producer attached
  ppc, slice, pay, payConn,     \* payment: control point, loop index; its connection
  hpc, evs, running, chunk,     \* health: control point, events of this batch, flag, buffer
  expired, ticks, cmds, cmdConn, ncmds,  \* timerfd and the client connection of health
  lastCmd,  \* history: the last STOP or START the client sent
  log,      \* /tmp/shared_log
  stall     \* history: payment loop iterations since health blocked

semVars    == <<sem, waiting>>
loggerVars == <<lpc, lbuf>>
fifoVars   == <<fifo, writers, opens, sent>>
payVars    == <<ppc, slice, pay, payConn, stall>>
healthVars == <<hpc, evs, running, chunk>>
srcVars    == <<expired, ticks, cmds, cmdConn, ncmds, lastCmd>>
vars == <<semVars, loggerVars, fifoVars, payVars, healthVars, srcVars, log>>

TypeOK ==
  /\ sem \in 0..1
  /\ waiting \in SUBSET Procs
  /\ lpc \in {"open", "poll", "wait", "read", "log", "post"}
  /\ lbuf \in Seq(Nat) /\ fifo \in Seq(Nat)
  /\ writers \in BOOLEAN /\ opens \in Nat /\ sent \in Nat
  /\ ppc \in {"accept", "read", "busy", "done"}
  /\ slice \in 0..Slices
  /\ pay \in Nat /\ payConn \in ConnStates
  /\ hpc \in {"accept", "epoll", "dispatch", "timer", "twait", "check", "late", "tpost",
              "recv", "cwait", "apply", "cpost"}
  /\ evs \in SUBSET {"timer", "client"}
  /\ running \in BOOLEAN
  /\ chunk \in SUBSET Cmds
  /\ expired \in BOOLEAN /\ ticks \in Nat
  /\ cmds \in Seq(Cmds) /\ cmdConn \in ConnStates /\ ncmds \in Nat
  /\ lastCmd \in {"STOP", "START"}
  /\ log \in Seq([by : Procs, what : Lines])
  /\ stall \in Nat

Init ==
  /\ sem = 1 /\ waiting = {}
  /\ lpc = "open" /\ lbuf = <<>>
  /\ fifo = <<>> /\ writers = FALSE /\ opens = 0 /\ sent = 0
  /\ ppc = "accept" /\ slice = 0 /\ pay = 0 /\ payConn = "none"
  /\ hpc = "accept" /\ evs = {} /\ running = FALSE /\ chunk = {}
  /\ expired = FALSE /\ ticks = 0
  /\ cmds = <<>> /\ cmdConn = "none" /\ ncmds = 0 /\ lastCmd = "STOP"
  /\ log = <<>> /\ stall = 0

------------------------------------------------------------------------------
(* The semaphore.  A POSIX semaphore is a counter: post increments it and  *)
(* wakes the waiter, which takes it only if it is still free.  The futex   *)
(* behind a PI mutex is handed to its waiter by the kernel at unlock.      *)

\* pi_sem_wait, when nobody is inside and when somebody is.
Wait(p) == IF sem = 1 THEN sem' = 0 /\ UNCHANGED waiting
                      ELSE waiting' = waiting \cup {p} /\ UNCHANGED sem

\* The return of a pi_sem_wait that had to block.
Woken(p) == IF PI THEN p \notin waiting /\ UNCHANGED semVars
                  ELSE p \in waiting /\ sem = 1 /\ sem' = 0 /\ waiting' = waiting \ {p}

Post == IF PI /\ waiting # {}
          THEN /\ \E q \in waiting : waiting' = waiting \ {q}
               /\ UNCHANGED sem
          ELSE sem' = 1 /\ UNCHANGED waiting

\* p is blocked in pi_sem_wait, or has been handed the mutex there.
InLogger  == lpc \in {"read", "log", "post"} \/ (PI /\ lpc = "wait" /\ Logger \notin waiting)
InHealth  == \/ hpc \in {"check", "late", "tpost", "apply", "cpost"}
             \/ PI /\ hpc \in {"twait", "cwait"} /\ Health \notin waiting
Inside(p) == IF p = Logger THEN InLogger ELSE InHealth

------------------------------------------------------------------------------
(* CPU 0.  A runnable payment keeps logger off the CPU, unless logger has  *)
(* inherited the priority of a blocked health.                             *)

\* Mutant: a mutex without PTHREAD_PRIO_INHERIT.
NoBoost == FALSE

Boosted == PI /\ Health \in waiting /\ InLogger

PaymentRunnable == \/ ppc = "accept" /\ payConn # "none"
                   \/ ppc = "read" /\ (pay > 0 \/ payConn = "closed")
                   \/ ppc = "busy"

\* poll reports POLLIN, or POLLHUP once the last producer has closed the pipe.
PipeReady == fifo # <<>> \/ ~writers

LoggerRunnable == CASE lpc = "open" -> writers
                    [] lpc \in {"poll", "read"} -> PipeReady
                    [] lpc = "wait" -> IF PI THEN Logger \notin waiting ELSE sem = 1
                    [] OTHER -> TRUE

LoggerOnCpu  == ~PaymentRunnable \/ Boosted \/ RtThrottling
PaymentOnCpu == ~(Boosted /\ LoggerRunnable)

------------------------------------------------------------------------------
(* logger.c *)

LoggerOpen ==      \* open(LOG_FIFO, O_RDONLY) blocks until a producer opens it
  /\ LoggerOnCpu /\ lpc = "open" /\ writers
  /\ lpc' = "poll"
  /\ UNCHANGED <<semVars, lbuf, fifoVars, payVars, healthVars, srcVars, log>>

\* Mutant: logger reads and logs without pi_sem_wait.
LoggerPollNoWait ==
  /\ LoggerOnCpu /\ lpc = "poll" /\ PipeReady
  /\ lpc' = "read"
  /\ UNCHANGED <<semVars, lbuf, fifoVars, payVars, healthVars, srcVars, log>>

\* Mutant: logger takes the semaphore and reads without asking poll first.
LoggerPollBlind ==
  /\ LoggerOnCpu /\ lpc = "poll"
  /\ Wait(Logger)
  /\ lpc' = IF sem = 1 THEN "read" ELSE "wait"
  /\ UNCHANGED <<lbuf, fifoVars, payVars, healthVars, srcVars, log>>

LoggerPoll ==      \* poll(&pfd, 1, 0) > 0, then pi_sem_wait
  /\ LoggerOnCpu /\ lpc = "poll" /\ PipeReady
  /\ Wait(Logger)
  /\ lpc' = IF sem = 1 THEN "read" ELSE "wait"
  /\ UNCHANGED <<lbuf, fifoVars, payVars, healthVars, srcVars, log>>

LoggerWoken ==
  /\ LoggerOnCpu /\ lpc = "wait" /\ Woken(Logger)
  /\ lpc' = "read"
  /\ UNCHANGED <<lbuf, fifoVars, payVars, healthVars, srcVars, log>>

LoggerRead ==      \* up to 255 bytes; 0 at end of file; blocks while the pipe
                   \* is empty and a producer is attached
  /\ LoggerOnCpu /\ lpc = "read" /\ PipeReady
  /\ IF fifo = <<>>
       THEN lpc' = "post" /\ UNCHANGED <<lbuf, fifo>>
       ELSE \E n \in 1..Len(fifo) :
              /\ lbuf' = SubSeq(fifo, 1, n)
              /\ fifo' = SubSeq(fifo, n + 1, Len(fifo))
              /\ lpc' = "log"
  /\ UNCHANGED <<semVars, writers, opens, sent, payVars, healthVars, srcVars, log>>

\* Mutant: a buffer that was read is not written to the log.
LoggerLogNothing ==
  /\ LoggerOnCpu /\ lpc = "log"
  /\ lbuf' = <<>>
  /\ lpc' = "post"
  /\ UNCHANGED <<semVars, fifoVars, payVars, healthVars, srcVars, log>>

LoggerLog ==       \* dprintf(logfd, "... [LOG sem=%d] %s")
  /\ LoggerOnCpu /\ lpc = "log"
  /\ log' = Append(log, [by |-> Logger, what |-> [kind |-> "LOG", body |-> lbuf]])
  /\ lbuf' = <<>>
  /\ lpc' = "post"
  /\ UNCHANGED <<semVars, fifoVars, payVars, healthVars, srcVars>>

LoggerPost ==
  /\ LoggerOnCpu /\ lpc = "post"
  /\ Post
  /\ lpc' = "poll"
  /\ UNCHANGED <<lbuf, fifoVars, payVars, healthVars, srcVars, log>>

LoggerNext == \/ LoggerOpen \/ LoggerPoll \/ LoggerWoken
              \/ LoggerRead \/ LoggerLog \/ LoggerPost

------------------------------------------------------------------------------
(* payment.c *)

PaymentAccept ==
  /\ PaymentOnCpu /\ ppc = "accept" /\ payConn # "none"
  /\ ppc' = "read"
  /\ UNCHANGED <<semVars, loggerVars, fifoVars, slice, pay, payConn, stall,
                 healthVars, srcVars, log>>

PaymentRead ==     \* one read may return several queued requests; n <= 0 ends the loop
  /\ PaymentOnCpu /\ ppc = "read"
  /\ \/ pay > 0 /\ pay' \in 0..(pay - 1) /\ ppc' = "busy" /\ slice' = 0
     \/ pay = 0 /\ payConn = "closed" /\ ppc' = "done" /\ UNCHANGED <<pay, slice>>
  /\ UNCHANGED <<semVars, loggerVars, fifoVars, payConn, stall, healthVars, srcVars, log>>

PaymentBusy ==     \* busy_wait_ms(100), Slices times
  /\ PaymentOnCpu /\ ppc = "busy"
  /\ slice' = slice + 1
  /\ ppc' = IF slice + 1 = Slices THEN "read" ELSE "busy"
  /\ stall' = IF Health \in waiting /\ stall <= Slices THEN stall + 1 ELSE stall
  /\ UNCHANGED <<semVars, loggerVars, fifoVars, pay, payConn, healthVars, srcVars, log>>

PaymentNext == PaymentAccept \/ PaymentRead \/ PaymentBusy

------------------------------------------------------------------------------
(* health.c *)

\* Descriptors epoll_wait reports; end of file keeps the client readable,
\* because a read of 0 neither closes nor removes it.
ReadyFds == (IF expired THEN {"timer"} ELSE {})
              \cup (IF cmds # <<>> \/ cmdConn = "closed" THEN {"client"} ELSE {})

HealthAccept ==    \* the timer is armed before this accept, so it may have expired
  /\ hpc = "accept" /\ cmdConn # "none"
  /\ hpc' = "epoll"
  /\ UNCHANGED <<semVars, loggerVars, fifoVars, payVars, evs, running, chunk, srcVars, log>>

HealthEpoll ==
  /\ hpc = "epoll" /\ ReadyFds # {}
  /\ evs' = ReadyFds
  /\ hpc' = "dispatch"
  /\ UNCHANGED <<semVars, loggerVars, fifoVars, payVars, running, chunk, srcVars, log>>

\* The for loop: the next event of the batch, in either order, or epoll_wait again.
HealthDispatch ==
  /\ hpc = "dispatch"
  /\ \/ /\ evs = {} /\ hpc' = "epoll" /\ UNCHANGED evs
     \/ \E e \in evs : /\ evs' = evs \ {e}
                       /\ hpc' = IF e = "timer" THEN "timer" ELSE "recv"
  /\ UNCHANGED <<semVars, loggerVars, fifoVars, payVars, running, chunk, srcVars, log>>

\* The start of a critical section: pi_sem_wait from control point next or blocked.
HealthEnter(inside, blocked) ==
  /\ Wait(Health)
  /\ hpc' = IF sem = 1 THEN inside ELSE blocked
  /\ stall' = 0

\* Mutant: every expiration is a check, started or not.
HealthTimerAlways ==
  /\ hpc = "timer"
  /\ expired' = FALSE
  /\ HealthEnter("check", "twait")
  /\ UNCHANGED <<loggerVars, fifoVars, ppc, slice, pay, payConn,
                 evs, running, chunk, ticks, cmds, cmdConn, ncmds, lastCmd, log>>

\* Mutant: the line of a check is written before pi_sem_wait.
HealthTimerLogsFirst ==
  /\ hpc = "timer"
  /\ expired' = FALSE
  /\ IF running
       THEN /\ log' = Append(log, [by |-> Health, what |-> [kind |-> "CHECK", body |-> <<>>]])
            /\ HealthEnter("tpost", "twait")
       ELSE hpc' = "dispatch" /\ UNCHANGED <<semVars, stall, log>>
  /\ UNCHANGED <<loggerVars, fifoVars, ppc, slice, pay, payConn,
                 evs, running, chunk, ticks, cmds, cmdConn, ncmds, lastCmd>>

HealthTimer ==     \* read(tfd) merges the expirations; only then is running looked at
  /\ hpc = "timer"
  /\ expired' = FALSE
  /\ IF running
       THEN HealthEnter("check", "twait")
       ELSE hpc' = "dispatch" /\ UNCHANGED <<semVars, stall>>
  /\ UNCHANGED <<loggerVars, fifoVars, ppc, slice, pay, payConn,
                 evs, running, chunk, ticks, cmds, cmdConn, ncmds, lastCmd, log>>

HealthCheck ==     \* dprintf(logfd, "[HEALTH] Health check"), then the delay is looked at
  /\ hpc = "check"
  /\ log' = Append(log, [by |-> Health, what |-> [kind |-> "CHECK", body |-> <<>>]])
  /\ hpc' \in {"late", "tpost"}
  /\ UNCHANGED <<semVars, loggerVars, fifoVars, payVars, evs, running, chunk, srcVars>>

HealthLate ==      \* more than 10 ms since before the wait: a second line says so
  /\ hpc = "late"
  /\ log' = Append(log, [by |-> Health, what |-> [kind |-> "LATE", body |-> <<>>]])
  /\ hpc' = "tpost"
  /\ UNCHANGED <<semVars, loggerVars, fifoVars, payVars, evs, running, chunk, srcVars>>

HealthRecv ==      \* read(client): several commands may arrive in one buffer
  /\ hpc = "recv"
  /\ IF cmds = <<>>
       THEN hpc' = "dispatch" /\ UNCHANGED <<semVars, chunk, cmds, stall>>
       ELSE /\ \E n \in 1..Len(cmds) :
                 /\ chunk' = {cmds[i] : i \in 1..n}
                 /\ cmds' = SubSeq(cmds, n + 1, Len(cmds))
            /\ HealthEnter("apply", "cwait")
  /\ UNCHANGED <<loggerVars, fifoVars, ppc, slice, pay, payConn,
                 evs, running, expired, ticks, cmdConn, ncmds, lastCmd, log>>

\* Mutant: strstr looks for START before STOP.
HealthApplyStartFirst ==
  /\ hpc = "apply"
  /\ running' = IF "START" \in chunk THEN TRUE ELSE IF "STOP" \in chunk THEN FALSE ELSE running
  /\ chunk' = {}
  /\ hpc' = "cpost"
  /\ UNCHANGED <<semVars, loggerVars, fifoVars, payVars, evs, srcVars, log>>

HealthApply ==     \* strstr looks for STOP first, then for START
  /\ hpc = "apply"
  /\ \/ /\ "STOP" \in chunk
        /\ running' = FALSE
        /\ log' = Append(log, [by |-> Health, what |-> [kind |-> "STOPPED", body |-> <<>>]])
     \/ /\ "STOP" \notin chunk /\ "START" \in chunk
        /\ running' = TRUE
        /\ log' = Append(log, [by |-> Health, what |-> [kind |-> "STARTED", body |-> <<>>]])
     \/ chunk \cap {"STOP", "START"} = {} /\ UNCHANGED <<running, log>>
  /\ chunk' = {}
  /\ hpc' = "cpost"
  /\ UNCHANGED <<semVars, loggerVars, fifoVars, payVars, evs, srcVars>>

HealthWoken ==
  /\ hpc \in {"twait", "cwait"} /\ Woken(Health)
  /\ hpc' = IF hpc = "twait" THEN "check" ELSE "apply"
  /\ UNCHANGED <<loggerVars, fifoVars, payVars, evs, running, chunk, srcVars, log>>

HealthPost ==
  /\ hpc \in {"tpost", "cpost"}
  /\ Post
  /\ hpc' = "dispatch"
  /\ UNCHANGED <<loggerVars, fifoVars, payVars, evs, running, chunk, srcVars, log>>

HealthNext == \/ HealthAccept \/ HealthEpoll \/ HealthDispatch \/ HealthTimer \/ HealthCheck
              \/ HealthLate \/ HealthRecv \/ HealthApply \/ HealthWoken \/ HealthPost

------------------------------------------------------------------------------
(* The environment: producers of the pipe, the payment client, the timer   *)
(* and the health client.                                                  *)

PipeOpen ==        \* the producer's open waits for logger's, and logger's for it
  /\ ~writers /\ opens < MaxOpens
  /\ writers' = TRUE /\ opens' = opens + 1
  /\ UNCHANGED <<semVars, loggerVars, fifo, sent, payVars, healthVars, srcVars, log>>

PipeWrite ==
  /\ writers /\ lpc # "open" /\ sent < MaxMsgs
  /\ sent' = sent + 1 /\ fifo' = Append(fifo, sent + 1)
  /\ UNCHANGED <<semVars, loggerVars, writers, opens, payVars, healthVars, srcVars, log>>

PipeClose ==
  /\ writers /\ lpc # "open"
  /\ writers' = FALSE
  /\ UNCHANGED <<semVars, loggerVars, fifo, opens, sent, payVars, healthVars, srcVars, log>>

PayConnect ==
  /\ payConn = "none"
  /\ payConn' = "open"
  /\ UNCHANGED <<semVars, loggerVars, fifoVars, ppc, slice, pay, stall,
                 healthVars, srcVars, log>>

PayRequest ==
  /\ payConn = "open" /\ pay < MaxPay
  /\ pay' = pay + 1
  /\ UNCHANGED <<semVars, loggerVars, fifoVars, ppc, slice, payConn, stall,
                 healthVars, srcVars, log>>

PayHangup ==
  /\ payConn = "open"
  /\ payConn' = "closed"
  /\ UNCHANGED <<semVars, loggerVars, fifoVars, ppc, slice, pay, stall,
                 healthVars, srcVars, log>>

TimerTick ==
  /\ ticks < MaxTicks
  /\ ticks' = ticks + 1 /\ expired' = TRUE
  /\ UNCHANGED <<semVars, loggerVars, fifoVars, payVars, healthVars,
                 cmds, cmdConn, ncmds, lastCmd, log>>

HealthConnect ==
  /\ cmdConn = "none"
  /\ cmdConn' = "open"
  /\ UNCHANGED <<semVars, loggerVars, fifoVars, payVars, healthVars,
                 expired, ticks, cmds, ncmds, lastCmd, log>>

HealthCommand ==
  /\ cmdConn = "open" /\ ncmds < MaxCmds
  /\ \E c \in Cmds : /\ cmds' = Append(cmds, c)
                     /\ lastCmd' = IF c = "OTHER" THEN lastCmd ELSE c
  /\ ncmds' = ncmds + 1
  /\ UNCHANGED <<semVars, loggerVars, fifoVars, payVars, healthVars,
                 expired, ticks, cmdConn, log>>

HealthHangup ==
  /\ cmdConn = "open"
  /\ cmdConn' = "closed"
  /\ UNCHANGED <<semVars, loggerVars, fifoVars, payVars, healthVars,
                 expired, ticks, cmds, ncmds, lastCmd, log>>

EnvNext == \/ PipeOpen \/ PipeWrite \/ PipeClose
           \/ PayConnect \/ PayRequest \/ PayHangup
           \/ TimerTick \/ HealthConnect \/ HealthCommand \/ HealthHangup

Next == LoggerNext \/ PaymentNext \/ HealthNext \/ EnvNext

Spec == Init /\ [][Next]_vars

(* Every process that is runnable on its CPU eventually runs.  Without     *)
(* priority inheritance a woken health competes for the semaphore with a   *)
(* logger that may take it again; the kernel runs the woken deadline task  *)
(* first, which is what strong fairness of HealthWoken stands for.         *)
Fairness == /\ WF_vars(LoggerNext) /\ WF_vars(PaymentNext) /\ WF_vars(HealthNext)
            /\ IF PI THEN TRUE ELSE SF_vars(HealthWoken)

FairSpec == Spec /\ Fairness
------------------------------------------------------------------------------
(* Properties *)

\* logger and health are never inside the section of the semaphore together
\* (logger.c:43-55, health.c:84-94 and 101-111).
MutualExclusion == ~(InLogger /\ InHealth)

\* The semaphore is free exactly when nobody is inside: no path through the
\* two programs posts twice or forgets to post.
SemMatchesHolder == sem = 0 <=> InLogger \/ InHealth

\* The messages in the log, each at its line and its place in the line.
Logged == UNION {{i} \X DOMAIN log[i].what.body : i \in DOMAIN log}
Message(s) == log[s[1]].what.body[s[2]]
Before(r, s) == r[1] < s[1] \/ (r[1] = s[1] /\ r[2] < s[2])

\* What was written to the pipe is what is in the log, then in logger's buffer, then in
\* the pipe: the log has the first messages, each of them once and in their order, buffer
\* and pipe have the others.  Nothing is lost, repeated or reordered on the way from a
\* producer to /tmp/shared_log (logger.c:44-52).
LogFaithful ==
  LET rest == lbuf \o fifo
      done == sent - Len(rest)
  IN /\ rest = [i \in 1..Len(rest) |-> done + i]
     /\ {Message(s) : s \in Logged} = 1..done
     /\ \A r, s \in Logged : Before(r, s) => Message(r) < Message(s)

\* health logs a check only after it has logged a start that no stop follows:
\* a tick that was pending when STOP arrived does not check (health.c:81-106).
ChecksOnlyWhileStarted ==
  \A i \in DOMAIN log : log[i].what.kind \in {"CHECK", "LATE"} =>
    \E j \in 1..(i - 1) : /\ log[j].what.kind = "STARTED"
                          /\ \A k \in j..i : log[k].what.kind # "STOPPED"

\* When health has read everything and the last order it was sent is STOP, it
\* is stopped, even if the STOP arrived in one buffer with an earlier START.
StopNotLost ==
  (cmds = <<>> /\ chunk = {} /\ lastCmd = "STOP") => ~running

\* With priority inheritance payment does not run a single iteration of its
\* busy loop while health waits for logger (payment.c:57-63, pi_sem.h:23).
NoInversion == PI => stall = 0

\* poll has said that the pipe is readable, so the read made with the
\* semaphore held does not block (logger.c:41-44).
ReadNeverBlocks == lpc = "read" => PipeReady

\* A health process that waits for the semaphore gets it, whatever payment does.
HealthServed == hpc \in {"twait", "cwait"} ~> hpc \in {"check", "apply"}

\* Every message written to the pipe reaches the log.
MessagesLogged ==
  \A n \in 1..MaxMsgs :
    sent >= n ~> \E i \in DOMAIN log : n \in ToSet(log[i].what.body)

Holder == IF InLogger THEN Logger ELSE IF InHealth THEN Health ELSE "none"

SL == INSTANCE SharedLog WITH None <- "none", Entries <- Lines,
                              holder <- Holder, blocked <- waiting, lines <- log

\* logger and health implement the abstract shared log: one holder at a time, a
\* blocked process gets the section when it is free or handed over by its holder,
\* and only the holder appends a line.
ImplementsSharedLog == SL!Spec

==============================================================================
