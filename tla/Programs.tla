-------------------------------- MODULE Programs ------------------------------
(***************************************************************************)
(* Four programs of the repository that share nothing, one behaviour each: *)
(* which says whose it is, and the others stay as they are at their start. *)
(***************************************************************************)
EXTENDS Integers, Sequences

CONSTANTS W, NLines, MaxLines, MaxAttrs, BufSize, MaxFile, Clients, MaxRequests, Room, LOOP

ASSUME ConstantsAssumption ==
  /\ LOOP \in Nat \ {0, 1}     \* 500000 in the source
  /\ BufSize \in Nat \ {0} /\ MaxFile \in Nat
  /\ W \in Nat \ {0}           \* 2^32 in the source

VARIABLES which,
  given, held, config, parsing, file, at, broken, bufsize, heap, open, refs, call, result, outcome,
  peer, wire, asked, told, mixed, ready, pc, fd, chunk, paying, payment, dead,
  mx, comm, lock, reg, step, i,
  lit, app, phase, rep, digit2, pat, stale, round

pygpioVars ==
  <<given, held, config, parsing, file, at, broken, bufsize, heap, open, refs, call, result, outcome>>
epollVars ==
  <<peer, wire, asked, told, mixed, ready, pc, fd, chunk, paying, payment, dead>>
counterVars == <<mx, comm, lock, reg, step, i>>
displayVars == <<lit, app, phase, rep, digit2, pat, stale, round>>

PyGpio  == INSTANCE PyGpio WITH pc <- parsing
Epoll   == INSTANCE EpollServer
Counter == INSTANCE Counter
Display == INSTANCE Display

vars == <<which, pygpioVars, epollVars, counterVars, displayVars>>

Init ==
  /\ which \in {"pygpio", "epoll", "counter", "display"}
  /\ PyGpio!Init /\ Epoll!Init /\ Counter!Init /\ Display!Init

PyGpioStep ==
  /\ which = "pygpio" /\ PyGpio!Next
  /\ UNCHANGED <<which, epollVars, counterVars, displayVars>>

EpollStep ==
  /\ which = "epoll" /\ Epoll!Next
  /\ UNCHANGED <<which, pygpioVars, counterVars, displayVars>>

CounterStep ==
  /\ which = "counter" /\ Counter!Next
  /\ UNCHANGED <<which, pygpioVars, epollVars, displayVars>>

DisplayStep ==
  /\ which = "display" /\ Display!Next
  /\ UNCHANGED <<which, pygpioVars, epollVars, counterVars>>

Next == PyGpioStep \/ EpollStep \/ CounterStep \/ DisplayStep

Others   == <<pygpioVars, counterVars, displayVars>>
Server   == which = "epoll" /\ Epoll!Server /\ UNCHANGED <<which, Others>>
Payments == which = "epoll" /\ Epoll!PaymentReads /\ UNCHANGED <<which, Others>>

\* The fairness of EpollServer; nothing of the others needs to happen.
Spec == Init /\ [][Next]_vars /\ WF_vars(Server) /\ WF_vars(Payments)

------------------------------------------------------------------------------
\* pygpio.c: the kernel has the lines Python asked for, and Python the whole of a property.
ExactlyAsAsked == PyGpio!ExactlyAsAsked

\* pygpio.c: no path of a parsing call keeps memory, a file or an object.
NothingLeaks == PyGpio!NothingLeaks

\* epoll_server.c: requests that are read one by one are answered in their order.
AnswersInOrder == Epoll!AnswersInOrder

\* epoll_server.c: and each is answered while nobody has gone away.
Answered == Epoll!Answered

\* API/pthread.c: what is left in the counter.
CommCounts == Counter!CommCounts

\* count.c, ledseg.c: what the displays show.
ShowsDigit == Display!ShowsDigit
==============================================================================
