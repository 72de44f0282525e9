------------------------------ MODULE EpollServer -----------------------------
(***************************************************************************)
(* The request dispatcher of the priority-inversion exercise               *)
(* (C/epoll_server.c): one loop over the listening socket and the clients. *)
(* A request is a command and a body; a client sends it as one message,    *)
(* but the network may cut and join messages: a read takes what is there.  *)
(***************************************************************************)
EXTENDS Integers, Sequences, SequencesExt

CONSTANTS
  Clients,
  MaxRequests,  \* bound: requests of all clients together
  Room          \* bodies that fit the socket buffer of payment

VARIABLES
  peer,      \* client -> "out", "backlog", "in", "gone"
  wire,      \* client -> bytes sent and not read
  asked,     \* client -> commands it has sent, history
  told,      \* client -> replies it was sent, history
  mixed,     \* clients of which a read was not exactly one request, history
  ready,     \* descriptors of the batch still to be handled
  pc, fd, chunk,
  paying,    \* bodies payment has not read
  payment,   \* payment is alive
  dead       \* what SIGPIPE came from: "", "payment", "client"

vars == <<peer, wire, asked, told, mixed, ready, pc, fd, chunk, paying,
          payment, dead>>

Listen == "listen"
Commands == {"P", "L", "?"}     \* H is handled as L; "?" is any other byte
NoOne == "no one"

Init ==
  /\ peer = [c \in Clients |-> "out"]
  /\ wire = [c \in Clients |-> <<>>] /\ asked = wire /\ told = wire
  /\ mixed = {} /\ ready = {} /\ pc = "wait" /\ fd = NoOne /\ chunk = <<>>
  /\ paying = 0 /\ payment = TRUE /\ dead = ""

------------------------------------------------------------------------------
(* Clients, the network and payment. *)

Outside == <<ready, pc, fd, chunk, dead, told, mixed>>

Connect(c) ==
  /\ peer[c] = "out"
  /\ peer' = [peer EXCEPT ![c] = "backlog"]
  /\ UNCHANGED <<Outside, wire, asked, paying, payment>>

\* The body is the client's own.
Send(c, cmd) ==
  /\ peer[c] \in {"backlog", "in"} /\ SumFunction([d \in Clients |-> Len(asked[d])]) < MaxRequests
  /\ asked' = [asked EXCEPT ![c] = Append(@, cmd)]
  /\ wire' = [wire EXCEPT ![c] = @ \o <<cmd, c>>]
  /\ UNCHANGED <<Outside, peer, paying, payment>>

\* The client closes, perhaps with answers outstanding.
Hangup(c) ==
  /\ peer[c] = "in"
  /\ peer' = [peer EXCEPT ![c] = "gone"]
  /\ UNCHANGED <<Outside, wire, asked, paying, payment>>

PaymentReads ==
  /\ payment /\ paying > 0
  /\ paying' = paying - 1
  /\ UNCHANGED <<Outside, peer, wire, asked, payment>>

PaymentEnds ==
  /\ payment
  /\ payment' = FALSE
  /\ UNCHANGED <<Outside, peer, wire, asked, paying>>

------------------------------------------------------------------------------
(* The server. *)

\* Mutant: the listening socket is registered with EPOLLONESHOT.
ReadableOneShot ==
  (IF /\ \E c \in Clients : peer[c] = "backlog"
      /\ \A c \in Clients : peer[c] \in {"out", "backlog"} THEN {Listen} ELSE {})
  \cup {c \in Clients : \/ peer[c] = "in" /\ wire[c] # <<>>
                        \/ peer[c] = "gone"}

Readable ==
  (IF \E c \in Clients : peer[c] = "backlog" THEN {Listen} ELSE {})
  \cup {c \in Clients : \/ peer[c] = "in" /\ wire[c] # <<>>
                        \/ peer[c] = "gone"}

World == <<wire, asked, payment>>

Wait ==
  /\ pc = "wait" /\ Readable # {}
  /\ ready' = Readable /\ pc' = "batch"
  /\ UNCHANGED <<World, peer, told, mixed, fd, chunk, paying, dead>>

Accept ==
  /\ pc = "batch" /\ Listen \in ready
  /\ \E c \in Clients : peer[c] = "backlog" /\ peer' = [peer EXCEPT ![c] = "in"]
  /\ ready' = ready \ {Listen}
  /\ UNCHANGED <<World, told, mixed, pc, fd, chunk, paying, dead>>

\* End of file, or a reset that takes what was not read with it: the client is forgotten.
ReadEof(c) ==
  /\ pc = "batch" /\ c \in ready /\ peer[c] = "gone"
  /\ peer' = [peer EXCEPT ![c] = "closed"]
  /\ ready' = ready \ {c}
  /\ UNCHANGED <<World, told, mixed, pc, fd, chunk, paying, dead>>

Read(c) ==
  /\ pc = "batch" /\ c \in ready
  /\ \E n \in 1..Len(wire[c]) :
       /\ chunk' = SubSeq(wire[c], 1, n)
       /\ wire' = [wire EXCEPT ![c] = SubSeq(@, n + 1, Len(@))]
  /\ mixed' = IF Len(chunk') = 2 /\ Head(chunk') \in Commands THEN mixed ELSE mixed \cup {c}
  /\ fd' = c /\ ready' = ready \ {c}
  /\ pc' = IF Head(chunk') = "P" THEN "forward" ELSE "reply"
  /\ UNCHANGED <<asked, payment, peer, told, paying, dead>>

BatchEnd ==
  /\ pc = "batch" /\ ready = {}
  /\ pc' = "wait"
  /\ UNCHANGED <<World, peer, told, mixed, ready, fd, chunk, paying, dead>>

\* The line PAYING is logged and the body written, which blocks while the buffer is full;
\* SIGPIPE when payment has ended, even for an empty body.
Forward ==
  /\ pc = "forward"
  /\ IF payment
     THEN /\ Tail(chunk) # <<>> => paying < Room
          /\ paying' = paying + (IF Tail(chunk) = <<>> THEN 0 ELSE 1)
          /\ pc' = "reply" /\ dead' = dead
     ELSE pc' = "dead" /\ dead' = "payment" /\ UNCHANGED paying
  /\ UNCHANGED <<World, peer, told, mixed, ready, fd, chunk>>

\* Mutant: the answer goes to a client that came later.
ReplyOther ==
  /\ pc = "reply"
  /\ \E c \in Clients : peer[c] = "in" /\ told' = [told EXCEPT ![c] = Append(@, Head(chunk))]
  /\ pc' = "batch"
  /\ UNCHANGED <<World, peer, mixed, ready, fd, chunk, paying, dead>>

\* One answer to the first byte of the read.  A client that is gone may have reset the
\* connection.
Reply ==
  /\ pc = "reply"
  /\ \/ /\ told' = [told EXCEPT ![fd] = Append(@, IF Head(chunk) \in Commands THEN Head(chunk)
                                                  ELSE "?")]
        /\ pc' = "batch" /\ dead' = dead
     \/ /\ peer[fd] = "gone"
        /\ told' = told /\ pc' = "dead" /\ dead' = "client"
  /\ UNCHANGED <<World, peer, mixed, ready, fd, chunk, paying>>

Server ==
  \/ Wait \/ Accept \/ BatchEnd \/ Forward \/ Reply
  \/ \E c \in Clients : ReadEof(c) \/ Read(c)

Next ==
  \/ Server \/ PaymentReads \/ PaymentEnds
  \/ \E c \in Clients : Connect(c) \/ Hangup(c) \/ \E cmd \in Commands : Send(c, cmd)

Fairness == WF_vars(Server) /\ WF_vars(PaymentReads)
Spec == Init /\ [][Next]_vars /\ Fairness

------------------------------------------------------------------------------
\* As long as every read of a client is one request, its answers are those to its requests,
\* in their order.
AnswersInOrder == \A c \in Clients \ mixed : IsPrefix(told[c], asked[c])

\* A client whose reads were one request each is answered, unless it went away or a write to
\* a peer that is gone has ended the server.
Answered ==
  \A c \in Clients :
    asked[c] # <<>> ~> \/ c \in mixed \/ peer[c] \in {"gone", "closed"}
                       \/ Len(told[c]) = Len(asked[c])
                       \/ dead # ""
==============================================================================
