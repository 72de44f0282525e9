--------------------------------- MODULE Blink --------------------------------
(***************************************************************************)
(* The programs that blink LED1 and watch SW1 through the GPIO character   *)
(* device, next to the kernel, the board and a user who presses the switch *)
(* and Ctrl-C at any time:                                                 *)
(*   blink   C/exboard_blink.c                                             *)
(*   epoll   C/exboard_blink_epoll.c                                       *)
(*   py      Python/exboard_blink_epoll_pygpio.py                          *)
(*   event   C/chardev_event.c                                             *)
(*   sample  C/chardev_sample.c                                            *)
(*   list    Python/gpio_map.py, which only prints the table               *)
(***************************************************************************)
EXTENDS ExboardMap

CONSTANT MaxFlips    \* bound: how often the switch moves

VARIABLES
  prog, tree,   \* the program and the device tree; never change
  pc,
  warned,       \* a warning about the table has been printed
  lines,        \* the requested lines: <<>>, or [sw, led]
  out,          \* value last written to the LED line
  led_state, sw, count,
  fifo,         \* line events queued in the kernel
  armed, tick,  \* the timer runs; it has expired since it was read
  ready,        \* events of the epoll batch still to be handled
  handler, stop,
  pressed, flips, sigint,         \* the user
  presses, dropped, failed        \* history: since the request

prgm  == <<pc, warned, lines, out, led_state, sw, count, armed, ready, handler, failed>>
user  == <<pressed, flips, sigint>>
vars  == <<prog, tree, prgm, fifo, tick, stop, user, presses, dropped>>

InC    == {"blink", "epoll"}
Epolls == {"epoll", "py"}
Edges  == {"epoll", "py", "event"}
Buffer == IF prog = "event" THEN 10 ELSE 4      \* event_buffer_size
Ended  == pc \in {"done", "killed"}

Init ==
  /\ prog \in {"blink", "epoll", "py", "event", "sample", "list"}
  /\ tree \in (IF prog \in {"event", "sample"} THEN {Intact} ELSE Trees)
  /\ pc = "load" /\ warned = FALSE /\ lines = <<>> /\ out = FALSE
  /\ led_state = FALSE /\ sw = FALSE /\ count = 0 /\ fifo = 0
  /\ armed = FALSE /\ tick = FALSE /\ ready = {} /\ handler = FALSE /\ stop = FALSE
  /\ pressed = FALSE /\ flips = 0 /\ sigint = FALSE
  /\ presses = 0 /\ dropped = 0 /\ failed = FALSE

\* The value of the switch line as it was requested: another line does not move.
Level(p) == /\ lines # <<>> /\ lines.sw.pin = Wired("sw1").pin
            /\ p = (lines.sw.low = Wired("sw1").low)

Goto(l) == pc' = l
Keep(s) == UNCHANGED <<prog, tree, user, presses, dropped, stop>> /\ UNCHANGED s

------------------------------------------------------------------------------
(* Setting up. *)

Ask(row) == [pin |-> row.pin, low |-> row.low]

Rows(name) ==
  CASE prog \in InC    -> FirstNamed(CTable(tree).rows, name)
    [] prog = "py"     -> LastNamed(PyTable(tree).rows, name)
    [] prog = "list"   -> FirstNamed(ListTable(tree).rows, name)
    [] OTHER           -> {Wired(name)}      \* offsets 2 and 4 are in the program

Load ==
  LET t == CASE prog \in InC  -> CTable(tree)
             [] prog = "py"   -> PyTable(tree)
             [] prog = "list" -> ListTable(tree)
             [] OTHER         -> Table(FALSE, FALSE, <<>>) IN
  /\ pc = "load"
  /\ warned' = (t.warns /\ ~t.fails)
  /\ IF t.fails \/ Rows("sw1") = {} \/ Rows("led1") = {}
     THEN Goto("done") /\ lines' = <<>>
     ELSE \E s \in Rows("sw1"), l \in Rows("led1") :
            /\ lines' = [sw |-> Ask(s), led |-> Ask(l)]
            /\ Goto(IF prog = "list" THEN "done" ELSE "request")
  /\ Keep(<<out, led_state, sw, count, fifo, armed, tick, ready, handler, failed>>)

\* The request fails when another program holds a line.
Request ==
  /\ pc = "request"
  /\ \/ /\ Goto(CASE prog = "blink"  -> "install"
                  [] prog \in Epolls -> "timer"
                  [] prog = "event"  -> "read"
                  [] prog = "sample" -> "get")
        /\ lines' = lines
     \/ Goto("done") /\ lines' = <<>>
  /\ Keep(<<warned, out, led_state, sw, count, fifo, armed, tick, ready, handler, failed>>)

SetTimer ==
  /\ pc = "timer"
  /\ \/ armed' = TRUE /\ Goto("install")
     \/ armed' = FALSE /\ Goto("done")
  /\ Keep(<<warned, lines, out, led_state, sw, count, fifo, tick, ready, handler, failed>>)

Install ==
  /\ pc = "install"
  /\ handler' = TRUE /\ Goto("loop")
  /\ Keep(<<warned, lines, out, led_state, sw, count, fifo, armed, tick, ready, failed>>)

------------------------------------------------------------------------------
(* The loops. *)

Loop ==
  /\ pc = "loop"
  /\ Goto(IF stop THEN "finish" ELSE IF prog = "blink" THEN "toggle" ELSE "wait")
  /\ Keep(<<warned, lines, out, led_state, sw, count, fifo, armed, tick, ready, handler, failed>>)

\* An ioctl that writes a value, or fails and leaves it.
Write(v, then, otherwise) ==
  \/ out' = v /\ Goto(then) /\ failed' = failed
  \/ out' = out /\ Goto(otherwise) /\ failed' = TRUE

Toggle ==
  /\ pc = "toggle"
  /\ led_state' = ~led_state
  /\ Write(led_state', "look", "finish")
  /\ Keep(<<warned, lines, sw, count, fifo, armed, tick, ready, handler>>)

Look ==
  /\ pc = "look"
  /\ \/ sw' = Level(pressed) /\ Goto("sleep") /\ failed' = failed
     \/ sw' = sw /\ Goto("finish") /\ failed' = TRUE
  /\ Keep(<<warned, lines, out, led_state, count, fifo, armed, tick, ready, handler>>)

\* sleep(1) ends, by itself or on the signal.
Sleep ==
  /\ pc = "sleep"
  /\ Goto("loop")
  /\ Keep(<<warned, lines, out, led_state, sw, count, fifo, armed, tick, ready, handler, failed>>)

Wait ==
  /\ pc = "wait" /\ (tick \/ fifo > 0)
  /\ ready' = (IF tick THEN {"timer"} ELSE {}) \cup (IF fifo > 0 THEN {"line"} ELSE {})
  /\ Goto("events")
  /\ Keep(<<warned, lines, out, led_state, sw, count, fifo, armed, tick, handler, failed>>)

\* An error of epoll_wait that is not EINTR leaves the loop; poll of Python raises.
WaitFails ==
  /\ pc = "wait"
  /\ Goto("finish")
  /\ Keep(<<warned, lines, out, led_state, sw, count, fifo, armed, tick, ready, handler, failed>>)

Next1(rest) == IF rest = {} THEN "loop" ELSE "events"

\* After an event was handled; in C a failure is reported, in Python it raises.
After  == Next1(ready')
Raised == IF prog = "py" THEN "finish" ELSE After

TimerEvent ==
  /\ pc = "events" /\ "timer" \in ready
  /\ ready' = ready \ {"timer"}
  /\ \/ tick' = FALSE /\ led_state' = ~led_state /\ Write(led_state', After, Raised)
     \/ UNCHANGED <<tick, led_state, out, failed>> /\ Goto(Raised)
  /\ Keep(<<warned, lines, sw, count, fifo, armed, handler>>)

\* Mutant: one of the events that were read is counted.
LineEventCountsOne ==
  LET n == IF prog = "py" THEN 1 ELSE fifo IN
  /\ pc = "events" /\ "line" \in ready
  /\ ready' = ready \ {"line"}
  /\ \/ count' = count + 1 /\ fifo' = fifo - n /\ Goto(After)
     \/ UNCHANGED <<count, fifo>> /\ Goto(Raised)
  /\ Keep(<<warned, lines, out, led_state, sw, armed, tick, handler, failed>>)

\* C reads up to 8 events, Python one and comes back for the rest.
LineEvent ==
  LET n == IF prog = "py" THEN 1 ELSE fifo IN
  /\ pc = "events" /\ "line" \in ready
  /\ ready' = ready \ {"line"}
  /\ \/ count' = count + n /\ fifo' = fifo - n /\ Goto(After)
     \/ UNCHANGED <<count, fifo>> /\ Goto(Raised)
  /\ Keep(<<warned, lines, out, led_state, sw, armed, tick, handler, failed>>)

\* chardev_event.c
ReadEvent ==
  /\ pc = "read" /\ fifo > 0
  /\ \/ count' = count + 1 /\ fifo' = fifo - 1 /\ Goto("read")
     \/ UNCHANGED <<count, fifo>> /\ Goto("done")
  /\ Keep(<<warned, lines, out, led_state, sw, armed, tick, ready, handler, failed>>)

\* chardev_sample.c: the LED shows the switch, 10 ms behind.
Get ==
  /\ pc = "get"
  /\ \/ sw' = Level(pressed) /\ Goto("set") /\ failed' = failed
     \/ sw' = sw /\ Goto("done") /\ failed' = TRUE
  /\ Keep(<<warned, lines, out, led_state, count, fifo, armed, tick, ready, handler>>)
Set ==
  /\ pc = "set"
  /\ Write(sw, "get", "done")
  /\ Keep(<<warned, lines, led_state, sw, count, fifo, armed, tick, ready, handler>>)

\* Mutant: the LED is left as it is.
FinishAsIs ==
  /\ pc = "finish"
  /\ Write(out, "done", "done")
  /\ Keep(<<warned, lines, led_state, sw, count, fifo, armed, tick, ready, handler>>)

Finish ==
  /\ pc = "finish"
  /\ Write(FALSE, "done", "done")
  /\ Keep(<<warned, lines, led_state, sw, count, fifo, armed, tick, ready, handler>>)

Program ==
  \/ Load \/ Request \/ SetTimer \/ Install
  \/ Loop \/ Toggle \/ Look \/ Sleep
  \/ Wait \/ TimerEvent \/ LineEvent
  \/ ReadEvent \/ Get \/ Set
  \/ Finish

------------------------------------------------------------------------------
(* The kernel and the user. *)

\* Mutant: it_interval is 0.
ExpireOnce ==
  /\ armed /\ ~tick /\ ~Ended
  /\ tick' = TRUE /\ armed' = FALSE
  /\ Keep(<<pc, warned, lines, out, led_state, sw, count, fifo, ready, handler, failed>>)

Expire ==
  /\ armed /\ ~tick /\ ~Ended
  /\ tick' = TRUE
  /\ Keep(<<prgm, fifo>>)

\* A rising edge is queued; when the buffer is full the oldest event goes.
Flip ==
  /\ flips < MaxFlips /\ ~Ended
  /\ flips' = flips + 1 /\ pressed' = ~pressed
  /\ LET asked == pc \notin {"load", "request"}
         edge  == asked /\ prog \in Edges /\ Level(~pressed) /\ ~Level(pressed) IN
       /\ presses' = IF asked /\ ~pressed THEN presses + 1 ELSE presses
       /\ fifo' = IF edge /\ fifo < Buffer THEN fifo + 1 ELSE fifo
       /\ dropped' = IF edge /\ fifo = Buffer THEN dropped + 1 ELSE dropped
  /\ UNCHANGED <<prog, tree, prgm, tick, stop, sigint>>

\* Ctrl-C.  Without the handler it ends the program (in Python with KeyboardInterrupt,
\* outside the try); in epoll_wait the C program gets EINTR, while poll of Python goes on
\* waiting after the handler has run.
Interrupt ==
  /\ ~sigint /\ ~Ended
  /\ sigint' = TRUE
  /\ IF handler
     THEN stop' = TRUE /\ Goto(IF pc = "wait" /\ prog = "epoll" THEN "loop" ELSE pc)
     ELSE stop' = stop /\ Goto("killed")
  /\ UNCHANGED <<prog, tree, warned, lines, out, led_state, sw, count, fifo, armed, tick, ready,
                 handler, failed, pressed, flips, presses, dropped>>

Next == Program \/ WaitFails \/ Expire \/ Flip \/ Interrupt

Spec == Init /\ [][Next]_vars

\* The program is scheduled and the timer goes on; no wait has to fail.
FairSpec == Spec /\ WF_vars(Program) /\ WF_vars(Expire)

------------------------------------------------------------------------------
Asked == lines # <<>>
Right == lines = [sw |-> Cell(Wired("sw1")), led |-> Cell(Wired("led1"))]

\* With one fault in the tree a program that asks for lines (or prints them) without a
\* warning has the right ones, except: the C table reads no more names than there are
\* entries, so it does not see that entries are missing (exboard_map.c:82, :111); and no
\* program sees that a name is given twice, when a dict takes the last (exboard_map.py:57).
RightLines ==
  Asked /\ ~warned => \/ Right
                      \/ prog \in InC /\ Len(NamesOf(tree)) > Len(Entries(tree))
                      \/ ~IsInjective(NamesOf(tree))

\* Every press, and nothing else, is counted, queued, or dropped because the program did not
\* read for more than a buffer of presses; whatever the polarity of the line.
CountsPresses ==
  Asked /\ Right /\ prog \in Edges => /\ count + fifo + dropped = presses
                                      /\ dropped > 0 => presses > Buffer

\* However a program that blinks ends, also by Ctrl-C before or after the handler is there,
\* the LED is off, unless an ioctl failed.
LedOffAtEnd == Ended /\ ~failed /\ prog # "sample" => ~out

\* Ctrl-C ends every program, also when it comes between the test of the flag and the wait:
\* the next tick of the timer wakes the program.
StopsAfterSigint == sigint ~> Ended
==============================================================================
