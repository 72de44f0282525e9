------------------------------ MODULE SwitchLed ------------------------------
(***************************************************************************)
(* The drivers of src/modules that toggle the LED when the switch is       *)
(* pressed.  They differ in where the work is done:                        *)
(*   direct   hgpio.c                in the interrupt handler              *)
(*   wq       hgpio_wq.c             in a work item, guarded by wqreq      *)
(*   timer    hgpio_timer.c          in a timer 50 ms later, guarded       *)
(*   hrt      h2gpio.c               in an hrtimer 20 ms later, guarded    *)
(*   bottom   gpio-sim-int.c         in the interrupt thread               *)
(*   thread   hgpio_debounce.c       in a thread that waits for the release*)
(*   delayed  gpio-sim-debounce.c    in delayed work queued by the thread  *)
(*                                                                         *)
(* Interrupt handlers, deferred bodies, the finger on the switch and the   *)
(* removal of the driver run on different CPUs.  A driver starts probed;   *)
(* a press is the logical value 1 of the switch.                           *)
(***************************************************************************)
EXTENDS Integers

CONSTANT MaxEdges   \* bound: presses, bounces included

ASSUME SwitchLedAssumption == MaxEdges \in Nat

Drivers == {"direct", "wq", "timer", "hrt", "bottom", "thread", "delayed"}

VARIABLES
  drv,        \* which driver is loaded; never changes
  mod,        \* "loaded", "removed"
  irqOn,      \* the interrupt is requested
  pressed,    \* the switch
  edges,      \* presses so far
  latched,    \* an edge the handler has not been run for
  ipc,        \* interrupt: "idle", "arm" (between two statements), "thread", "sleep"
  flag,       \* wqreq, flag
  queued,     \* the work is queued, the timer pending
  bpc,        \* deferred body: "idle", or the statement it is at
  prev,       \* prev_sw
  ledlevel,   \* what the driver takes the LED to be (ledvalue in the gpio-sim drivers)
  led,        \* the LED
  writes,     \* history: how often the driver has set the LED for the switch
  seen,       \* history: since the last press the LED was "no"t set, set to the "same", "changed"
  overtaken   \* history: the work started before its interrupt had set wqreq

swVars   == <<pressed, edges, latched>>
bodyVars == <<queued, bpc>>
lampVars == <<ledlevel, led, writes>>
ledVars  == <<lampVars, seen>>
modVars  == <<drv, mod, irqOn>>
vars == <<modVars, swVars, ipc, flag, bodyVars, prev, ledVars, overtaken>>

TypeOK ==
  /\ drv \in Drivers /\ mod \in {"loaded", "removed"} /\ irqOn \in BOOLEAN
  /\ pressed \in BOOLEAN /\ edges \in 0..MaxEdges /\ latched \in BOOLEAN
  /\ ipc \in {"idle", "arm", "thread", "sleep"} /\ flag \in 0..1
  /\ queued \in BOOLEAN /\ bpc \in {"idle", "clear", "check"}
  /\ prev \in 0..1
  /\ ledlevel \in 0..1 /\ led \in 0..1 /\ writes \in Nat
  /\ seen \in {"no", "same", "changed"} /\ overtaken \in BOOLEAN

\* What ledlevel is when the driver is loaded.  The gpio-sim drivers take it from the
\* module parameter ledvalue, 0 or 1 here.
StartLevel(d) ==
  CASE d \in {"direct", "wq", "timer"} -> {1}
    [] d \in {"hrt", "thread"}         -> {0}
    [] d \in {"bottom", "delayed"}     -> {0, 1}

\* The LED is requested as GPIOD_OUT_LOW; the gpio-sim drivers then set it to ledvalue.
Init ==
  /\ drv \in Drivers /\ mod = "loaded" /\ irqOn = TRUE
  /\ pressed = FALSE /\ edges = 0 /\ latched = FALSE
  /\ ipc = "idle" /\ flag = 0
  /\ queued = FALSE /\ bpc = "idle"
  /\ prev = 0
  /\ ledlevel \in StartLevel(drv)
  /\ led = IF drv \in {"bottom", "delayed"} THEN ledlevel ELSE 0
  /\ writes = 0 /\ seen = "changed" /\ overtaken = FALSE

\* gpiod_set_value of the LED.
SetLed(level) ==
  /\ led' = level
  /\ writes' = writes + 1
  /\ seen' = IF level # led THEN "changed" ELSE IF seen = "no" THEN "same" ELSE seen

\* ledlevel is turned over and set.
Toggle == ledlevel' = 1 - ledlevel /\ SetLed(1 - ledlevel)

------------------------------------------------------------------------------
(* The switch.  An edge is latched while its handler runs or is masked; the  *)
(* thread driver is level-triggered and needs no latch.                      *)

Press ==
  /\ ~pressed /\ edges < MaxEdges
  /\ pressed' = TRUE /\ edges' = edges + 1
  /\ latched' = (latched \/ (irqOn /\ drv # "thread"))
  /\ seen' = "no"
  /\ UNCHANGED <<modVars, ipc, flag, bodyVars, prev, lampVars, overtaken>>

Release ==
  /\ pressed
  /\ pressed' = FALSE
  /\ UNCHANGED <<modVars, edges, latched, ipc, flag, bodyVars, prev, ledVars, overtaken>>

\* The interrupt controller runs the handler of d for a latched edge.
Edge(d) == drv = d /\ irqOn /\ latched /\ ipc = "idle" /\ latched' = FALSE

------------------------------------------------------------------------------
(* hgpio.c *)

DirectIrq ==
  /\ Edge("direct")
  /\ Toggle
  /\ UNCHANGED <<modVars, pressed, edges, ipc, flag, bodyVars, prev, overtaken>>

------------------------------------------------------------------------------
(* hgpio_wq.c *)

\* Mutant: the edge sets wqreq and schedules nothing.
WqIrqForgets ==
  /\ Edge("wq")
  /\ ipc' = IF flag = 0 THEN "arm" ELSE ipc
  /\ UNCHANGED <<modVars, pressed, edges, flag, bodyVars, prev, ledVars, overtaken>>

\* if(!wqreq) schedule_work ...
WqIrq ==
  /\ Edge("wq")
  /\ IF flag = 0 THEN queued' = TRUE /\ ipc' = "arm" ELSE UNCHANGED <<queued, ipc>>
  /\ UNCHANGED <<modVars, pressed, edges, flag, bpc, prev, ledVars, overtaken>>

\* ... wqreq++
WqIrqEnd ==
  /\ drv = "wq" /\ ipc = "arm"
  /\ flag' = flag + 1
  /\ ipc' = "idle"
  /\ UNCHANGED <<modVars, swVars, bodyVars, prev, ledVars, overtaken>>

\* work_hgpio sets the LED first and turns ledlevel over then.
WqBody ==
  /\ drv = "wq" /\ queued /\ bpc = "idle"
  /\ queued' = FALSE /\ bpc' = "clear"
  /\ SetLed(ledlevel) /\ ledlevel' = 1 - ledlevel
  /\ overtaken' = (overtaken \/ ipc = "arm")
  /\ UNCHANGED <<modVars, swVars, ipc, flag, prev>>

WqClear ==
  /\ drv = "wq" /\ bpc = "clear"
  /\ flag' = 0 /\ bpc' = "idle"
  /\ UNCHANGED <<modVars, swVars, ipc, queued, prev, ledVars, overtaken>>

------------------------------------------------------------------------------
(* hgpio_timer.c and h2gpio.c *)

\* Mutant: wqreq is not looked at.
TimerIrqAlways ==
  /\ Edge("timer")
  /\ flag' = 1 /\ ipc' = "arm"
  /\ UNCHANGED <<modVars, pressed, edges, bodyVars, prev, ledVars, overtaken>>

TimerIrq ==
  /\ Edge("timer")
  /\ IF flag = 0 THEN flag' = 1 /\ ipc' = "arm" ELSE UNCHANGED <<flag, ipc>>
  /\ UNCHANGED <<modVars, pressed, edges, bodyVars, prev, ledVars, overtaken>>

\* add_timer, of a timer that must not be pending.
AddTimer ==
  /\ drv = "timer" /\ ipc = "arm"
  /\ queued' = TRUE /\ ipc' = "idle"
  /\ UNCHANGED <<modVars, swVars, flag, bpc, prev, ledVars, overtaken>>

\* Mutant: wqreq is not cleared.
TimerBodyKeeps ==
  /\ drv = "timer" /\ queued /\ bpc = "idle"
  /\ queued' = FALSE /\ bpc' = "check"
  /\ UNCHANGED <<modVars, swVars, ipc, flag, prev, ledVars, overtaken>>

\* timer_timeout: wqreq is cleared first, then the switch is looked at.
TimerBody ==
  /\ drv = "timer" /\ queued /\ bpc = "idle"
  /\ queued' = FALSE /\ flag' = 0 /\ bpc' = "check"
  /\ UNCHANGED <<modVars, swVars, ipc, prev, ledVars, overtaken>>

TimerCheck ==
  /\ drv = "timer" /\ bpc = "check"
  /\ IF pressed THEN Toggle ELSE UNCHANGED ledVars
  /\ bpc' = "idle"
  /\ UNCHANGED <<modVars, swVars, ipc, flag, queued, prev, overtaken>>

HrtIrq ==
  /\ Edge("hrt")
  /\ IF flag = 0 THEN flag' = 1 /\ ipc' = "arm" ELSE UNCHANGED <<flag, ipc>>
  /\ UNCHANGED <<modVars, pressed, edges, bodyVars, prev, ledVars, overtaken>>

HrtStart ==
  /\ drv = "hrt" /\ ipc = "arm"
  /\ queued' = TRUE /\ ipc' = "idle"
  /\ UNCHANGED <<modVars, swVars, flag, bpc, prev, ledVars, overtaken>>

HrtBody ==
  /\ drv = "hrt" /\ queued /\ bpc = "idle"
  /\ queued' = FALSE /\ flag' = 0 /\ bpc' = "check"
  /\ UNCHANGED <<modVars, swVars, ipc, prev, ledVars, overtaken>>

\* gpiod_get_value is 0 when the switch is not pressed.
HrtCheck ==
  /\ drv = "hrt" /\ bpc = "check"
  /\ IF ~pressed THEN Toggle ELSE UNCHANGED ledVars
  /\ bpc' = "idle"
  /\ UNCHANGED <<modVars, swVars, ipc, flag, queued, prev, overtaken>>

------------------------------------------------------------------------------
(* hgpio_debounce.c *)

\* Low level, IRQF_ONESHOT: the thread is woken and the line masked until it returns.
ThreadWake ==
  /\ drv = "thread" /\ irqOn /\ pressed /\ ipc = "idle"
  /\ ipc' = "thread"
  /\ UNCHANGED <<modVars, swVars, flag, bodyVars, prev, ledVars, overtaken>>

\* cur_sw == 1 && !prev_sw
Look == IF pressed /\ prev = 0 THEN prev' = 1 /\ Toggle ELSE UNCHANGED <<prev, ledVars>>

ThreadLook ==
  /\ drv = "thread" /\ ipc = "thread"
  /\ Look
  /\ ipc' = "sleep"
  /\ UNCHANGED <<modVars, swVars, flag, bodyVars, overtaken>>

\* Mutant: the loop forgets the press it has toggled for.
ThreadForgets ==
  /\ drv = "thread" /\ ipc = "sleep"
  /\ IF pressed THEN Toggle ELSE UNCHANGED ledVars
  /\ IF pressed THEN UNCHANGED <<prev, ipc>> ELSE prev' = 0 /\ ipc' = "idle"
  /\ UNCHANGED <<modVars, swVars, flag, bodyVars, overtaken>>

\* After each msleep(50): the loop goes on as long as the switch is held.
ThreadLoop ==
  /\ drv = "thread" /\ ipc = "sleep"
  /\ IF pressed THEN Look /\ UNCHANGED ipc
                ELSE prev' = 0 /\ ipc' = "idle" /\ UNCHANGED ledVars
  /\ UNCHANGED <<modVars, swVars, flag, bodyVars, overtaken>>

------------------------------------------------------------------------------
(* gpio-sim-int.c and gpio-sim-debounce.c: irq_sw_hard wakes irq_sw_thread.   *)

BottomIrq ==
  /\ Edge("bottom")
  /\ ipc' = "thread"
  /\ UNCHANGED <<modVars, pressed, edges, flag, bodyVars, prev, ledVars, overtaken>>

BottomThread ==
  /\ drv = "bottom" /\ ipc = "thread"
  /\ Toggle
  /\ ipc' = "idle"
  /\ UNCHANGED <<modVars, swVars, flag, bodyVars, prev, overtaken>>

DelayedIrq ==
  /\ Edge("delayed")
  /\ ipc' = "thread"
  /\ UNCHANGED <<modVars, pressed, edges, flag, bodyVars, prev, ledVars, overtaken>>

\* schedule_delayed_work leaves work that is pending as it is.
DelayedThread ==
  /\ drv = "delayed" /\ ipc = "thread"
  /\ queued' = TRUE /\ ipc' = "idle"
  /\ UNCHANGED <<modVars, swVars, flag, bpc, prev, ledVars, overtaken>>

\* debounce_fn
DelayedBody ==
  /\ drv = "delayed" /\ queued
  /\ queued' = FALSE
  /\ IF pressed THEN Toggle ELSE UNCHANGED ledVars
  /\ UNCHANGED <<modVars, swVars, ipc, flag, bpc, prev, overtaken>>

------------------------------------------------------------------------------
(* my_remove.  free_irq and the release of a managed interrupt wait for the   *)
(* handler and its thread.                                                    *)

FreeIrq == ipc = "idle" /\ irqOn' = FALSE /\ latched' = FALSE

\* Mutant: the interrupt is disabled without waiting for its thread.
RemoveFreesNoWait ==
  /\ mod = "loaded" /\ drv \in {"direct", "hrt", "bottom", "thread", "delayed"}
  /\ irqOn' = FALSE /\ latched' = FALSE
  /\ mod' = "removed"
  /\ UNCHANGED <<drv, pressed, edges, ipc, flag, bodyVars, prev, ledVars, overtaken>>

\* hgpio.c, h2gpio.c, hgpio_debounce.c, and by devm gpio-sim-int.c and -debounce.c.
RemoveFrees ==
  /\ mod = "loaded" /\ drv \in {"direct", "hrt", "bottom", "thread", "delayed"}
  /\ FreeIrq
  /\ mod' = "removed"
  /\ UNCHANGED <<drv, pressed, edges, ipc, flag, bodyVars, prev, ledVars, overtaken>>

\* hgpio_wq.c: nothing but a message.
RemoveWq ==
  /\ mod = "loaded" /\ drv = "wq"
  /\ mod' = "removed"
  /\ UNCHANGED <<drv, irqOn, swVars, ipc, flag, bodyVars, prev, ledVars, overtaken>>

\* hgpio_timer.c: del_timer.
RemoveTimer ==
  /\ mod = "loaded" /\ drv = "timer"
  /\ queued' = FALSE
  /\ mod' = "removed"
  /\ UNCHANGED <<drv, irqOn, swVars, ipc, flag, bpc, prev, ledVars, overtaken>>

Remove == RemoveFrees \/ RemoveWq \/ RemoveTimer

Handlers == \/ DirectIrq \/ WqIrq \/ WqIrqEnd
            \/ TimerIrq \/ AddTimer \/ HrtIrq \/ HrtStart
            \/ BottomIrq \/ BottomThread
            \/ ThreadWake \/ ThreadLook \/ ThreadLoop \/ DelayedIrq \/ DelayedThread

Bodies == \/ WqBody \/ WqClear \/ TimerBody \/ TimerCheck \/ HrtBody \/ HrtCheck
          \/ DelayedBody

Next == Press \/ Release \/ Handlers \/ Bodies \/ Remove

Spec == Init /\ [][Next]_vars

\* Handlers run to their end; queued work runs and pending timers expire.
FairSpec == Spec /\ WF_vars(Handlers) /\ WF_vars(Bodies)

------------------------------------------------------------------------------
\* While wqreq (flag) is set the work that will clear it is on its way, so no driver
\* stops listening to its switch for good; in hgpio_wq.c this needs the interrupt
\* to have counted wqreq up before the work starts (hgpio_wq.c:29-32).
FlagHasOwner ==
  mod = "loaded" /\ ~overtaken /\ flag = 1 =>
    queued \/ bpc = "clear" \/ (ipc = "arm" /\ drv # "wq")

\* add_timer is never called on a pending timer, also not by an interrupt that comes
\* after the driver was removed (hgpio_timer.c:35-39).
NoDoubleArm == drv = "timer" /\ ipc = "arm" => ~queued

\* The LED is not set more often than the switch was pressed, however the presses fall
\* between the interrupt, the deferred work and the sleeps.
NoGhostToggle == writes <= edges

\* When the removal of hgpio.c, gpio-sim-int.c and hgpio_debounce.c has returned, none
\* of their code is running or waiting to run.
QuietAfterRemove ==
  mod = "removed" /\ drv \in {"direct", "bottom", "thread"} =>
    ipc = "idle" /\ bpc = "idle" /\ ~queued

\* After the removal of a driver that frees its interrupt no more work is started;
\* what h2gpio.c and gpio-sim-debounce.c have started already still runs.
NothingNewAfterRemove ==
  [][mod = "removed" /\ drv \in {"hrt", "delayed"} =>
       (queued' => queued) /\ (ipc = "idle" => ipc' = "idle")]_vars

\* A switch that is held is noticed: the LED changes after the press, or the debouncing
\* thread counts it to a press it has changed the LED for.  The one exception is the
\* first press of hgpio.c and hgpio_timer.c: ledlevel starts at 1 (hgpio.c:13,
\* hgpio_timer.c:15) beside an LED that is off, so the first time the LED is set it stays
\* off.  hgpio_wq.c may miss a press, and h2gpio.c answers switches that were let go.
HeldIsSeen ==
  pressed /\ mod = "loaded" /\ drv \in {"direct", "timer", "bottom", "thread", "delayed"}
    ~> \/ ~pressed \/ mod = "removed"
       \/ seen = "changed" \/ prev = 1
       \/ seen = "same" /\ writes = 1 /\ drv \in {"direct", "timer"}
==============================================================================
