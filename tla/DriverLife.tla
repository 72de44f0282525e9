----------------------------- MODULE DriverLife ------------------------------
(***************************************************************************)
(* Loading, running and unloading one driver of src/modules, every call    *)
(* that can fail failing at any point, its callbacks running on other CPUs *)
(* meanwhile.  Drivers describes what each of them does; this module is    *)
(* the kernel around it.  One load and unload, one open file.              *)
(***************************************************************************)
EXTENDS Drivers

VARIABLES
  drv,       \* which driver; never changes
  phase,     \* "load", "fail", "up", "unload", "off", "oops"
  at,        \* next step of the load
  held,      \* resources held
  lost,      \* resources whose failure the driver did not look at
  plan,      \* resources still to be given back; "devres": those that are managed
  bound,     \* the probe did not fail
  cb,        \* callback -> the step it is at, 0 when it does not run
  pending,   \* timers that are armed and work that is queued
  misused,   \* history: <<callback, resource>> used when not held
  freed,     \* history: resources given back that were not held
  raced,     \* history: del_timer ran beside the handler
  overlap,   \* history: two callbacks were between their del_timer and add_timer
  twice      \* history: add_timer of a pending timer

calls  == <<cb, pending, misused, overlap, twice>>
loader == <<phase, at, held, lost, plan, bound, freed, raced>>
vars   == <<drv, loader, calls>>

D == Table[drv]
Callbacks == DOMAIN D.code

Init ==
  /\ drv \in DOMAIN Table
  /\ phase = "load" /\ at = 1 /\ held = {} /\ lost = {} /\ plan = <<>> /\ bound = TRUE
  /\ cb = [r \in Callbacks |-> 0] /\ pending = {}
  /\ misused = {} /\ freed = {} /\ raced = FALSE /\ overlap = FALSE /\ twice = FALSE

Holds(r) == r \in held

\* The driver core gives back what it manages, what was got last first.
Devres == held \cap Managed
Position(r) == CHOOSE i \in DOMAIN D.load : D.load[i].res = r /\ D.load[i].do # "deref"
Latest == CHOOSE r \in Devres : \A q \in Devres : Position(q) <= Position(r)

------------------------------------------------------------------------------
(* Loading. *)

\* What a call needs in order to succeed.
Needs(r) == CASE r \in {"irq", "mirq"} -> {"sw"}
              [] r = "device"          -> {"class"}
              [] r = "cdev"            -> {"region"}
              [] OTHER                 -> {}

Loading(kinds) == phase = "load" /\ at <= Len(D.load) /\ D.load[at].do \in kinds
Goes == at' = at + 1 /\ UNCHANGED <<drv, plan, bound, freed, raced, misused, overlap, twice>>

Acquire ==
  /\ Loading({"must", "ignored", "enough", "bound", "setup", "try", "find"})
  /\ Needs(D.load[at].res) \cap lost = {}
  /\ held' = IF Loading({"try", "find"}) THEN held ELSE held \cup {D.load[at].res}
  /\ Goes
  /\ UNCHANGED <<phase, lost, cb, pending>>

\* add_timer, hrtimer_start, schedule_work
ArmIt ==
  /\ Loading({"arm"})
  /\ pending' = pending \cup {D.load[at].res}
  /\ Goes
  /\ UNCHANGED <<phase, held, lost, cb>>

\* An ERR_PTR or NULL is dereferenced.
Follow ==
  /\ Loading({"deref"})
  /\ phase' = IF D.load[at].res \in lost THEN "oops" ELSE "load"
  /\ Goes
  /\ UNCHANGED <<held, lost, cb, pending>>

Overlook ==
  /\ Loading({"ignored", "find"})
  /\ lost' = lost \cup {D.load[at].res}
  /\ Goes
  /\ UNCHANGED <<phase, held, cb, pending>>

\* The driver gives back what it lists, then the driver core what it manages.
Fail ==
  /\ Loading({"must", "bound", "try"})
  /\ plan' = D.load[at].undo \o <<"devres">>
  /\ bound' = (D.load[at].do # "bound")
  /\ phase' = "fail"
  /\ UNCHANGED <<drv, at, held, lost, freed, raced, calls>>

Loaded ==
  /\ phase = "load" /\ (at > Len(D.load) \/ Loading({"enough"}))
  /\ phase' = "up"
  /\ UNCHANGED <<drv, at, held, lost, plan, bound, freed, raced, calls>>

------------------------------------------------------------------------------
(* Unloading. *)

\* A module stays while its file is open; a platform driver can be unbound any time.
Unload ==
  /\ phase = "up"
  /\ D.held => \A r \in Callbacks : cb[r] = 0
  /\ plan' = (IF bound THEN D.remove \o <<"devres">> ELSE <<>>) \o D.exit
  /\ phase' = "unload"
  /\ UNCHANGED <<drv, at, held, lost, bound, freed, raced, calls>>

\* del_timer, cdev_del and unregister_chrdev do not wait for a running callback.
Waits(r) == r \notin {"timer", "cdev"}
Quiet(r) == r \in Callbacks => cb[r] = 0

\* What is given back next.
Releasing(r) ==
  /\ plan # <<>>
  /\ IF Head(plan) = "devres" THEN Devres # {} /\ r = Latest ELSE r = Head(plan)

\* A timer may be cancelled that was never armed.
GiveBack(r) ==
  /\ Waits(r) => Quiet(r)
  /\ held' = held \ {r}
  /\ pending' = pending \ {r}
  /\ raced' = (raced \/ (r = "timer" /\ ~Quiet(r)))
  /\ freed' = IF Holds(r) \/ r \in {"timer", "hrtimer"} THEN freed ELSE freed \cup {r}

Release ==
  /\ plan # <<>>
  /\ \/ Head(plan) # "devres" /\ GiveBack(Head(plan)) /\ plan' = Tail(plan)
     \/ Head(plan) = "devres" /\ Devres # {} /\ GiveBack(Latest) /\ plan' = plan
     \/ /\ Head(plan) = "devres" /\ Devres = {} /\ plan' = Tail(plan)
        /\ UNCHANGED <<held, pending, raced, freed>>
  /\ UNCHANGED <<drv, phase, at, lost, bound, cb, misused, overlap, twice>>

\* A failed probe of a gpio-sim driver leaves its module loaded.
Released ==
  /\ phase \in {"fail", "unload"} /\ plan = <<>>
  /\ phase' = IF phase = "fail" /\ ~bound THEN "up" ELSE "off"
  /\ UNCHANGED <<drv, at, held, lost, plan, bound, freed, raced, calls>>

------------------------------------------------------------------------------
(* Callbacks. *)

Deferred == {"timer", "hrtimer", "work"}

Triggered(r) ==
  CASE r \in Deferred -> r \in pending
    [] r = "cdev"     -> /\ Holds("cdev") /\ (Holds("device") \/ phase = "up")
                         /\ D.held => phase # "unload"
    [] OTHER          -> Holds(r)

\* The handler starts, or the file is opened (not of a module that is going).  A waiting
\* release lets no new call in, but hrtimer_cancel tries again until the handler is idle.
Fire(r) ==
  /\ phase # "oops" /\ cb[r] = 0 /\ Triggered(r)
  /\ Releasing(r) => ~Waits(r) \/ r = "hrtimer"
  /\ cb' = [cb EXCEPT ![r] = 1]
  /\ pending' = IF r \in Deferred THEN pending \ {r} ELSE pending
  /\ UNCHANGED <<drv, loader, misused, overlap, twice>>

\* Between taking the timer down and adding it.
Window(r, n) == n > 0 /\ (r = "timer" \/ D.code[r][n] = Add("timer"))

\* One statement of the callback of r; a check may end it, and an open file may be used again.
Run(r) ==
  LET op == D.code[r][cb[r]]
      x  == op.res
      next == IF op.do = "check" THEN {0, cb[r] + 1}
              ELSE IF cb[r] < Len(D.code[r]) THEN {cb[r] + 1}
              ELSE IF r = "cdev" THEN {0, 1} ELSE {0} IN
  /\ phase # "oops" /\ cb[r] > 0
  /\ \E n \in next : cb' = [cb EXCEPT ![r] = n]
  /\ CASE op.do \in {"use", "check"} -> pending' = pending
       [] op.do = "add"   -> pending' = pending \cup {x}
       [] op.do = "del"   -> pending' = pending \ {x}
       [] op.do = "start" -> pending' \in {pending, pending \cup {x}}
       [] op.do = "again" -> pending' = IF Releasing("work") THEN pending ELSE pending \cup {x}
  /\ misused' = IF op.do = "use" /\ ~Holds(x) /\ x \notin lost
                THEN misused \cup {<<r, x>>} ELSE misused
  /\ twice' = (twice \/ (op.do = "add" /\ x \in pending))
  /\ overlap' = (overlap \/ \E q \in Callbacks \ {r} :
                   Window(q, cb[q]) /\ (Window(r, cb[r]) \/ Window(r, cb'[r])))
  /\ UNCHANGED <<drv, loader>>

Loader == Acquire \/ ArmIt \/ Follow \/ Overlook \/ Fail \/ Loaded \/ Release \/ Released
Call(r) == Fire(r) \/ Run(r)

Next == Loader \/ Unload \/ \E r \in Callbacks : Call(r)

Spec == Init /\ [][Next]_vars

------------------------------------------------------------------------------
Left == (held \ Deferred) \cup pending \cup {r \in Callbacks : cb[r] > 0}

\* What the code leaves behind: hgpio_wq.c:67, hgpio_timer.c:75 and the drivers with
\* files in /proc do not free the interrupt; h2gpio.c:77 and gpio-sim-debounce.c:110 do
\* not stop what the interrupt has started; a failed probe leaves the look-up table
\* (gpio-sim-int.c:57); del_timer does not stop a handler that is running; an open
\* file of an unbound driver still works, and re-adds the timer (class.c:57).
LeftBehind ==
  CASE drv \in {"hgpio_wq", "old_hgpio_wq"}       -> {"irq", "work"}
    [] drv \in {"hgpio_timer", "old_hgpio_timer"} -> {"irq", "timer"}
    [] drv \in {"hgpio_proc", "hgpio_sysctl"}     -> {"irq"}
    [] drv \in {"h2gpio", "old_h2gpio"}           -> {"hrtimer"}
    [] drv = "sim_debounce"                       -> IF bound THEN {"work"} ELSE {"work", "table"}
    [] drv = "sim_int"                            -> IF bound THEN {} ELSE {"table"}
    [] drv \in {"timer", "old_timer"}             -> IF raced THEN {"timer"} ELSE {}
    [] drv \in {"class", "old_class"}             -> {"cdev", "timer"}
    [] drv \in {"device", "old_device", "mmap"}   -> {"cdev"}
    [] drv = "gpio2pin"                           -> {"pinctrl"}
    [] OTHER                                      -> {}

\* Wherever the load fails and however the callbacks fall, a driver that is gone holds
\* nothing, has nothing armed and runs nothing, but for what LeftBehind names.
NothingLeft == phase = "off" => Left \subseteq LeftBehind

\* A callback uses only what the driver holds; the exceptions are what is left behind,
\* work that backup/wq.c:45 stops after it has freed the pins, work that is queued before
\* it is initialised (gpio-sim-debounce.c:94) and a sysctl written before the probe has
\* the LED (backup/hgpio_sysctl.c:76).  A descriptor the driver did not look at is not
\* counted: gpiod_ calls take an error pointer.  A pointer that a failed call returned is
\* dereferenced by none but those of backup/ and class.c, which does not look at
\* device_create (:91-94).
UsesWhatItHolds ==
  /\ \A m \in misused : \/ m[1] \in LeftBehind
                        \/ drv = "wq" /\ m[1] = "work"
                        \/ m = <<"mirq", "work">>
                        \/ m = <<"sysctl", "led">>
  /\ phase = "oops" => drv \in Old \cup {"class"}

\* What a driver gives back on removal although it did not look at whether it got it:
\* request_irq (hgpio.c:43-47 and :56, h2gpio.c:67-71 and :80), the calls of mychardev.c
\* (:61-73 and :79-82) and of class.c (:89-94 and :102-106), and those of backup/.
Unlooked(v) ==
  CASE v \in {"hgpio", "old_hgpio", "h2gpio", "old_h2gpio"} -> {"irq"}
    [] v = "mychardev"                  -> {"region", "cdev", "class", "device"}
    [] v \in {"class", "old_class"}     -> {"region", "class", "device", "cdev", "attr"}
    [] v = "mmap"                       -> {"page", "region", "class", "device", "cdev"}
    [] v \in {"wq", "gpio2pin"}         -> {"ledpin", "swpin"}
    [] v \in {"sysctl", "hgpio_sysctl"} -> {"sysctl"}
    [] v = "hgpio_proc"                 -> {"proc"}
    [] OTHER                            -> {}

\* Whatever fails, nothing that was got is given back twice: the labels of chardev.c:192-199
\* and the exit functions undo each step once.  What was never got is given back only by
\* the drivers that do not look, and only what they did not look at.
ReleasesOnlyHeld == freed \subseteq lost \cap Unlooked(drv)

\* add_timer is called for a pending timer (a BUG of the kernel) only when two of the
\* handler, the device file and the attribute of class.c overlap: one after the other they
\* are safe, and timer.c always is.
AddedOnce == twice => overlap /\ drv \in {"class", "old_class"}
==============================================================================
