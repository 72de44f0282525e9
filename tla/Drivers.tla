------------------------------- MODULE Drivers -------------------------------
(***************************************************************************)
(* What each driver of src/modules does when it is loaded and unloaded,    *)
(* and what its callbacks use, as data for DriverLife.  A driver is        *)
(*   load    the steps of its init or probe function, in order             *)
(*   remove  what remove() gives back, in order                            *)
(*   exit    what the exit function of the module gives back               *)
(*   held    whether an open file of it keeps the module loaded            *)
(*   code    for every resource that calls back, what the callback does    *)
(*                                                                         *)
(* Resources are named after what they are: led, sw, disp, seg (GPIO       *)
(* descriptors), irq and mirq (an interrupt requested with request_irq,    *)
(* with devm_request_irq), timer, hrtimer, work, cdev (a number with file  *)
(* operations), attr, proc, sysctl (files), page, region, class, device,   *)
(* table (GPIO look-up), pdev, driver.                                     *)
(***************************************************************************)
EXTENDS Integers, Sequences

Managed == {"led", "sw", "disp", "seg", "mirq"}   \* devm_: given back by the driver core

\* The drivers of backup/ test a descriptor with !desc and get ERR_PTR: their pins are
\* Ignored where those of the others are Must.

\* Steps of load.  A step that must succeed gives "undo" back when it fails.
Step(do, r, undo) == [do |-> do, res |-> r, undo |-> undo]
Must(r)           == Step("must", r, <<>>)
MustOr(r, undo)   == Step("must", r, undo)
Ignored(r)        == Step("ignored", r, <<>>)   \* the result is not looked at
Enough(r)         == Step("enough", r, <<>>)    \* without it, return 0
Bound(r)          == Step("bound", r, <<>>)     \* without it the probe fails, the module stays
Setup(r)          == Step("setup", r, <<>>)     \* cannot fail
Arm(r)            == Step("arm", r, <<>>)
Try(r)            == Step("try", r, <<>>)       \* must succeed, and leaves nothing to give back
Find(r)           == Step("find", r, <<>>)      \* a pointer; not looked at, nothing to give back
Deref(r)          == Step("deref", r, <<>>)     \* dereferences what a call returned

\* Steps of callbacks.
Op(do, r) == [do |-> do, res |-> r]
Use(r)   == Op("use", r)
Add(r)   == Op("add", r)      \* add_timer: r must not be pending
Del(r)   == Op("del", r)      \* del_timer
Start(r) == Op("start", r)    \* schedule or hrtimer_start, unless a flag says it is done
Again(r) == Op("again", r)    \* schedule_work, HRTIMER_RESTART
Check    == Op("check", "input")   \* of what the user has written: an error is returned here

NoCode == <<>>
Probe(load, remove, code) ==
  [load |-> load, remove |-> remove, exit |-> <<>>, held |-> FALSE, code |-> code]
Module(load, exit, held, code) ==
  [load |-> load, remove |-> <<>>, exit |-> exit, held |-> held, code |-> code]

------------------------------------------------------------------------------
(* Character devices. *)

\* Mutant: the failure of device_create forgets the class.
CharDevForgets ==
  Module(<<Must("page"), MustOr("region", <<"page">>),
           MustOr("cdev", <<"region", "page">>),
           MustOr("class", <<"cdev", "region", "page">>),
           MustOr("device", <<"cdev", "region", "page">>)>>,
         <<"device", "class", "cdev", "region", "page">>, TRUE, [cdev |-> <<Use("page")>>])

\* Mutant: the failure of cdev_add goes to fail_class.
CharDevWrongLabel ==
  Module(<<Must("page"), MustOr("region", <<"page">>),
           MustOr("cdev", <<"cdev", "region", "page">>)>>,
         <<"cdev", "region", "page">>, TRUE, [cdev |-> <<Use("page")>>])

CharDevDriver ==
  Module(<<Must("page"), MustOr("region", <<"page">>),
           MustOr("cdev", <<"region", "page">>),
           MustOr("class", <<"cdev", "region", "page">>),
           MustOr("device", <<"class", "cdev", "region", "page">>)>>,
         <<"device", "class", "cdev", "region", "page">>, TRUE, [cdev |-> <<Use("page")>>])

MyCharDev ==
  Module(<<Ignored("region"), Ignored("cdev"), Ignored("class"), Ignored("device")>>,
         <<"device", "class", "cdev", "region">>, TRUE, NoCode)

\* Mutant: the device file adds the timer without taking it down.
ClassAdds ==
  Probe(<<Must("led"), Arm("timer"), Ignored("region"), Ignored("class"), Ignored("device"),
          Ignored("cdev")>>,
        <<"timer", "cdev", "device", "class", "region">>,
        [timer |-> <<Use("led"), Add("timer")>>, cdev |-> <<Add("timer")>>])

ClassWith(led) ==
  Probe(<<led, Arm("timer"), Ignored("region"), Ignored("class"), Ignored("device"),
          Ignored("cdev"), Deref("device"), Ignored("attr")>>,
        <<"timer", "cdev", "attr", "device", "class", "region">>,
        [timer |-> <<Use("led"), Add("timer")>>,
         cdev  |-> <<Del("timer"), Add("timer")>>,
         attr  |-> <<Check, Del("timer"), Add("timer")>>])
Class    == ClassWith(Must("led"))
OldClass == ClassWith(Ignored("led"))

DeviceWith(led) == Probe(<<led, Must("cdev")>>, <<"cdev">>, [cdev |-> <<Use("led")>>])
Device    == DeviceWith(Must("led"))
OldDevice == DeviceWith(Ignored("led"))

\* No owner: the module can go while the file is open.
Mmap ==
  Module(<<Ignored("page"), Deref("page"), Ignored("region"), Ignored("class"),
           Ignored("device"), Ignored("cdev")>>,
         <<"cdev", "device", "class", "region", "page">>, FALSE, [cdev |-> <<Use("page")>>])

Sysctl == Module(<<Ignored("sysctl")>>, <<"sysctl">>, FALSE, NoCode)

------------------------------------------------------------------------------
(* GPIO. *)

Gpio    == Probe(<<Must("led"), Must("sw")>>, <<>>, NoCode)
OldGpio == Probe(<<Ignored("led"), Ignored("sw")>>, <<>>, NoCode)

GpioList ==
  Probe(<<Must("led"), Must("sw"), Must("disp"), Must("seg"),
          Deref("led"), Deref("sw"), Deref("disp"), Deref("seg")>>, <<>>, NoCode)

OldGpioList ==
  Probe(<<Ignored("led"), Ignored("sw"), Ignored("disp"), Ignored("seg"),
          Deref("led"), Deref("sw"), Deref("disp"), Deref("seg")>>, <<>>, NoCode)

GpioMultiWith(disp, seg) ==
  Probe(<<disp, seg, Deref("disp"), Try("set_array"), Deref("seg"), Try("set_array")>>,
        <<>>, NoCode)
GpioMulti    == GpioMultiWith(Must("disp"), Must("seg"))
OldGpioMulti == GpioMultiWith(Ignored("disp"), Ignored("seg"))

\* desc: gpio_to_desc and the chip of it; data: the driver data of its device.
Gpio2Pin ==
  Module(<<Ignored("ledpin"), Ignored("swpin"), Find("desc"), Deref("desc"), Find("data"),
           Ignored("pinctrl"), Deref("data")>>,
         <<"ledpin", "swpin">>, FALSE, NoCode)

------------------------------------------------------------------------------
(* Timers and work. *)

TimerWith(led) ==
  Probe(<<led, Arm("timer")>>, <<"timer">>, [timer |-> <<Use("led"), Add("timer")>>])
TimerDriver == TimerWith(Must("led"))
OldTimer    == TimerWith(Ignored("led"))

HrTimerWith(led) ==
  Probe(<<led, Arm("hrtimer")>>, <<"hrtimer">>, [hrtimer |-> <<Use("led"), Again("hrtimer")>>])
HrTimer    == HrTimerWith(Must("led"))
OldHrTimer == HrTimerWith(Ignored("led"))

\* cleanup_module frees the pins first.
Wq ==
  Module(<<Ignored("ledpin"), Ignored("swpin"), Setup("work"), Arm("work")>>,
         <<"ledpin", "swpin", "work">>, FALSE,
         [work |-> <<Use("swpin"), Use("ledpin"), Again("work")>>])

------------------------------------------------------------------------------
(* The switch drivers.  gpiod_to_irq and request_irq are one step. *)

Direct == [irq |-> <<Use("led")>>]

\* Mutant: the interrupt is requested before the LED is there.
HgpioEarly == Probe(<<Must("sw"), Ignored("irq"), Must("led")>>, <<"irq">>, Direct)

HgpioWith(led, sw) == Probe(<<led, sw, Ignored("irq")>>, <<"irq">>, Direct)
Hgpio    == HgpioWith(Must("led"), Must("sw"))
OldHgpio == HgpioWith(Ignored("led"), Ignored("sw"))

HgpioWqWith(led, sw) ==
  Probe(<<led, sw, Ignored("irq")>>, <<>>,
        [irq |-> <<Start("work")>>, work |-> <<Use("led")>>])
HgpioWq    == HgpioWqWith(Must("led"), Must("sw"))
OldHgpioWq == HgpioWqWith(Ignored("led"), Ignored("sw"))

HgpioTimerWith(led, sw) ==
  Probe(<<led, sw, Setup("timer"), Ignored("irq")>>, <<"timer">>,
        [irq |-> <<Start("timer")>>, timer |-> <<Use("sw"), Use("led")>>])
HgpioTimer    == HgpioTimerWith(Must("led"), Must("sw"))
OldHgpioTimer == HgpioTimerWith(Ignored("led"), Ignored("sw"))

H2gpioWith(led, sw) ==
  Probe(<<led, Setup("hrtimer"), sw, Ignored("irq")>>, <<"irq">>,
        [irq |-> <<Start("hrtimer")>>, hrtimer |-> <<Use("sw"), Use("led")>>])
H2gpio    == H2gpioWith(Must("led"), Must("sw"))
OldH2gpio == H2gpioWith(Ignored("led"), Ignored("sw"))

HgpioDebounce ==
  Probe(<<Must("led"), Must("sw"), Must("irq")>>, <<"irq">>, [irq |-> <<Use("sw"), Use("led")>>])

HgpioProc ==
  Probe(<<Ignored("proc"), Ignored("led"), Ignored("sw"), Ignored("irq")>>, <<"proc">>, Direct)

HgpioSysctl ==
  Probe(<<Ignored("sysctl"), Ignored("led"), Ignored("sw"), Ignored("irq")>>, <<"sysctl">>,
        [irq |-> <<Use("led")>>, sysctl |-> <<Use("led")>>])

\* The gpio-sim drivers make their own device; registering the driver runs the probe,
\* which starts with the look-up table.
Sim(load, code) ==
  [load |-> load, remove |-> <<"table">>, exit |-> <<"driver", "pdev">>, held |-> FALSE,
   code |-> code]

SimDemo ==
  Sim(<<Must("pdev"), MustOr("driver", <<"pdev">>), Setup("table"),
        Enough("sw"), Enough("led")>>, NoCode)

SimInt ==
  Sim(<<Must("pdev"), MustOr("driver", <<"pdev">>), Setup("table"),
        Enough("sw"), Enough("led"), Bound("mirq")>>, [mirq |-> <<Use("led"), Use("sw")>>])

SimDebounce ==
  Sim(<<Must("pdev"), MustOr("driver", <<"pdev">>), Setup("table"),
        Enough("sw"), Enough("led"), Bound("mirq"), Setup("work")>>,
      [mirq |-> <<Use("sw"), Use("work"), Start("work")>>, work |-> <<Use("sw"), Use("led")>>])

------------------------------------------------------------------------------
Table ==
  [chardev |-> CharDevDriver, mychardev |-> MyCharDev, class |-> Class, device |-> Device,
   gpio |-> Gpio, gpio_list |-> GpioList, gpio_multi |-> GpioMulti, timer |-> TimerDriver,
   hrtimer |-> HrTimer, hgpio |-> Hgpio, hgpio_wq |-> HgpioWq, hgpio_timer |-> HgpioTimer,
   h2gpio |-> H2gpio, hgpio_debounce |-> HgpioDebounce, sim_demo |-> SimDemo,
   sim_int |-> SimInt, sim_debounce |-> SimDebounce,
   old_class |-> OldClass, old_device |-> OldDevice, mmap |-> Mmap, sysctl |-> Sysctl,
   old_gpio |-> OldGpio, old_gpio_list |-> OldGpioList, old_gpio_multi |-> OldGpioMulti,
   gpio2pin |-> Gpio2Pin, old_timer |-> OldTimer, old_hrtimer |-> OldHrTimer, wq |-> Wq,
   old_hgpio |-> OldHgpio, old_hgpio_wq |-> OldHgpioWq, old_hgpio_timer |-> OldHgpioTimer,
   old_h2gpio |-> OldH2gpio, hgpio_proc |-> HgpioProc, hgpio_sysctl |-> HgpioSysctl]

\* backup/: written for a kernel in which a missing descriptor was NULL.
Old == {"old_class", "old_device", "mmap", "sysctl", "old_gpio", "old_gpio_list",
        "old_gpio_multi", "gpio2pin", "old_timer", "old_hrtimer", "wq", "old_hgpio",
        "old_hgpio_wq", "old_hgpio_timer", "old_h2gpio", "hgpio_proc", "hgpio_sysctl"}
==============================================================================
