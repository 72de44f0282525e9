# Specifications of linux-raspberrypi

TLA+ models of the programs and drivers of the embedded-Linux course in this
repository, with TLC runs and TLAPS proofs. The repository holds about 160
files; most are short exercises. The specifications are about the parts where
processes, threads, interrupts or crashes meet.

## The system

| part | where | state | operations | what is hard |
|---|---|---|---|---|
| logger, payment, health | `C/logger.c`, `payment.c`, `health.c`, `pi_sem.h`, `run_poll.sh` | a semaphore, a FIFO, two sockets, a timerfd, the shared log | three endless loops with different scheduling classes | priority inversion, stale poll results, order of events, starvation |
| opening the semaphore | the same and `kill_poll.sh` | the name, the object behind it, a handle per process | unlink, create or open, retry, kill | start order, objects of earlier runs, initialisation in steps |
| request dispatcher | `C/epoll_server.c` | client connections, a batch of events | accept, read, forward, acknowledge | dead payment, blocking writes, requests in pieces, clients that hang up |
| System V lock | `C/shm.c` | semaphore, undo adjustments, segment | create, lock, write, unlock, die | SETVAL by every process, death of the holder |
| character device | `modules/chardev.c` (`mychardev.c` without a mutex) | one page, its length, a mutex, file positions | read, write, llseek, mmap, load, unload | stale positions, short copies, early returns |
| switch drivers | `modules/hgpio*.c`, `h2gpio.c`, `gpio-sim-int.c`, `gpio-sim-debounce.c` | LED level, a pending flag, a work item or timer | interrupt, work, timer, thread, remove | bouncing presses, interrupt against work, removal with work pending |
| LED drivers | `modules/hrtimer.c`, `timer.c`, `class*.c`, `gpio-sim-demo.c` | LED level, a timer | timer, device file, attribute, remove | a timer shared by four paths |
| all drivers, loading | the 34 drivers of `modules` and `modules/backup` | what they have got from the kernel | init or probe, callbacks, remove, exit | failure at any step, callbacks that run during removal |
| PyTimer | `Python/PyTimer-0.1` | list of timers, list of callbacks | create, settime, delete, expiry | list walked without a lock, ids, failed creation |
| PyGPIO | `Python/PyGPIO` | line requests; the buffer, file and objects of a parsing call | request, configure, close, parse cells, parse names | partial failure, buffer growth, integers that are cut |
| board map | `C/exboard_map.c`, `Python/exboard_map.py`, `gpio_map.py` | name map | parse the device tree, find a line | missing names or properties, three implementations |
| blink programs | `C/exboard_blink.c`, `exboard_blink_epoll.c`, `chardev_event.c`, `chardev_sample.c`, `Python/exboard_blink_epoll_pygpio.py` | lines, LED level, timer, event buffer, stop flag | request lines, toggle, read events, SIGINT | overrun of the event buffer, Ctrl-C at any time |
| counting threads | `C/API/pthread.c` | a counter, a mutex | add 1 | lost updates |
| seven-segment display | `C/7seg.h`, `count.c`, `C/RPI`, `Python/seg7.py` | the pins | show a digit | programs that are stopped half-way, two tables of segments |
| other system call exercises, language exercises, builds, set-up | the rest | none | | |

The parts interact in two places only: `epoll_server` feeds payment, logger and
health; and logger, health and payment share the semaphore and the log. The
drivers and the extension modules stand alone.

What makes each part correct:

* logger, payment, health: one process in the section; one post per wait; the
  log complete and in order; checks only between START and STOP; no wait of
  health for payment when the mutex inherits priorities; no read that blocks
  with the semaphore held.
* opening: everybody has the same, initialised object; the lock of a killed
  process does not stop the next run.
* System V lock: exclusion, no lost lock after a death.
* character device: atomic reads and writes, positions inside the file, copies
  inside the page, the mutex always released.
* PyTimer: each expiry calls the callback of its timer once; ids are unique.
* switch drivers: the LED is set at most once for a press, a switch that is held is
  noticed, a driver never stops listening; a timer is never added twice; what still
  runs after removal.
* all drivers: whatever fails, what was got is given back, once, and nothing else;
  nothing runs or is armed after removal; callbacks use only what is there; a timer is
  not added twice. Several drivers fall short of this; the properties name which and how.
* request dispatcher: each client gets its answers, in its order.
* PyGPIO: the kernel has the lines Python asked for; a list is that of the whole
  file; a call that fails keeps nothing.
* board map and blink programs: the right lines or a warning; every press counted;
  the LED off and the program gone after Ctrl-C.
* counting threads: the exact count under the mutex. Display: the digit, and no
  other segment.

## Modules

| module | models | composed with |
|---|---|---|
| `SharedLog` | what the semaphore promises: one holder, waiting processes, a log only the holder writes | |
| `Inversion` | the three loops, the semaphore in both variants, CPU 0, and the producers | implements `SharedLog` |
| `InversionProofs` | theorems about `Inversion` | |
| `SemOpen` | how the processes come to share a semaphore | |
| `ShmLock` | `shm.c` | |
| `SharedSegment` | the same as a system of its own, its names apart from those of `SemOpen` | instantiates `ShmLock` |
| `SemaphoreProofs` | theorems about `SemOpen` and `SharedSegment` | extends both |
| `AtomicFile` | a file whose reads and writes are atomic | |
| `CharDev`, `MCCharDev`, `CharDevProofs` | file operations of `chardev.c`; instance; theorems | implements `AtomicFile` |
| `PyTimer`, `PyTimerProofs` | `py_timer.c`; theorems | |
| `SwitchLed`, `SwitchLedProofs` | seven drivers that toggle the LED for the switch; theorems | |
| `Drivers` | what each of 34 drivers gets, gives back and uses, as data | |
| `DriverLife`, `DriverLifeProofs` | the kernel that loads, calls and unloads one of them; theorems | extends `Drivers` |
| `ExboardMap` | device trees, with and without a fault, and the three readers of them | |
| `Blink`, `BlinkProofs` | five programs and the listing tool, the kernel and the user; theorems | extends `ExboardMap` |
| `PyGpio` | `pygpio.c` | |
| `EpollServer` | `epoll_server.c`, its clients and payment | |
| `Counter` | `API/pthread.c` | |
| `Display` | the programs that drive the pins of the display | |
| `Programs`, `ProgramsProofs` | the last four, one per behaviour; theorems | instantiates them |

In every module an operator whose comment begins with "Mutant" is a faulty
version of the definition after it; no specification uses it.

### Inversion

`lpc`, `ppc` and `hpc` are the control points of logger, payment and health;
`sem` and `waiting` are the semaphore and those blocked in `pi_sem_wait`. One
action is one system call that others can observe together with the code up to
the next one: `LoggerPoll` is `poll` and the attempt to take the semaphore,
`LoggerRead`, `LoggerLog` and `LoggerPost` are `read`, `dprintf` and
`pi_sem_post`. payment's two seconds of `busy_wait_ms` are `Slices` steps of
`PaymentBusy`. health reads events in batches (`HealthEpoll`), handles them in
either order (`HealthDispatch`), and looks at `running` once, before it may
block (`HealthTimer`).

The constant `PI` chooses the semaphore. A POSIX semaphore is a counter, and a
process that is woken has to find it free; the futex behind a
priority-inheritance mutex is handed to a waiter at unlock (`Post`, `Woken`).
logger and payment share CPU 0 as `run_poll.sh` pins them: logger runs when
payment cannot, when it has inherited health's priority (`Boosted`), or when the
kernel throttles real-time tasks (`RtThrottling`). health is not pinned.

The producers are the environment. In the repository `epoll_server.c` connects
to payment only; `init_log_fifo` and `init_health_connection` are left to the
student, so `PipeOpen`, `PipeClose` and `HealthConnect` are external.

`stall`, `lastCmd` and `sent` are history variables. Messages are numbers in
the order in which they were written; a read takes any non-empty prefix of the
pipe. A command is a value, and a buffer is the set of commands in it, because
`strstr` only asks which ones occur.

### SemOpen

The name refers to an object or to nothing; objects are numbered in the order of creation.
`sem_open` gives complete objects and only logger passes `O_CREAT`; the mutex of
`pi_sem.h` is created, sized, mapped and initialised in four steps by whoever comes first,
which is what the code does although the callers pass the same flags. `KillAll` is
`kill_poll.sh`: handles are gone, name and objects stay. Which semaphore is compiled in
(`pi`) and whether the `sleep 1` of `run_poll.sh` orders the start (`ordered`) are chosen
in the initial state and never change, so one run covers the four combinations and each
property says for which of them it holds. Two kills let what two earlier runs left behind
meet a third; four objects are what three runs can create. `GoodStart` is the least that
the sharing of one object needs: an ordered start, or a POSIX semaphore before anything
was killed.

### ShmLock

The kernel's undo adjustments are a variable, since they decide what happens
when a process is killed (`End` is enabled at every point). The history variable
`clean` says that no SETVAL has been done so far while a process was inside;
exclusion is claimed for clean histories only, and the violation run shows what
happens in the others. `EveryoneEnters` holds in all of them.

### CharDev

A call is `Enter` (the system call layer copies `f_pos`), `ReadLock` or
`WriteLock` (up to the copy), `Copy` once per cell, `Unlock`, `Return` (the
position is stored). Linux has no lock on the position of a character device, so
threads that share a descriptor overlap here. A copy may stop early at a user
page that is missing; a write that stops early leaves zeros in the rest of its
range (`Tail0`). `MapPage` is `mmap`; from then on `Store` may change a cell at
any time, since a store takes no mutex, and `AtomicFile` (`shared`) promises of a
call only that it keeps to its range.
`shadow` is the page as it was when the mutex was last free, and is what maps to
the file of `AtomicFile`.

### PyTimer

Kernel timers are numbered by creation. A notification thread reads the head of
the callback list when it starts and walks it in single steps (`Walk`), taking
the GIL for the call (`CallBack`), while Python calls, which hold the GIL
throughout, happen in between. A creation that fails leaves its callback on the
list under an id that is not used up (`CreateFailed`); `strays` counts these, so that
`RightCallback` can say exactly what an expiry calls: the strays of its id, then its
own callback, then nothing. A list that grows under the walker only adds entries
that must not be called for its timer: `size` remembers how long the list was when
a timer was created, and a thread that is past that many entries has made its calls.

### SwitchLed

The seven drivers are one exercise solved in different ways, so they are one
module: `drv` is chosen in the initial state, and each driver has its actions.
A handler is split where another CPU can come in between: `WqIrq` and `WqIrqEnd`
are the two sides of `schedule_work`, `TimerBody` and `TimerCheck` the clearing of
`wqreq` and the look at the switch. `Press` and `Release` include bounces; the
kernel latches an edge while its handler runs (`latched`) and keeps the
level-triggered, one-shot interrupt of `hgpio_debounce.c` masked until its thread
returns. Time is not counted: a timer may expire any time after it was started.
`led` is the LED and `ledlevel` what the driver takes it to be, which are not the
same in all drivers: see the end of this section. `writes` counts how often the LED
is set, `seen` what that has done to it since the last press.

Each driver promises something else, and the properties name those for which
they hold. What the code does outside of them:

* In `hgpio_wq.c` the work may run between `schedule_work` and `wqreq++`; then
  `wqreq` stays 1 for good and the driver hears no more presses. `FlagHasOwner`
  says that this (`overtaken`) is the only way. A press between the toggling and
  `wqreq=0` is lost, so `HeldIsSeen` does not include this driver.
* `h2gpio.c` toggles when `gpiod_get_value` is 0, which for the active-low switch
  of `dts/exboard.dtso` means that it was let go.
* In `hgpio.c` and `hgpio_timer.c` the first press changes nothing: `ledlevel` starts at 1
  beside an LED that is off, is turned over first and then set, so that the LED is set to 0.
  `hgpio_wq.c` sets first and turns over then; `h2gpio.c` and `hgpio_debounce.c` start at 0.
  `HeldIsSeen` makes this one exception (`StartLevel`).
* `hgpio_wq.c` and `hgpio_timer.c` leave their interrupt requested after removal,
  `h2gpio.c` its timer and `gpio-sim-debounce.c` its delayed work. `QuietAfterRemove`
  is therefore about the three drivers that stop everything.

### Drivers and DriverLife

`Drivers` is a table. For each driver it lists the calls of its init or probe
function with what is undone when one fails, what `remove` and the exit function
give back, and for each of its callbacks (interrupt, timer, work, device file,
attribute) which resources it uses and which timers it takes down or adds, in the
order of the code. `DriverLife` is one kernel for all of them: it performs the steps
(`Acquire`, `ArmIt`), lets any of them fail (`Fail`; `Overlook` where the result is not
looked at), gives back (`Release`) and runs callbacks statement by statement on other
CPUs (`Fire`, `Run`). `plan` lists what is still to be given back: what the driver lists,
and then the mark "devres", at which the driver core gives back what it manages
(`Managed`, the `devm_` calls), what was got last first (`Latest`). Drivers of `modules`
and `backup` that differ in one step are rows of the same operator (the names in
`With`). What the kernel guarantees is in `Waits`:
`free_irq`, `cancel_work_sync`, `hrtimer_cancel` and the removal of an attribute wait
for a callback that runs, `del_timer` and `cdev_del` do not.

`LeftBehind` names, driver by driver, what the code does leave; `NothingLeft` is the
claim that there is nothing else, in any order and with any failure. 18 of the 34
drivers can leave something. `Unlooked` names what drivers give back although they did
not look at whether they got it: `hgpio.c:43-47` only prints that `request_irq` has failed,
and `:56` frees the interrupt; `h2gpio.c`, `mychardev.c`, `class.c` and several drivers
of `backup` treat some of their calls alike. `ReleasesOnlyHeld` claims that this is all:
nothing is given back twice, and nothing else without having been got. `AddedOnce`
says when the timer of `class.c` is added twice, which is a `BUG` of the kernel: only
when two of handler, device file and attribute overlap.

### ExboardMap and Blink

A tree is a list of properties of cells and a list of names. `Trees` is the tree of
the board, without the display, and every tree with one fault: a property
missing or torn, the names missing, one name missing, empty or given twice. `CTable`,
`PyTable` and `ListTable` are the three readers. `Blink` runs one program on one tree:
`Load` looks the names up, `Request` asks the kernel, which may refuse, the loops
follow with one action per system call, each `ioctl`, wait and read may fail, and the
user flips the switch (`Flip`) and presses Ctrl-C (`Interrupt`) at any time. The kernel
keeps `Buffer` line events and drops the oldest (`dropped`).

`Level` is the switch as the program sees it: the polarity that was requested
against the one the switch is wired with. So `CountsPresses` also fails if a program
loses the active-low flag on the way from the tree.

### PyGpio

Offsets are integers that become 32 bits (`Uint`, modulo `W`). The kernel checks that
lines are free and different, so a request that it refuses or that fails
before the kernel is asked leaves no trace and needs no action. The parsers are
modelled call by call: `heap`, `refs` and `open` are what a call owns, `broken` says
that a read has failed, and every allocation has an alternative that raises, with what
its cleanup path gives back. An entry or a name is added
in steps: the tuple or string is a reference of the call until the list has taken one of
its own (`CellsTuple` to `CellsAppend`, `NamesString`, `NamesAppend`). `NamesIn` walks the names with `strnlen` as the code does;
`ListsNames` is its reference: the list has each longest stretch of the file
without a 0, once and in order.

### EpollServer

A request is a command byte and a body; the network may cut and join requests, so
`Read` takes any non-empty part of the bytes that are there and looks at the first.
`mixed` are the clients of which a read was not exactly one request; nothing is
promised to them (the code does not frame its input). `Forward` blocks while the
socket buffer of payment is full and dies of SIGPIPE when payment is gone, as `Reply`
may for a client; `dead` says from which.

### Counter and Display

`comm++` is a load and a store; `Lock` and `Unlock` do something only if the program
got an argument. In `Display` programs start and stop in any order and at any write,
and share only the pins; `stale` remembers which segments a program found lit.

`Programs` runs one of these four and keeps the others at their start. It
adds no behaviour and has one action per program.

## Runs

| run | instance | shows |
|---|---|---|
| `inversion_plain` | POSIX with throttling, 2 messages, 2 commands, 1 tick | exclusion, log complete, in order and written in the end, checks only while started, STOP never lost, refinement of `SharedLog` |
| `inversion_pi` | mutex, no throttling, 2 messages, payments of 2 slices | no slice of payment while health waits, no blocking read, health is served |
| `inversion_reopen` | a second producer | violation, see below |
| `semopen` | both semaphores, both start orders, 2 kills, 4 objects, 2 attempts | same initialised object, exclusion, nobody gives up, users served |
| `shmlock` | 3 processes | exclusion, everyone enters |
| `shmlock_setval` | 3 processes | violation, see below |
| `chardev` | 2 threads on 1 descriptor, page of 2 cells, 2 values, with and without a mapping | positions in the file, refinement of `AtomicFile`, every call returns |
| `pytimer` | 3 creations that may fail, 2 callbacks, 2 threads | right callback, once, after the strays, and nothing that is added during the walk |
| `switchled` | 7 drivers, 4 presses | a set flag has its work, no timer added twice, the LED set at most once for a press, quiet after removal, a held switch changes the LED, but for the first press of two drivers |
| `drivers` | 34 drivers, every failure | nothing left but what is named, nothing used that is not held, nothing given back twice, or without having been got but by the drivers that do not look, timers added once |
| `blink` | 6 programs, 4 lines, all single faults, 11 moves of the switch | right lines, presses counted, LED off at the end, Ctrl-C ends |
| `programs` | 32 bits as modulo 4, buffer of 2, files of 7, 2 clients, 2 requests, loops of 3 | lines and files as asked, no leak, answers in order and given, the count, the digit |

Why the bounds are enough. Two messages are the least for a read that takes a
part of the pipe and for an order between two; two commands for START and STOP
in one buffer; one payment of two slices to tell "at most one slice" from "as
long as it lasts"; one tick because a second merges with it or repeats it.
`inversion_plain` sends no payment (`MaxPay = 0`): with throttling payment keeps
nobody off the CPU, and it touches neither the semaphore nor the log, so its
loop would only multiply the states; every schedule without throttling is one of
these. payment's loop is in `inversion_pi`. In `CharDev` a page of two cells has an
interior boundary and an end, two threads are the least that share a position, and
the short copies reach every point of a call. Three creations allow a timer between
a failed creation and another timer. In `SwitchLed` four presses are one more than a
driver can hold at once (latched, in the handler, in the work). `DriverLife` has
no bound but one load and one unload. Eleven moves of the switch are six presses,
one more than fill the buffer of four and overflow it. The buffer of the names grows
from 2 to 4 to 8, so a file of 7 is read with both and ends at the boundary of each.
Two requests are the least that can be joined or answered in the wrong order, and
fill the socket of payment (`Room = 1`). Loops of 3 have an iteration between the
first and the last. The theorems drop these bounds where they apply.

Deadlock is checked in `chardev`. Elsewhere the system may stop, or what drives it is
bounded: clients and messages run out (`Inversion`), attempts, kills and objects
(`SemOpen`), creations (`PyTimer`) and presses (`SwitchLed`) are counted, processes and
programs end (`ShmLock`, `Blink`, `Programs`), a driver is gone (`DriverLife`).

Some properties excuse what the code does wrong, because nothing in the repository says
otherwise; what they claim is that there is no other way. `FlagHasOwner` excuses the race
of `hgpio_wq.c:30-31` (`overtaken`), `UsesWhatItHolds` the work of
`gpio-sim-debounce.c:94` that is queued before it is initialised, `AddedOnce` the overlap
of two users of the timer in `class.c`, `AnswersInOrder` and `Answered` clients whose
requests came in pieces or joined and a server that SIGPIPE has ended, and `RightLines`
the C table with more names than entries.

### Fairness

* `Inversion`: weak fairness of each process. A process that is kept off its CPU
  is not enabled, so fairness does not hide starvation: without priority
  inheritance or throttling the liveness properties fail. With a POSIX semaphore
  `HealthWoken` is strongly fair: the kernel runs a woken deadline task at once,
  before logger can take the semaphore again every time.
* `SemOpen`: weak fairness of every step of opening and of the post, strong
  fairness of the wait, for the same reason.
* `ShmLock` and `CharDev`: strong fairness of taking the lock (the kernel
  queues waiters of `semop` and of a `mutex`), weak fairness of the rest.
  `CharDev` assumes nothing about new calls being made.
* `PyTimer` and `DriverLife`: none; they have safety properties only.
* `SwitchLed`: weak fairness of the interrupt handlers and threads, and of the
  deferred bodies, once the kernel has something for them. Nothing is assumed of
  the user or of the removal.
* `Blink`: weak fairness of the program and of its timer, which is periodic. Nothing
  is assumed of the switch, and no wait has to fail; so `StopsAfterSigint` shows that the
  timer alone is enough.
* `Programs`: weak fairness of the server and of payment's reads. Clients owe nothing.

### Disagreements between code and comments

* `inversion_reopen`: `logger.c:41` calls the poll non-blocking, and the read
  it guards is made with the semaphore held. `poll` also returns for POLLHUP; if
  a producer opens the pipe between poll and read, the read blocks and health
  with it.
* `shmlock_setval`: `shm.c:37` says the value is set when the semaphore is new;
  `shm.c:40` sets it always, also while another process is inside.

Seen while modelling, without a run of its own:

* `payment.c:23` and `health.c:27` say that they open what logger has created. With
  `USE_PI_SEM` a client that is started first creates it (`pi_sem.h:32`).
* `Python/PyTimer-0.1/test/test.py:26-30` expects `ValueError` from `create(0)`; 0 is
  `CLOCK_REALTIME`, which `py_timer.c:137` accepts.
* `hgpio.c:13` and `hgpio_timer.c:15` start `ledlevel` at 1 and request the LED as off: the
  first press is lost on the LED.
* `hgpio.c:56`, `h2gpio.c:80`, `mychardev.c:79-82` and `class.c:102-106` give back what their
  load may not have got.
* `exboard_map.c:82` and `:111` stop reading names when there are as many as entries,
  so more names than entries (a property is missing) give no warning; the Python
  version raises. A name that is given twice is noticed by none, and C takes the first
  row, Python the last (`exboard_map.py:57`).
* `exboard_blink_epoll.c:144` prints the count before adding to it, so the first press
  is "0 times"; the Python version prints it afterwards. The count itself is the same.
* `pygpio.c:184` cuts offsets to 32 bits instead of refusing them; `:414-416` takes a
  read error of the names for the end of the file, unlike `dt_read_gpio_cells`.
* `RPI/ledseg.c:38` lights segment f for a 7; `seg7.py` and `7seg.h` do not. `count.c` does
  not clear what an earlier program left lit.

## Proofs

All theorems hold for every value of the constants that the named assumptions
allow.

**Inversion.** `SemInv` (`InversionProofs`) says where a waiting process stands
in its program and, for either semaphore, that `sem = 0` exactly when one of the two is
inside. `MutualExclusion` alone is not inductive: a post by a process that is not
inside would break it in two steps, which `SemMatchesHolder` excludes. On it
rest `Exclusion`, `TypeCorrect` and, with one opening of the pipe at most,
`NoBlockingRead`: once logger has seen the pipe readable it stays so, because
nobody else reads, and a pipe whose last producer has closed is not opened
again. `NoPriorityInversion` follows: a holder that never blocks and has
inherited health's priority keeps payment off the CPU, so `stall` stays 0.
`ChecksAreStarted` adds to the property that `running`
(and a check in progress) means that the log has a start which no stop follows.
`StopIsObeyed` follows the last order: it is a STOP in the connection with no START
after it, or a STOP in the buffer with no order after it, or it has been obeyed
(`StopInv`). Of a buffer that has both, health obeys the STOP only (`health.c:102`).
`LogIsFaithful` splits the messages in three runs of consecutive numbers: those in the
log, in logger's buffer and in the pipe (`LogInv`).
`Refinement` shows that every step is a step of `SharedLog` or changes nothing
there; the type invariant and `SemInv` are its hypotheses.

**SemOpen** (`SemaphoreProofs`). `SameObject` says nothing of what may happen before
logger is up, so it is not inductive. `OpenInv` says it in three parts, each after a good
start: until logger is up the others have no handle and find no name (`BeforeUp`); while
it is up the name is that of its object, which is complete, and no client is creating one
(`WhileUp`); and the object is taken exactly when a user is inside (`Taken`). A kill takes
all handles at once, which is why one use of `kill_poll.sh` starts the argument again. For
`NeverGivesUp` an attempt with the mutex fails only if the name was there and then was
not; only logger's `unlink` does that, once between two kills (`TriesInv`). The hypothesis
`Tries >= 2` is met by the 20 attempts of `payment.c:22` and `health.c:26`; with one
attempt the property is false.

**ShmLock** (`SemaphoreProofs`). As long as the history is clean, `val` is 1 and all
adjustments 0, or one process is inside, `val` is 0 and its adjustment is 1 (`LockOk`).
The adjustment is needed: it decides what `End` does to a process that is killed. The
invariant is `clean => LockOk`, because one SETVAL under a process inside gives all of it
up for good.

**CharDev.** `DevInv` holds that the owner is the thread that copies, that a copy
has room for what is left of it, and that every position that can be stored,
in a file or in a call, is at most `data_len`. The last is inductive only
together with the fact that the file never shrinks. `BufInv` relates the page to
`shadow`: they are equal while the mutex is free or a reader has it, and under a writer
they differ only in the range of the write, where the cells copied so far are its data;
what a reader has copied is a piece of `shadow`. So `IsAtomicFile` maps each `Unlock` to
one read or write of `AtomicFile`, a read at the end of the file and every `Return` to a
read of nothing, `Store` to a store, and the other steps to stuttering.

**SwitchLed.** `Shape` says which part of the machinery a driver uses, `OneTimer`
and `WorkOnItsWay` tie the flag to the timer or the work that clears it, and
`Account` adds to `NoGhostToggle` the presses for which the LED may still be set: those
latched, in a handler, queued or in a body. No step lets the sum of `writes` and these
outgrow `edges`.

**PyTimer.** `TimerInv` follows the walk. Of the entries that a thread has passed it
says how many had the id of its timer and which was the last (`Passed`); of the whole
list, that the entries under the id of a timer are its strays and then its own
callback, and that this stands among the first `size` entries, those that were there when
the timer had been created (`Listed`). So a thread that is past these has made its calls,
however long the list has become. It needs `Ids`, because a create while a thread walks
may lengthen the list only under ids that no timer has yet. Entries are counted by the
cardinality of the set of their positions, so that no recursion is needed.
`TimersDiffer` is a corollary of the types.

**Blink.** `BlinkInv` adds to `CountsPresses` that the buffer never holds more than it
can, and that what `epoll_wait` announced is still in it when it is read: nobody else
reads. For `LedOffAtEnd` it says where the handler is installed and that nothing has
been lit before. The rows of the table stay closed, so both hold for every tree.
`RightLines` rests on `OneFault`: a readable tree with one fault has as many names as
entries, all different, only if it is the intact one. So a reader that compares the
two numbers, or stops at a limit that has room for the board, ends with the right
table or a warning, for every `MaxLines` of at least that size (`CTableRight`,
`ZippedRight`).

**DriverLife.** What the proofs need of a driver is a predicate of its row of the table:
`Orderly` (what it gives back on removal, wherever its load ends, and what it undoes when
a step fails, is of steps that it has done, and it lists nothing twice), `Unsure` (which of these steps it does not look at),
`Complete` (what it has got it gives back, but for a named set) and facts about its callbacks. They are shown row by row (`EveryRow`), whichever way the pins
are looked at (`IsPin`), and the invariants speak of any driver with such a row.

* `LoadInv` ties `held` to the steps taken and `plan` to `held`: what is planned is held,
  or was not looked at and is named by `Unlooked`, and the rest of what was not looked at
  is in no plan (`Unsure` says so of the row). `ReleasesOnlyHeld` alone says nothing of
  what a plan holds next. `CallInv` says where callbacks are.
* `AddInv`: a handler that is alone never finds its timer pending, and in `class.c`
  one callback at most has the timer down unless two overlap (`InWindow`). With it
  `AddedOnce` names all the ways in which `add_timer` is called twice.
* `HeldInv`: what is held is planned, managed with the driver core still to come, or
  kept by this driver. `FileInv` and `SoloInv` say the same of what runs and is armed.
  When the driver is gone nothing is planned, so `NothingLeft` follows.
* `WatchInv`: when a driver with one source of calls is unloaded or fails, its plan is that
  source and then "devres", so the callback has stopped before the pins go. In the
  `gpio-sim` drivers the interrupt is itself managed: it was got last, so it goes
  first (`SimInv`). `OopsInv` names the drivers that may follow the pointer of a call
  that failed. `UseInv` collects these over the history: what `UsesWhatItHolds` pardons
  stays pardoned, because `bound` only falls and `raced` only rises.

**Programs.** Each program has its invariant; the steps of the others leave it alone.
`CounterInv`: under the mutex the counter is the number of stores; without it, a second
store of a thread writes at least 2, because it has read what no store of 0 can have left.
`Owned`: where a parsing call is decides what it holds, the reference to the tuple or
string that is being added included, and the buffer of the names is on the heap once it
has grown. `EpollInv`: of a client whose reads were one request each, the
requests are the answers, then the one being handled, then the first bytes of the pairs on
the wire (`Paired`). `LinesInv` is inductive with the types alone. `ReadInv` follows a
parsing call: the buffer has a free byte whenever the code reads into it, and what has
been read is the start of the file; at the end it is all of it or the read has failed.
The list has the first of the names (`Listed`), and another is added only while there are
more.
That `NamesIn` lists the names (`ListsNames`) holds for every file: a position at which
the walk went wrong would have a least one (`Least`, from the well-foundedness of the
naturals), and a step of the walk refutes it. `ParsersReadAll` and `LinesAreAsAsked`
together are `NothingIsChanged`. `DisplayInv` says which segments are lit at each phase.
`count.c` clears only the segments of the digit before, so what it has found lit stays
until it is cleared as part of an 8, which has every segment but the point: that is before
the 9. `ConstantsAssumption` asks of `W` (2^32 in the code) only that it is positive.

What is model-checked only: all liveness, since fairness and ENABLED are out of the
prover's reach. The two properties that are expected to be violated are shown by TLC's
counterexamples.

## Not modelled

* Failures at start-up that end the program at once, and failures of `malloc`
  outside the extension modules.
* In `PyTimer` the memory order of the append to the callback list, which takes no lock,
  and whether the walk of a list that is made longer without end would ever be over.
* The time stamps of the log. health takes its stamp before it waits for the
  semaphore (`health.c:72`), so lines may be out of order in time.
* Commands split over two reads of health (`health.c:98`): that takes more than 127
  bytes in the socket.
* `RtThrottling` is a constant: the kernel's budget per second is not counted,
  throttling either leaves logger time or does not.
* File operations of `mychardev.c`: those of `chardev.c` without the mutex and without
  a promise that could fail.
* In `PyGpio` the calls that read or set values and read events: each hands one
  structure to the kernel and keeps nothing. A cell count of 2^32 - 1 in the device
  tree, for which the size of an entry wraps to 0, is left out too.
* A second load of a driver after the first: what was left behind is named by
  `LeftBehind`, what the kernel then does with it is not.
* `API/signal*.c`, `listen.c`, `sending.c`, `timer.c` and the other system call
  exercises: one process, one call after the other.
* The parts listed as `not_modelled` in `PROJECT.json`.

## Plan

1. The composition of `EpollServer` with payment, logger and health of `Inversion`,
   once the exercise's missing connections are in the repository.
2. A second load in `DriverLife`, on top of what the first one left behind.
