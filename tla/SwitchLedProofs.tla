---------------------------- MODULE SwitchLedProofs ----------------------------
(***************************************************************************)
(* The switch drivers for any number of presses: a set flag has work that  *)
(* clears it, no timer is added twice, the LED is set at most once for a   *)
(* press, and nothing of a driver that waits for its interrupt runs after  *)
(* its removal.                                                            *)
(***************************************************************************)
EXTENDS SwitchLed, TLAPS

Guarded == {"timer", "hrt"}
Freeing == {"direct", "hrt", "bottom", "thread", "delayed"}

\* Which part of the machinery a driver uses.
Shape ==
  /\ drv \in {"direct", "bottom", "thread", "delayed"} => flag = 0 /\ bpc = "idle"
  /\ drv \in {"direct", "bottom", "thread"} => ~queued
  /\ drv = "direct" => ipc = "idle"
  /\ drv \in {"bottom", "delayed"} => ipc \in {"idle", "thread"}
  /\ drv = "thread" => ipc \in {"idle", "thread", "sleep"}
  /\ drv \in Guarded \cup {"wq"} => ipc \in {"idle", "arm"}
  /\ mod = "removed" /\ drv \in Freeing => ~irqOn /\ ipc = "idle"

\* hgpio_timer.c and h2gpio.c: from wqreq++ to its clearing there is one timer.
OneTimer ==
  drv \in Guarded =>
    /\ bpc \in {"idle", "check"}
    /\ ipc = "arm" => flag = 1 /\ ~queued
    /\ queued => flag = 1
    /\ mod = "loaded" /\ flag = 1 => queued \/ ipc = "arm"

\* hgpio_wq.c, as long as no work has started too early.
WorkOnItsWay ==
  drv = "wq" =>
    /\ bpc \in {"idle", "clear"}
    /\ ipc = "arm" => flag = 0
    /\ ~overtaken /\ ipc = "arm" => queued
    /\ ~overtaken /\ flag = 1 => queued \/ bpc = "clear"

One(P) == IF P THEN 1 ELSE 0

\* Presses that may still set the LED.
Owed == One(latched) + One(queued) + One(bpc = "check")
          + One((ipc = "arm" /\ drv # "wq") \/ (ipc = "thread" /\ drv # "thread"))
          + One(drv = "thread" /\ pressed /\ prev = 0)

\* The Boolean part of the type invariant, and the rest.
Bools == /\ irqOn \in BOOLEAN /\ pressed \in BOOLEAN /\ latched \in BOOLEAN
         /\ queued \in BOOLEAN /\ overtaken \in BOOLEAN

Rest == /\ drv \in Drivers /\ mod \in {"loaded", "removed"}
        /\ edges \in 0..MaxEdges /\ writes \in Nat
        /\ ipc \in {"idle", "arm", "thread", "sleep"} /\ flag \in 0..1
        /\ bpc \in {"idle", "clear", "check"} /\ prev \in 0..1
        /\ ledlevel \in 0..1 /\ led \in 0..1 /\ seen \in {"no", "same", "changed"}

Account == writes + Owed <= edges

SwitchInv == TypeOK /\ Shape /\ OneTimer /\ WorkOnItsWay /\ Account

------------------------------------------------------------------------------
\* The drivers start with the invariant, whichever is loaded.
LEMMA InitInv ==
  ASSUME Init
  PROVE  SwitchInv
<1>1. Bools
  BY Zenon DEF Init, Bools
<1>2. Rest
  BY SwitchLedAssumption DEF Init, StartLevel, Rest, Drivers
<1>3. Shape /\ OneTimer /\ WorkOnItsWay
  BY DEF Init, Shape, OneTimer, WorkOnItsWay, Guarded, Freeing, Drivers
<1>4. Account
  <2>1. ~latched /\ ~queued /\ ~pressed /\ bpc = "idle" /\ ipc = "idle"
    BY DEF Init
  <2>2. Owed = 0 /\ writes = 0 /\ edges = 0
    BY <2>1 DEF Init, Owed, One
  <2> QED
    BY <2>2 DEF Account
<1> QED
  BY <1>1, <1>2, <1>3, <1>4 DEF SwitchInv, TypeOK, Bools, Rest

\* The actions of Next, without the grouping.
LEMMA NextCases ==
  ASSUME Next
  PROVE  \/ Press \/ Release \/ DirectIrq \/ WqIrq \/ WqIrqEnd
         \/ WqBody \/ WqClear \/ TimerIrq \/ AddTimer \/ TimerBody
         \/ TimerCheck \/ HrtIrq \/ HrtStart \/ HrtBody \/ HrtCheck
         \/ BottomIrq \/ BottomThread \/ ThreadWake \/ ThreadLook \/ ThreadLoop
         \/ DelayedIrq \/ DelayedThread \/ DelayedBody \/ RemoveFrees \/ RemoveWq
         \/ RemoveTimer
  BY DEF Next, Handlers, Bodies, Remove

\* The driver never changes, and only its own actions are taken.
LEMMA NextOf ==
  ASSUME Next
  PROVE  /\ drv' = drv
         /\ drv = "wq" => \/ Press \/ Release \/ WqIrq \/ WqIrqEnd \/ WqBody
                          \/ WqClear \/ RemoveWq
         /\ drv \in Guarded => \/ Press \/ Release \/ TimerIrq \/ AddTimer \/ TimerBody
                               \/ TimerCheck \/ HrtIrq \/ HrtStart \/ HrtBody \/ HrtCheck
                               \/ RemoveFrees \/ RemoveTimer
<1> USE DEF modVars
<1>1. drv' = drv
  BY NextCases DEF Press, Release, DirectIrq, WqIrq, WqIrqEnd, WqBody, WqClear,
      TimerIrq, AddTimer, TimerBody, TimerCheck, HrtIrq, HrtStart, HrtBody, HrtCheck,
      BottomIrq, BottomThread, ThreadWake, ThreadLook, ThreadLoop, DelayedIrq,
      DelayedThread, DelayedBody, RemoveFrees, RemoveWq, RemoveTimer, Edge
<1>2. QED
  BY <1>1, NextCases DEF Guarded, DirectIrq, WqIrq, WqIrqEnd, WqBody, WqClear, TimerIrq,
      AddTimer, TimerBody, TimerCheck, HrtIrq, HrtStart, HrtBody, HrtCheck, BottomIrq,
      BottomThread, ThreadWake, ThreadLook, ThreadLoop, DelayedIrq, DelayedThread,
      DelayedBody, RemoveFrees, RemoveWq, RemoveTimer, Edge

\* The types of the variables that are not Boolean.
LEMMA RestStep ==
  ASSUME SwitchInv, Next
  PROVE  Rest'
<1> USE DEF SwitchInv, TypeOK, Rest, Shape, OneTimer, WorkOnItsWay, Guarded, Drivers,
            modVars, swVars, bodyVars, ledVars, lampVars
<1>1. CASE Press
  BY <1>1, SwitchLedAssumption DEF Press
<1>2. CASE Release
  BY <1>2 DEF Release
<1>3. CASE DirectIrq
  BY <1>3 DEF DirectIrq, Edge, Toggle, SetLed
<1>4. CASE WqIrq
  BY <1>4 DEF WqIrq, Edge
<1>5. CASE WqIrqEnd
  BY <1>5 DEF WqIrqEnd
<1>6. CASE WqBody
  BY <1>6 DEF WqBody, SetLed
<1>7. CASE WqClear
  BY <1>7 DEF WqClear
<1>8. CASE TimerIrq
  BY <1>8 DEF TimerIrq, Edge
<1>9. CASE AddTimer
  BY <1>9 DEF AddTimer
<1>10. CASE TimerBody
  BY <1>10 DEF TimerBody
<1>11. CASE TimerCheck
  BY <1>11 DEF TimerCheck, Toggle, SetLed
<1>12. CASE HrtIrq
  BY <1>12 DEF HrtIrq, Edge
<1>13. CASE HrtStart
  BY <1>13 DEF HrtStart
<1>14. CASE HrtBody
  BY <1>14 DEF HrtBody
<1>15. CASE HrtCheck
  BY <1>15 DEF HrtCheck, Toggle, SetLed
<1>16. CASE BottomIrq
  BY <1>16 DEF BottomIrq, Edge
<1>17. CASE BottomThread
  BY <1>17 DEF BottomThread, Toggle, SetLed
<1>18. CASE ThreadWake
  BY <1>18 DEF ThreadWake
<1>19. CASE ThreadLook
  BY <1>19 DEF ThreadLook, Toggle, SetLed, Look
<1>20. CASE ThreadLoop
  BY <1>20 DEF ThreadLoop, Toggle, SetLed, Look
<1>21. CASE DelayedIrq
  BY <1>21 DEF DelayedIrq, Edge
<1>22. CASE DelayedThread
  BY <1>22 DEF DelayedThread
<1>23. CASE DelayedBody
  BY <1>23 DEF DelayedBody, Toggle, SetLed
<1>24. CASE RemoveFrees
  BY <1>24 DEF RemoveFrees, FreeIrq
<1>25. CASE RemoveWq
  BY <1>25 DEF RemoveWq
<1>26. CASE RemoveTimer
  BY <1>26 DEF RemoveTimer
<1> QED
  BY NextCases, <1>1, <1>2, <1>3, <1>4, <1>5, <1>6, <1>7, <1>8, <1>9, <1>10, <1>11,
     <1>12, <1>13, <1>14, <1>15, <1>16, <1>17, <1>18, <1>19, <1>20, <1>21, <1>22, <1>23,
     <1>24, <1>25, <1>26

\* The Boolean variables stay Boolean.
LEMMA BoolStep ==
  ASSUME SwitchInv, Next
  PROVE  Bools'
<1> USE DEF SwitchInv, TypeOK, Bools, modVars, swVars, bodyVars, ledVars, lampVars
<1>1. CASE Press
  BY <1>1, Zenon DEF Press
<1>2. CASE Release
  BY <1>2, Zenon DEF Release
<1>3. CASE DirectIrq
  BY <1>3, Zenon DEF DirectIrq, Edge, Toggle, SetLed
<1>4. CASE WqIrq
  BY <1>4, Zenon DEF WqIrq, Edge
<1>5. CASE WqIrqEnd
  BY <1>5, Zenon DEF WqIrqEnd
<1>6. CASE WqBody
  BY <1>6, Zenon DEF WqBody, SetLed
<1>7. CASE WqClear
  BY <1>7, Zenon DEF WqClear
<1>8. CASE TimerIrq
  BY <1>8, Zenon DEF TimerIrq, Edge
<1>9. CASE AddTimer
  BY <1>9, Zenon DEF AddTimer
<1>10. CASE TimerBody
  BY <1>10, Zenon DEF TimerBody
<1>11. CASE TimerCheck
  BY <1>11, Zenon DEF TimerCheck, Toggle, SetLed
<1>12. CASE HrtIrq
  BY <1>12, Zenon DEF HrtIrq, Edge
<1>13. CASE HrtStart
  BY <1>13, Zenon DEF HrtStart
<1>14. CASE HrtBody
  BY <1>14, Zenon DEF HrtBody
<1>15. CASE HrtCheck
  BY <1>15, Zenon DEF HrtCheck, Toggle, SetLed
<1>16. CASE BottomIrq
  BY <1>16, Zenon DEF BottomIrq, Edge
<1>17. CASE BottomThread
  BY <1>17, Zenon DEF BottomThread, Toggle, SetLed
<1>18. CASE ThreadWake
  BY <1>18, Zenon DEF ThreadWake
<1>19. CASE ThreadLook
  BY <1>19, Zenon DEF ThreadLook, Toggle, SetLed, Look
<1>20. CASE ThreadLoop
  BY <1>20, Zenon DEF ThreadLoop, Toggle, SetLed, Look
<1>21. CASE DelayedIrq
  BY <1>21, Zenon DEF DelayedIrq, Edge
<1>22. CASE DelayedThread
  BY <1>22, Zenon DEF DelayedThread
<1>23. CASE DelayedBody
  BY <1>23, Zenon DEF DelayedBody, Toggle, SetLed
<1>24. CASE RemoveFrees
  BY <1>24, Zenon DEF RemoveFrees, FreeIrq
<1>25. CASE RemoveWq
  BY <1>25, Zenon DEF RemoveWq
<1>26. CASE RemoveTimer
  BY <1>26, Zenon DEF RemoveTimer
<1> QED
  BY NextCases, <1>1, <1>2, <1>3, <1>4, <1>5, <1>6, <1>7, <1>8, <1>9, <1>10, <1>11,
     <1>12, <1>13, <1>14, <1>15, <1>16, <1>17, <1>18, <1>19, <1>20, <1>21, <1>22, <1>23,
     <1>24, <1>25, <1>26

\* Every step keeps the types.
LEMMA TypeStep ==
  ASSUME SwitchInv, Next
  PROVE  TypeOK'
  BY BoolStep, RestStep DEF TypeOK, Bools, Rest

\* Every step keeps a driver to its part of the machinery, and quiet after removal.
LEMMA ShapeStep ==
  ASSUME SwitchInv, Next
  PROVE  Shape'
<1> USE DEF SwitchInv, TypeOK, Shape, Guarded, Freeing, Drivers, modVars, swVars,
            bodyVars, ledVars, lampVars
<1>1. CASE Press
  BY <1>1 DEF Press
<1>2. CASE Release
  BY <1>2 DEF Release
<1>3. CASE DirectIrq
  BY <1>3 DEF DirectIrq, Edge, Toggle, SetLed
<1>4. CASE WqIrq
  BY <1>4 DEF WqIrq, Edge
<1>5. CASE WqIrqEnd
  BY <1>5 DEF WqIrqEnd
<1>6. CASE WqBody
  BY <1>6 DEF WqBody, SetLed
<1>7. CASE WqClear
  BY <1>7 DEF WqClear
<1>8. CASE TimerIrq
  BY <1>8 DEF TimerIrq, Edge
<1>9. CASE AddTimer
  BY <1>9 DEF AddTimer
<1>10. CASE TimerBody
  BY <1>10 DEF TimerBody
<1>11. CASE TimerCheck
  BY <1>11 DEF TimerCheck, Toggle, SetLed
<1>12. CASE HrtIrq
  BY <1>12 DEF HrtIrq, Edge
<1>13. CASE HrtStart
  BY <1>13 DEF HrtStart
<1>14. CASE HrtBody
  BY <1>14 DEF HrtBody
<1>15. CASE HrtCheck
  BY <1>15 DEF HrtCheck, Toggle, SetLed
<1>16. CASE BottomIrq
  BY <1>16 DEF BottomIrq, Edge
<1>17. CASE BottomThread
  BY <1>17 DEF BottomThread, Toggle, SetLed
<1>18. CASE ThreadWake
  BY <1>18 DEF ThreadWake
<1>19. CASE ThreadLook
  BY <1>19 DEF ThreadLook, Toggle, SetLed, Look
<1>20. CASE ThreadLoop
  BY <1>20 DEF ThreadLoop, Toggle, SetLed, Look
<1>21. CASE DelayedIrq
  BY <1>21 DEF DelayedIrq, Edge
<1>22. CASE DelayedThread
  BY <1>22 DEF DelayedThread
<1>23. CASE DelayedBody
  BY <1>23 DEF DelayedBody, Toggle, SetLed
<1>24. CASE RemoveFrees
  BY <1>24 DEF RemoveFrees, FreeIrq
<1>25. CASE RemoveWq
  BY <1>25 DEF RemoveWq
<1>26. CASE RemoveTimer
  BY <1>26 DEF RemoveTimer
<1> QED
  BY NextCases, <1>1, <1>2, <1>3, <1>4, <1>5, <1>6, <1>7, <1>8, <1>9, <1>10, <1>11,
     <1>12, <1>13, <1>14, <1>15, <1>16, <1>17, <1>18, <1>19, <1>20, <1>21, <1>22, <1>23,
     <1>24, <1>25, <1>26

\* Every step keeps one timer per set flag (hgpio_timer.c, h2gpio.c).
LEMMA TimerStep ==
  ASSUME SwitchInv, Next
  PROVE  OneTimer'
<1> USE DEF SwitchInv, TypeOK, Shape, OneTimer, Guarded, Drivers, modVars, swVars,
            bodyVars, ledVars, lampVars
<1>1. CASE Press
  BY <1>1 DEF Press
<1>2. CASE Release
  BY <1>2 DEF Release
<1>3. CASE TimerIrq
  BY <1>3 DEF TimerIrq, Edge
<1>4. CASE AddTimer
  BY <1>4 DEF AddTimer
<1>5. CASE TimerBody
  BY <1>5 DEF TimerBody
<1>6. CASE TimerCheck
  BY <1>6 DEF TimerCheck, Toggle, SetLed
<1>7. CASE HrtIrq
  BY <1>7 DEF HrtIrq, Edge
<1>8. CASE HrtStart
  BY <1>8 DEF HrtStart
<1>9. CASE HrtBody
  BY <1>9 DEF HrtBody
<1>10. CASE HrtCheck
  BY <1>10 DEF HrtCheck, Toggle, SetLed
<1>11. CASE RemoveFrees
  BY <1>11 DEF RemoveFrees, FreeIrq
<1>12. CASE RemoveTimer
  BY <1>12 DEF RemoveTimer
<1>13. CASE drv \notin Guarded
  BY <1>13, NextOf
<1> QED
  BY NextOf, <1>13, <1>1, <1>2, <1>3, <1>4, <1>5, <1>6, <1>7, <1>8, <1>9, <1>10, <1>11, <1>12

\* Every step keeps the work of a set wqreq on its way (hgpio_wq.c).
LEMMA WorkStep ==
  ASSUME SwitchInv, Next
  PROVE  WorkOnItsWay'
<1> USE DEF SwitchInv, TypeOK, Shape, WorkOnItsWay, Guarded, Drivers, modVars, swVars,
            bodyVars, ledVars, lampVars
<1>1. CASE Press
  BY <1>1 DEF Press
<1>2. CASE Release
  BY <1>2 DEF Release
<1>3. CASE WqIrq
  BY <1>3 DEF WqIrq, Edge
<1>4. CASE WqIrqEnd
  BY <1>4 DEF WqIrqEnd
<1>5. CASE WqBody
  BY <1>5 DEF WqBody, SetLed
<1>6. CASE WqClear
  BY <1>6 DEF WqClear
<1>7. CASE RemoveWq
  BY <1>7 DEF RemoveWq
<1>8. CASE drv # "wq"
  BY <1>8, NextOf
<1> QED
  BY NextOf, <1>8, <1>1, <1>2, <1>3, <1>4, <1>5, <1>6, <1>7

\* Setting the LED uses up a press: no step makes writes and presses owed outgrow edges.
LEMMA AccountStep ==
  ASSUME SwitchInv, Next
  PROVE  Account'
<1> USE DEF SwitchInv, TypeOK, Shape, OneTimer, WorkOnItsWay, Account, Owed, One,
            Guarded, Drivers, modVars, swVars, bodyVars, ledVars, lampVars
<1>1. CASE Press
  BY <1>1 DEF Press
<1>2. CASE Release
  BY <1>2 DEF Release
<1>3. CASE DirectIrq
  BY <1>3 DEF DirectIrq, Edge, Toggle, SetLed
<1>4. CASE WqIrq
  BY <1>4 DEF WqIrq, Edge
<1>5. CASE WqIrqEnd
  BY <1>5 DEF WqIrqEnd
<1>6. CASE WqBody
  BY <1>6 DEF WqBody, SetLed
<1>7. CASE WqClear
  BY <1>7 DEF WqClear
<1>8. CASE TimerIrq
  BY <1>8 DEF TimerIrq, Edge
<1>9. CASE AddTimer
  BY <1>9 DEF AddTimer
<1>10. CASE TimerBody
  BY <1>10 DEF TimerBody
<1>11. CASE TimerCheck
  BY <1>11 DEF TimerCheck, Toggle, SetLed
<1>12. CASE HrtIrq
  BY <1>12 DEF HrtIrq, Edge
<1>13. CASE HrtStart
  BY <1>13 DEF HrtStart
<1>14. CASE HrtBody
  BY <1>14 DEF HrtBody
<1>15. CASE HrtCheck
  BY <1>15 DEF HrtCheck, Toggle, SetLed
<1>16. CASE BottomIrq
  BY <1>16 DEF BottomIrq, Edge
<1>17. CASE BottomThread
  BY <1>17 DEF BottomThread, Toggle, SetLed
<1>18. CASE ThreadWake
  BY <1>18 DEF ThreadWake
<1>19. CASE ThreadLook
  BY <1>19 DEF ThreadLook, Toggle, SetLed, Look
<1>20. CASE ThreadLoop
  BY <1>20 DEF ThreadLoop, Toggle, SetLed, Look
<1>21. CASE DelayedIrq
  BY <1>21 DEF DelayedIrq, Edge
<1>22. CASE DelayedThread
  BY <1>22 DEF DelayedThread
<1>23. CASE DelayedBody
  BY <1>23 DEF DelayedBody, Toggle, SetLed
<1>24. CASE RemoveFrees
  BY <1>24 DEF RemoveFrees, FreeIrq
<1>25. CASE RemoveWq
  BY <1>25 DEF RemoveWq
<1>26. CASE RemoveTimer
  BY <1>26 DEF RemoveTimer
<1> QED
  BY NextCases, <1>1, <1>2, <1>3, <1>4, <1>5, <1>6, <1>7, <1>8, <1>9, <1>10, <1>11,
     <1>12, <1>13, <1>14, <1>15, <1>16, <1>17, <1>18, <1>19, <1>20, <1>21, <1>22, <1>23,
     <1>24, <1>25, <1>26

\* The inductive invariant holds throughout.
THEOREM SwitchInvariant == Spec => []SwitchInv
<1>1. Init => SwitchInv
  BY InitInv
<1>2. SwitchInv /\ [Next]_vars => SwitchInv'
  <2> SUFFICES ASSUME SwitchInv, [Next]_vars PROVE SwitchInv'
    OBVIOUS
  <2>1. CASE Next
    BY <2>1, TypeStep, ShapeStep, TimerStep, WorkStep, AccountStep DEF SwitchInv
  <2>2. CASE UNCHANGED vars
    BY <2>2 DEF SwitchInv, TypeOK, Shape, OneTimer, WorkOnItsWay, Account, Owed, One, vars,
                modVars, swVars, bodyVars, ledVars, lampVars
  <2> QED
    BY <2>1, <2>2
<1> QED
  BY <1>1, <1>2, PTL DEF Spec

\* Every variable of the drivers keeps its type.
THEOREM TypeCorrect == Spec => []TypeOK
<1>1. SwitchInv => TypeOK
  BY DEF SwitchInv
<1> QED
  BY <1>1, SwitchInvariant, PTL

\* A set wqreq or flag has work on its way that clears it (hgpio_wq.c:28-35,
\* hgpio_timer.c:24-42, h2gpio.c:26-44).
THEOREM FlagsAreOwned == Spec => []FlagHasOwner
<1>1. SwitchInv => FlagHasOwner
  BY DEF SwitchInv, FlagHasOwner, TypeOK, Shape, OneTimer, WorkOnItsWay, Guarded, Drivers
<1> QED
  BY <1>1, SwitchInvariant, PTL

\* add_timer is not called on a pending timer (hgpio_timer.c:35-39).
THEOREM TimersAreAddedOnce == Spec => []NoDoubleArm
<1>1. SwitchInv => NoDoubleArm
  BY DEF SwitchInv, NoDoubleArm, OneTimer, Guarded
<1> QED
  BY <1>1, SwitchInvariant, PTL

\* The LED is never set more often than the switch was pressed.
THEOREM WritesArePresses == Spec => []NoGhostToggle
<1>1. SwitchInv => NoGhostToggle
  <2> SUFFICES ASSUME SwitchInv PROVE NoGhostToggle
    OBVIOUS
  <2>1. Owed \in Nat
    BY DEF Owed, One
  <2> QED
    BY <2>1 DEF SwitchInv, TypeOK, Account, NoGhostToggle
<1> QED
  BY <1>1, SwitchInvariant, PTL

\* Nothing of a driver that waits for its interrupt runs after its removal
\* (hgpio.c, gpio-sim-int.c, hgpio_debounce.c).
THEOREM RemovalIsQuiet == Spec => []QuietAfterRemove
<1>1. SwitchInv => QuietAfterRemove
  BY DEF SwitchInv, QuietAfterRemove, Shape, Freeing, Drivers
<1> QED
  BY <1>1, SwitchInvariant, PTL

\* A removed driver starts no new work once its interrupt is freed (h2gpio.c:80,
\* gpio-sim-debounce.c:94).
THEOREM RemovedStartsNothing == Spec => NothingNewAfterRemove
<1> DEFINE Step == mod = "removed" /\ drv \in {"hrt", "delayed"} =>
                     (queued' => queued) /\ (ipc = "idle" => ipc' = "idle")
<1>1. SwitchInv /\ [Next]_vars => [Step]_vars
  <2> SUFFICES ASSUME SwitchInv, Next, mod = "removed", drv \in {"hrt", "delayed"}
               PROVE  (queued' => queued) /\ (ipc = "idle" => ipc' = "idle")
    OBVIOUS
  <2>1. ~irqOn /\ ipc = "idle"
    BY DEF SwitchInv, Shape, Freeing
  <2>2. \/ Press \/ Release \/ HrtBody \/ HrtCheck \/ DelayedBody
    BY <2>1, NextCases
    DEF DirectIrq, WqIrq, WqIrqEnd, WqBody, WqClear, TimerIrq, AddTimer, TimerBody, TimerCheck,
        HrtIrq, HrtStart, BottomIrq, BottomThread, ThreadWake, ThreadLook, ThreadLoop,
        DelayedIrq, DelayedThread, RemoveFrees, RemoveWq, RemoveTimer, Edge
  <2> QED
    BY <2>1, <2>2 DEF Press, Release, HrtBody, HrtCheck, DelayedBody, bodyVars
<1> QED
  BY <1>1, SwitchInvariant, PTL DEF Spec, NothingNewAfterRemove

================================================================================
