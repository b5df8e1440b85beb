------------------------ MODULE Recomposition_proofs ------------------------
(* Proofs about Recomposition.  The invariant has a part for each thing that  *)
(* the two threads must agree on; every action keeps every part.              *)
EXTENDS Recomposition, TLAPS

\* A thread runs while the display is on and recomposition in use, and is told
\* to end by the one caller that then joins it.
Lifecycle ==
  /\ caller \in StopStep => loop # "none"
  /\ caller = "start" => on /\ use /\ loop = "none"
  /\ ~(on /\ use) /\ caller \notin StopStep => loop = "none"
  /\ on /\ use /\ caller \notin StopStep \union {"start"} => loop # "none"
  /\ loop = "ended" => caller \in {"stopPost", "join"} /\ ~stopTriggered
  /\ stopTriggered => caller \in {"stopPost", "join"}

\* What reset() reads in mWaiting is true of the thread.
Signals ==
  /\ mWaiting => loop \in {"wait", "woken"}
  /\ NoLostSignal

\* The timer has decided on layers of before the change only as long as no
\* frame has taken the change up.
Special ==
  /\ SpecialByDevice
  /\ use /\ content = "special" /\ caller \in FrameStep =>
       mode # "toClient" /\ loop # "switch"
  /\ use /\ content = "special" /\ loop = "switch" => changed

RecompositionInv == RecompositionTypeOK /\ Lifecycle /\ Signals /\ Special

\* The two halves of the types
TruthValues ==
  /\ on \in BOOLEAN /\ use \in BOOLEAN
  /\ changed \in BOOLEAN /\ shown \in BOOLEAN
  /\ mWaiting \in BOOLEAN
  /\ resetTriggered \in BOOLEAN /\ stopTriggered \in BOOLEAN
  /\ due \in BOOLEAN /\ resetDue \in BOOLEAN

Steps ==
  /\ mode \in {"none", "toClient", "toDevice"}
  /\ content \in {"none", "plain", "special"}
  /\ caller \in CallerStep /\ loop \in LoopStep
  /\ semaphore \in Nat

-----------------------------------------------------------------------------
(* The invariant holds at first. *)
LEMMA InvAtFirst == RecompositionInit => RecompositionInv
  <1> SUFFICES ASSUME RecompositionInit PROVE RecompositionInv
    OBVIOUS
  <1>1. TruthValues
    BY DEF RecompositionInit, TruthValues
  <1>2. Steps
    BY DEF RecompositionInit, Steps, CallerStep, LoopStep
  <1>3. Lifecycle /\ Signals /\ Special
    BY DEF RecompositionInit, Lifecycle, Signals, NoLostSignal, Special,
           SpecialByDevice, StopStep, FrameStep
  <1>. QED
    BY <1>1, <1>2, <1>3
       DEF RecompositionInv, RecompositionTypeOK, TruthValues, Steps

(* Every step keeps the types of the truth values. *)
LEMMA KeepsTruthValues ==
  ASSUME TruthValues, [RecompositionNext]_recompositionVars
  PROVE  TruthValues'
  <1> USE DEF TruthValues, settings, frame, flags, times
  <1>1. CASE ChangeLayers
    BY <1>1 DEF ChangeLayers
  <1>2. CASE Preprocess
    BY <1>2 DEF Preprocess
  <1>3. CASE RevertMode
    BY <1>3 DEF RevertMode, Reverted
  <1>4. CASE LeaveFrame
    BY <1>4 DEF LeaveFrame
  <1>5. CASE PresentDisplay
    BY <1>5 DEF PresentDisplay
  <1>6. CASE FinishPresent
    BY <1>6 DEF FinishPresent
  <1>7. CASE PowerOn
    BY <1>7 DEF PowerOn
  <1>8. CASE PowerOff
    BY <1>8 DEF PowerOff
  <1>9. CASE EnableRecomposition
    BY <1>9 DEF EnableRecomposition
  <1>10. CASE DisableRecomposition
    BY <1>10 DEF DisableRecomposition
  <1>11. CASE AdjustTimer
    BY <1>11 DEF AdjustTimer
  <1>12. CASE ResetTime
    BY <1>12 DEF ResetTime
  <1>13. CASE ResetFlag
    BY <1>13 DEF ResetFlag
  <1>14. CASE LookWhetherWaiting
    BY <1>14 DEF LookWhetherWaiting
  <1>15. CASE ResetPost
    BY <1>15 DEF ResetPost
  <1>16. CASE StopTimer
    BY <1>16 DEF StopTimer
  <1>17. CASE StopPost
    BY <1>17 DEF StopPost
  <1>18. CASE TimerJoined
    BY <1>18 DEF TimerJoined
  <1>19. CASE StartTimer
    BY <1>19 DEF StartTimer
  <1>20. CASE LoopTop
    BY <1>20 DEF LoopTop, Stopped, WasReset, NotCalled, LoopOnly
  <1>21. CASE Sleep
    BY <1>21 DEF Sleep, LoopOnly
  <1>22. CASE SetTriggerTime
    BY <1>22 DEF SetTriggerTime, Stopped, LoopOnly
  <1>23. CASE Arm
    BY <1>23 DEF Arm, LoopOnly
  <1>24. CASE Wait
    BY <1>24 DEF Wait, LoopOnly
  <1>25. CASE Woken
    BY <1>25 DEF Woken, LoopOnly
  <1>26. CASE Check
    BY <1>26 DEF Check, Stopped, WasReset, NotCalled, LoopOnly
  <1>27. CASE Rearm
    BY <1>27 DEF Rearm, LoopOnly
  <1>28. CASE Fire
    BY <1>28 DEF Fire, LoopOnly
  <1>29. CASE SetMode
    BY <1>29 DEF SetMode
  <1>30. CASE IntervalEnds
    BY <1>30 DEF IntervalEnds
  <1>31. CASE ResetIntervalEnds
    BY <1>31 DEF ResetIntervalEnds
  <1>32. CASE UNCHANGED recompositionVars
    BY <1>32 DEF recompositionVars
  <1>. QED
    BY <1>1, <1>2, <1>3, <1>4, <1>5, <1>6, <1>7, <1>8, <1>9, <1>10, <1>11, <1>12,
       <1>13, <1>14, <1>15, <1>16, <1>17, <1>18, <1>19, <1>20, <1>21, <1>22, <1>23,
       <1>24, <1>25, <1>26, <1>27, <1>28, <1>29, <1>30, <1>31, <1>32
       DEF RecompositionNext, CallerNext, LoopNext


(* Every step keeps the other types. *)
LEMMA KeepsSteps ==
  ASSUME RecompositionTypeOK, [RecompositionNext]_recompositionVars
  PROVE  Steps'
  <1> USE DEF RecompositionTypeOK, Steps, CallerStep, LoopStep, StopStep, FrameStep,
             settings, frame, flags, times
  <1>1. CASE ChangeLayers
    BY <1>1 DEF ChangeLayers
  <1>2. CASE Preprocess
    BY <1>2 DEF Preprocess
  <1>3. CASE RevertMode
    BY <1>3 DEF RevertMode, Reverted
  <1>4. CASE LeaveFrame
    BY <1>4 DEF LeaveFrame
  <1>5. CASE PresentDisplay
    BY <1>5 DEF PresentDisplay
  <1>6. CASE FinishPresent
    BY <1>6 DEF FinishPresent
  <1>7. CASE PowerOn
    BY <1>7 DEF PowerOn
  <1>8. CASE PowerOff
    BY <1>8 DEF PowerOff
  <1>9. CASE EnableRecomposition
    BY <1>9 DEF EnableRecomposition
  <1>10. CASE DisableRecomposition
    BY <1>10 DEF DisableRecomposition
  <1>11. CASE AdjustTimer
    BY <1>11 DEF AdjustTimer
  <1>12. CASE ResetTime
    BY <1>12 DEF ResetTime
  <1>13. CASE ResetFlag
    BY <1>13 DEF ResetFlag
  <1>14. CASE LookWhetherWaiting
    BY <1>14 DEF LookWhetherWaiting
  <1>15. CASE ResetPost
    BY <1>15 DEF ResetPost
  <1>16. CASE StopTimer
    BY <1>16 DEF StopTimer
  <1>17. CASE StopPost
    BY <1>17 DEF StopPost
  <1>18. CASE TimerJoined
    BY <1>18 DEF TimerJoined
  <1>19. CASE StartTimer
    BY <1>19 DEF StartTimer
  <1>20. CASE LoopTop
    BY <1>20 DEF LoopTop, Stopped, WasReset, NotCalled, LoopOnly
  <1>21. CASE Sleep
    BY <1>21 DEF Sleep, LoopOnly
  <1>22. CASE SetTriggerTime
    BY <1>22 DEF SetTriggerTime, Stopped, LoopOnly
  <1>23. CASE Arm
    BY <1>23 DEF Arm, LoopOnly
  <1>24. CASE Wait
    BY <1>24 DEF Wait, LoopOnly
  <1>25. CASE Woken
    BY <1>25 DEF Woken, LoopOnly
  <1>26. CASE Check
    BY <1>26 DEF Check, Stopped, WasReset, NotCalled, LoopOnly
  <1>27. CASE Rearm
    BY <1>27 DEF Rearm, LoopOnly
  <1>28. CASE Fire
    BY <1>28 DEF Fire, LoopOnly
  <1>29. CASE SetMode
    BY <1>29 DEF SetMode
  <1>30. CASE IntervalEnds
    BY <1>30 DEF IntervalEnds
  <1>31. CASE ResetIntervalEnds
    BY <1>31 DEF ResetIntervalEnds
  <1>32. CASE UNCHANGED recompositionVars
    BY <1>32 DEF recompositionVars
  <1>. QED
    BY <1>1, <1>2, <1>3, <1>4, <1>5, <1>6, <1>7, <1>8, <1>9, <1>10, <1>11, <1>12,
       <1>13, <1>14, <1>15, <1>16, <1>17, <1>18, <1>19, <1>20, <1>21, <1>22, <1>23,
       <1>24, <1>25, <1>26, <1>27, <1>28, <1>29, <1>30, <1>31, <1>32
       DEF RecompositionNext, CallerNext, LoopNext


(* Every step keeps the types. *)
LEMMA KeepsTypes ==
  ASSUME RecompositionTypeOK, [RecompositionNext]_recompositionVars
  PROVE  RecompositionTypeOK'
  <1>1. TruthValues'
    BY KeepsTruthValues DEF RecompositionTypeOK, TruthValues
  <1>2. Steps'
    BY KeepsSteps
  <1>. QED
    BY <1>1, <1>2 DEF RecompositionTypeOK, TruthValues, Steps

(* The thread is started and joined in turn: start() and stop() are where it is told
   so. *)
LEMMA KeepsLifecycle ==
  ASSUME RecompositionTypeOK, Lifecycle, [RecompositionNext]_recompositionVars
  PROVE  Lifecycle'
  <1> USE DEF RecompositionTypeOK, CallerStep, LoopStep, StopStep, FrameStep,
             Lifecycle, settings, frame, flags, times
  <1>1. CASE ChangeLayers
    BY <1>1 DEF ChangeLayers
  <1>2. CASE Preprocess
    BY <1>2 DEF Preprocess
  <1>3. CASE RevertMode
    BY <1>3 DEF RevertMode, Reverted
  <1>4. CASE LeaveFrame
    BY <1>4 DEF LeaveFrame
  <1>5. CASE PresentDisplay
    BY <1>5 DEF PresentDisplay
  <1>6. CASE FinishPresent
    BY <1>6 DEF FinishPresent
  <1>7. CASE PowerOn
    BY <1>7 DEF PowerOn
  <1>8. CASE PowerOff
    BY <1>8 DEF PowerOff
  <1>9. CASE EnableRecomposition
    BY <1>9 DEF EnableRecomposition
  <1>10. CASE DisableRecomposition
    BY <1>10 DEF DisableRecomposition
  <1>11. CASE AdjustTimer
    BY <1>11 DEF AdjustTimer
  <1>12. CASE ResetTime
    BY <1>12 DEF ResetTime
  <1>13. CASE ResetFlag
    BY <1>13 DEF ResetFlag
  <1>14. CASE LookWhetherWaiting
    BY <1>14 DEF LookWhetherWaiting
  <1>15. CASE ResetPost
    BY <1>15 DEF ResetPost
  <1>16. CASE StopTimer
    BY <1>16 DEF StopTimer
  <1>17. CASE StopPost
    BY <1>17 DEF StopPost
  <1>18. CASE TimerJoined
    BY <1>18 DEF TimerJoined
  <1>19. CASE StartTimer
    BY <1>19 DEF StartTimer
  <1>20. CASE LoopTop
    BY <1>20 DEF LoopTop, Stopped, WasReset, NotCalled, LoopOnly
  <1>21. CASE Sleep
    BY <1>21 DEF Sleep, LoopOnly
  <1>22. CASE SetTriggerTime
    BY <1>22 DEF SetTriggerTime, Stopped, LoopOnly
  <1>23. CASE Arm
    BY <1>23 DEF Arm, LoopOnly
  <1>24. CASE Wait
    BY <1>24 DEF Wait, LoopOnly
  <1>25. CASE Woken
    BY <1>25 DEF Woken, LoopOnly
  <1>26. CASE Check
    BY <1>26 DEF Check, Stopped, WasReset, NotCalled, LoopOnly
  <1>27. CASE Rearm
    BY <1>27 DEF Rearm, LoopOnly
  <1>28. CASE Fire
    BY <1>28 DEF Fire, LoopOnly
  <1>29. CASE SetMode
    BY <1>29 DEF SetMode
  <1>30. CASE IntervalEnds
    BY <1>30 DEF IntervalEnds
  <1>31. CASE ResetIntervalEnds
    BY <1>31 DEF ResetIntervalEnds
  <1>32. CASE UNCHANGED recompositionVars
    BY <1>32 DEF recompositionVars
  <1>. QED
    BY <1>1, <1>2, <1>3, <1>4, <1>5, <1>6, <1>7, <1>8, <1>9, <1>10, <1>11, <1>12,
       <1>13, <1>14, <1>15, <1>16, <1>17, <1>18, <1>19, <1>20, <1>21, <1>22, <1>23,
       <1>24, <1>25, <1>26, <1>27, <1>28, <1>29, <1>30, <1>31, <1>32
       DEF RecompositionNext, CallerNext, LoopNext


(* No signal is lost, in whatever order flag, post and wait come. *)
LEMMA KeepsSignals ==
  ASSUME RecompositionTypeOK, Lifecycle, Signals, [RecompositionNext]_recompositionVars
  PROVE  Signals'
  <1> USE DEF RecompositionTypeOK, CallerStep, LoopStep, StopStep, FrameStep,
             Lifecycle, Signals, NoLostSignal, settings, frame, flags, times
  <1>1. CASE ChangeLayers
    BY <1>1 DEF ChangeLayers
  <1>2. CASE Preprocess
    BY <1>2 DEF Preprocess
  <1>3. CASE RevertMode
    BY <1>3 DEF RevertMode, Reverted
  <1>4. CASE LeaveFrame
    BY <1>4 DEF LeaveFrame
  <1>5. CASE PresentDisplay
    BY <1>5 DEF PresentDisplay
  <1>6. CASE FinishPresent
    BY <1>6 DEF FinishPresent
  <1>7. CASE PowerOn
    BY <1>7 DEF PowerOn
  <1>8. CASE PowerOff
    BY <1>8 DEF PowerOff
  <1>9. CASE EnableRecomposition
    BY <1>9 DEF EnableRecomposition
  <1>10. CASE DisableRecomposition
    BY <1>10 DEF DisableRecomposition
  <1>11. CASE AdjustTimer
    BY <1>11 DEF AdjustTimer
  <1>12. CASE ResetTime
    BY <1>12 DEF ResetTime
  <1>13. CASE ResetFlag
    BY <1>13 DEF ResetFlag
  <1>14. CASE LookWhetherWaiting
    BY <1>14 DEF LookWhetherWaiting
  <1>15. CASE ResetPost
    BY <1>15 DEF ResetPost
  <1>16. CASE StopTimer
    BY <1>16 DEF StopTimer
  <1>17. CASE StopPost
    BY <1>17 DEF StopPost
  <1>18. CASE TimerJoined
    BY <1>18 DEF TimerJoined
  <1>19. CASE StartTimer
    BY <1>19 DEF StartTimer
  <1>20. CASE LoopTop
    BY <1>20 DEF LoopTop, Stopped, WasReset, NotCalled, LoopOnly
  <1>21. CASE Sleep
    BY <1>21 DEF Sleep, LoopOnly
  <1>22. CASE SetTriggerTime
    BY <1>22 DEF SetTriggerTime, Stopped, LoopOnly
  <1>23. CASE Arm
    BY <1>23 DEF Arm, LoopOnly
  <1>24. CASE Wait
    BY <1>24 DEF Wait, LoopOnly
  <1>25. CASE Woken
    BY <1>25 DEF Woken, LoopOnly
  <1>26. CASE Check
    BY <1>26 DEF Check, Stopped, WasReset, NotCalled, LoopOnly
  <1>27. CASE Rearm
    BY <1>27 DEF Rearm, LoopOnly
  <1>28. CASE Fire
    BY <1>28 DEF Fire, LoopOnly
  <1>29. CASE SetMode
    BY <1>29 DEF SetMode
  <1>30. CASE IntervalEnds
    BY <1>30 DEF IntervalEnds
  <1>31. CASE ResetIntervalEnds
    BY <1>31 DEF ResetIntervalEnds
  <1>32. CASE UNCHANGED recompositionVars
    BY <1>32 DEF recompositionVars
  <1>. QED
    BY <1>1, <1>2, <1>3, <1>4, <1>5, <1>6, <1>7, <1>8, <1>9, <1>10, <1>11, <1>12,
       <1>13, <1>14, <1>15, <1>16, <1>17, <1>18, <1>19, <1>20, <1>21, <1>22, <1>23,
       <1>24, <1>25, <1>26, <1>27, <1>28, <1>29, <1>30, <1>31, <1>32
       DEF RecompositionNext, CallerNext, LoopNext


(* A special layer is kept from the client, by the change that is still pending or by
   mDRMutex. *)
LEMMA KeepsSpecial ==
  ASSUME RecompositionTypeOK, Lifecycle, Special, [RecompositionNext]_recompositionVars
  PROVE  Special'
  <1> USE DEF RecompositionTypeOK, CallerStep, LoopStep, StopStep, FrameStep,
             Lifecycle, Special, SpecialByDevice, settings, frame, flags, times
  <1>1. CASE ChangeLayers
    BY <1>1 DEF ChangeLayers
  <1>2. CASE Preprocess
    <2>1. changed => changed'
      BY <1>2 DEF Preprocess
    <2>2. mode' \in {mode, "none"} /\ UNCHANGED <<settings, loop>>
      BY <1>2 DEF Preprocess
    <2>3. caller' \in {"revert", "prepared"} /\ (use => caller' = "revert")
      BY <1>2 DEF Preprocess
    <2>4. ~use => loop = "none"
      BY <1>2 DEF Preprocess
    <2>. QED
      BY <2>1, <2>2, <2>3, <2>4
  <1>3. CASE RevertMode
    BY <1>3 DEF RevertMode, Reverted
  <1>4. CASE LeaveFrame
    BY <1>4 DEF LeaveFrame
  <1>5. CASE PresentDisplay
    BY <1>5 DEF PresentDisplay
  <1>6. CASE FinishPresent
    BY <1>6 DEF FinishPresent
  <1>7. CASE PowerOn
    BY <1>7 DEF PowerOn
  <1>8. CASE PowerOff
    BY <1>8 DEF PowerOff
  <1>9. CASE EnableRecomposition
    BY <1>9 DEF EnableRecomposition
  <1>10. CASE DisableRecomposition
    BY <1>10 DEF DisableRecomposition
  <1>11. CASE AdjustTimer
    BY <1>11 DEF AdjustTimer
  <1>12. CASE ResetTime
    BY <1>12 DEF ResetTime
  <1>13. CASE ResetFlag
    BY <1>13 DEF ResetFlag
  <1>14. CASE LookWhetherWaiting
    BY <1>14 DEF LookWhetherWaiting
  <1>15. CASE ResetPost
    BY <1>15 DEF ResetPost
  <1>16. CASE StopTimer
    BY <1>16 DEF StopTimer
  <1>17. CASE StopPost
    BY <1>17 DEF StopPost
  <1>18. CASE TimerJoined
    BY <1>18 DEF TimerJoined
  <1>19. CASE StartTimer
    BY <1>19 DEF StartTimer
  <1>20. CASE LoopTop
    BY <1>20 DEF LoopTop, Stopped, WasReset, NotCalled, LoopOnly
  <1>21. CASE Sleep
    BY <1>21 DEF Sleep, LoopOnly
  <1>22. CASE SetTriggerTime
    BY <1>22 DEF SetTriggerTime, Stopped, LoopOnly
  <1>23. CASE Arm
    BY <1>23 DEF Arm, LoopOnly
  <1>24. CASE Wait
    BY <1>24 DEF Wait, LoopOnly
  <1>25. CASE Woken
    BY <1>25 DEF Woken, LoopOnly
  <1>26. CASE Check
    BY <1>26 DEF Check, Stopped, WasReset, NotCalled, LoopOnly
  <1>27. CASE Rearm
    BY <1>27 DEF Rearm, LoopOnly
  <1>28. CASE Fire
    BY <1>28 DEF Fire, LoopOnly
  <1>29. CASE SetMode
    BY <1>29 DEF SetMode
  <1>30. CASE IntervalEnds
    BY <1>30 DEF IntervalEnds
  <1>31. CASE ResetIntervalEnds
    BY <1>31 DEF ResetIntervalEnds
  <1>32. CASE UNCHANGED recompositionVars
    BY <1>32 DEF recompositionVars
  <1>. QED
    BY <1>1, <1>2, <1>3, <1>4, <1>5, <1>6, <1>7, <1>8, <1>9, <1>10, <1>11, <1>12,
       <1>13, <1>14, <1>15, <1>16, <1>17, <1>18, <1>19, <1>20, <1>21, <1>22, <1>23,
       <1>24, <1>25, <1>26, <1>27, <1>28, <1>29, <1>30, <1>31, <1>32
       DEF RecompositionNext, CallerNext, LoopNext


-----------------------------------------------------------------------------
(* RecompositionInv is an invariant. *)
LEMMA Invariance == RecompositionSpec => []RecompositionInv
  <1>1. RecompositionInit => RecompositionInv
    BY InvAtFirst
  <1>2. RecompositionInv /\ [RecompositionNext]_recompositionVars => RecompositionInv'
    BY KeepsTypes, KeepsLifecycle, KeepsSignals, KeepsSpecial DEF RecompositionInv
  <1>. QED
    BY <1>1, <1>2, PTL DEF RecompositionSpec

(* The variables of the timer and of the recomposition are of their types. *)
THEOREM RecompositionTyping == RecompositionSpec => []RecompositionTypeOK
  <1>1. RecompositionInv => RecompositionTypeOK
    BY DEF RecompositionInv
  <1>. QED
    BY <1>1, Invariance, PTL

(* The timer's thread sleeps over no reset and waits over no stop, although   *)
(* OneShotTimer::reset leaves its post out when mWaiting is set.              *)
THEOREM SignalsAreKept == RecompositionSpec => []NoLostSignal
  <1>1. RecompositionInv => NoLostSignal
    BY DEF RecompositionInv, Signals
  <1>. QED
    BY <1>1, Invariance, PTL

(* A layer that the device has to compose is not left to the client, whatever *)
(* the timer decided before (ExynosDisplay::checkLayersForRevertingDR).       *)
THEOREM SpecialLayersByDevice == RecompositionSpec => []SpecialByDevice
  <1>1. RecompositionInv => SpecialByDevice
    BY DEF RecompositionInv, Special
  <1>. QED
    BY <1>1, Invariance, PTL
=============================================================================
