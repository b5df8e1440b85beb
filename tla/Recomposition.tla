---------------------------- MODULE Recomposition ----------------------------
(* Dynamic recomposition of the primary display (checkLayersForSettingDR in   *)
(* primarydisplay/ExynosPrimaryDisplay.cpp) and the timer that drives it      *)
(* (utils/OneShotTimer.cpp): when no frame came for an interval, a static     *)
(* screen is left to the client, so that one plane is scanned out in place of *)
(* many, until its layers change.                                             *)
(*                                                                            *)
(* The caller is whichever thread holds the device mutex; the timer's thread  *)
(* takes mDRMutex only.  They meet in a semaphore and three atomic flags.     *)
(* Assumed of the environment: start() is called without a thread only.  The  *)
(* service enables what is disabled and adjusts what runs, and the display is *)
(* not switched on from doze.                                                 *)
EXTENDS Integers

CONSTANT MaxPosts   \* bound: no present starts with so many posts pending

ASSUME PostAssumption == MaxPosts \in Nat \ {0}

VARIABLES
  on,               \* the display is on
  use,              \* mUseDynamicRecomp
  mode,             \* mDynamicRecompMode
  content,          \* the layers: none, plain ones, or one the device has to compose
  changed,          \* a layer's buffer is not its last one, or a geometry flag is set
  shown,            \* ghost: the last that was done with the display was a whole present
  caller,           \* where the thread is that holds the device mutex
  loop,             \* where the timer's thread is
  semaphore,        \* the count of mSemaphore
  mWaiting,
  resetTriggered,   \* mResetTriggered
  stopTriggered,    \* mStopTriggered
  due,              \* triggerTime has come
  resetDue          \* mLastResetTime + mInterval has come

settings == <<on, use, content>>
frame == <<mode, changed, shown>>
flags == <<mWaiting, resetTriggered, stopTriggered>>
times == <<due, resetDue>>
recompositionVars == <<settings, frame, caller, loop, semaphore, flags, times>>

StopStep == {"stop", "stopPost", "join"}
\* From the preprocessing of a frame to the end of its present
FrameStep == {"prepared", "reset", "flag", "look", "post", "finish"}
CallerStep == {"idle", "revert", "start"} \union StopStep \union FrameStep
\* "switch" and "keep" hold mDRMutex: the layers have been looked at.
LoopStep == {"none", "begin", "top", "sleep", "second", "arm", "wait",
             "woken", "check", "rearm", "fire", "switch", "keep", "ended"}

RecompositionTypeOK ==
  /\ on \in BOOLEAN /\ use \in BOOLEAN
  /\ mode \in {"none", "toClient", "toDevice"}
  /\ content \in {"none", "plain", "special"}
  /\ changed \in BOOLEAN /\ shown \in BOOLEAN
  /\ caller \in CallerStep /\ loop \in LoopStep
  /\ semaphore \in Nat
  /\ mWaiting \in BOOLEAN
  /\ resetTriggered \in BOOLEAN /\ stopTriggered \in BOOLEAN
  /\ due \in BOOLEAN /\ resetDue \in BOOLEAN

RecompositionInit ==
  /\ on = FALSE /\ use \in BOOLEAN
  /\ mode = "none" /\ content = "none"
  /\ changed = FALSE /\ shown = FALSE
  /\ caller = "idle" /\ loop = "none"
  /\ semaphore = 0
  /\ mWaiting = FALSE
  /\ resetTriggered = FALSE /\ stopTriggered = FALSE
  /\ due = FALSE /\ resetDue = FALSE

-----------------------------------------------------------------------------
(* The display                                                               *)

\* Layer operations, between frames.  A change on another display sets the
\* geometry flag of the device as well.
ChangeLayers ==
  /\ caller = "idle"
  /\ content' \in {"none", "plain", "special"}
  /\ changed' = TRUE /\ shown' = FALSE
  /\ UNCHANGED <<on, use, mode, caller, loop, semaphore, flags, times>>

\* doPreProcessing is part of a validate, and of a present of any display that
\* tries to skip it, so that one frame may have several.  It may find a change
\* of its own, and one between single and double buffering gives the
\* recomposition up.
Preprocess ==
  /\ caller \in {"idle", "prepared"}
  /\ \/ changed' \in {changed, TRUE} /\ UNCHANGED mode
     \/ changed' = TRUE /\ mode' = "none"
  /\ shown' = FALSE
  /\ caller' = IF use THEN "revert" ELSE "prepared"
  /\ UNCHANGED <<settings, loop, semaphore, flags, times>>

Reverted ==
  /\ IF mode = "toClient"
     THEN /\ mode' = IF changed /\ content # "none" THEN "toDevice" ELSE mode
          /\ changed' = TRUE
     ELSE UNCHANGED <<mode, changed>>
  /\ caller' = "prepared"
  /\ UNCHANGED <<settings, shown, loop, semaphore, flags, times>>

\* Variant: without mDRMutex.
RevertUnlocked == caller = "revert" /\ Reverted

\* checkLayersForRevertingDR: a change goes back to the device.  In any case
\* the flag has the layers assigned again, which the next preprocessing of the
\* same frame takes for a change.
RevertMode ==
  /\ caller = "revert" /\ loop \notin {"switch", "keep"}
  /\ Reverted

\* The frame is finished by another display, fails, or is left unfinished.
LeaveFrame ==
  /\ caller = "prepared"
  /\ changed' \in BOOLEAN
  /\ caller' = "idle"
  /\ UNCHANGED <<settings, mode, shown, loop, semaphore, flags, times>>

\* A present that fails before this, or has no layers, only leaves the frame.
PresentDisplay ==
  /\ caller = "prepared"
  /\ on /\ content # "none" /\ semaphore < MaxPosts
  /\ caller' = IF use /\ mode # "toClient" THEN "reset" ELSE "finish"
  /\ UNCHANGED <<settings, frame, loop, semaphore, flags, times>>

FinishPresent ==
  /\ caller = "finish"
  /\ \/ changed' = FALSE /\ shown' = TRUE
     \/ changed' = TRUE /\ UNCHANGED shown   \* with GEOMETRY_ERROR_CASE
  /\ caller' = "idle"
  /\ UNCHANGED <<settings, mode, loop, semaphore, flags, times>>

\* ExynosPrimaryDisplay::setPowerMode
PowerOn ==
  /\ caller = "idle" /\ ~on
  /\ on' = TRUE
  /\ changed' = TRUE /\ shown' = FALSE
  /\ caller' = IF use THEN "start" ELSE "idle"
  /\ UNCHANGED <<use, mode, content, loop, semaphore, flags, times>>

PowerOff ==
  /\ caller = "idle" /\ on
  /\ on' = FALSE
  /\ changed' = TRUE /\ shown' = FALSE
  /\ caller' = IF use THEN "stop" ELSE "idle"
  /\ UNCHANGED <<use, mode, content, loop, semaphore, flags, times>>

\* ExynosDevice::setHWCControl, HWC_CTL_DYNAMIC_RECOMP
EnableRecomposition ==
  /\ caller = "idle" /\ on /\ ~use
  /\ use' = TRUE
  /\ changed' = TRUE /\ shown' = FALSE
  /\ caller' = "start"
  /\ UNCHANGED <<on, mode, content, loop, semaphore, flags, times>>

DisableRecomposition ==
  /\ caller = "idle" /\ on /\ use
  /\ use' = FALSE
  /\ changed' = TRUE /\ shown' = FALSE
  /\ caller' = "stop"
  /\ UNCHANGED <<on, mode, content, loop, semaphore, flags, times>>

\* HWC_CTL_ADJUST_DYNAMIC_RECOMP_TIMER: setInterval stops and starts.
AdjustTimer ==
  /\ caller = "idle" /\ on /\ use
  /\ caller' = "stop"
  /\ UNCHANGED <<settings, frame, loop, semaphore, flags, times>>

-----------------------------------------------------------------------------
(* The calls of the timer                                                    *)

ResetTime ==
  /\ caller = "reset"
  /\ resetDue' = FALSE
  /\ caller' = "flag"
  /\ UNCHANGED <<settings, frame, loop, semaphore, flags, due>>

ResetFlag ==
  /\ caller = "flag"
  /\ resetTriggered' = TRUE
  /\ caller' = "look"
  /\ UNCHANGED <<settings, frame, loop, semaphore, mWaiting, stopTriggered, times>>

LookWhetherWaiting ==
  /\ caller = "look"
  /\ caller' = IF mWaiting THEN "finish" ELSE "post"
  /\ UNCHANGED <<settings, frame, loop, semaphore, flags, times>>

ResetPost ==
  /\ caller = "post"
  /\ semaphore' = semaphore + 1
  /\ caller' = "finish"
  /\ UNCHANGED <<settings, frame, loop, flags, times>>

StopTimer ==
  /\ caller = "stop"
  /\ stopTriggered' = TRUE
  /\ caller' = "stopPost"
  /\ UNCHANGED <<settings, frame, loop, semaphore, mWaiting, resetTriggered, times>>

StopPost ==
  /\ caller = "stopPost"
  /\ semaphore' = semaphore + 1
  /\ caller' = "join"
  /\ UNCHANGED <<settings, frame, loop, flags, times>>

\* Of the three that stop the timer only setInterval starts it again.
TimerJoined ==
  /\ caller = "join" /\ loop = "ended"
  /\ loop' = "none"
  /\ caller' = IF on /\ use THEN "start" ELSE "idle"
  /\ UNCHANGED <<settings, frame, semaphore, flags, times>>

StartTimer ==
  /\ caller = "start"
  /\ semaphore' = 0
  /\ loop' = "begin"
  /\ caller' = "idle"
  /\ UNCHANGED <<settings, frame, flags, times>>

CallerNext ==
  \/ ChangeLayers \/ Preprocess \/ RevertMode \/ LeaveFrame
  \/ PresentDisplay \/ FinishPresent
  \/ PowerOn \/ PowerOff
  \/ EnableRecomposition \/ DisableRecomposition \/ AdjustTimer
  \/ ResetTime \/ ResetFlag \/ LookWhetherWaiting \/ ResetPost
  \/ StopTimer \/ StopPost \/ TimerJoined \/ StartTimer

-----------------------------------------------------------------------------
(* The timer's thread, OneShotTimer::loop                                    *)

\* checkForResetAndStop.  A stop takes precedence of a reset.
Stopped ==
  /\ stopTriggered
  /\ stopTriggered' = FALSE
  /\ loop' = "ended"
  /\ UNCHANGED <<resetTriggered, mWaiting, times>>

WasReset(next) ==
  /\ ~stopTriggered /\ resetTriggered
  /\ resetTriggered' = FALSE
  /\ loop' = next
  /\ UNCHANGED <<stopTriggered, mWaiting, times>>

NotCalled(next) ==
  /\ ~stopTriggered /\ ~resetTriggered
  /\ loop' = next
  /\ UNCHANGED <<flags, times>>

LoopOnly == UNCHANGED <<settings, frame, caller>>

\* Variant: the reset is taken back and forgotten.
TopForgetting ==
  /\ loop \in {"begin", "top"}
  /\ \/ Stopped
     \/ WasReset("sleep")
     \/ NotCalled(IF loop = "top" THEN "sleep" ELSE "second")
  /\ LoopOnly /\ UNCHANGED semaphore

\* The top of the loop, where state is RESET at the beginning and IDLE later.
LoopTop ==
  /\ loop \in {"begin", "top"}
  /\ \/ Stopped
     \/ WasReset("second")
     \/ NotCalled(IF loop = "top" THEN "sleep" ELSE "second")
  /\ LoopOnly /\ UNCHANGED semaphore

Sleep ==
  /\ loop = "sleep" /\ semaphore > 0
  /\ semaphore' = semaphore - 1
  /\ loop' = "top"
  /\ LoopOnly /\ UNCHANGED <<flags, times>>

\* The check after the reset callback, which starts the interval
SetTriggerTime ==
  /\ loop = "second"
  /\ \/ Stopped
     \/ /\ ~stopTriggered
        /\ resetTriggered' = FALSE
        /\ due' = FALSE
        /\ loop' = "arm"
        /\ UNCHANGED <<mWaiting, stopTriggered, resetDue>>
  /\ LoopOnly /\ UNCHANGED semaphore

Arm ==
  /\ loop = "arm"
  /\ mWaiting' = ~due
  /\ loop' = IF due THEN "woken" ELSE "wait"
  /\ LoopOnly /\ UNCHANGED <<semaphore, resetTriggered, stopTriggered, times>>

\* sem_clockwait returns for a post or a timeout.
Wait ==
  /\ loop = "wait"
  /\ \/ semaphore > 0 /\ semaphore' = semaphore - 1
     \/ due /\ UNCHANGED semaphore
  /\ loop' = "woken"
  /\ LoopOnly /\ UNCHANGED <<flags, times>>

\* Variant: mWaiting stays set.
WokenWaiting ==
  /\ loop = "woken"
  /\ loop' = "check"
  /\ LoopOnly /\ UNCHANGED <<semaphore, flags, times>>

Woken ==
  /\ loop = "woken"
  /\ mWaiting' = FALSE
  /\ loop' = "check"
  /\ LoopOnly /\ UNCHANGED <<semaphore, resetTriggered, stopTriggered, times>>

Check ==
  /\ loop = "check"
  /\ \/ Stopped
     \/ WasReset("rearm")
     \/ NotCalled(IF due THEN "fire" ELSE "arm")
  /\ LoopOnly /\ UNCHANGED semaphore

\* The interval starts at the last reset, which may be one after that of the
\* check.
Rearm ==
  /\ loop = "rearm"
  /\ due' = resetDue
  /\ loop' = "arm"
  /\ LoopOnly /\ UNCHANGED <<semaphore, flags, resetDue>>

\* The timeout calls checkLayersForSettingDR, which looks at the layers.
Fire ==
  /\ loop = "fire"
  /\ loop' = IF content = "special" THEN "keep" ELSE "switch"
  /\ LoopOnly /\ UNCHANGED <<semaphore, flags, times>>

SetMode ==
  /\ loop \in {"keep", "switch"}
  /\ mode' = IF loop = "keep" THEN "toDevice" ELSE "toClient"
  /\ loop' = "top"
  /\ UNCHANGED <<settings, changed, shown, caller, semaphore, flags, times>>

LoopNext ==
  \/ LoopTop \/ Sleep \/ SetTriggerTime \/ Arm \/ Wait \/ Woken
  \/ Check \/ Rearm \/ Fire \/ SetMode

\* Time passes.
IntervalEnds ==
  /\ ~due /\ due' = TRUE
  /\ UNCHANGED <<settings, frame, caller, loop, semaphore, flags, resetDue>>

ResetIntervalEnds ==
  /\ ~resetDue /\ resetDue' = TRUE
  /\ UNCHANGED <<settings, frame, caller, loop, semaphore, flags, due>>

RecompositionNext == CallerNext \/ LoopNext \/ IntervalEnds \/ ResetIntervalEnds

RecompositionSpec == RecompositionInit /\ [][RecompositionNext]_recompositionVars

\* The scheduler runs the timer's thread, and time passes.  Nothing is assumed
\* of the caller: it may stop drawing, which is what the timer is for.
RecompositionFairness ==
  /\ WF_recompositionVars(LoopNext)
  /\ WF_recompositionVars(IntervalEnds)
  /\ WF_recompositionVars(ResetIntervalEnds)

-----------------------------------------------------------------------------
(* Properties                                                                *)

\* The timer's thread never sleeps over a reset, nor waits over a stop, that
\* was asked for: there is a post for it, or the caller is about to post.  The
\* reset may leave its post out since mWaiting says that the thread will look
\* (OneShotTimer::reset).
NoLostSignal ==
  /\ loop = "sleep" /\ resetTriggered =>
       semaphore > 0 \/ caller \in {"look", "post"}
  /\ loop \in {"sleep", "arm", "wait", "rearm"} /\ stopTriggered =>
       semaphore > 0 \/ caller = "stopPost"

\* A layer that the device has to compose is not left to the client, once its
\* change has gone through a frame: the timer decides on layers that may have
\* changed since it looked at them, and mDRMutex makes the frame undo that
\* (ExynosDisplay::checkLayersForRevertingDR).
SpecialByDevice ==
  use /\ content = "special" /\ ~changed => mode # "toClient"

\* A static screen is on
Static == on /\ use /\ caller = "idle" /\ shown

\* A screen that stays as it was presented is recomposed by whom it should be,
\* and stop() gets to join the thread (OneShotTimer::loop).
TimerAnswers ==
  /\ Static ~> (~Static \/ mode = IF content = "special" THEN "toDevice" ELSE "toClient")
  /\ caller = "join" ~> loop = "ended"
=============================================================================
