-------------------------- MODULE FramebufferCache --------------------------
(***************************************************************************)
(* The framebuffers of the DRM path: the cache of                          *)
(* ExynosDrmFramebufferManager, the thread that removes framebuffers from  *)
(* the driver, and the atomic commits of ExynosDisplayDrmInterface that    *)
(* put them on the screens.                                                *)
(*                                                                         *)
(* Two threads meet here.  The client works under the mutex of the device: *)
(* it composes and commits frames, creates and destroys layers, frees the  *)
(* buffers of post-processors, unplugs displays and, at the end, runs the  *)
(* destructor.  The removing thread evicts framebuffers that have not been *)
(* used for long and calls the driver outside the lock.  An action is one  *)
(* critical section of mMutex, or one of the steps between two of them.    *)
(***************************************************************************)
EXTENDS Naturals, FiniteSets

CONSTANTS FB,          \* framebuffer ids of the driver
          Buf,         \* buffers, each with its format, size and modifier
          Owner,       \* layers and client targets
          Display, Type,
          TypeOf,      \* the HWC_DISPLAY_* type of each display
          NoDisplay,   \* not a display
          MaxCached,   \* MAX_CACHED_BUFFERS
          MaxSame,     \* MAX_CACHED_BUFFERS_NO_LAYER_NUM_CHANGE
          MaxPlanes    \* bound: planes in one frame

ASSUME DisplayTypes == TypeOf \in [Display -> Type] /\ NoDisplay \notin Display

VARIABLES
  kernel,    \* framebuffers that exist in the driver
  screen,    \* those each display scans out since its last commit
  staging,   \* mStagingBuffers
  cached,    \* mCachedBuffers; the order of use is left out
  cleanup,   \* mCleanupBuffers
  dying,     \* cleanupBuffers of the removing thread
  newColour, \* mFbIds of each display's interface
  oldColour, \* mOldFbIds
  info,      \* buf, owner, type and removePending of those staged or cached
  stamped,   \* framebuffers whose lastActiveTime[t] is mLastActiveCommitTime[t] # 0
  frame,     \* the client: where it is, and the frame it is composing
  alive,     \* layers that exist
  freed,     \* buffers given up, whose framebuffers were asked to be removed
  remover,   \* mRmFBThread
  running,   \* mRmFBThreadRunning
  exposed    \* displays unplugged, or refused a mode set, since their last commit

vars == <<kernel, screen, staging, cached, cleanup, dying, newColour, oldColour,
          info, stamped, frame, alive, freed, remover, running, exposed>>

lists == <<staging, cached, cleanup, dying, newColour, oldColour>>
threads == <<remover, running>>
world == <<alive, freed, exposed>>

Info == [buf : Buf, owner : Owner, type : Type, pending : BOOLEAN]
Places == {"idle", "compose", "flip", "trim", "unplug", "signal",
           "wake", "join", "closed"}

-----------------------------------------------------------------------------
(* Parts of the handlers.                                                  *)

\* A framebuffer is looked up for its own display only.
CanRemoveOwnType(f) == f \notin stamped[info[f].type]

\* A framebuffer of the last active commit of some type of display stays.
CanRemove(f) == \A t \in Type : f \notin stamped[t]

\* A removal copies where it should splice.
SweepCopying(match) ==
  LET out == {f \in cached : f \in match /\ CanRemove(f)}
  IN  /\ cleanup' = cleanup \union out
      /\ info' = [f \in DOMAIN info \ out |-> info[f]]
      /\ UNCHANGED cached

\* A removal that does not mark what it has to leave.
SweepUnmarked(match) ==
  LET out == {f \in cached : f \in match /\ CanRemove(f)}
  IN  /\ cached' = cached \ out
      /\ cleanup' = cleanup \union out
      /\ info' = [f \in DOMAIN info \ out |-> info[f]]

\* removeBufferInternal(): the framebuffers in match, and those a former
\* removal had to leave, go to the cleanup list or are marked to be removed.
Sweep(match) ==
  LET hit == {f \in cached : f \in match \/ info[f].pending}
      out == {f \in hit : CanRemove(f)}
  IN  /\ cached' = cached \ out
      /\ cleanup' = cleanup \union out
      /\ info' = [f \in DOMAIN info \ out |->
                    IF f \in hit THEN [info[f] EXCEPT !.pending = TRUE]
                             ELSE info[f]]

\* fillCleanupBuffer() may take any of these sets: as many removable
\* framebuffers as bring the cache down to MaxCached, or all there are.
Surplus ==
  LET free == {f \in cached : CanRemove(f)}
  IN  IF Cardinality(cached) <= MaxCached THEN {{}}
      ELSE {s \in SUBSET free :
              \/ Cardinality(cached \ s) = MaxCached
              \/ s = free /\ Cardinality(cached \ s) > MaxCached}

\* mCondition.signal(): lost when nobody waits.
Signalled == IF remover = "waiting" THEN "woken" ELSE remover

\* The client holds the device mutex for a whole call, and then rests.
Rest == [at |-> "idle", display |-> NoDisplay, planes |-> {}, active |-> FALSE]
Idle == frame = Rest

Goto(place) == frame' = [frame EXCEPT !.at = place]

-----------------------------------------------------------------------------
Init ==
  /\ kernel = {} /\ staging = {} /\ cached = {} /\ cleanup = {} /\ dying = {}
  /\ screen = [d \in Display |-> {}]
  /\ newColour = [d \in Display |-> {}]
  /\ oldColour = [d \in Display |-> {}]
  /\ info = [f \in {} |-> f]
  /\ stamped = [t \in Type |-> {}]
  /\ frame = Rest
  /\ alive = Owner /\ freed = {} /\ exposed = {}
  /\ remover = "ready" /\ running = TRUE

-----------------------------------------------------------------------------
(* A frame: ExynosDisplayDrmInterface::deliverWinConfigData().             *)

BeginFrame(d) ==
  /\ Idle
  /\ frame' = [at |-> "compose", display |-> d, planes |-> {}, active |-> FALSE]
  /\ UNCHANGED <<kernel, screen, lists, info, stamped, threads, world>>

Composing == frame.at = "compose" /\ Cardinality(frame.planes) < MaxPlanes
Attach(f) == frame' = [frame EXCEPT !.planes = @ \union {f}]

\* A framebuffer that is used again is taken for a new one.
GetCachedAnew(f) ==
  /\ Composing
  /\ f \in cached /\ info[f].buf \notin freed
  /\ staging' = staging \union {f}
  /\ cached' = cached \ {f}
  /\ info' = [info EXCEPT ![f].pending = FALSE]
  /\ Attach(f)
  /\ UNCHANGED <<kernel, screen, cleanup, dying, newColour, oldColour,
                 stamped, threads, world>>

\* getBuffer() finds the buffer in the cache and stages its framebuffer.
GetCached(f) ==
  /\ Composing
  /\ f \in cached /\ info[f].buf \notin freed
  /\ staging' = staging \union {f}
  /\ cached' = cached \ {f}
  /\ Attach(f)
  /\ UNCHANGED <<kernel, screen, cleanup, dying, newColour, oldColour, info,
                 stamped, threads, world>>

\* getBuffer() does not find it, has the driver add one and stages it.
AddBuffer(f, b, o) ==
  /\ Composing
  /\ f \notin kernel /\ b \notin freed /\ o \in alive
  /\ \A g \in cached : info[g].buf # b
  /\ kernel' = kernel \union {f}
  /\ staging' = staging \union {f}
  /\ info' = [g \in DOMAIN info \union {f} |->
                IF g = f THEN [buf |-> b, owner |-> o, pending |-> FALSE,
                               type |-> TypeOf[frame.display]]
                         ELSE info[g]]
  /\ Attach(f)
  /\ UNCHANGED <<screen, cached, cleanup, dying, newColour, oldColour, stamped,
                 threads, world>>

\* The framebuffer of a colour plane is kept by the display, not cached.
AddColour(f) ==
  /\ Composing
  /\ f \notin kernel
  /\ kernel' = kernel \union {f}
  /\ newColour' = [newColour EXCEPT ![frame.display] = @ \union {f}]
  /\ Attach(f)
  /\ UNCHANGED <<screen, staging, cached, cleanup, dying, oldColour, info,
                 stamped, threads, world>>

\* The commit succeeds: the display scans out these planes and no others.
Commit ==
  /\ frame.at = "compose" /\ frame.planes # {}
  /\ screen' = [screen EXCEPT ![frame.display] = frame.planes]
  /\ exposed' = exposed \ {frame.display}
  /\ frame' = [frame EXCEPT !.at = "flip", !.active = TRUE]
  /\ UNCHANGED <<kernel, lists, info, stamped, threads, alive, freed>>

\* A framebuffer, a property or the commit is refused: any number of
\* framebuffers may be staged by then.
CommitFails ==
  /\ frame.at = "compose"
  /\ Goto("flip")
  /\ UNCHANGED <<kernel, screen, lists, info, stamped, threads, world>>

\* setDisplayMode() fails before any plane is set up: deliverWinConfigData()
\* returns its error from _ret, and ret, which flipFBs() looks at, is NO_ERROR.
ModeSetRefused ==
  /\ frame.at = "compose" /\ frame.planes = {}
  /\ frame' = [frame EXCEPT !.at = "flip", !.active = TRUE]
  /\ exposed' = exposed \union {frame.display}
  /\ UNCHANGED <<kernel, screen, lists, info, stamped, threads, alive, freed>>

\* The colours of the previous frame are dropped without being removed.
FlipLeaking ==
  LET d == frame.display
  IN  /\ frame.at = "flip"
      /\ oldColour' = IF frame.active THEN [oldColour EXCEPT ![d] = newColour[d]]
                                      ELSE oldColour
      /\ newColour' = [newColour EXCEPT ![d] = {}]
      /\ stamped' = IF frame.active THEN [stamped EXCEPT ![TypeOf[d]] = staging]
                                    ELSE stamped
      /\ cached' = cached \union staging
      /\ staging' = {}
      /\ frame' = [Rest EXCEPT !.at = "trim"]
      /\ UNCHANGED <<kernel, screen, cleanup, dying, info, threads, world>>

\* flipFBs() and the critical section of FramebufferManager::flip().
Flip ==
  LET d == frame.display
      t == TypeOf[d]
      gone == IF newColour[d] = {} THEN {}
              ELSE IF frame.active THEN oldColour[d] ELSE newColour[d]
  IN  /\ frame.at = "flip"
      /\ kernel' = kernel \ gone
      /\ oldColour' = IF frame.active /\ newColour[d] # {}
                      THEN [oldColour EXCEPT ![d] = newColour[d]]
                      ELSE oldColour
      /\ newColour' = [newColour EXCEPT ![d] = {}]
      /\ stamped' = IF frame.active THEN [stamped EXCEPT ![t] = staging]
                                    ELSE stamped
      /\ cached' = cached \union staging
      /\ staging' = {}
      /\ frame' = [Rest EXCEPT !.at = "trim"]
      /\ UNCHANGED <<screen, cleanup, dying, info, threads, world>>

\* cleanupSignal(false), with MAX_CACHED_BUFFERS_NO_LAYER_NUM_CHANGE.
Trim ==
  /\ frame.at = "trim"
  /\ remover' = IF Cardinality(cached) > MaxSame THEN Signalled ELSE remover
  /\ frame' = Rest
  /\ UNCHANGED <<kernel, screen, lists, info, stamped, running, world>>

\* clearDisplay(): every plane is disabled, without a flip.
ClearDisplay(d) ==
  /\ Idle
  /\ screen' = [screen EXCEPT ![d] = {}]
  /\ UNCHANGED <<kernel, lists, info, stamped, frame, threads, world>>

-----------------------------------------------------------------------------
(* The other calls of the client.                                          *)

\* onLayerCreated(): cleanupSignal(true).
CreateLayer(o) ==
  /\ Idle /\ o \notin alive
  /\ alive' = alive \union {o}
  /\ remover' = IF Cardinality(cached) > MaxCached THEN Signalled ELSE remover
  /\ UNCHANGED <<kernel, screen, lists, info, stamped, frame, running,
                 freed, exposed>>

\* onLayerDestroyed(), onClientTargetDestroyed(): removeBuffersForOwner().
DestroyLayer(o) ==
  /\ Idle /\ o \in alive
  /\ alive' = alive \ {o}
  /\ Sweep({f \in cached : info[f].owner = o})
  /\ Goto("signal")
  /\ UNCHANGED <<kernel, screen, staging, dying, newColour, oldColour, stamped,
                 threads, freed, exposed>>

\* ExynosMPP::freeOutBuf(): a buffer of a post-processor, no part of a later
\* frame, is freed: removeBuffer().
FreeBuffer(b) ==
  /\ Idle /\ b \notin freed
  /\ freed' = freed \union {b}
  /\ Sweep({f \in cached : info[f].buf = b})
  /\ Goto("signal")
  /\ UNCHANGED <<kernel, screen, staging, dying, newColour, oldColour, stamped,
                 threads, alive, exposed>>

\* onDisplayRemoved(): its last commit no longer protects anything ...
RemoveDisplay(d) ==
  /\ Idle
  /\ stamped' = [stamped EXCEPT ![TypeOf[d]] = {}]
  /\ exposed' = exposed \union {d}
  /\ frame' = [frame EXCEPT !.at = "unplug", !.display = d]
  /\ UNCHANGED <<kernel, screen, lists, info, threads, alive, freed>>

\* ... and, in a second critical section, removeBuffersForDisplay().
SweepDisplay ==
  /\ frame.at = "unplug"
  /\ Sweep({f \in cached : info[f].type = TypeOf[frame.display]})
  /\ frame' = [Rest EXCEPT !.at = "signal"]
  /\ UNCHANGED <<kernel, screen, staging, dying, newColour, oldColour, stamped,
                 threads, world>>

\* The end of removeBufferInternal(): the size is read without the lock.
Notify ==
  /\ frame.at = "signal"
  /\ remover' = IF cleanup # {} THEN Signalled ELSE remover
  /\ frame' = Rest
  /\ UNCHANGED <<kernel, screen, lists, info, stamped, running, world>>

-----------------------------------------------------------------------------
(* removeFBsThreadRoutine().                                               *)

\* It looks at mRmFBThreadRunning only when it starts.
WaitUntested ==
  /\ remover = "ready"
  /\ remover' = "waiting"
  /\ UNCHANGED <<kernel, screen, lists, info, stamped, frame, running, world>>

\* It looks at mRmFBThreadRunning and starts to wait in one critical section.
Wait ==
  /\ remover = "ready"
  /\ remover' = IF running THEN "waiting" ELSE "ended"
  /\ UNCHANGED <<kernel, screen, lists, info, stamped, frame, running, world>>

\* Condition::wait() may return by itself.
WakeUp ==
  /\ remover = "waiting"
  /\ remover' = "woken"
  /\ UNCHANGED <<kernel, screen, lists, info, stamped, frame, running, world>>

\* It fills the cleanup list and takes all of it.
Collect ==
  /\ remover = "woken"
  /\ \E s \in Surplus :
       /\ cached' = cached \ s
       /\ dying' = dying \union cleanup \union s
       /\ info' = [f \in DOMAIN info \ s |-> info[f]]
  /\ cleanup' = {}
  /\ remover' = "clearing"
  /\ UNCHANGED <<kernel, screen, staging, newColour, oldColour, stamped, frame,
                 running, world>>

\* cleanupBuffers.clear(), outside the lock.
Clear ==
  /\ remover = "clearing"
  /\ kernel' = kernel \ dying
  /\ dying' = {}
  /\ remover' = "ready"
  /\ UNCHANGED <<screen, staging, cached, cleanup, newColour, oldColour, info,
                 stamped, frame, running, world>>

-----------------------------------------------------------------------------
(* ~FramebufferManager().                                                  *)

Close ==
  /\ Idle
  /\ running' = FALSE
  /\ Goto("wake")
  /\ UNCHANGED <<kernel, screen, lists, info, stamped, remover, world>>

CloseNotify ==
  /\ frame.at = "wake"
  /\ remover' = Signalled
  /\ Goto("join")
  /\ UNCHANGED <<kernel, screen, lists, info, stamped, running, world>>

\* join() returns; releaseAll(), then the members, among them the cleanup list.
Join ==
  /\ frame.at = "join" /\ remover = "ended"
  /\ kernel' = kernel \ (staging \union cached \union cleanup)
  /\ staging' = {} /\ cached' = {} /\ cleanup' = {}
  /\ info' = [f \in {} |-> info[f]]
  /\ Goto("closed")
  /\ UNCHANGED <<screen, dying, newColour, oldColour, stamped, threads, world>>

-----------------------------------------------------------------------------
Client ==
  \/ \E d \in Display : BeginFrame(d) \/ ClearDisplay(d) \/ RemoveDisplay(d)
  \/ \E f \in FB : GetCached(f) \/ AddColour(f)
  \/ \E f \in FB, b \in Buf, o \in Owner : AddBuffer(f, b, o)
  \/ \E o \in Owner : CreateLayer(o) \/ DestroyLayer(o)
  \/ \E b \in Buf : FreeBuffer(b)
  \/ Commit \/ CommitFails \/ ModeSetRefused \/ Flip \/ Trim
  \/ SweepDisplay \/ Notify \/ Close \/ CloseNotify \/ Join

Remover == Wait \/ WakeUp \/ Collect \/ Clear

Next == Client \/ Remover
Spec == Init /\ [][Next]_vars

\* The removing thread is scheduled, nothing wakes it but a signal, and a call
\* of the client that removes framebuffers returns.
FairSpec == Spec /\ WF_vars(Wait) /\ WF_vars(Collect) /\ WF_vars(Clear) /\ WF_vars(Notify)

-----------------------------------------------------------------------------
(* Properties.                                                             *)

TypeOK ==
  /\ kernel \subseteq FB /\ staging \subseteq FB /\ cached \subseteq FB
  /\ cleanup \subseteq FB /\ dying \subseteq FB
  /\ screen \in [Display -> SUBSET FB]
  /\ newColour \in [Display -> SUBSET FB]
  /\ oldColour \in [Display -> SUBSET FB]
  /\ info \in [staging \union cached -> Info]
  /\ stamped \in [Type -> SUBSET FB]
  /\ frame \in [at : Places, display : Display \union {NoDisplay},
              planes : SUBSET FB, active : BOOLEAN]
  /\ alive \subseteq Owner /\ freed \subseteq Buf
  /\ running \in BOOLEAN
  /\ remover \in {"ready", "waiting", "woken", "clearing", "ended"}
  /\ exposed \subseteq Display

\* The framebuffers of colour planes.
Colours == {f \in FB : \E d \in Display : f \in newColour[d] \union oldColour[d]}

\* No framebuffer a connected display scans out is ever removed from the
\* driver: not by the limit of the cache, not by the end of its layer or its
\* buffer, not by a commit that fails.  ("Can't remove
\* framebuffer in active commit", canRemoveBuffer().)
OnScreenKept ==
  frame.at # "closed" => \A d \in Display \ exposed : screen[d] \subseteq kernel

\* Every framebuffer of the driver is in exactly one list, so each is removed
\* once and none is forgotten: splices between the lists, the thread's own
\* list and the colour framebuffers of the displays together lose nothing.
Listed ==
  /\ kernel = staging \union cached \union cleanup \union dying \union Colours
  /\ staging \intersect cached = {}
  /\ (staging \union cached) \intersect (cleanup \union dying) = {}
  /\ cleanup \intersect dying = {}
  /\ Colours \intersect (staging \union cached \union cleanup \union dying) = {}
  /\ \A d, e \in Display :
       /\ newColour[d] \intersect oldColour[e] = {}
       /\ d # e => /\ newColour[d] \intersect newColour[e] = {}
                  /\ oldColour[d] \intersect oldColour[e] = {}

\* A removal is never forgotten: a framebuffer that stays in the cache after
\* its layer was destroyed or its buffer was freed is marked to be removed,
\* whatever frames were composed, failed or were flipped meanwhile.
OrphansMarked ==
  \A f \in cached \union staging :
    (info[f].owner \notin alive \/ info[f].buf \in freed) => info[f].pending

\* The destructor cannot hang in join(): once it has signalled, the removing
\* thread is never found waiting, however the two are interleaved.
StopIsSeen == frame.at \in {"join", "closed"} => remover # "waiting"

\* The header's "Framebuffers in the FBList would be released by
\* removeFBsThreadRoutine()": what is on the cleanup list is released.
CleanupReleased == \A f \in FB : f \in cleanup ~> f \notin cleanup

-----------------------------------------------------------------------------
(* The contract.                                                           *)

\* A framebuffer is condemned on its way out of the cache, or marked in it.
StateOf(f) ==
  IF f \notin kernel THEN "absent"
  ELSE IF \/ f \in cleanup \union dying
          \/ f \in DOMAIN info /\ info[f].pending
  THEN "condemned" ELSE "kept"

Contract == INSTANCE FramebufferLifetime WITH
  state <- [f \in FB |-> StateOf(f)],
  shown <- [d \in Display |->
              IF frame.at = "closed" \/ d \in exposed THEN {} ELSE screen[d]]

\* The manager keeps its contract: a display scans out what exists, nothing
\* is removed under it, and a framebuffer that was to be removed is not taken
\* for a new one when a frame uses it again, is skipped, or fails.
ContractKept == Contract!Spec
=============================================================================
