---------------------------- MODULE PostProcessor ----------------------------
(***************************************************************************)
(* One post-processor (a scaler or 2D composer, ExynosMPP of type          *)
(* MPP_TYPE_M2M that allocates its output) and the displays it works for.  *)
(*                                                                         *)
(* A display that is given the post-processor has it compose a picture     *)
(* into one of NumDst destination buffers when it is validated, scans the  *)
(* buffer out when it is presented, and has it reuse the last picture when *)
(* nothing changed.  The work is asynchronous: a job starts when the       *)
(* release fence it was given signals, and a commit takes effect when the  *)
(* jobs it needs are done.  The frames of the device are those of          *)
(* DeviceFrame, seen from one display that holds the post-processor.       *)
(***************************************************************************)
EXTENDS Integers, Sequences, FiniteSets

CONSTANTS Display, Type,
          TypeOf,      \* the HWC_DISPLAY_* type of each display
          ContentOf,   \* what the layers of each display may hold
          Buf,         \* buffers the allocator may hand out
          NumDst,      \* NUM_MPP_DST_BUFS
          LateChange,  \* layers may change between two presents of one frame
          Toggled,     \* displays switched on and off; the others stay on
          MaxJobs,     \* bound on the jobs not yet done
          MayFail,     \* steps that may fail, <<"process", d>> and <<"commit", d>>
          None         \* no display, type, buffer or picture

ASSUME DestinationRing ==
  /\ NumDst \in Nat \ {0}
  /\ TypeOf \in [Display -> Type]
  /\ None \notin Display \union Type \union Buf

VARIABLES
  hw,        \* mHWState
  user,      \* mAssignedDisplayInfo, when there are mAssignedSources
  prevType,  \* mPrevAssignedDisplayType
  prevFrame, \* mPrevFrameInfo
  cur,       \* mCurrentDstBuf
  priv,      \* mPrivDstBuf
  dst,       \* bufferHandle of each of mDstImgs
  fence,     \* its acrylicReleaseFenceFd: the display whose commit signals it
  freed,     \* mFreedBuffers of the resource thread
  jobs,      \* work submitted with execute() and not yet done, in order
  holds,     \* the picture in each buffer
  pending,   \* the commit of each display that has not taken effect
  screen,    \* what each display scans out
  want,      \* the picture its display presents next
  on,        \* displays that are powered on
  validated, \* displays with validateFlag
  presented, \* displays with presentFlag
  skipping,  \* the display whose present, without a validate, is under way
  geometry,  \* mGeometryChanged # 0
  dropped    \* a picture was composed, or attempted, and never presented

frameVars == <<want, on, validated, presented, skipping, geometry>>
ring == <<cur, priv, dst, fence, freed>>
mpp == <<hw, user, prevType, prevFrame>>
shown == <<pending, screen>>
vars == <<mpp, ring, jobs, holds, shown, frameVars, dropped>>

Slot == 0 .. NumDst - 1
Picture == UNION {{d} \X ContentOf[d] : d \in Display}
\* What a commit shows: a buffer, and the picture it is to hold unless a
\* composed one was dropped before; the Blank commit has no plane.
Commit == [buf : Buf \union {None}, picture : Picture \union {None}]
Blank == [buf |-> None, picture |-> None]

ASSUME NothingIsNone == None \notin Picture \union Commit

-----------------------------------------------------------------------------
(* Parts of the handlers.                                                  *)

\* The index is not wrapped.
AfterUnwrapped(i) == i + 1

After(i) == (i + 1) % NumDst

\* The picture of the previous frame is looked for in the current buffer.
BeforeNone(i) == i

Before(i) == (i + NumDst - 1) % NumDst

\* mPrivDstBuf is -1 until the first release fence is stored.
Private == priv \in Slot

\* isAssignableState() of a post-processor that is not reserved.
IsAssignable(d) == hw = "idle" \/ prevType \in {None, TypeOf[d]}

\* needDstBufRealloc(); grow: the image is larger than the buffer, or of
\* another kind.
NeedDstBufRealloc(d, grow) ==
  dst[cur] = None \/ prevType # TypeOf[d] \/ grow

\* canUsePrevFrame()
CanUsePrevFrame(picture) == prevFrame = picture /\ dst[Before(cur)] # None

\* Buffers whose memory the hardware keeps when their handles are freed.
Imported == {jobs[i].buf : i \in DOMAIN jobs}
            \union {screen[d].buf : d \in Display}
            \union {pending[d].buf : d \in {e \in Display : pending[e] # None}}

InUse == {dst[i] : i \in Slot} \union freed \union Imported

\* doPostProcessing() of display d: allocate, then reuse the picture of the
\* previous frame or submit a job to compose this one.
DoPostProcessing(d, picture) ==
  LET Saved == prevFrame' = picture /\ prevType' = TypeOf[d]
      Execute(b) ==
        /\ Len(jobs) < MaxJobs
        /\ jobs' = Append(jobs, [buf |-> b, picture |-> picture,
                                 fence |-> IF b = dst[cur] THEN fence[cur] ELSE None])
        /\ fence' = [fence EXCEPT ![cur] = None]
        /\ UNCHANGED cur
        /\ dropped' = FALSE
  IN  \E grow \in BOOLEAN :
        /\ Saved
        /\ UNCHANGED priv
        /\ \/ /\ NeedDstBufRealloc(d, grow)
              /\ \E b \in Buf \ InUse :
                   /\ dst' = [dst EXCEPT ![cur] = b]
                   /\ freed' = freed \union ({dst[cur]} \ {None})
                   /\ holds' = [holds EXCEPT ![b] = None]
                   /\ Execute(b)
           \/ /\ ~NeedDstBufRealloc(d, grow) /\ CanUsePrevFrame(picture)
              /\ cur' = Before(cur)
              /\ UNCHANGED <<dst, fence, freed, jobs, holds, dropped>>
           \/ /\ ~NeedDstBufRealloc(d, grow) /\ ~CanUsePrevFrame(picture)
              /\ Execute(dst[cur])
              /\ UNCHANGED <<dst, freed, holds>>

\* execute() fails: the frame is saved as the previous one all the same, and
\* closeFences() drops the fence the buffer had.
FailPostProcessing(d, picture) ==
  /\ <<"process", d>> \in MayFail
  /\ prevFrame' = picture /\ prevType' = TypeOf[d]
  /\ fence' = [fence EXCEPT ![cur] = None]
  /\ dropped' = TRUE
  /\ UNCHANGED <<cur, priv, dst, freed, jobs, holds>>

\* The handles stay in mDstImgs.
IdleKeepingHandles ==
  /\ hw' = "idle"
  /\ freed' = freed \union ({dst[i] : i \in Slot} \ {None})
  /\ prevFrame' = None
  /\ UNCHANGED dst

\* requestHWStateChange(MPP_HW_STATE_IDLE): mLastStateFenceFd is never set for
\* a post-processor, so the state changes at once.
RequestIdle ==
  /\ hw' = "idle"
  /\ dst' = [i \in Slot |-> None]
  /\ freed' = freed \union ({dst[i] : i \in Slot} \ {None})
  /\ prevFrame' = None

\* The commit's release fence, stored for the buffer this commit shows.
SetDstReleaseFenceEarly(d) ==
  /\ fence' = [fence EXCEPT ![cur] = d]
  /\ priv' = cur

\* setDstReleaseFence(): a commit releases the buffer the one before showed.
SetDstReleaseFence(d) ==
  /\ fence' = IF Private THEN [fence EXCEPT ![priv] = d] ELSE fence
  /\ priv' = cur

\* The commits of d have all taken effect: its fences signal.
Signal(d) ==
  /\ fence' = [i \in Slot |-> IF fence[i] = d THEN None ELSE fence[i]]
  /\ jobs' = [i \in DOMAIN jobs |->
                IF jobs[i].fence = d THEN [jobs[i] EXCEPT !.fence = None] ELSE jobs[i]]

\* clearDisplay(): a commit without planes that takes effect at once.
ClearDisplay(d) ==
  /\ screen' = [screen EXCEPT ![d] = Blank]
  /\ pending' = [pending EXCEPT ![d] = None]

\* isLastPresent(), when the displays that are on are these.
IsLastPresent(d, lit) == lit \subseteq presented \union {d}

\* presentFlag is set and the last present clears the flags of the frame;
\* then: what is left of the geometry flag.
EndOfPresent(d, lit, then) ==
  IF IsLastPresent(d, lit)
  THEN validated' = {} /\ presented' = {} /\ geometry' = then
  ELSE /\ presented' = presented \union {d}
       /\ geometry' = (geometry \/ then)
       /\ UNCHANGED validated

\* updateResourceState() of finishFrame() stops an unassigned post-processor.
UpdateResourceState(d, lit) ==
  IF IsLastPresent(d, lit) /\ user = None /\ hw = "running"
  THEN RequestIdle
  ELSE UNCHANGED <<hw, dst, freed, prevFrame>>

FirstValidateDue == validated \intersect on = {} /\ skipping = None

-----------------------------------------------------------------------------
Init ==
  /\ hw = "idle" /\ user = None /\ prevType = None /\ prevFrame = None
  /\ cur = 0 /\ priv = -1
  /\ dst = [i \in Slot |-> None] /\ fence = [i \in Slot |-> None]
  /\ freed = {} /\ jobs = <<>>
  /\ holds = [b \in Buf |-> None]
  /\ pending = [d \in Display |-> None]
  /\ screen = [d \in Display |-> Blank]
  /\ want = None
  /\ on = Display \ Toggled /\ validated = {} /\ presented = {} /\ skipping = None
  /\ geometry = FALSE /\ dropped = FALSE

-----------------------------------------------------------------------------
(* The frame.                                                              *)

\* validateAllDisplays(): every display that is on is validated, and the one
\* that is given the post-processor starts it.  A change of the layers may give
\* it to another display; without any, its owner keeps it.
FirstValidate ==
  /\ FirstValidateDue /\ on \ presented # {}
  /\ LateChange \/ presented \intersect on = {}
  /\ validated' = validated \union on
  /\ \/ \E d \in on : \E c \in ContentOf[d] :
          /\ IsAssignable(d) \/ (d = user /\ ~geometry)
          /\ hw' = "running"
          /\ \/ user' = d /\ want' = <<d, c>> /\ DoPostProcessing(d, <<d, c>>)
             \/ user' = None /\ want' = None /\ FailPostProcessing(d, <<d, c>>)
     \/ /\ user' \in {None} \union (IF geometry THEN {} ELSE {user} \ on)
        /\ want' = None
        /\ UNCHANGED <<hw, prevType, prevFrame, ring, jobs, holds, dropped>>
  /\ UNCHANGED <<shown, on, presented, skipping, geometry>>

\* A present without a validate, when canSkipValidate().
SkipValidate(d) ==
  /\ FirstValidateDue /\ ~geometry
  /\ d \in on \ presented
  /\ skipping' = d
  /\ IF user = d
     THEN \E c \in ContentOf[d] :
            hw' = "running" /\ want' = <<d, c>> /\ DoPostProcessing(d, <<d, c>>)
     ELSE UNCHANGED <<hw, prevType, prevFrame, ring, jobs, holds, want, dropped>>
  /\ UNCHANGED <<user, shown, on, validated, presented, geometry>>

\* Its post-processing fails: handleErr().
SkipValidateFails(d) ==
  /\ FirstValidateDue /\ ~geometry
  /\ d \in on \ presented /\ user = d
  /\ hw' = "running"
  /\ \E c \in ContentOf[d] : FailPostProcessing(d, <<d, c>>)
  /\ ClearDisplay(d)
  /\ EndOfPresent(d, on, TRUE)
  /\ UNCHANGED <<user, want, on, skipping>>

Presents(d) ==
  \/ skipping = d
  \/ skipping = None /\ d \in (validated \intersect on) \ presented

\* presentDisplay(): the driver takes one commit of a display at a time.
Present(d) ==
  /\ Presents(d) /\ pending[d] = None
  /\ IF user = d
     THEN /\ pending' = [pending EXCEPT ![d] =
                [buf |-> dst[cur], picture |-> IF dropped THEN None ELSE want]]
          /\ SetDstReleaseFence(d)
          /\ cur' = After(cur)
          /\ want' = None
     ELSE /\ pending' = [pending EXCEPT ![d] = Blank]
          /\ UNCHANGED <<cur, priv, fence, want>>
  /\ skipping' = None
  /\ EndOfPresent(d, on, FALSE)
  /\ UpdateResourceState(d, on)
  /\ UNCHANGED <<user, prevType, jobs, holds, screen, on, dropped>>

\* The commit fails: handlePresentError() closes the fences and clears the
\* display; the buffer index stays.
PresentFails(d) ==
  /\ <<"commit", d>> \in MayFail
  /\ Presents(d)
  /\ fence' = [i \in Slot |-> IF fence[i] = d \/ (user = d /\ i = cur)
                              THEN None ELSE fence[i]]
  /\ jobs' = [i \in DOMAIN jobs |->
                IF jobs[i].fence = d THEN [jobs[i] EXCEPT !.fence = None] ELSE jobs[i]]
  /\ ClearDisplay(d)
  /\ dropped' = (dropped \/ user = d)
  /\ skipping' = None
  /\ EndOfPresent(d, on, TRUE)
  /\ UpdateResourceState(d, on)
  /\ UNCHANGED <<user, prevType, cur, priv, holds, want, on>>

\* A display that was powered on after the first validate skips the frame.
SkipPresent(d) ==
  /\ skipping = None /\ validated \intersect on # {}
  /\ d \in on \ (validated \union presented)
  /\ EndOfPresent(d, on, TRUE)
  /\ UpdateResourceState(d, on)
  /\ UNCHANGED <<user, prevType, cur, priv, fence, jobs, holds, shown, want, on,
                 skipping, dropped>>

-----------------------------------------------------------------------------
(* Power.                                                                  *)

PowerOn(d) ==
  /\ skipping = None /\ d \in Toggled \ on
  /\ on' = on \union {d}
  /\ geometry' = TRUE
  /\ UNCHANGED <<mpp, ring, jobs, holds, shown, want, validated, presented,
                 skipping, dropped>>

\* setPowerMode(OFF) ends the frame on behalf of the display; a picture that
\* was composed for it in this frame is not shown.
PowerOff(d) ==
  /\ skipping = None /\ d \in on \intersect Toggled
  /\ on' = on \ {d}
  /\ ClearDisplay(d)
  /\ Signal(d)
  /\ dropped' = (dropped \/ (user = d /\ d \in validated \ presented))
  /\ IF IsLastPresent(d, on \ {d})
     THEN validated' = {} /\ presented' = {} /\ geometry' = FALSE
     ELSE /\ presented' = presented \union {d} /\ geometry' = TRUE
          /\ UNCHANGED validated
  /\ UpdateResourceState(d, on \ {d})
  /\ UNCHANGED <<user, prevType, cur, priv, holds, want, skipping>>

-----------------------------------------------------------------------------
(* The hardware and the resource thread.                                   *)

\* Jobs run in the order they were submitted, each behind its fence.
RunJob ==
  /\ jobs # <<>> /\ Head(jobs).fence = None
  /\ holds' = [holds EXCEPT ![Head(jobs).buf] = Head(jobs).picture]
  /\ jobs' = Tail(jobs)
  /\ UNCHANGED <<mpp, ring, shown, frameVars, dropped>>

\* The display driver waits for the acquire fence of the buffer; a job that
\* waits for this commit was submitted after it.
TakeEffect(d) ==
  /\ pending[d] # None
  /\ \A i \in DOMAIN jobs : jobs[i].buf = pending[d].buf => jobs[i].fence = d
  /\ screen' = [screen EXCEPT ![d] = pending[d]]
  /\ pending' = [pending EXCEPT ![d] = None]
  /\ Signal(d)
  /\ UNCHANGED <<mpp, cur, priv, dst, freed, holds, frameVars, dropped>>

\* ResourceManageThread::freeBuffers()
FreeBuffers ==
  /\ freed # {}
  /\ freed' = {}
  /\ holds' = [b \in Buf |-> IF b \in freed \ Imported THEN None ELSE holds[b]]
  /\ UNCHANGED <<mpp, cur, priv, dst, fence, jobs, shown, frameVars, dropped>>

-----------------------------------------------------------------------------
Next ==
  \/ FirstValidate
  \/ \E d \in Display :
       \/ SkipValidate(d) \/ SkipValidateFails(d)
       \/ Present(d) \/ PresentFails(d) \/ SkipPresent(d)
       \/ PowerOn(d) \/ PowerOff(d)
       \/ TakeEffect(d)
  \/ RunJob
  \/ FreeBuffers

Spec == Init /\ [][Next]_vars

-----------------------------------------------------------------------------
(* Properties.                                                             *)

TypeOK ==
  /\ hw \in {"idle", "running"}
  /\ user \in Display \union {None} /\ skipping \in Display \union {None}
  /\ prevType \in Type \union {None}
  /\ prevFrame \in Picture \union {None}
  /\ cur \in Slot /\ priv \in Slot \union {-1}
  /\ dst \in [Slot -> Buf \union {None}]
  /\ fence \in [Slot -> Display \union {None}]
  /\ freed \subseteq Buf
  /\ jobs \in Seq([buf : Buf, picture : Picture, fence : Display \union {None}])
  /\ holds \in [Buf -> Picture \union {None}]
  /\ pending \in [Display -> Commit \union {None}] /\ screen \in [Display -> Commit]
  /\ want \in Picture \union {None}
  /\ on \subseteq Display /\ validated \subseteq Display /\ presented \subseteq Display
  /\ geometry \in BOOLEAN /\ dropped \in BOOLEAN

\* A job that may start writes no buffer on a screen: the release fence each
\* job was given is enough, through reuse, failures, power cycles and changes of
\* the owner (setDstReleaseFence() and the ring of destination buffers).
DestinationReleased ==
  jobs # <<>> /\ Head(jobs).fence = None =>
    \A d \in Display : screen[d].buf # Head(jobs).buf

\* A screen shows the picture its display composed for that frame, also when
\* the post-processor reused the previous one (canUsePrevFrame()), unless a
\* frame before it was dropped and no picture composed since.
ShownIsCurrent ==
  \A d \in Display :
    screen[d].picture # None => holds[screen[d].buf] = screen[d].picture

\* No buffer is in two slots of the ring, and none of the ring is about to be
\* freed (allocOutBuf() and freeOutBuf() hand the old handle to the resource
\* thread, which frees it later).
RingOwned ==
  /\ \A i, j \in Slot : dst[i] = dst[j] /\ dst[i] # None => i = j
  /\ \A i \in Slot : dst[i] \notin freed
=============================================================================
