------------------------ MODULE PostProcessor_proofs ------------------------
(* Proofs about PostProcessor.                                             *)
EXTENDS PostProcessor, SequenceTheorems, TLAPS

Job == [buf : Buf, picture : Picture, fence : Display \union {None}]

-----------------------------------------------------------------------------
(* What the parts of the handlers compute.                                 *)

(* The neighbours of a slot are slots. *)
LEMMA Neighbours == \A i \in Slot : Before(i) \in Slot /\ After(i) \in Slot
  BY DestinationRing DEF Slot, Before, After

(* Jobs stay jobs when their fences are gone. *)
LEMMA UnfencedJobs ==
  ASSUME NEW s \in Seq(Job), NEW d
  PROVE  [i \in DOMAIN s |->
            IF s[i].fence = d THEN [s[i] EXCEPT !.fence = None] ELSE s[i]] \in Seq(Job)
<1>1. \A j \in Job : [j EXCEPT !.fence = None] \in Job
  BY DEF Job
<1>2. \A i \in DOMAIN s : s[i] \in Job
  OBVIOUS
<1>3. \A i \in DOMAIN s :
        (IF s[i].fence = d THEN [s[i] EXCEPT !.fence = None] ELSE s[i]) \in Job
  BY <1>1, <1>2
<1>4. DOMAIN s = 1 .. Len(s) /\ Len(s) \in Nat
  OBVIOUS
<1> QED
  BY <1>3, <1>4

(* Signalling a fence keeps fences and jobs what they are. *)
LEMMA SignalTypes ==
  ASSUME TypeOK, NEW d \in Display, Signal(d)
  PROVE  fence' \in [Slot -> Display \union {None}] /\ jobs' \in Seq(Job)
<1>1. fence' \in [Slot -> Display \union {None}]
  BY DEF Signal, TypeOK
<1>2. jobs \in Seq(Job)
  BY DEF TypeOK, Job
<1>3. jobs' \in Seq(Job)
  BY <1>2, UnfencedJobs DEF Signal
<1> QED
  BY <1>1, <1>3

(* Composing a picture keeps every part of the post-processor typed. *)
LEMMA DoPostProcessingTypes ==
  ASSUME TypeOK, NEW d \in Display, NEW picture \in Picture, DoPostProcessing(d, picture)
  PROVE  /\ prevFrame' \in Picture \union {None} /\ prevType' \in Type \union {None}
         /\ cur' \in Slot /\ priv' \in Slot \union {-1}
         /\ dst' \in [Slot -> Buf \union {None}]
         /\ fence' \in [Slot -> Display \union {None}]
         /\ freed' \subseteq Buf /\ jobs' \in Seq(Job)
         /\ holds' \in [Buf -> Picture \union {None}] /\ dropped' \in BOOLEAN
<1>0. cur \in Slot /\ jobs \in Seq(Job) /\ Before(cur) \in Slot
  BY Neighbours DEF TypeOK, Job
<1>1. PICK grow \in BOOLEAN :
        \/ /\ \E b \in Buf \ InUse :
                /\ dst' = [dst EXCEPT ![cur] = b]
                /\ freed' = freed \union ({dst[cur]} \ {None})
                /\ holds' = [holds EXCEPT ![b] = None]
                /\ jobs' = Append(jobs, [buf |-> b, picture |-> picture,
                             fence |-> IF b = dst[cur] THEN fence[cur] ELSE None])
           /\ fence' = [fence EXCEPT ![cur] = None] /\ dropped' = FALSE /\ cur' = cur
        \/ /\ cur' = Before(cur)
           /\ UNCHANGED <<dst, fence, freed, jobs, holds, dropped>>
        \/ /\ dst[cur] # None
           /\ jobs' = Append(jobs, [buf |-> dst[cur], picture |-> picture,
                                    fence |-> fence[cur]])
           /\ fence' = [fence EXCEPT ![cur] = None] /\ dropped' = FALSE
           /\ UNCHANGED <<cur, dst, freed, holds>>
  BY DEF DoPostProcessing, NeedDstBufRealloc
<1>2. prevFrame' = picture /\ prevType' = TypeOf[d] /\ priv' = priv
  BY DEF DoPostProcessing
<1>3. CASE \E b \in Buf \ InUse :
             /\ dst' = [dst EXCEPT ![cur] = b]
             /\ freed' = freed \union ({dst[cur]} \ {None})
             /\ holds' = [holds EXCEPT ![b] = None]
             /\ jobs' = Append(jobs, [buf |-> b, picture |-> picture,
                          fence |-> IF b = dst[cur] THEN fence[cur] ELSE None])
             /\ fence' = [fence EXCEPT ![cur] = None] /\ dropped' = FALSE /\ cur' = cur
  <2>1. PICK b \in Buf \ InUse :
             /\ dst' = [dst EXCEPT ![cur] = b]
             /\ freed' = freed \union ({dst[cur]} \ {None})
             /\ holds' = [holds EXCEPT ![b] = None]
             /\ jobs' = Append(jobs, [buf |-> b, picture |-> picture,
                          fence |-> IF b = dst[cur] THEN fence[cur] ELSE None])
             /\ fence' = [fence EXCEPT ![cur] = None] /\ dropped' = FALSE /\ cur' = cur
    BY <1>3
  <2>2. [buf |-> b, picture |-> picture,
         fence |-> IF b = dst[cur] THEN fence[cur] ELSE None] \in Job
    BY <1>0 DEF Job, TypeOK
  <2>3. jobs' \in Seq(Job)
    BY <1>0, <2>1, <2>2
  <2> QED
    BY <1>0, <1>2, <2>1, <2>3, DestinationRing DEF TypeOK
<1>4. CASE /\ cur' = Before(cur)
           /\ UNCHANGED <<dst, fence, freed, jobs, holds, dropped>>
  BY <1>0, <1>2, <1>4, DestinationRing DEF TypeOK
<1>5. CASE /\ dst[cur] # None
           /\ jobs' = Append(jobs, [buf |-> dst[cur], picture |-> picture,
                                    fence |-> fence[cur]])
           /\ fence' = [fence EXCEPT ![cur] = None] /\ dropped' = FALSE
           /\ UNCHANGED <<cur, dst, freed, holds>>
  <2>1. [buf |-> dst[cur], picture |-> picture, fence |-> fence[cur]] \in Job
    BY <1>0, <1>5 DEF Job, TypeOK
  <2>2. jobs' \in Seq(Job)
    BY <1>0, <1>5, <2>1
  <2> QED
    BY <1>0, <1>2, <1>5, <2>2, DestinationRing DEF TypeOK
<1> QED
  BY <1>1, <1>3, <1>4, <1>5

(* Stopping an unused post-processor keeps it typed. *)
LEMMA UpdateTypes ==
  ASSUME TypeOK, NEW d, NEW lit, UpdateResourceState(d, lit)
  PROVE  /\ hw' \in {"idle", "running"} /\ prevFrame' \in Picture \union {None}
         /\ dst' \in [Slot -> Buf \union {None}] /\ freed' \subseteq Buf
<1>1. CASE RequestIdle
  BY <1>1 DEF RequestIdle, TypeOK
<1>2. CASE UNCHANGED <<hw, dst, freed, prevFrame>>
  BY <1>2 DEF TypeOK
<1> QED
  BY <1>1, <1>2 DEF UpdateResourceState

(* The end of a present keeps the flags of the frame typed. *)
LEMMA EndTypes ==
  ASSUME TypeOK, NEW d \in Display, NEW lit, NEW then \in BOOLEAN, EndOfPresent(d, lit, then)
  PROVE  validated' \subseteq Display /\ presented' \subseteq Display /\ geometry' \in BOOLEAN
<1>1. CASE IsLastPresent(d, lit)
  BY <1>1 DEF EndOfPresent, TypeOK
<1>2. CASE ~IsLastPresent(d, lit)
  BY <1>2, Zenon DEF EndOfPresent, TypeOK
<1> QED
  BY <1>1, <1>2

(* A picture of a display is a picture. *)
LEMMA Pictures == \A d \in Display : \A c \in ContentOf[d] : <<d, c>> \in Picture
  BY DEF Picture

-----------------------------------------------------------------------------
(* Type correctness: the parts of TypeOK.                                  *)

MppOK == /\ hw \in {"idle", "running"} /\ user \in Display \union {None}
         /\ prevType \in Type \union {None} /\ prevFrame \in Picture \union {None}
RingOK == /\ cur \in Slot /\ priv \in Slot \union {-1}
          /\ dst \in [Slot -> Buf \union {None}]
          /\ fence \in [Slot -> Display \union {None}] /\ freed \subseteq Buf
WorkOK == /\ jobs \in Seq(Job) /\ holds \in [Buf -> Picture \union {None}]
          /\ dropped \in BOOLEAN
ShownOK == /\ pending \in [Display -> Commit \union {None}]
           /\ screen \in [Display -> Commit]
FrameOK == /\ want \in Picture \union {None} /\ on \subseteq Display
           /\ validated \subseteq Display /\ presented \subseteq Display
           /\ skipping \in Display \union {None} /\ geometry \in BOOLEAN

LEMMA Parts == TypeOK' <=> (MppOK /\ RingOK /\ WorkOK /\ ShownOK /\ FrameOK)'
  BY DEF TypeOK, MppOK, RingOK, WorkOK, ShownOK, FrameOK, Job

(* Initially the post-processor is idle and nothing is shown. *)
LEMMA TypeInit == Init => TypeOK
<1> SUFFICES ASSUME Init PROVE TypeOK
  OBVIOUS
<1>1. 0 \in Slot
  BY DestinationRing DEF Slot
<1>2. Blank \in Commit
  BY DEF Blank, Commit
<1>3. <<>> \in Seq([buf : Buf, picture : Picture, fence : Display \union {None}])
  OBVIOUS
<1> QED
  BY <1>1, <1>2, <1>3 DEF Init, TypeOK

(* Clearing a display leaves it blank. *)
LEMMA ClearTypes ==
  ASSUME TypeOK, NEW d \in Display, ClearDisplay(d)
  PROVE  ShownOK'
<1>1. Blank \in Commit
  BY DEF Blank, Commit
<1> QED
  BY <1>1 DEF ClearDisplay, TypeOK, ShownOK

(* Failing to compose keeps the post-processor typed. *)
LEMMA FailTypes ==
  ASSUME TypeOK, NEW d \in Display, NEW picture \in Picture, FailPostProcessing(d, picture)
  PROVE  /\ prevFrame' \in Picture \union {None} /\ prevType' \in Type \union {None}
         /\ RingOK' /\ WorkOK'
  BY DestinationRing DEF FailPostProcessing, TypeOK, RingOK, WorkOK, Job

(* So does composing. *)
LEMMA DoTypes ==
  ASSUME TypeOK, NEW d \in Display, NEW picture \in Picture, DoPostProcessing(d, picture)
  PROVE  /\ prevFrame' \in Picture \union {None} /\ prevType' \in Type \union {None}
         /\ RingOK' /\ WorkOK'
  BY DoPostProcessingTypes DEF RingOK, WorkOK

(* validateAllDisplays() *)
LEMMA FirstValidateTypes ==
  ASSUME TypeOK, FirstValidate
  PROVE  TypeOK'
<1>1. want' \in Picture \union {None} => ShownOK' /\ FrameOK'
  BY DEF FirstValidate, TypeOK, ShownOK, FrameOK, shown
<1>2. CASE \E d \in on : \E c \in ContentOf[d] :
             /\ hw' = "running"
             /\ \/ user' = d /\ want' = <<d, c>> /\ DoPostProcessing(d, <<d, c>>)
                \/ user' = None /\ want' = None /\ FailPostProcessing(d, <<d, c>>)
  <2>1. PICK d \in on : \E c \in ContentOf[d] :
             /\ hw' = "running"
             /\ \/ user' = d /\ want' = <<d, c>> /\ DoPostProcessing(d, <<d, c>>)
                \/ user' = None /\ want' = None /\ FailPostProcessing(d, <<d, c>>)
    BY <1>2
  <2>2. PICK c \in ContentOf[d] :
             /\ hw' = "running"
             /\ \/ user' = d /\ want' = <<d, c>> /\ DoPostProcessing(d, <<d, c>>)
                \/ user' = None /\ want' = None /\ FailPostProcessing(d, <<d, c>>)
    BY <2>1
  <2>3. d \in Display /\ <<d, c>> \in Picture
    BY Pictures DEF TypeOK
  <2>4. MppOK' /\ RingOK' /\ WorkOK' /\ want' \in Picture \union {None}
    BY <2>2, <2>3, DoTypes, FailTypes DEF MppOK
  <2> QED
    BY <1>1, <2>4, Parts
<1>3. CASE /\ user' \in {None} \union (IF geometry THEN {} ELSE {user} \ on)
           /\ want' = None
           /\ UNCHANGED <<hw, prevType, prevFrame, ring, jobs, holds, dropped>>
  <2>1. MppOK' /\ RingOK' /\ WorkOK' /\ want' \in Picture \union {None}
    BY <1>3 DEF TypeOK, MppOK, RingOK, WorkOK, ring, Job
  <2> QED
    BY <1>1, <2>1, Parts
<1> QED
  BY <1>2, <1>3 DEF FirstValidate

(* presentDisplay() without a validate *)
LEMMA SkipValidateTypes ==
  ASSUME TypeOK, NEW d \in Display, SkipValidate(d)
  PROVE  TypeOK'
<1>1. user' \in Display \union {None} /\ ShownOK'
  BY DEF SkipValidate, TypeOK, ShownOK, shown
<1>2. CASE user = d
  <2>1. PICK c \in ContentOf[d] :
          hw' = "running" /\ want' = <<d, c>> /\ DoPostProcessing(d, <<d, c>>)
    BY <1>2 DEF SkipValidate
  <2>2. <<d, c>> \in Picture
    BY Pictures
  <2>3. MppOK' /\ RingOK' /\ WorkOK'
    BY <1>1, <2>1, <2>2, DoTypes DEF MppOK
  <2>4. FrameOK'
    BY <2>1, <2>2 DEF SkipValidate, TypeOK, FrameOK
  <2> QED
    BY <1>1, <2>3, <2>4, Parts
<1>3. CASE user # d
  <2>1. MppOK' /\ RingOK' /\ WorkOK' /\ FrameOK'
    BY <1>3 DEF SkipValidate, TypeOK, MppOK, RingOK, WorkOK, ShownOK, FrameOK, ring, Job
  <2> QED
    BY <1>1, <2>1, Parts
<1> QED
  BY <1>2, <1>3

(* A post-processing that fails *)
LEMMA SkipValidateFailsTypes ==
  ASSUME TypeOK, NEW d \in Display, SkipValidateFails(d)
  PROVE  TypeOK'
<1>1. PICK c \in ContentOf[d] : FailPostProcessing(d, <<d, c>>)
  BY DEF SkipValidateFails
<1>2. <<d, c>> \in Picture
  BY Pictures
<1>3. MppOK' /\ RingOK' /\ WorkOK'
  BY <1>1, <1>2, FailTypes DEF SkipValidateFails, TypeOK, MppOK
<1>4. ShownOK'
  BY ClearTypes DEF SkipValidateFails
<1>5. validated' \subseteq Display /\ presented' \subseteq Display /\ geometry' \in BOOLEAN
  BY EndTypes DEF SkipValidateFails
<1>6. FrameOK'
  BY <1>5 DEF SkipValidateFails, TypeOK, FrameOK
<1> QED
  BY <1>3, <1>4, <1>6, Parts

(* presentDisplay() *)
LEMMA PresentTypes ==
  ASSUME TypeOK, NEW d \in Display, Present(d)
  PROVE  TypeOK'
<1>1. validated' \subseteq Display /\ presented' \subseteq Display /\ geometry' \in BOOLEAN
  BY EndTypes DEF Present
<1>2. /\ hw' \in {"idle", "running"} /\ prevFrame' \in Picture \union {None}
      /\ dst' \in [Slot -> Buf \union {None}] /\ freed' \subseteq Buf
  BY UpdateTypes DEF Present
<1>3. CASE user = d
  <2>1. [buf |-> dst[cur], picture |-> IF dropped THEN None ELSE want] \in Commit
    BY DEF TypeOK, Commit
  <2>2. ShownOK'
    BY <1>3, <2>1 DEF Present, TypeOK, ShownOK
  <2>3. /\ priv' = cur /\ cur' = After(cur)
        /\ fence' = IF Private THEN [fence EXCEPT ![priv] = d] ELSE fence
    BY <1>3 DEF Present, SetDstReleaseFence
  <2>4. RingOK'
    BY <1>2, <2>3, Neighbours DEF TypeOK, RingOK, Private
  <2>5. MppOK' /\ WorkOK'
    BY <1>2 DEF Present, TypeOK, MppOK, WorkOK, Job
  <2>6. FrameOK'
    BY <1>1, <1>3 DEF Present, TypeOK, FrameOK
  <2> QED
    BY <2>2, <2>4, <2>5, <2>6, Parts
<1>4. CASE user # d
  <2>1. Blank \in Commit
    BY DEF Blank, Commit
  <2>2. ShownOK'
    BY <1>4, <2>1 DEF Present, TypeOK, ShownOK
  <2>3. RingOK'
    BY <1>2, <1>4 DEF Present, TypeOK, RingOK
  <2>4. MppOK' /\ WorkOK'
    BY <1>2 DEF Present, TypeOK, MppOK, WorkOK, Job
  <2>5. FrameOK'
    BY <1>1, <1>4 DEF Present, TypeOK, FrameOK
  <2> QED
    BY <2>2, <2>3, <2>4, <2>5, Parts
<1> QED
  BY <1>3, <1>4

(* A commit that fails *)
LEMMA PresentFailsTypes ==
  ASSUME TypeOK, NEW d \in Display, PresentFails(d)
  PROVE  TypeOK'
<1>1. validated' \subseteq Display /\ presented' \subseteq Display /\ geometry' \in BOOLEAN
  BY EndTypes DEF PresentFails
<1>2. /\ hw' \in {"idle", "running"} /\ prevFrame' \in Picture \union {None}
      /\ dst' \in [Slot -> Buf \union {None}] /\ freed' \subseteq Buf
  BY UpdateTypes DEF PresentFails
<1>3. ShownOK'
  BY ClearTypes DEF PresentFails
<1>4. jobs' \in Seq(Job)
  BY UnfencedJobs DEF PresentFails, TypeOK, Job
<1>5. MppOK'
  BY <1>2 DEF PresentFails, TypeOK, MppOK
<1>6. RingOK'
  BY <1>2 DEF PresentFails, TypeOK, RingOK
<1>7. WorkOK'
  <2>1. dropped' \in BOOLEAN
    BY DEF PresentFails
  <2> QED
    BY <1>4, <2>1 DEF PresentFails, TypeOK, WorkOK
<1>8. FrameOK'
  BY <1>1 DEF PresentFails, TypeOK, FrameOK
<1> QED
  BY <1>3, <1>5, <1>6, <1>7, <1>8, Parts

(* A frame that is skipped *)
LEMMA SkipPresentTypes ==
  ASSUME TypeOK, NEW d \in Display, SkipPresent(d)
  PROVE  TypeOK'
<1>1. validated' \subseteq Display /\ presented' \subseteq Display /\ geometry' \in BOOLEAN
  BY EndTypes DEF SkipPresent
<1>2. /\ hw' \in {"idle", "running"} /\ prevFrame' \in Picture \union {None}
      /\ dst' \in [Slot -> Buf \union {None}] /\ freed' \subseteq Buf
  BY UpdateTypes DEF SkipPresent
<1>3. MppOK' /\ RingOK' /\ WorkOK' /\ ShownOK'
  BY <1>2 DEF SkipPresent, TypeOK, MppOK, RingOK, WorkOK, ShownOK, shown, Job
<1>4. FrameOK'
  BY <1>1 DEF SkipPresent, TypeOK, FrameOK
<1> QED
  BY <1>3, <1>4, Parts

(* setPowerMode() to on *)
LEMMA PowerOnTypes ==
  ASSUME TypeOK, NEW d \in Display, PowerOn(d)
  PROVE  TypeOK'
  BY Parts DEF PowerOn, TypeOK, MppOK, RingOK, WorkOK, ShownOK, FrameOK, ring, mpp, shown, Job

(* setPowerMode() to off *)
LEMMA PowerOffTypes ==
  ASSUME TypeOK, NEW d \in Display, PowerOff(d)
  PROVE  TypeOK'
<1>1. /\ hw' \in {"idle", "running"} /\ prevFrame' \in Picture \union {None}
      /\ dst' \in [Slot -> Buf \union {None}] /\ freed' \subseteq Buf
  BY UpdateTypes DEF PowerOff
<1>2. ShownOK'
  BY ClearTypes DEF PowerOff
<1>3. fence' \in [Slot -> Display \union {None}] /\ jobs' \in Seq(Job)
  BY SignalTypes DEF PowerOff
<1>4. MppOK' /\ RingOK'
  BY <1>1, <1>3 DEF PowerOff, TypeOK, MppOK, RingOK
<1>5. WorkOK'
  <2>1. dropped' \in BOOLEAN
    BY DEF PowerOff
  <2> QED
    BY <1>3, <2>1 DEF PowerOff, TypeOK, WorkOK
<1>6. FrameOK'
  <2>1. CASE IsLastPresent(d, on \ {d})
    BY <2>1 DEF PowerOff, TypeOK, FrameOK
  <2>2. CASE ~IsLastPresent(d, on \ {d})
    BY <2>2 DEF PowerOff, TypeOK, FrameOK
  <2> QED
    BY <2>1, <2>2
<1> QED
  BY <1>2, <1>4, <1>5, <1>6, Parts

(* A job of the hardware *)
LEMMA RunJobTypes ==
  ASSUME TypeOK, RunJob
  PROVE  TypeOK'
<1>0. jobs \in Seq(Job) /\ jobs # <<>> /\ jobs' = Tail(jobs)
  BY DEF RunJob, TypeOK, Job
<1>1. Head(jobs) \in Job /\ jobs' \in Seq(Job)
  BY <1>0, HeadTailProperties
<1>2. Head(jobs).buf \in Buf /\ Head(jobs).picture \in Picture
  BY <1>1 DEF Job
<1>3. WorkOK'
  BY <1>1, <1>2 DEF RunJob, TypeOK, WorkOK
<1>4. MppOK' /\ RingOK' /\ ShownOK' /\ FrameOK'
  BY DEF RunJob, TypeOK, MppOK, RingOK, ShownOK, FrameOK, mpp, ring, shown, frameVars
<1> QED
  BY <1>3, <1>4, Parts

(* A commit reaches the screen *)
LEMMA TakeEffectTypes ==
  ASSUME TypeOK, NEW d \in Display, TakeEffect(d)
  PROVE  TypeOK'
<1>1. fence' \in [Slot -> Display \union {None}] /\ jobs' \in Seq(Job)
  BY SignalTypes DEF TakeEffect
<1>2. ShownOK'
  BY DEF TakeEffect, TypeOK, ShownOK
<1>3. MppOK' /\ RingOK' /\ WorkOK' /\ FrameOK'
  BY <1>1 DEF TakeEffect, TypeOK, MppOK, RingOK, WorkOK, FrameOK, mpp, frameVars
<1> QED
  BY <1>2, <1>3, Parts

(* freeBuffers() *)
LEMMA FreeBuffersTypes ==
  ASSUME TypeOK, FreeBuffers
  PROVE  TypeOK'
<1>1. WorkOK'
  BY DEF FreeBuffers, TypeOK, WorkOK, Job
<1>2. MppOK' /\ RingOK' /\ ShownOK' /\ FrameOK'
  BY DEF FreeBuffers, TypeOK, MppOK, RingOK, ShownOK, FrameOK, mpp, shown, frameVars
<1> QED
  BY <1>1, <1>2, Parts

(* No step leaves the types. *)
LEMMA TypeStep == TypeOK /\ [Next]_vars => TypeOK'
<1> SUFFICES ASSUME TypeOK, [Next]_vars PROVE TypeOK'
  OBVIOUS
<1>1. CASE FirstValidate
  BY <1>1, FirstValidateTypes
<1>2. ASSUME NEW d \in Display, SkipValidate(d) PROVE TypeOK'
  BY <1>2, SkipValidateTypes
<1>3. ASSUME NEW d \in Display, SkipValidateFails(d) PROVE TypeOK'
  BY <1>3, SkipValidateFailsTypes
<1>4. ASSUME NEW d \in Display, Present(d) PROVE TypeOK'
  BY <1>4, PresentTypes
<1>5. ASSUME NEW d \in Display, PresentFails(d) PROVE TypeOK'
  BY <1>5, PresentFailsTypes
<1>6. ASSUME NEW d \in Display, SkipPresent(d) PROVE TypeOK'
  BY <1>6, SkipPresentTypes
<1>7. ASSUME NEW d \in Display, PowerOn(d) PROVE TypeOK'
  BY <1>7, PowerOnTypes
<1>8. ASSUME NEW d \in Display, PowerOff(d) PROVE TypeOK'
  BY <1>8, PowerOffTypes
<1>9. ASSUME NEW d \in Display, TakeEffect(d) PROVE TypeOK'
  BY <1>9, TakeEffectTypes
<1>10. CASE RunJob
  BY <1>10, RunJobTypes
<1>11. CASE FreeBuffers
  BY <1>11, FreeBuffersTypes
<1>12. CASE UNCHANGED vars
  BY <1>12 DEF vars, mpp, ring, shown, frameVars, TypeOK
<1> QED
  BY <1>1, <1>2, <1>3, <1>4, <1>5, <1>6, <1>7, <1>8, <1>9, <1>10, <1>11, <1>12 DEF Next

-----------------------------------------------------------------------------
(* The ring of destination buffers.                                        *)

(* A new buffer is in use by nobody, and the old one leaves the ring. *)
LEMMA DoRing ==
  ASSUME TypeOK, RingOwned, NEW d \in Display, NEW picture, DoPostProcessing(d, picture)
  PROVE  RingOwned'
<1>1. cur \in Slot /\ None \notin Buf
  BY DestinationRing DEF TypeOK
<1>2. CASE dst' = dst /\ freed' = freed
  BY <1>2 DEF RingOwned
<1>3. CASE \E b \in Buf \ InUse :
             dst' = [dst EXCEPT ![cur] = b] /\ freed' = freed \union ({dst[cur]} \ {None})
  <2>1. PICK b \in Buf \ InUse :
             dst' = [dst EXCEPT ![cur] = b] /\ freed' = freed \union ({dst[cur]} \ {None})
    BY <1>3
  <2>2. b \notin freed /\ \A i \in Slot : b # dst[i]
    BY DEF InUse
  <2>3. \A i \in Slot : dst'[i] = IF i = cur THEN b ELSE dst[i]
    BY <1>1, <2>1 DEF TypeOK
  <2>4. \A i, j \in Slot : dst'[i] = dst'[j] /\ dst'[i] # None => i = j
    BY <2>2, <2>3 DEF RingOwned
  <2>5. \A i \in Slot : dst'[i] \notin freed'
    BY <1>1, <2>1, <2>2, <2>3 DEF RingOwned
  <2> QED
    BY <2>4, <2>5 DEF RingOwned
<1> QED
  BY <1>2, <1>3 DEF DoPostProcessing

(* Stopping the post-processor empties the ring. *)
LEMMA UpdateRing ==
  ASSUME TypeOK, RingOwned, NEW d, NEW lit, UpdateResourceState(d, lit)
  PROVE  RingOwned'
<1>1. CASE RequestIdle
  <2>1. \A i \in Slot : dst'[i] = None
    BY <1>1 DEF RequestIdle
  <2>2. None \notin freed'
    BY <1>1, DestinationRing DEF RequestIdle, TypeOK
  <2> QED
    BY <2>1, <2>2 DEF RingOwned
<1>2. CASE UNCHANGED <<hw, dst, freed, prevFrame>>
  BY <1>2 DEF RingOwned
<1> QED
  BY <1>1, <1>2 DEF UpdateResourceState

(* No step puts a buffer into the ring twice or frees one of it. *)
LEMMA RingStep == TypeOK /\ RingOwned /\ [Next]_vars => RingOwned'
<1> SUFFICES ASSUME TypeOK, RingOwned, [Next]_vars PROVE RingOwned'
  OBVIOUS
<1>1. CASE FirstValidate
  <2>1. CASE \E d \in on : \E c \in ContentOf[d] : DoPostProcessing(d, <<d, c>>)
    <3>1. PICK d \in on : \E c \in ContentOf[d] : DoPostProcessing(d, <<d, c>>)
      BY <2>1
    <3>2. d \in Display
      BY DEF TypeOK
    <3> QED
      BY <3>1, <3>2, DoRing
  <2>2. CASE dst' = dst /\ freed' = freed
    BY <2>2 DEF RingOwned
  <2> QED
    BY <1>1, <2>1, <2>2 DEF FirstValidate, FailPostProcessing, ring
<1>2. ASSUME NEW d \in Display, SkipValidate(d) PROVE RingOwned'
  <2>1. CASE \E c \in ContentOf[d] : DoPostProcessing(d, <<d, c>>)
    BY <2>1, DoRing
  <2>2. CASE dst' = dst /\ freed' = freed
    BY <2>2 DEF RingOwned
  <2> QED
    BY <1>2, <2>1, <2>2 DEF SkipValidate, ring
<1>3. ASSUME NEW d \in Display, SkipValidateFails(d) PROVE RingOwned'
  BY <1>3 DEF SkipValidateFails, FailPostProcessing, RingOwned
<1>4. ASSUME NEW d \in Display, Present(d) PROVE RingOwned'
  BY <1>4, UpdateRing DEF Present
<1>5. ASSUME NEW d \in Display, PresentFails(d) PROVE RingOwned'
  BY <1>5, UpdateRing DEF PresentFails
<1>6. ASSUME NEW d \in Display, SkipPresent(d) PROVE RingOwned'
  BY <1>6, UpdateRing DEF SkipPresent
<1>7. ASSUME NEW d \in Display, PowerOn(d) PROVE RingOwned'
  BY <1>7 DEF PowerOn, ring, RingOwned
<1>8. ASSUME NEW d \in Display, PowerOff(d) PROVE RingOwned'
  BY <1>8, UpdateRing DEF PowerOff
<1>9. ASSUME NEW d \in Display, TakeEffect(d) PROVE RingOwned'
  BY <1>9 DEF TakeEffect, RingOwned
<1>10. CASE RunJob
  BY <1>10 DEF RunJob, ring, RingOwned
<1>11. CASE FreeBuffers
  BY <1>11 DEF FreeBuffers, RingOwned
<1>12. CASE UNCHANGED vars
  BY <1>12 DEF vars, ring, RingOwned
<1> QED
  BY <1>1, <1>2, <1>3, <1>4, <1>5, <1>6, <1>7, <1>8, <1>9, <1>10, <1>11, <1>12 DEF Next

(* Type correctness, for any displays, pictures, buffers and any length of  *)
(* the ring of destination buffers.                                        *)
THEOREM TypeCorrect == Spec => []TypeOK
  BY TypeInit, TypeStep, PTL DEF Spec

(* No buffer of the ring is shared by two slots or handed to the resource   *)
(* thread, whatever fails and whoever owns the post-processor.              *)
THEOREM RingKept == Spec => []RingOwned
<1>1. Init => RingOwned
  BY DEF Init, RingOwned
<1>2. TypeOK /\ RingOwned /\ [Next]_vars => RingOwned'
  BY RingStep
<1> QED
  BY TypeCorrect, <1>1, <1>2, PTL DEF Spec
-----------------------------------------------------------------------------
(* Release fences: that no job writes a buffer on a screen.                *)

\* What the release fences rest on: a ring of more than one buffer, frames
\* that are presented before the next is validated, and a type of its own for
\* each display.
FencesSuffice ==
  /\ NumDst > 1
  /\ ~LateChange
  /\ \A d, e \in Display : TypeOf[d] = TypeOf[e] => d = e

\* The ring holds nothing of display d.
Clean(d) ==
  \A i \in Slot : dst[i] # None =>
    /\ screen[d].buf # dst[i] /\ fence[i] # d
    /\ pending[d] # None => pending[d].buf # dst[i]

\* The current buffer may be written for d, once its fence has signalled.
Ready(d) ==
  dst[cur] # None =>
    /\ pending[d] # None => pending[d].buf # dst[cur]
    /\ screen[d].buf = dst[cur] => fence[cur] = d
    /\ fence[cur] = d => pending[d] # None

\* What d showed last is in the slot that its next commit releases.
ShownInPriv(d) ==
  \A i \in Slot : dst[i] # None =>
    /\ pending[d] = None /\ screen[d].buf = dst[i] => i = priv
    /\ pending[d] # None /\ pending[d].buf = dst[i] => i = priv

\* A display that has the post-processor, or has lost it within this frame.
Served(d) == user = d /\ ShownInPriv(d) /\ (Presents(d) \/ Ready(d))
Left(d) == user = None /\ d \in validated \intersect on

RingOf(d) == Clean(d) \/ (TypeOf[d] = prevType /\ (Served(d) \/ Left(d)))

Owned ==
  /\ user # None => hw = "running" /\ prevType = TypeOf[user]
  /\ hw = "idle" => \A i \in Slot : dst[i] = None
  /\ skipping # None => skipping \in on
  /\ \A d \in Display \ on : Clean(d)
  /\ \A d \in Display : RingOf(d)

\* A job that writes a buffer on a screen waits for the commit that replaces
\* it there, and that is under way.
Waits(j) ==
  \A d \in Display :
    /\ screen[d].buf = j.buf => j.fence = d
    /\ j.fence = d => Presents(d) /\ pending[d] # None /\ pending[d].buf # j.buf

Queued == {jobs[i] : i \in DOMAIN jobs}
Fenced == \A j \in Queued : Waits(j)

RingInv == TypeOK /\ RingOwned /\ Owned /\ Fenced

(* The jobs that are queued after one was added, done, or signalled. *)
LEMMA QueuedAppend ==
  ASSUME TypeOK, NEW j, jobs' = Append(jobs, j)
  PROVE  Queued' = Queued \union {j}
<1>1. jobs \in Seq(Job)
  BY DEF TypeOK, Job
<1>2. /\ DOMAIN jobs = 1 .. Len(jobs) /\ DOMAIN jobs' = 1 .. (Len(jobs) + 1)
      /\ \A i \in 1 .. Len(jobs) : jobs'[i] = jobs[i]
      /\ jobs'[Len(jobs) + 1] = j /\ Len(jobs) \in Nat
  BY <1>1
<1> QED
  BY <1>2 DEF Queued

LEMMA QueuedTail ==
  ASSUME TypeOK, jobs # <<>>, jobs' = Tail(jobs)
  PROVE  Queued' \subseteq Queued /\ Head(jobs) \in Queued
<1>1. jobs \in Seq(Job)
  BY DEF TypeOK, Job
<1>2. /\ DOMAIN jobs = 1 .. Len(jobs) /\ DOMAIN jobs' = 1 .. (Len(jobs) - 1)
      /\ \A i \in 1 .. (Len(jobs) - 1) : jobs'[i] = jobs[i + 1]
      /\ Head(jobs) = jobs[1] /\ Len(jobs) \in Nat \ {0}
  BY <1>1
<1> QED
  BY <1>2 DEF Queued

LEMMA QueuedSignalled ==
  ASSUME NEW d,
         jobs' = [i \in DOMAIN jobs |->
                    IF jobs[i].fence = d THEN [jobs[i] EXCEPT !.fence = None] ELSE jobs[i]]
  PROVE  \A j \in Queued' : \/ j \in Queued /\ j.fence # d
                            \/ \E k \in Queued : k.fence = d /\ j = [k EXCEPT !.fence = None]
  BY DEF Queued

LEMMA QueuedJobs == TypeOK => Queued \subseteq Job
<1> SUFFICES ASSUME TypeOK PROVE Queued \subseteq Job
  OBVIOUS
<1>1. jobs \in Seq(Job)
  BY DEF TypeOK, Job
<1> QED
  BY <1>1 DEF Queued

(* A job of the hardware *)
LEMMA RunJobRing ==
  ASSUME RingInv, RunJob
  PROVE  Owned' /\ Fenced'
<1>1. Queued' \subseteq Queued
  BY QueuedTail DEF RunJob, RingInv
<1>2. Owned'
  BY DEF RingInv, RunJob, mpp, ring, shown, frameVars, Owned, RingOf, Clean, Served, Left,
         ShownInPriv, Presents, Ready
<1>3. \A j \in Queued : Waits(j)'
  BY DEF RingInv, RunJob, mpp, ring, shown, frameVars, Fenced, Waits, Presents
<1> QED
  BY <1>1, <1>2, <1>3 DEF Fenced

(* freeBuffers() *)
LEMMA FreeBuffersRing ==
  ASSUME RingInv, FreeBuffers
  PROVE  Owned' /\ Fenced'
<1>1. Queued' = Queued
  BY DEF FreeBuffers, Queued
<1>2. Owned'
  BY DEF RingInv, FreeBuffers, mpp, shown, frameVars, Owned, RingOf, Clean, Served, Left,
         ShownInPriv, Presents, Ready
<1>3. \A j \in Queued : Waits(j)'
  BY DEF RingInv, FreeBuffers, shown, frameVars, Fenced, Waits, Presents
<1> QED
  BY <1>1, <1>2, <1>3 DEF Fenced

(* Without a picture on it a display waits for nothing. *)
LEMMA BlankIsClean ==
  ASSUME TypeOK, NEW d \in Display, screen'[d] = Blank, pending'[d] = None \/ pending'[d] = Blank,
         \A i \in Slot : dst'[i] = None \/ fence'[i] # d
  PROVE  Clean(d)'
  BY DEF Clean, Blank

(* A post-processor that is stopped has no ring left. *)
LEMMA UnusedStops ==
  ASSUME TypeOK, NEW d \in Display, NEW lit, UpdateResourceState(d, lit)
  PROVE  \/ hw' = hw /\ dst' = dst /\ ~(IsLastPresent(d, lit) /\ user = None /\ hw = "running")
         \/ hw' = "idle" /\ user = None /\ \A i \in Slot : dst'[i] = None
<1>1. CASE IsLastPresent(d, lit) /\ user = None /\ hw = "running"
  BY <1>1 DEF UpdateResourceState, RequestIdle
<1>2. CASE ~(IsLastPresent(d, lit) /\ user = None /\ hw = "running")
  BY <1>2 DEF UpdateResourceState
<1> QED
  BY <1>1, <1>2

(* What a step that is about other displays leaves as it is. *)
LEMMA SameRing ==
  ASSUME TypeOK, NEW e \in Display, screen'[e] = screen[e], pending'[e] = pending[e],
         cur' = cur, priv' = priv, dst' = dst,
         \A i \in Slot : fence'[i] = fence[i] \/ (fence[i] # e /\ fence'[i] # e)
  PROVE  /\ Clean(e) => Clean(e)'
         /\ ShownInPriv(e) => ShownInPriv(e)'
         /\ Ready(e) => Ready(e)'
<1>1. cur \in Slot
  BY DEF TypeOK
<1> QED
  BY <1>1 DEF Clean, ShownInPriv, Ready

(* setPowerMode() to on *)
LEMMA PowerOnRing ==
  ASSUME RingInv, NEW d \in Display, PowerOn(d)
  PROVE  Owned' /\ Fenced'
<1>1. Queued' = Queued
  BY DEF PowerOn, Queued
<1>2. \A e \in Display : Clean(e) => Clean(e)'
  BY DEF PowerOn, Clean, ring, shown
<1>3. \A e \in Display : Presents(e) => Presents(e)'
  BY DEF PowerOn, Presents
<1>4. \A e \in Display : RingOf(e)'
  <2> SUFFICES ASSUME NEW e \in Display PROVE RingOf(e)'
    OBVIOUS
  <2>1. CASE e \in on
    <3>1. Presents(e)' => Presents(e)
      BY <2>1 DEF PowerOn, Presents, RingInv, TypeOK
    <3>2. (ShownInPriv(e) => ShownInPriv(e)') /\ (Ready(e) => Ready(e)')
      BY SameRing DEF RingInv, PowerOn, ring, shown
    <3>3. (Served(e) => Served(e)') /\ (Left(e) => Left(e)')
      BY <1>3, <3>2 DEF Served, Left, PowerOn, mpp
    <3> QED
      BY <1>2, <3>3 DEF RingInv, Owned, RingOf, PowerOn, mpp
  <2>2. CASE e \notin on
    BY <1>2, <2>2 DEF RingInv, Owned, RingOf
  <2> QED
    BY <2>1, <2>2
<1>5. Owned'
  BY <1>2, <1>4 DEF RingInv, Owned, PowerOn, mpp, ring
<1>6. \A j \in Queued : Waits(j)'
  BY <1>3 DEF RingInv, PowerOn, shown, Fenced, Waits
<1> QED
  BY <1>1, <1>5, <1>6 DEF Fenced

(* A commit reaches the screen *)
LEMMA TakeEffectRing ==
  ASSUME RingInv, NEW d \in Display, TakeEffect(d)
  PROVE  Owned' /\ Fenced'
<1> USE DEF RingInv
<1>1. /\ screen'[d] = pending[d] /\ pending'[d] = None /\ pending[d] # None
      /\ \A e \in Display \ {d} : screen'[e] = screen[e] /\ pending'[e] = pending[e]
  BY DEF TakeEffect, TypeOK
<1>2. /\ \A i \in Slot : fence'[i] = IF fence[i] = d THEN None ELSE fence[i]
      /\ cur' = cur /\ priv' = priv /\ dst' = dst
      /\ UNCHANGED <<mpp, on, validated, presented, skipping>>
  BY DEF TakeEffect, Signal, frameVars
<1>3. \A e \in Display : Presents(e)' <=> Presents(e)
  BY <1>2 DEF Presents
<1>4. None \notin Display /\ cur \in Slot
  BY DestinationRing DEF TypeOK
<1>5. \A e \in Display : Clean(e) => Clean(e)'
  <2> SUFFICES ASSUME NEW e \in Display, Clean(e) PROVE Clean(e)'
    OBVIOUS
  <2>1. CASE e = d
    BY <1>1, <1>2, <1>4, <2>1 DEF Clean
  <2>2. CASE e # d
    BY <1>1, <1>2, <1>4, <2>2 DEF Clean
  <2> QED
    BY <2>1, <2>2
<1>6. \A e \in Display : RingOf(e)'
  <2> SUFFICES ASSUME NEW e \in Display, ~Clean(e) PROVE RingOf(e)'
    BY <1>5 DEF RingOf
  <2>1. TypeOf[e] = prevType' /\ (Served(e) \/ Left(e))
    BY <1>2 DEF Owned, RingOf, mpp
  <2>2. Left(e) => Left(e)'
    BY <1>2 DEF Left, mpp
  <2>3. ASSUME Served(e) PROVE Served(e)'
    <3>1. ShownInPriv(e)'
      BY <1>1, <1>2, <2>3 DEF Served, ShownInPriv
    <3>2. Ready(e) => Ready(e)'
      BY <1>1, <1>2, <1>4 DEF Ready
    <3> QED
      BY <1>2, <1>3, <2>3, <3>1, <3>2 DEF Served, mpp
  <2> QED
    BY <2>1, <2>2, <2>3 DEF RingOf
<1>7. Owned'
  BY <1>2, <1>5, <1>6 DEF Owned, mpp
<1>8. Fenced'
  <2> SUFFICES ASSUME NEW j \in Queued' PROVE Waits(j)'
    BY DEF Fenced
  <2>0. jobs' = [i \in DOMAIN jobs |->
                   IF jobs[i].fence = d THEN [jobs[i] EXCEPT !.fence = None] ELSE jobs[i]]
    BY DEF TakeEffect, Signal
  <2>1. PICK k \in Queued : \/ j = k /\ k.fence # d
                            \/ k.fence = d /\ j = [k EXCEPT !.fence = None]
    BY <2>0, QueuedSignalled
  <2>2. k \in Job /\ Waits(k)
    BY QueuedJobs DEF Fenced
  <2>3. j.buf = k.buf /\ j.fence = (IF k.fence = d THEN None ELSE k.fence)
    BY <2>1, <2>2 DEF Job
  <2>4. pending[d].buf # k.buf
    <3>1. PICK i \in DOMAIN jobs : jobs[i] = k
      BY DEF Queued
    <3>2. pending[d].buf = k.buf => k.fence = d
      BY <3>1 DEF TakeEffect
    <3> QED
      BY <3>2, <2>2 DEF Waits
  <2> QED
    BY <1>1, <1>3, <1>4, <2>2, <2>3, <2>4 DEF Waits
<1> QED
  BY <1>7, <1>8

(* A display that composes nothing keeps what it has while another display *)
(* ends its part of the frame.                                             *)
LEMMA OthersKeep ==
  ASSUME RingInv, NEW d \in Display, NEW e \in Display, e # d, NEW lit, NEW then,
         EndOfPresent(d, lit, then), UpdateResourceState(d, lit),
         on' \in {on, on \ {d}}, lit = on', skipping' = skipping \/ (skipping' = None /\ skipping # e),
         user' = user, prevType' = prevType, cur' = cur, priv' = priv,
         screen'[e] = screen[e], pending'[e] = pending[e],
         \A i \in Slot : fence'[i] = fence[i] \/ (fence[i] # e /\ fence'[i] # e)
  PROVE  RingOf(e)' /\ (Clean(e) => Clean(e)')
<1> USE DEF RingInv
<1>1. CASE hw' = "idle" /\ \A i \in Slot : dst'[i] = None
  BY <1>1 DEF RingOf, Clean
<1>2. CASE hw' = hw /\ dst' = dst /\ ~(IsLastPresent(d, lit) /\ user = None /\ hw = "running")
  <2>1. /\ Clean(e) => Clean(e)'
        /\ ShownInPriv(e) => ShownInPriv(e)'
        /\ Ready(e) => Ready(e)'
    BY <1>2, SameRing
  <2>2. e \in on' <=> e \in on
    OBVIOUS
  <2>3. ASSUME Presents(e) PROVE Presents(e)'
    <3>1. CASE skipping = e
      BY <3>1 DEF Presents
    <3>2. CASE e \in (validated \intersect on) \ presented /\ skipping = None
      <4>1. ~IsLastPresent(d, lit)
        BY <2>2, <3>2 DEF IsLastPresent
      <4>2. validated' = validated /\ presented' = presented \union {d} /\ skipping' = None
        BY <3>2, <4>1 DEF EndOfPresent
      <4> QED
        BY <2>2, <3>2, <4>2 DEF Presents
    <3> QED
      BY <2>3, <3>1, <3>2 DEF Presents
  <2>4. ASSUME Left(e), prevType = TypeOf[e], ~Clean(e) PROVE Left(e)'
    <3>1. hw # "idle"
      BY <2>4 DEF Owned, Clean
    <3>2. ~IsLastPresent(d, lit)
      BY <1>2, <2>4, <3>1 DEF Left, TypeOK
    <3>3. validated' = validated
      BY <3>2 DEF EndOfPresent
    <3> QED
      BY <2>2, <2>4, <3>3 DEF Left
  <2>5. Served(e) => Served(e)'
    BY <2>1, <2>3 DEF Served
  <2> QED
    BY <2>1, <2>4, <2>5 DEF RingOf, Owned
<1> QED
  BY <1>1, <1>2, UnusedStops

(* The other parts of the invariant, at the end of a present. *)
LEMMA EndKeeps ==
  ASSUME RingInv, NEW d \in Display, NEW lit, UpdateResourceState(d, lit),
         on' \in {on, on \ {d}}, user' = user, prevType' = prevType,
         skipping' = None \/ (skipping' = skipping /\ on' = on),
         \A e \in Display \ {d} : RingOf(e)' /\ (Clean(e) => Clean(e)'),
         RingOf(d)', d \notin on' => Clean(d)'
  PROVE  Owned'
<1> USE DEF RingInv
<1>1. (user # None => hw = "running" /\ prevType = TypeOf[user])'
  BY UnusedStops DEF Owned
<1>2. (hw = "idle" => \A i \in Slot : dst[i] = None)'
  BY UnusedStops DEF Owned
<1>3. (\A e \in Display \ on : Clean(e))'
  BY DEF Owned
<1>4. (skipping # None => skipping \in on)'
  BY DEF Owned
<1> QED
  BY <1>1, <1>2, <1>3, <1>4 DEF Owned

(* A frame that is skipped *)
LEMMA SkipPresentRing ==
  ASSUME RingInv, NEW d \in Display, SkipPresent(d)
  PROVE  Owned' /\ Fenced'
<1> USE DEF RingInv
<1>1. /\ UNCHANGED <<user, prevType, cur, priv, fence, jobs, pending, screen, on, skipping>>
      /\ EndOfPresent(d, on, TRUE) /\ UpdateResourceState(d, on)
      /\ d \in on \ (validated \union presented) /\ skipping = None
  BY DEF SkipPresent, shown
<1>2. \A e \in Display \ {d} : RingOf(e)' /\ (Clean(e) => Clean(e)')
  BY <1>1, OthersKeep
<1>3. RingOf(d)'
  <2>1. CASE \A i \in Slot : dst'[i] = None
    BY <2>1 DEF RingOf, Clean
  <2>2. CASE hw' = hw /\ dst' = dst
    <3>1. /\ Clean(d) => Clean(d)'
          /\ ShownInPriv(d) => ShownInPriv(d)'
          /\ Ready(d) => Ready(d)'
      BY <1>1, <2>2, SameRing
    <3>2. ~Left(d) /\ ~Presents(d)
      BY <1>1, DestinationRing DEF Left, Presents, TypeOK
    <3>3. Served(d) => Served(d)'
      BY <1>1, <3>1, <3>2 DEF Served
    <3> QED
      BY <1>1, <3>1, <3>2, <3>3 DEF Owned, RingOf
  <2> QED
    BY <1>1, <2>1, <2>2, UnusedStops
<1>4. Owned'
  BY <1>1, <1>2, <1>3, EndKeeps
<1>5. \A e \in Display : Presents(e) => Presents(e)'
  <2> SUFFICES ASSUME NEW e \in Display, Presents(e) PROVE Presents(e)'
    OBVIOUS
  <2>1. e \in (validated \intersect on) \ presented /\ e # d
    BY <1>1, DestinationRing DEF Presents, TypeOK
  <2>2. validated' = validated /\ presented' = presented \union {d}
    BY <1>1, <2>1 DEF EndOfPresent, IsLastPresent
  <2> QED
    BY <1>1, <2>1, <2>2 DEF Presents
<1>6. Queued' = Queued
  BY <1>1 DEF Queued
<1>7. \A j \in Queued : Waits(j)'
  BY <1>1, <1>5 DEF Fenced, Waits
<1> QED
  BY <1>4, <1>6, <1>7 DEF Fenced

(* A display that leaves its part of the frame blank has no part in the ring *)
(* any more, once its commits have signalled.                                *)
LEMMA SignalledJobs ==
  ASSUME RingInv, NEW d \in Display,
         jobs' = [i \in DOMAIN jobs |->
                    IF jobs[i].fence = d THEN [jobs[i] EXCEPT !.fence = None] ELSE jobs[i]],
         screen' = [screen EXCEPT ![d] = Blank], pending' = [pending EXCEPT ![d] = None],
         \A e \in Display \ {d} : Presents(e) => Presents(e)'
  PROVE  Fenced'
<1>0. \A j \in Queued' : \/ j \in Queued /\ j.fence # d
                         \/ \E k \in Queued : k.fence = d /\ j = [k EXCEPT !.fence = None]
  BY QueuedSignalled
<1> USE DEF RingInv
<1> SUFFICES ASSUME NEW j \in Queued' PROVE Waits(j)'
  BY DEF Fenced
<1>1. PICK k \in Queued : \/ j = k /\ k.fence # d
                          \/ k.fence = d /\ j = [k EXCEPT !.fence = None]
  BY <1>0
<1>2. k \in Job /\ Waits(k)
  BY QueuedJobs DEF Fenced
<1>3. j.buf = k.buf /\ j.fence = (IF k.fence = d THEN None ELSE k.fence) /\ k.buf \in Buf
  BY <1>1, <1>2 DEF Job
<1>4. None \notin Display /\ None \notin Buf
  BY DestinationRing
<1>5. /\ screen'[d].buf = None
      /\ \A e \in Display \ {d} : screen'[e] = screen[e] /\ pending'[e] = pending[e]
  BY DEF TypeOK, Blank
<1>6. j.fence # d
  BY <1>3, <1>4
<1> QED
  BY <1>2, <1>3, <1>4, <1>5, <1>6 DEF Waits

LEMMA OthersPresent ==
  ASSUME RingInv, NEW d \in Display, NEW lit, NEW then, EndOfPresent(d, lit, then),
         on' \in {on, on \ {d}}, lit = on', skipping \in {None, d}, skipping' = None
  PROVE  \A e \in Display \ {d} : Presents(e) => Presents(e)'
<1> SUFFICES ASSUME NEW e \in Display \ {d}, Presents(e) PROVE Presents(e)'
  OBVIOUS
<1>1. e \in (validated \intersect on) \ presented /\ e \in on'
  BY DestinationRing DEF Presents
<1>2. validated' = validated /\ presented' = presented \union {d}
  BY <1>1 DEF EndOfPresent, IsLastPresent
<1> QED
  BY <1>1, <1>2 DEF Presents

(* setPowerMode() to off *)
LEMMA PowerOffRing ==
  ASSUME RingInv, NEW d \in Display, PowerOff(d)
  PROVE  Owned' /\ Fenced'
<1> USE DEF RingInv
<1>1. /\ UNCHANGED <<user, prevType, cur, priv, skipping>>
      /\ on' = on \ {d} /\ skipping = None
      /\ EndOfPresent(d, on \ {d}, geometry') /\ UpdateResourceState(d, on \ {d})
      /\ screen' = [screen EXCEPT ![d] = Blank] /\ pending' = [pending EXCEPT ![d] = None]
      /\ Signal(d)
  BY DEF PowerOff, ClearDisplay, EndOfPresent
<1>2. \A i \in Slot : fence'[i] = IF fence[i] = d THEN None ELSE fence[i]
  BY <1>1 DEF Signal
<1>3. \A e \in Display \ {d} : RingOf(e)' /\ (Clean(e) => Clean(e)')
  <2> SUFFICES ASSUME NEW e \in Display \ {d} PROVE RingOf(e)' /\ (Clean(e) => Clean(e)')
    OBVIOUS
  <2>1. screen'[e] = screen[e] /\ pending'[e] = pending[e]
    BY <1>1 DEF TypeOK
  <2>2. \A i \in Slot : fence'[i] = fence[i] \/ (fence[i] # e /\ fence'[i] # e)
    BY <1>2, DestinationRing
  <2>3. /\ on' \in {on, on \ {d}} /\ skipping' = skipping
        /\ \A lit : lit = on \ {d} => lit = on'
    BY <1>1
  <2> QED
    BY <1>1, <2>1, <2>2, <2>3, OthersKeep
<1>4. Clean(d)'
  <2>1. screen'[d] = Blank /\ pending'[d] = None /\ \A i \in Slot : fence'[i] # d
    BY <1>1, <1>2, DestinationRing DEF TypeOK
  <2> QED
    BY <2>1, BlankIsClean
<1>5. Owned'
  BY <1>1, <1>3, <1>4, EndKeeps DEF RingOf
<1>6. \A e \in Display \ {d} : Presents(e) => Presents(e)'
  BY <1>1, OthersPresent
<1>7. Fenced'
  BY <1>1, <1>6, SignalledJobs DEF Signal
<1> QED
  BY <1>5, <1>7

(* A commit that fails *)
LEMMA PresentFailsRing ==
  ASSUME RingInv, NEW d \in Display, PresentFails(d)
  PROVE  Owned' /\ Fenced'
<1> USE DEF RingInv
<1>1. /\ UNCHANGED <<user, prevType, cur, priv, on>>
      /\ skipping \in {None, d} /\ skipping' = None
      /\ EndOfPresent(d, on, TRUE) /\ UpdateResourceState(d, on)
      /\ screen' = [screen EXCEPT ![d] = Blank] /\ pending' = [pending EXCEPT ![d] = None]
      /\ jobs' = [i \in DOMAIN jobs |->
                    IF jobs[i].fence = d THEN [jobs[i] EXCEPT !.fence = None] ELSE jobs[i]]
  BY DEF PresentFails, ClearDisplay, Presents
<1>2. \A i \in Slot : fence'[i] = IF fence[i] = d \/ (user = d /\ i = cur) THEN None ELSE fence[i]
  BY DEF PresentFails
<1>3. \A e \in Display \ {d} : RingOf(e)' /\ (Clean(e) => Clean(e)')
  <2> SUFFICES ASSUME NEW e \in Display \ {d} PROVE RingOf(e)' /\ (Clean(e) => Clean(e)')
    OBVIOUS
  <2>1. screen'[e] = screen[e] /\ pending'[e] = pending[e]
    BY <1>1 DEF TypeOK
  <2>2. CASE user # d
    <3>1. \A i \in Slot : fence'[i] = fence[i] \/ (fence[i] # e /\ fence'[i] # e)
      BY <1>2, <2>2, DestinationRing
    <3> QED
      BY <1>1, <2>1, <3>1, OthersKeep, DestinationRing
  <2>3. CASE user = d
    <3>1. Clean(e) /\ dst' = dst
      BY <2>3, DestinationRing DEF Owned, RingOf, Served, Left, UpdateResourceState, PresentFails
    <3>2. Clean(e)'
      BY <1>2, <2>1, <3>1, DestinationRing DEF Clean
    <3> QED
      BY <3>2 DEF RingOf
  <2> QED
    BY <2>2, <2>3
<1>4. Clean(d)'
  <2>1. screen'[d] = Blank /\ pending'[d] = None /\ \A i \in Slot : fence'[i] # d
    BY <1>1, <1>2, DestinationRing DEF TypeOK
  <2> QED
    BY <2>1, BlankIsClean
<1>5. Owned'
  BY <1>1, <1>3, <1>4, EndKeeps DEF RingOf
<1>6. \A e \in Display \ {d} : Presents(e) => Presents(e)'
  BY <1>1, OthersPresent
<1>7. Fenced'
  BY <1>1, <1>6, SignalledJobs
<1> QED
  BY <1>5, <1>7

(* Before a frame is validated no display presents and no job waits. *)
LEMMA BetweenFrames ==
  ASSUME RingInv, FirstValidateDue
  PROVE  /\ \A e \in Display : ~Presents(e) /\ ~Left(e)
         /\ \A j \in Queued : j.fence = None
<1> USE DEF RingInv
<1>1. \A e \in Display : ~Presents(e) /\ ~Left(e)
  BY DestinationRing DEF FirstValidateDue, Presents, Left
<1>2. ASSUME NEW j \in Queued PROVE j.fence = None
  <2>1. j.fence \in Display \union {None} /\ Waits(j)
    BY QueuedJobs DEF Job, Fenced
  <2> QED
    BY <1>1, <2>1 DEF Waits
<1> QED
  BY <1>1, <1>2

(* A present whose picture cannot be composed *)
LEMMA SkipValidateFailsRing ==
  ASSUME RingInv, NEW d \in Display, SkipValidateFails(d)
  PROVE  Owned' /\ Fenced'
<1> USE DEF RingInv
<1>1. /\ FirstValidateDue /\ user = d /\ d \in on
      /\ hw' = "running" /\ prevType' = TypeOf[d] /\ fence' = [fence EXCEPT ![cur] = None]
      /\ screen' = [screen EXCEPT ![d] = Blank] /\ pending' = [pending EXCEPT ![d] = None]
      /\ UNCHANGED <<user, cur, priv, dst, jobs, on, skipping>>
  BY DEF SkipValidateFails, FailPostProcessing, ClearDisplay
<1>2. hw = "running" /\ prevType' = prevType /\ skipping = None
  BY <1>1, DestinationRing DEF Owned, FirstValidateDue
<1>3. \A i \in Slot : fence'[i] = IF i = cur THEN None ELSE fence[i]
  BY <1>1 DEF TypeOK
<1>4. \A e \in Display : screen'[e] = (IF e = d THEN Blank ELSE screen[e])
                         /\ pending'[e] = (IF e = d THEN None ELSE pending[e])
  BY <1>1 DEF TypeOK
<1>5. \A e \in Display \ {d} : Clean(e)'
  <2> SUFFICES ASSUME NEW e \in Display \ {d} PROVE Clean(e)'
    OBVIOUS
  <2>1. Clean(e)
    BY <1>1, DestinationRing DEF Owned, RingOf, Served, Left
  <2> QED
    BY <1>1, <1>3, <1>4, <2>1, DestinationRing DEF Clean
<1>6. Served(d)'
  <2>1. screen'[d].buf = None /\ pending'[d] = None /\ fence'[cur] = None /\ cur \in Slot
    BY <1>3, <1>4 DEF Blank, TypeOK
  <2> QED
    BY <1>1, <2>1, DestinationRing DEF Served, ShownInPriv, Ready
<1>7. Owned'
  BY <1>1, <1>2, <1>5, <1>6 DEF Owned, RingOf
<1>8. \A j \in Queued : j.fence = None
  BY <1>1, BetweenFrames
<1>9. Fenced'
  <2> SUFFICES ASSUME NEW j \in Queued PROVE Waits(j)'
    BY <1>1 DEF Queued, Fenced
  <2>1. j.buf \in Buf /\ Waits(j) /\ j.fence = None
    BY <1>8, QueuedJobs DEF Job, Fenced
  <2> QED
    BY <1>4, <2>1, DestinationRing DEF Waits, Blank
<1> QED
  BY <1>7, <1>9

(* Around the ring *)
LEMMA Around ==
  ASSUME NEW i \in Slot
  PROVE  /\ After(i) \in Slot /\ Before(i) \in Slot
         /\ Before(After(i)) = i
         /\ NumDst > 1 => After(i) # i
<1>1. NumDst \in Nat \ {0} /\ i \in 0 .. NumDst - 1
  BY DestinationRing DEF Slot
<1>2. After(i) = IF i = NumDst - 1 THEN 0 ELSE i + 1
  <2>1. CASE i = NumDst - 1
    BY <1>1, <2>1 DEF After
  <2>2. CASE i # NumDst - 1
    BY <1>1, <2>2 DEF After
  <2> QED
    BY <2>1, <2>2
<1>3. \A k \in 0 .. NumDst - 1 : Before(k) = IF k = 0 THEN NumDst - 1 ELSE k - 1
  <2> SUFFICES ASSUME NEW k \in 0 .. NumDst - 1
               PROVE  Before(k) = IF k = 0 THEN NumDst - 1 ELSE k - 1
    OBVIOUS
  <2>1. CASE k = 0
    BY <1>1, <2>1 DEF Before
  <2>2. CASE k # 0
    <3>1. k + NumDst - 1 = (k - 1) + NumDst /\ k - 1 \in 0 .. NumDst - 1
      BY <1>1, <2>2
    <3> QED
      BY <1>1, <2>2, <3>1 DEF Before
  <2> QED
    BY <2>1, <2>2
<1> QED
  BY <1>1, <1>2, <1>3 DEF Slot

(* presentDisplay() of the display that has the post-processor *)
LEMMA PresentServedRing ==
  ASSUME RingInv, FencesSuffice, NEW d \in Display, Present(d), user = d
  PROVE  Owned' /\ Fenced'
<1> USE DEF RingInv
<1>1. /\ Presents(d) /\ pending[d] = None /\ d \in on
      /\ pending' = [pending EXCEPT ![d] =
            [buf |-> dst[cur], picture |-> IF dropped THEN None ELSE want]]
      /\ fence' = IF Private THEN [fence EXCEPT ![priv] = d] ELSE fence
      /\ priv' = cur /\ cur' = After(cur)
      /\ UNCHANGED <<user, prevType, jobs, screen, on, hw, dst>>
      /\ skipping' = None /\ skipping \in {None, d} /\ EndOfPresent(d, on, FALSE)
  BY DestinationRing DEF Present, SetDstReleaseFence, UpdateResourceState, Presents, Owned
<1>2. /\ pending'[d].buf = dst[cur] /\ pending'[d] # None
      /\ \A e \in Display \ {d} : pending'[e] = pending[e]
  <2>1. pending'[d] = [buf |-> dst[cur], picture |-> IF dropped THEN None ELSE want]
    BY <1>1 DEF TypeOK
  <2>2. [buf |-> dst[cur], picture |-> IF dropped THEN None ELSE want] \in Commit
    BY DEF TypeOK, Commit
  <2> QED
    BY <1>1, <2>1, <2>2, NothingIsNone DEF TypeOK
<1>3. cur \in Slot /\ cur' \in Slot /\ cur' # cur /\ (priv \in Slot => fence'[priv] = d)
  <2>1. cur \in Slot /\ After(cur) \in Slot /\ After(cur) # cur
    BY Around DEF TypeOK, FencesSuffice
  <2> QED
    BY <1>1, <2>1 DEF Private, TypeOK
<1>4. \A i \in Slot : fence'[i] \in {fence[i], d}
  BY <1>1 DEF TypeOK, Private
<1>5. \A e \in Display \ {d} : RingOf(e)' /\ Clean(e)'
  <2> SUFFICES ASSUME NEW e \in Display \ {d} PROVE Clean(e)'
    BY DEF RingOf
  <2>1. Clean(e)
    BY <1>1, DestinationRing DEF Owned, RingOf, Served, Left
  <2> QED
    BY <1>1, <1>2, <1>4, <2>1 DEF Clean
<1>6. ShownInPriv(d)
  BY <1>1, DestinationRing DEF Owned, RingOf, Served, Left, Clean, ShownInPriv
<1>7. ShownInPriv(d)'
  BY <1>1, <1>2, <1>3 DEF ShownInPriv, RingOwned
<1>8. Ready(d)'
  <2>1. dst[cur'] # None => dst[cur'] # dst[cur]
    BY <1>3 DEF RingOwned
  <2>2. dst[cur'] # None /\ screen[d].buf = dst[cur'] => fence'[cur'] = d
    BY <1>1, <1>3, <1>6 DEF ShownInPriv
  <2> QED
    BY <1>1, <1>2, <2>1, <2>2 DEF Ready
<1>9. Owned'
  <2>1. RingOf(d)'
    BY <1>1, <1>7, <1>8, DestinationRing DEF Owned, RingOf, Served
  <2>2. \A e \in Display : RingOf(e)' /\ (e \notin on' => Clean(e)')
    BY <1>1, <1>5, <2>1
  <2> QED
    BY <1>1, <2>2 DEF Owned
<1>10. \A e \in Display \ {d} : Presents(e) => Presents(e)'
  BY <1>1, OthersPresent
<1>11. Fenced'
  <2> SUFFICES ASSUME NEW j \in Queued PROVE Waits(j)'
    BY <1>1 DEF Queued, Fenced
  <2>1. Waits(j) /\ j.fence # d
    BY <1>1 DEF Fenced, Waits
  <2> QED
    BY <1>1, <1>2, <1>10, <2>1 DEF Waits
<1> QED
  BY <1>9, <1>11

(* presentDisplay() of any other display *)
LEMMA PresentOtherRing ==
  ASSUME RingInv, NEW d \in Display, Present(d), user # d
  PROVE  Owned' /\ Fenced'
<1> USE DEF RingInv
<1>1. /\ Presents(d) /\ d \in on
      /\ pending' = [pending EXCEPT ![d] = Blank]
      /\ UNCHANGED <<cur, priv, fence, user, prevType, jobs, screen, on>>
      /\ skipping' = None /\ skipping \in {None, d}
      /\ EndOfPresent(d, on, FALSE) /\ UpdateResourceState(d, on)
  BY DestinationRing DEF Present, Presents, Owned
<1>2. /\ pending'[d] = Blank /\ \A e \in Display \ {d} : pending'[e] = pending[e]
      /\ pending[d] = None
  BY <1>1 DEF TypeOK, Present
<1>3. \A e \in Display \ {d} : RingOf(e)' /\ (Clean(e) => Clean(e)')
  BY <1>1, <1>2, OthersKeep, DestinationRing
<1>4. RingOf(d)'
  <2>1. CASE \A i \in Slot : dst'[i] = None
    BY <2>1 DEF RingOf, Clean
  <2>2. CASE hw' = hw /\ dst' = dst /\ ~(IsLastPresent(d, on) /\ user = None /\ hw = "running")
    <3>1. Clean(d) => Clean(d)'
      BY <1>1, <1>2, <2>2 DEF Clean, Blank
    <3>2. ASSUME Left(d), ~Clean(d) PROVE Left(d)'
      <4>1. hw = "running"
        BY <3>2 DEF Owned, Clean, TypeOK
      <4>2. validated' = validated
        BY <1>1, <2>2, <3>2, <4>1 DEF Left, EndOfPresent
      <4> QED
        BY <1>1, <3>2, <4>2 DEF Left
    <3> QED
      BY <1>1, <3>1, <3>2 DEF Owned, RingOf, Served
  <2> QED
    BY <1>1, <2>1, <2>2, UnusedStops
<1>5. Owned'
  BY <1>1, <1>3, <1>4, EndKeeps
<1>6. \A e \in Display \ {d} : Presents(e) => Presents(e)'
  BY <1>1, OthersPresent
<1>7. Fenced'
  <2> SUFFICES ASSUME NEW j \in Queued PROVE Waits(j)'
    BY <1>1 DEF Queued, Fenced
  <2>1. Waits(j) /\ j.fence # d
    BY <1>2 DEF Fenced, Waits
  <2> QED
    BY <1>1, <1>2, <1>6, <2>1 DEF Waits
<1> QED
  BY <1>5, <1>7

(* The display that may be given the post-processor shares its ring with no *)
(* other one.                                                              *)
LEMMA RingIsFree ==
  ASSUME RingInv, FencesSuffice, FirstValidateDue, NEW d \in Display,
         IsAssignable(d) \/ d = user
  PROVE  /\ \A e \in Display \ {d} : Clean(e)
         /\ Clean(d) \/ (ShownInPriv(d) /\ Ready(d))
<1> USE DEF RingInv
<1>1. \A e \in Display : Clean(e) \/ (TypeOf[e] = prevType /\ user = e
                                     /\ ShownInPriv(e) /\ Ready(e))
  BY BetweenFrames DEF Owned, RingOf, Served
<1>2. ASSUME NEW e \in Display \ {d}, ~Clean(e) PROVE FALSE
  <2>1. TypeOf[e] = prevType /\ user = e
    BY <1>1, <1>2
  <2>2. hw # "idle"
    BY <1>2 DEF Owned, Clean
  <2>3. prevType \in {None, TypeOf[d]} /\ TypeOf[e] \in Type
    BY <2>1, <2>2, DestinationRing DEF IsAssignable
  <2> QED
    BY <2>1, <2>3, DestinationRing DEF FencesSuffice
<1> QED
  BY <1>1, <1>2

(* doPostProcessing(): the job it submits waits for the commit that shows its *)
(* buffer; another buffer is not shown at all.                                *)
LEMMA ComposeRing ==
  ASSUME RingInv, FencesSuffice, FirstValidateDue, NEW d \in on, NEW picture,
         IsAssignable(d) \/ d = user, DoPostProcessing(d, picture),
         hw' = "running", user' = d, shown' = shown, on' = on, skipping' \in {None, d},
         Presents(d)'
  PROVE  Owned' /\ Fenced'
<1> USE DEF RingInv
<1>1. /\ \A e \in Display \ {d} : Clean(e)
      /\ Clean(d) \/ (ShownInPriv(d) /\ Ready(d))
      /\ d \in Display
  BY RingIsFree DEF TypeOK
<1>2. \A j \in Queued : j.fence = None /\ Waits(j) /\ j.buf \in Buf
  BY BetweenFrames, QueuedJobs DEF Fenced, Job
<1>3. prevType' = TypeOf[d] /\ priv' = priv /\ screen' = screen /\ pending' = pending
  BY DEF DoPostProcessing, shown
<1>4. cur \in Slot /\ \A i \in Slot : fence[i] \in Display \union {None}
  BY DEF TypeOK
<1>5. ASSUME NEW i \in Slot
      PROVE  \/ dst'[i] = dst[i] /\ fence'[i] \in {fence[i], None}
             \/ /\ fence'[i] = None
                /\ \A e \in Display : /\ screen[e].buf # dst'[i]
                                      /\ pending[e] # None => pending[e].buf # dst'[i]
  <2>1. ASSUME NEW b \in Buf \ InUse, dst' = [dst EXCEPT ![cur] = b],
               fence' = [fence EXCEPT ![cur] = None]
        PROVE  i = cur => /\ fence'[i] = None
                          /\ \A e \in Display : /\ screen[e].buf # dst'[i]
                                                /\ pending[e] # None => pending[e].buf # dst'[i]
    BY <2>1, <1>4 DEF TypeOK, InUse, Imported
  <2>2. \/ dst' = dst /\ fence' \in {fence, [fence EXCEPT ![cur] = None]}
        \/ \E b \in Buf \ InUse : /\ dst' = [dst EXCEPT ![cur] = b]
                                  /\ fence' = [fence EXCEPT ![cur] = None]
    BY DEF DoPostProcessing
  <2>3. dst \in [Slot -> Buf \union {None}] /\ fence \in [Slot -> Display \union {None}]
    BY DEF TypeOK
  <2> QED
    BY <2>1, <2>2, <2>3
<1>6. \A e \in Display : Clean(e) => Clean(e)'
  <2> SUFFICES ASSUME NEW e \in Display, Clean(e), NEW i \in Slot, dst'[i] # None
               PROVE  /\ screen[e].buf # dst'[i] /\ fence'[i] # e
                      /\ pending[e] # None => pending[e].buf # dst'[i]
    BY <1>3 DEF Clean
  <2>1. CASE dst'[i] = dst[i] /\ fence'[i] \in {fence[i], None}
    BY <2>1, DestinationRing DEF Clean
  <2>2. CASE fence'[i] = None /\ \A f \in Display : /\ screen[f].buf # dst'[i]
                                                    /\ pending[f] # None => pending[f].buf # dst'[i]
    BY <2>2, DestinationRing
  <2> QED
    BY <1>5, <2>1, <2>2
<1>7. ShownInPriv(d)'
  <2> SUFFICES ASSUME NEW i \in Slot, dst'[i] # None
               PROVE  /\ pending[d] = None /\ screen[d].buf = dst'[i] => i = priv
                      /\ pending[d] # None /\ pending[d].buf = dst'[i] => i = priv
    BY <1>3 DEF ShownInPriv
  <2>1. CASE dst'[i] = dst[i]
    BY <1>1, <2>1 DEF ShownInPriv, Clean
  <2>2. CASE /\ screen[d].buf # dst'[i]
             /\ pending[d] # None => pending[d].buf # dst'[i]
    BY <2>2
  <2> QED
    BY <1>1, <1>5, <2>1, <2>2
<1>8. Owned'
  <2>1. RingOf(d)'
    BY <1>3, <1>7 DEF RingOf, Served
  <2>2. \A e \in Display : RingOf(e)' /\ (e \notin on' => Clean(e)')
    BY <1>1, <1>6, <2>1 DEF RingOf
  <2>3. user' # None => TypeOf[user'] = prevType'
    BY <1>3
  <2> QED
    BY <2>2, <2>3, <1>1 DEF Owned
<1>9. \A j \in Queued : Waits(j)'
  BY <1>2, <1>3, DestinationRing DEF Waits
<1>10. ASSUME NEW b \in Buf, \A e \in Display : screen[e].buf # b
       PROVE  Waits([buf |-> b, picture |-> picture, fence |-> None])'
  BY <1>3, <1>10, DestinationRing DEF Waits
<1>11. ASSUME NEW b, b # None, b = dst[cur], NEW f, f = fence[cur]
       PROVE  Waits([buf |-> b, picture |-> picture, fence |-> f])'
  <2>1. ASSUME NEW e \in Display
        PROVE  /\ screen[e].buf = b => f = e
               /\ f = e => e = d /\ pending[e] # None /\ pending[e].buf # b
    BY <1>1, <1>4, <1>11 DEF Clean, Ready
  <2> QED
    BY <1>3, <2>1 DEF Waits
<1>12. Fenced'
  <2>1. CASE jobs' = jobs
    BY <1>9, <2>1 DEF Fenced, Queued
  <2>2. ASSUME NEW b \in Buf \ InUse,
               jobs' = Append(jobs, [buf |-> b, picture |-> picture, fence |-> None])
        PROVE  Fenced'
    <3>1. Queued' = Queued \union {[buf |-> b, picture |-> picture, fence |-> None]}
      BY <2>2, QueuedAppend
    <3>2. \A e \in Display : screen[e].buf # b
      BY DEF InUse, Imported
    <3> QED
      BY <1>9, <1>10, <3>1, <3>2 DEF Fenced
  <2>3. ASSUME NEW b, b # None, b = dst[cur], NEW f, f = fence[cur],
               jobs' = Append(jobs, [buf |-> b, picture |-> picture, fence |-> f])
        PROVE  Fenced'
    <3>1. Queued' = Queued \union {[buf |-> b, picture |-> picture, fence |-> f]}
      BY <2>3, QueuedAppend
    <3> QED
      BY <1>9, <1>11, <2>3, <3>1 DEF Fenced
  <2>4. \/ jobs' = jobs
        \/ \E b \in Buf \ InUse :
             jobs' = Append(jobs, [buf |-> b, picture |-> picture, fence |-> None])
        \/ /\ dst[cur] # None
           /\ jobs' = Append(jobs, [buf |-> dst[cur], picture |-> picture, fence |-> fence[cur]])
    BY <1>4 DEF DoPostProcessing, NeedDstBufRealloc, InUse
  <2> QED
    BY <2>1, <2>2, <2>3, <2>4
<1> QED
  BY <1>8, <1>12

(* validateDisplay() inside a present *)
LEMMA SkipValidateRing ==
  ASSUME RingInv, FencesSuffice, NEW d \in Display, SkipValidate(d)
  PROVE  Owned' /\ Fenced'
<1>1. /\ FirstValidateDue /\ d \in on /\ skipping' = d
      /\ UNCHANGED <<user, shown, on, validated, presented>>
  BY DEF SkipValidate
<1>2. CASE user = d
  <2>1. Presents(d)'
    BY <1>1 DEF Presents
  <2>2. PICK c \in ContentOf[d] : hw' = "running" /\ DoPostProcessing(d, <<d, c>>)
    BY <1>2 DEF SkipValidate
  <2> QED
    BY <1>1, <1>2, <2>1, <2>2, ComposeRing
<1>3. CASE user # d
  <2> USE DEF RingInv
  <2>1. UNCHANGED <<hw, user, prevType, ring, jobs, shown, on>>
    BY <1>1, <1>3 DEF SkipValidate
  <2>2. \A j \in Queued : j.fence = None /\ Waits(j)
    BY <1>1, BetweenFrames DEF Fenced
  <2>3. \A e \in Display : ~Presents(e) /\ ~Left(e)
    BY <1>1, BetweenFrames
  <2>4. \A e \in Display : (Clean(e) => Clean(e)') /\ (Served(e) => Served(e)')
    BY <2>1, <2>3 DEF Clean, Served, ShownInPriv, Ready, ring, shown
  <2>5. Owned'
    BY <1>1, <2>1, <2>3, <2>4 DEF Owned, RingOf, ring
  <2>6. \A j \in Queued : Waits(j)'
    BY <2>1, <2>2, DestinationRing DEF Waits, shown
  <2> QED
    BY <2>1, <2>5, <2>6 DEF Fenced, Queued
<1> QED
  BY <1>2, <1>3

(* validateAllDisplays(): the post-processor goes to the display that can have *)
(* it, goes to none after a failure, or is left to be stopped at the end of    *)
(* this frame.                                                                 *)
LEMMA FirstValidateRing ==
  ASSUME RingInv, FencesSuffice, FirstValidate
  PROVE  Owned' /\ Fenced'
<1>1. /\ FirstValidateDue /\ presented \intersect on = {}
      /\ validated' = validated \union on
      /\ UNCHANGED <<shown, on, presented, skipping>>
  BY DEF FirstValidate, FencesSuffice
<1>2. skipping = None /\ on \subseteq Display
  BY <1>1 DEF FirstValidateDue, RingInv, TypeOK
<1>3. ASSUME NEW d \in on, NEW c \in ContentOf[d],
             IsAssignable(d) \/ d = user, hw' = "running", user' = d,
             DoPostProcessing(d, <<d, c>>)
      PROVE  Owned' /\ Fenced'
  <2>1. Presents(d)'
    BY <1>1, <1>2 DEF Presents
  <2> QED
    BY <1>1, <1>2, <1>3, <2>1, ComposeRing
<1>4. ASSUME NEW d \in on, NEW c \in ContentOf[d],
             IsAssignable(d) \/ d = user, hw' = "running", user' = None,
             FailPostProcessing(d, <<d, c>>)
      PROVE  Owned' /\ Fenced'
  <2>0. \A e \in Display \ {d} : Clean(e)
    BY <1>1, <1>2, <1>4, RingIsFree
  <2>1. \A j \in Queued : j.fence = None /\ Waits(j)
    BY <1>1, BetweenFrames DEF Fenced, RingInv
  <2> USE DEF RingInv
  <2>2. /\ dst' = dst /\ jobs' = jobs /\ prevType' = TypeOf[d]
        /\ \A i \in Slot : fence'[i] \in {fence[i], None}
    BY <1>4 DEF FailPostProcessing, TypeOK
  <2>3. \A e \in Display : Clean(e) => Clean(e)'
    BY <1>1, <2>2, DestinationRing DEF Clean, shown
  <2>4. Left(d)'
    BY <1>1, <1>4 DEF Left
  <2>5. \A e \in Display : RingOf(e)' /\ (e \notin on' => Clean(e)')
    BY <1>1, <2>0, <2>2, <2>3, <2>4 DEF RingOf
  <2>6. Owned'
    BY <1>1, <1>2, <1>4, <2>5 DEF Owned
  <2>7. \A j \in Queued : Waits(j)'
    BY <1>1, <2>1, DestinationRing DEF Waits, shown
  <2> QED
    BY <2>2, <2>6, <2>7 DEF Fenced, Queued
<1>5. ASSUME user' \in {None} \union ({user} \ on),
             UNCHANGED <<hw, prevType, ring, jobs>>
      PROVE  Owned' /\ Fenced'
  <2>1. \A j \in Queued : j.fence = None /\ Waits(j)
    BY <1>1, BetweenFrames DEF Fenced, RingInv
  <2>2. \A e \in Display : ~Left(e)
    BY <1>1, BetweenFrames
  <2> USE DEF RingInv
  <2>3. \A e \in Display : Clean(e) => Clean(e)'
    BY <1>1, <1>5 DEF Clean, shown, ring
  <2>4. \A e \in Display : RingOf(e)'
    <3> SUFFICES ASSUME NEW e \in Display, ~Clean(e) PROVE RingOf(e)'
      BY <2>3 DEF RingOf
    <3>1. e \in on /\ user = e /\ prevType = TypeOf[e]
      BY <2>2 DEF Owned, RingOf, Served
    <3>2. Left(e)'
      BY <1>1, <1>5, <3>1 DEF Left
    <3> QED
      BY <1>5, <3>1, <3>2 DEF RingOf
  <2>5. Owned'
    BY <1>1, <1>2, <1>5, <2>3, <2>4 DEF Owned, ring
  <2>6. \A j \in Queued : Waits(j)'
    BY <1>1, <2>1, DestinationRing DEF Waits, shown
  <2> QED
    BY <1>5, <2>5, <2>6 DEF Fenced, Queued
<1>6. \/ \E d \in on : \E c \in ContentOf[d] :
           /\ IsAssignable(d) \/ d = user
           /\ hw' = "running"
           /\ \/ user' = d /\ DoPostProcessing(d, <<d, c>>)
              \/ user' = None /\ FailPostProcessing(d, <<d, c>>)
      \/ /\ user' \in {None} \union ({user} \ on)
         /\ UNCHANGED <<hw, prevType, ring, jobs>>
  BY DEF FirstValidate
<1> QED
  BY <1>3, <1>4, <1>5, <1>6

LEMMA FencesStep ==
  ASSUME RingInv, FencesSuffice, [Next]_vars
  PROVE  RingInv'
<1>1. TypeOK' /\ RingOwned'
  BY TypeStep, RingStep DEF RingInv
<1>2. CASE Next
  <2>1. CASE FirstValidate
    BY <1>1, <2>1, FirstValidateRing DEF RingInv
  <2>2. CASE RunJob
    BY <1>1, <2>2, RunJobRing DEF RingInv
  <2>3. CASE FreeBuffers
    BY <1>1, <2>3, FreeBuffersRing DEF RingInv
  <2>4. ASSUME NEW d \in Display,
               \/ SkipValidate(d) \/ SkipValidateFails(d)
               \/ Present(d) \/ PresentFails(d) \/ SkipPresent(d)
               \/ PowerOn(d) \/ PowerOff(d) \/ TakeEffect(d)
        PROVE  RingInv'
    <3>1. SkipValidate(d) => RingInv'
      BY <1>1, SkipValidateRing DEF RingInv
    <3>2. SkipValidateFails(d) => RingInv'
      BY <1>1, SkipValidateFailsRing DEF RingInv
    <3>3. Present(d) => RingInv'
      BY <1>1, PresentServedRing, PresentOtherRing DEF RingInv
    <3>4. PresentFails(d) => RingInv'
      BY <1>1, PresentFailsRing DEF RingInv
    <3>5. SkipPresent(d) => RingInv'
      BY <1>1, SkipPresentRing DEF RingInv
    <3>6. PowerOn(d) => RingInv'
      BY <1>1, PowerOnRing DEF RingInv
    <3>7. PowerOff(d) => RingInv'
      BY <1>1, PowerOffRing DEF RingInv
    <3>8. TakeEffect(d) => RingInv'
      BY <1>1, TakeEffectRing DEF RingInv
    <3> QED
      BY <2>4, <3>1, <3>2, <3>3, <3>4, <3>5, <3>6, <3>7, <3>8
  <2> QED
    BY <1>2, <2>1, <2>2, <2>3, <2>4 DEF Next
<1>3. CASE UNCHANGED vars
  <2>1. UNCHANGED <<hw, user, prevType, cur, priv, dst, fence, jobs, pending, screen,
                    on, validated, presented, skipping>>
    BY <1>3 DEF vars, mpp, ring, shown, frameVars
  <2>2. Owned'
    BY <2>1 DEF RingInv, Owned, RingOf, Clean, Served, Left, ShownInPriv, Presents, Ready
  <2>3. Fenced'
    BY <2>1 DEF RingInv, Fenced, Queued, Waits, Presents
  <2> QED
    BY <1>1, <2>2, <2>3 DEF RingInv
<1> QED
  BY <1>2, <1>3

LEMMA FencesInit == Init => RingInv
<1> SUFFICES ASSUME Init PROVE RingInv
  OBVIOUS
<1>1. TypeOK /\ RingOwned
  BY TypeInit DEF Init, RingOwned
<1>2. Owned
  BY DEF Init, Owned, RingOf, Clean
<1>3. Fenced
  BY DEF Init, Fenced, Queued
<1> QED
  BY <1>1, <1>2, <1>3 DEF RingInv

(* A job whose fence has signalled writes no buffer on a screen, through reuse *)
(* of the previous picture, failures, power cycles and changes of the owner.   *)
THEOREM ReleasesSuffice ==
  ASSUME FencesSuffice
  PROVE  Spec => []DestinationReleased
<1>1. RingInv => DestinationReleased
  <2> SUFFICES ASSUME RingInv, jobs # <<>>, Head(jobs).fence = None, NEW d \in Display
               PROVE  screen[d].buf # Head(jobs).buf
    BY DEF DestinationReleased
  <2>1. Head(jobs) \in Queued
    <3>1. jobs \in Seq(Job)
      BY DEF RingInv, TypeOK, Job
    <3> QED
      BY <3>1 DEF Queued
  <2> QED
    BY <2>1, DestinationRing DEF RingInv, Fenced, Waits
<1>2. RingInv /\ [Next]_vars => RingInv'
  BY FencesStep
<1> QED
  BY <1>1, <1>2, FencesInit, PTL DEF Spec

-----------------------------------------------------------------------------
(* What the screens show.                                                  *)

\* Buffer b holds p once the jobs that are queued are done.
Holds(b, p) ==
  \/ \E i \in DOMAIN jobs : /\ jobs[i].buf = b /\ jobs[i].picture = p
                            /\ \A k \in DOMAIN jobs : k > i => jobs[k].buf # b
  \/ (\A i \in DOMAIN jobs : jobs[i].buf # b) /\ holds[b] = p

Content == {w \in Buf \X Picture : Holds(w[1], w[2])}

\* The owner's frame is composed and not presented.
Serving == user # None /\ Presents(user)

Flags ==
  /\ validated \ on \subseteq presented
  /\ skipping # None => validated \intersect on = {}

Committed ==
  \A d \in Display : pending[d] # None /\ pending[d].picture # None =>
    <<pending[d].buf, pending[d].picture>> \in Content

\* The slot that is to be shown, or was shown last, holds the last picture.
Composed ==
  ~dropped =>
    /\ Serving => want = prevFrame /\ <<dst[cur], want>> \in Content
    /\ ~Serving /\ prevFrame # None /\ dst[Before(cur)] # None =>
         <<dst[Before(cur)], prevFrame>> \in Content

Scanned ==
  \A d \in Display : screen[d].picture # None =>
    screen[d].buf # None /\ holds[screen[d].buf] = screen[d].picture

CurrentInv == Flags /\ Committed /\ Composed /\ Scanned

(* What the buffers hold, after each thing that happens to the jobs. *)
LEMMA ContentRun ==
  ASSUME TypeOK, RunJob
  PROVE  Content \subseteq Content'
<1> SUFFICES ASSUME NEW b \in Buf, NEW p \in Picture, Holds(b, p) PROVE Holds(b, p)'
  BY DEF Content
<1>1. jobs \in Seq(Job) /\ jobs # <<>> /\ jobs' = Tail(jobs)
  BY DEF TypeOK, Job, RunJob
<1>2. /\ DOMAIN jobs = 1 .. Len(jobs) /\ DOMAIN jobs' = 1 .. (Len(jobs) - 1)
      /\ \A i \in 1 .. (Len(jobs) - 1) : jobs'[i] = jobs[i + 1]
      /\ Head(jobs) = jobs[1] /\ Len(jobs) \in Nat \ {0}
  BY <1>1
<1>3. holds'[b] = IF jobs[1].buf = b THEN jobs[1].picture ELSE holds[b]
  BY <1>2 DEF RunJob, TypeOK
<1>4. CASE \E i \in DOMAIN jobs : /\ jobs[i].buf = b /\ jobs[i].picture = p
                                  /\ \A k \in DOMAIN jobs : k > i => jobs[k].buf # b
  <2>1. PICK i \in DOMAIN jobs : /\ jobs[i].buf = b /\ jobs[i].picture = p
                                 /\ \A k \in DOMAIN jobs : k > i => jobs[k].buf # b
    BY <1>4
  <2>2. CASE i = 1
    <3>1. \A k \in DOMAIN jobs' : jobs'[k].buf # b
      BY <1>2, <2>1, <2>2
    <3> QED
      BY <1>3, <2>1, <2>2, <3>1 DEF Holds
  <2>3. CASE i # 1
    <3>1. i - 1 \in DOMAIN jobs' /\ jobs'[i - 1] = jobs[i]
      BY <1>2, <2>3
    <3>2. ASSUME NEW k \in DOMAIN jobs', k > i - 1 PROVE jobs'[k].buf # b
      <4>1. k + 1 \in DOMAIN jobs /\ k + 1 > i /\ jobs'[k] = jobs[k + 1]
        BY <1>2, <3>2
      <4> QED
        BY <2>1, <4>1
    <3> QED
      BY <2>1, <3>1, <3>2 DEF Holds
  <2> QED
    BY <2>2, <2>3
<1>5. CASE (\A i \in DOMAIN jobs : jobs[i].buf # b) /\ holds[b] = p
  <2>1. \A i \in DOMAIN jobs' : jobs'[i].buf # b
    BY <1>2, <1>5
  <2>2. holds'[b] = p
    BY <1>2, <1>3, <1>5
  <2> QED
    BY <2>1, <2>2 DEF Holds
<1> QED
  BY <1>4, <1>5 DEF Holds

LEMMA ContentSignalled ==
  ASSUME TypeOK, NEW d, holds' = holds,
         jobs' = [i \in DOMAIN jobs |->
                    IF jobs[i].fence = d THEN [jobs[i] EXCEPT !.fence = None] ELSE jobs[i]]
  PROVE  Content \subseteq Content'
<1>1. \A i \in DOMAIN jobs : jobs[i] \in Job
  BY QueuedJobs DEF Queued
<1>2. /\ DOMAIN jobs' = DOMAIN jobs
      /\ \A i \in DOMAIN jobs : jobs'[i].buf = jobs[i].buf /\ jobs'[i].picture = jobs[i].picture
  BY <1>1 DEF Job
<1> QED
  BY <1>2 DEF Content, Holds

LEMMA ContentFreed ==
  ASSUME TypeOK, FreeBuffers, NEW w \in Content, w[1] \notin freed \ Imported
  PROVE  w \in Content'
<1>1. jobs' = jobs /\ holds'[w[1]] = holds[w[1]]
  BY DEF FreeBuffers, Content
<1> QED
  BY <1>1 DEF Content, Holds

LEMMA ContentAppended ==
  ASSUME TypeOK, NEW j \in Job, jobs' = Append(jobs, j),
         \A b \in Buf \ {j.buf} : holds'[b] = holds[b]
  PROVE  /\ \A w \in Content : w[1] # j.buf => w \in Content'
         /\ <<j.buf, j.picture>> \in Content'
<1>1. jobs \in Seq(Job)
  BY DEF TypeOK, Job
<1>2. /\ DOMAIN jobs = 1 .. Len(jobs) /\ DOMAIN jobs' = 1 .. (Len(jobs) + 1)
      /\ \A i \in 1 .. Len(jobs) : jobs'[i] = jobs[i]
      /\ jobs'[Len(jobs) + 1] = j /\ Len(jobs) \in Nat
  BY <1>1
<1>3. ASSUME NEW b \in Buf, NEW p \in Picture, Holds(b, p), b # j.buf PROVE Holds(b, p)'
  <2>1. CASE \E i \in DOMAIN jobs : /\ jobs[i].buf = b /\ jobs[i].picture = p
                                    /\ \A k \in DOMAIN jobs : k > i => jobs[k].buf # b
    <3>1. PICK i \in DOMAIN jobs : /\ jobs[i].buf = b /\ jobs[i].picture = p
                                   /\ \A k \in DOMAIN jobs : k > i => jobs[k].buf # b
      BY <2>1
    <3>2. /\ i \in DOMAIN jobs' /\ jobs'[i] = jobs[i]
          /\ \A k \in DOMAIN jobs' : k > i => jobs'[k].buf # b
      BY <1>2, <1>3, <3>1
    <3> QED
      BY <3>1, <3>2 DEF Holds
  <2>2. CASE (\A i \in DOMAIN jobs : jobs[i].buf # b) /\ holds[b] = p
    <3>1. (\A i \in DOMAIN jobs' : jobs'[i].buf # b) /\ holds'[b] = p
      BY <1>2, <1>3, <2>2
    <3> QED
      BY <3>1 DEF Holds
  <2> QED
    BY <1>3, <2>1, <2>2 DEF Holds
<1>4. /\ Len(jobs) + 1 \in DOMAIN jobs'
      /\ \A k \in DOMAIN jobs' : k > Len(jobs) + 1 => jobs'[k].buf # j.buf
  BY <1>2
<1>5. Holds(j.buf, j.picture)'
  BY <1>2, <1>4 DEF Holds
<1>6. j.buf \in Buf /\ j.picture \in Picture
  BY DEF Job
<1> QED
  BY <1>3, <1>5, <1>6 DEF Content

(* A job of the hardware: it writes no buffer on a screen. *)
LEMMA RunJobCurrent ==
  ASSUME RingInv, CurrentInv, RunJob
  PROVE  CurrentInv'
<1>1. Content \subseteq Content'
  BY ContentRun DEF RingInv
<1>2. UNCHANGED <<user, prevFrame, cur, dst, pending, screen, want, on, validated, presented,
                  skipping, dropped>>
  BY DEF RunJob, mpp, ring, shown, frameVars
<1>3. (Flags /\ Committed /\ Composed)'
  BY <1>1, <1>2 DEF CurrentInv, Flags, Committed, Composed, Serving, Presents
<1>4. Scanned'
  <2> SUFFICES ASSUME NEW d \in Display, screen[d].picture # None
               PROVE  screen[d].buf # None /\ holds'[screen[d].buf] = screen[d].picture
    BY <1>2 DEF Scanned
  <2>1. Head(jobs) \in Queued
    BY QueuedTail DEF RunJob, RingInv
  <2>2. screen[d].buf # Head(jobs).buf
    BY <2>1, DestinationRing DEF RingInv, Fenced, Waits, RunJob
  <2>3. screen[d].buf \in Buf /\ holds[screen[d].buf] = screen[d].picture
    BY DEF CurrentInv, Scanned, RingInv, TypeOK, Commit
  <2> QED
    BY <2>2, <2>3, DestinationRing DEF RunJob, RingInv, TypeOK
<1> QED
  BY <1>3, <1>4 DEF CurrentInv

(* freeBuffers(): none of the ring, of a commit or of a screen is freed. *)
LEMMA FreeBuffersCurrent ==
  ASSUME RingInv, CurrentInv, FreeBuffers
  PROVE  CurrentInv'
<1>1. UNCHANGED <<user, prevFrame, cur, dst, pending, screen, want, on, validated, presented,
                  skipping, dropped, jobs>>
  BY DEF FreeBuffers, mpp, shown, frameVars
<1>2. \A w \in Content : w[1] \notin freed \ Imported => w \in Content'
  BY ContentFreed DEF RingInv
<1>3. Committed'
  <2> SUFFICES ASSUME NEW d \in Display, pending[d] # None, pending[d].picture # None
               PROVE  <<pending[d].buf, pending[d].picture>> \in Content'
    BY <1>1 DEF Committed
  <2>1. pending[d].buf \in Imported
    BY DEF Imported
  <2>2. <<pending[d].buf, pending[d].picture>> \in Content
    BY DEF CurrentInv, Committed
  <2> QED
    BY <1>2, <2>1, <2>2
<1>4. \A i \in Slot : \A p : <<dst[i], p>> \in Content => <<dst[i], p>> \in Content'
  BY <1>2 DEF RingInv, RingOwned
<1>5. cur \in Slot /\ Before(cur) \in Slot
  BY Around DEF RingInv, TypeOK
<1>6. (Flags /\ Composed)'
  BY <1>1, <1>4, <1>5 DEF CurrentInv, Flags, Composed, Serving, Presents
<1>7. Scanned'
  <2> SUFFICES ASSUME NEW d \in Display, screen[d].picture # None
               PROVE  screen[d].buf # None /\ holds'[screen[d].buf] = screen[d].picture
    BY <1>1 DEF Scanned
  <2>1. screen[d].buf \in Buf /\ holds[screen[d].buf] = screen[d].picture
    BY DEF CurrentInv, Scanned, RingInv, TypeOK, Commit
  <2>2. screen[d].buf \in Imported
    BY DEF Imported
  <2> QED
    BY <2>1, <2>2, DestinationRing DEF FreeBuffers
<1> QED
  BY <1>3, <1>6, <1>7 DEF CurrentInv

(* A commit reaches the screen: the jobs of its buffer are done. *)
LEMMA TakeEffectCurrent ==
  ASSUME RingInv, CurrentInv, NEW d \in Display, TakeEffect(d)
  PROVE  CurrentInv'
<1>1. Content \subseteq Content'
  BY ContentSignalled DEF TakeEffect, Signal, RingInv
<1>2. UNCHANGED <<user, prevFrame, cur, dst, holds, want, on, validated, presented,
                  skipping, dropped>>
  BY DEF TakeEffect, mpp, frameVars
<1>3. \A e \in Display : /\ screen'[e] = IF e = d THEN pending[d] ELSE screen[e]
                         /\ pending'[e] = IF e = d THEN None ELSE pending[e]
  BY DEF TakeEffect, RingInv, TypeOK
<1>4. (Flags /\ Composed)'
  BY <1>1, <1>2 DEF CurrentInv, Flags, Composed, Serving, Presents
<1>5. Committed'
  BY <1>1, <1>3 DEF CurrentInv, Committed
<1>6. Scanned'
  <2>1. ASSUME pending[d].picture # None
        PROVE  pending[d].buf # None /\ holds[pending[d].buf] = pending[d].picture
    <3>1. <<pending[d].buf, pending[d].picture>> \in Content
      BY <2>1 DEF CurrentInv, Committed, TakeEffect
    <3>2. \A i \in DOMAIN jobs : jobs[i].buf # pending[d].buf
      <4> SUFFICES ASSUME NEW i \in DOMAIN jobs, jobs[i].buf = pending[d].buf PROVE FALSE
        OBVIOUS
      <4>1. jobs[i].fence = d /\ Waits(jobs[i])
        BY DEF TakeEffect, RingInv, Fenced, Queued
      <4> QED
        BY <4>1 DEF Waits
    <3> QED
      BY <3>1, <3>2, DestinationRing DEF Content, Holds
  <2> QED
    BY <1>2, <1>3, <2>1 DEF CurrentInv, Scanned
<1> QED
  BY <1>4, <1>5, <1>6 DEF CurrentInv

(* setPowerMode() to on *)
LEMMA PowerOnCurrent ==
  ASSUME RingInv, CurrentInv, NEW d \in Display, PowerOn(d)
  PROVE  CurrentInv'
<1>1. /\ UNCHANGED <<user, prevFrame, cur, dst, jobs, holds, pending, screen, want, validated,
                     presented, skipping, dropped>>
      /\ skipping = None /\ on' = on \union {d} /\ d \notin on
  BY DEF PowerOn, mpp, ring, shown
<1>2. Content' = Content
  BY <1>1 DEF Content, Holds
<1>3. Serving' <=> Serving
  BY <1>1 DEF Serving, Presents, CurrentInv, Flags
<1>4. (Committed /\ Scanned)'
  BY <1>1, <1>2 DEF CurrentInv, Committed, Scanned
<1>5. Composed'
  BY <1>1, <1>2, <1>3 DEF CurrentInv, Composed
<1>6. Flags'
  BY <1>1 DEF CurrentInv, Flags
<1> QED
  BY <1>4, <1>5, <1>6 DEF CurrentInv

(* The end of a present: the owner's frame is over with its own present only. *)
LEMMA EndFlags ==
  ASSUME RingInv, Flags, NEW d \in Display, NEW lit, NEW then, EndOfPresent(d, lit, then),
         on' \in {on, on \ {d}}, lit = on', skipping \in {None, d}, skipping' = None, user' = user
  PROVE  /\ Flags'
         /\ user # d => (Serving' <=> Serving)
         /\ user = d => ~Serving'
<1>1. \/ validated' = {} /\ presented' = {} /\ on' \subseteq presented \union {d}
      \/ validated' = validated /\ presented' = presented \union {d}
  BY DEF EndOfPresent, IsLastPresent
<1>2. Flags'
  BY <1>1 DEF Flags
<1>3. user = d => ~Serving'
  BY <1>1, DestinationRing DEF Serving, Presents
<1>4. ASSUME user # d, Serving PROVE Serving'
  <2>1. user \in (validated \intersect on) \ presented /\ user \in on'
    BY <1>4, DestinationRing DEF Serving, Presents
  <2> QED
    BY <1>1, <1>4, <2>1 DEF Serving, Presents
<1>5. ASSUME user # d, Serving' PROVE Serving
  <2>1. user # None /\ user \in (validated \intersect on) \ presented
    BY <1>1, <1>5, DestinationRing DEF Serving, Presents
  <2>2. skipping = None
    BY <2>1 DEF Flags
  <2> QED
    BY <2>1, <2>2 DEF Serving, Presents
<1> QED
  BY <1>2, <1>3, <1>4, <1>5

(* An unused post-processor that is stopped has no previous picture. *)
LEMMA EndComposed ==
  ASSUME RingInv, Composed, NEW d \in Display, NEW lit, UpdateResourceState(d, lit),
         UNCHANGED <<user, cur, want>>, Content \subseteq Content',
         dropped' \/ (dropped' = dropped /\ (Serving' <=> Serving))
  PROVE  Composed'
<1>1. CASE dropped'
  BY <1>1 DEF Composed
<1>2. CASE dropped' = dropped /\ (Serving' <=> Serving)
  <2>1. CASE UNCHANGED <<dst, prevFrame>>
    BY <1>2, <2>1 DEF Composed
  <2>2. CASE user = None /\ prevFrame' = None
    BY <2>2 DEF Composed, Serving
  <2> QED
    BY <2>1, <2>2 DEF UpdateResourceState, RequestIdle
<1> QED
  BY <1>1, <1>2

(* clearDisplay() takes the picture of one display off. *)
LEMMA ClearedCurrent ==
  ASSUME RingInv, Committed, Scanned, NEW d \in Display, ClearDisplay(d),
         Content \subseteq Content', holds' = holds
  PROVE  Committed' /\ Scanned'
<1>1. \A e \in Display : /\ screen'[e] = IF e = d THEN Blank ELSE screen[e]
                         /\ pending'[e] = IF e = d THEN None ELSE pending[e]
  BY DEF ClearDisplay, RingInv, TypeOK
<1> QED
  BY <1>1 DEF Committed, Scanned, Blank

(* setPowerMode() to off *)
LEMMA PowerOffCurrent ==
  ASSUME RingInv, CurrentInv, NEW d \in Display, PowerOff(d)
  PROVE  CurrentInv'
<1>1. /\ UNCHANGED <<user, cur, holds, want, skipping>>
      /\ on' = on \ {d} /\ skipping = None
      /\ EndOfPresent(d, on \ {d}, geometry') /\ UpdateResourceState(d, on \ {d})
      /\ ClearDisplay(d) /\ Signal(d)
      /\ dropped' = (dropped \/ (user = d /\ d \in validated \ presented))
  BY DEF PowerOff, EndOfPresent
<1>2. Content \subseteq Content'
  BY <1>1, ContentSignalled DEF Signal, RingInv
<1>3. (Committed /\ Scanned)'
  BY <1>1, <1>2, ClearedCurrent DEF CurrentInv
<1>4. /\ Flags'
      /\ user # d => (Serving' <=> Serving)
      /\ user = d => ~Serving'
  BY <1>1, EndFlags DEF CurrentInv
<1>5. dropped' \/ (dropped' = dropped /\ (Serving' <=> Serving))
  <2>1. CASE user = d /\ d \notin validated \ presented
    <3>1. ~Serving
      BY <1>1, <2>1, DestinationRing DEF Serving, Presents
    <3> QED
      BY <1>1, <1>4, <2>1, <3>1 DEF RingInv, TypeOK
  <2>2. CASE user # d
    BY <1>1, <1>4, <2>2 DEF RingInv, TypeOK
  <2> QED
    BY <1>1, <2>1, <2>2
<1>6. Composed'
  BY <1>1, <1>2, <1>5, EndComposed DEF CurrentInv
<1> QED
  BY <1>3, <1>4, <1>6 DEF CurrentInv

(* A commit that fails *)
LEMMA PresentFailsCurrent ==
  ASSUME RingInv, CurrentInv, NEW d \in Display, PresentFails(d)
  PROVE  CurrentInv'
<1>1. /\ UNCHANGED <<user, cur, holds, want, on>>
      /\ skipping \in {None, d} /\ skipping' = None
      /\ EndOfPresent(d, on, TRUE) /\ UpdateResourceState(d, on) /\ ClearDisplay(d)
      /\ dropped' = (dropped \/ user = d)
      /\ jobs' = [i \in DOMAIN jobs |->
                    IF jobs[i].fence = d THEN [jobs[i] EXCEPT !.fence = None] ELSE jobs[i]]
  BY DEF PresentFails, Presents
<1>2. Content \subseteq Content'
  BY <1>1, ContentSignalled DEF RingInv
<1>3. (Committed /\ Scanned)'
  BY <1>1, <1>2, ClearedCurrent DEF CurrentInv
<1>4. /\ Flags'
      /\ user # d => (Serving' <=> Serving)
  BY <1>1, EndFlags DEF CurrentInv
<1>5. dropped' \/ (dropped' = dropped /\ (Serving' <=> Serving))
  BY <1>1, <1>4 DEF RingInv, TypeOK
<1>6. Composed'
  BY <1>1, <1>2, <1>5, EndComposed DEF CurrentInv
<1> QED
  BY <1>3, <1>4, <1>6 DEF CurrentInv

(* A frame that is skipped *)
LEMMA SkipPresentCurrent ==
  ASSUME RingInv, CurrentInv, NEW d \in Display, SkipPresent(d)
  PROVE  CurrentInv'
<1>1. /\ UNCHANGED <<user, cur, jobs, holds, pending, screen, want, on, skipping, dropped>>
      /\ EndOfPresent(d, on, TRUE) /\ UpdateResourceState(d, on)
      /\ d \notin validated /\ skipping = None
  BY DEF SkipPresent, shown
<1>2. Content' = Content
  BY <1>1 DEF Content, Holds
<1>3. (Committed /\ Scanned)'
  BY <1>1, <1>2 DEF CurrentInv, Committed, Scanned
<1>4. /\ Flags'
      /\ user # d => (Serving' <=> Serving)
      /\ user = d => ~Serving'
  BY <1>1, EndFlags DEF CurrentInv
<1>5. user = d => ~Serving
  BY <1>1, DestinationRing DEF Serving, Presents
<1>6. Composed'
  BY <1>1, <1>2, <1>4, <1>5, EndComposed DEF CurrentInv
<1> QED
  BY <1>3, <1>4, <1>6 DEF CurrentInv

(* A present whose picture cannot be composed *)
LEMMA SkipValidateFailsCurrent ==
  ASSUME RingInv, CurrentInv, NEW d \in Display, SkipValidateFails(d)
  PROVE  CurrentInv'
<1>1. /\ UNCHANGED <<user, jobs, holds, on, skipping>> /\ skipping = None /\ dropped'
      /\ EndOfPresent(d, on, TRUE) /\ ClearDisplay(d)
  BY DEF SkipValidateFails, FailPostProcessing, FirstValidateDue
<1>2. Content' = Content
  BY <1>1 DEF Content, Holds
<1>3. (Committed /\ Scanned)'
  BY <1>1, <1>2, ClearedCurrent DEF CurrentInv
<1>4. Flags'
  BY <1>1, EndFlags DEF CurrentInv
<1> QED
  BY <1>1, <1>3, <1>4 DEF CurrentInv, Composed

(* presentDisplay() of the display that has the post-processor: what it shows *)
(* is in the slot before the current one afterwards.                          *)
LEMMA PresentServedCurrent ==
  ASSUME RingInv, CurrentInv, NEW d \in Display, Present(d), user = d
  PROVE  CurrentInv'
<1>1. /\ Presents(d) /\ skipping \in {None, d} /\ skipping' = None
      /\ pending' = [pending EXCEPT ![d] =
            [buf |-> dst[cur], picture |-> IF dropped THEN None ELSE want]]
      /\ cur' = After(cur)
      /\ UNCHANGED <<user, jobs, holds, screen, on, dst, prevFrame, dropped>>
      /\ EndOfPresent(d, on, FALSE)
  BY DestinationRing DEF Present, UpdateResourceState, Presents
<1>2. Content' = Content
  BY <1>1 DEF Content, Holds
<1>3. Serving
  BY <1>1, DestinationRing DEF Serving
<1>4. Flags' /\ ~Serving'
  BY <1>1, EndFlags DEF CurrentInv
<1>5. cur \in Slot /\ Before(cur') = cur
  BY <1>1, Around DEF RingInv, TypeOK
<1>6. Composed'
  BY <1>1, <1>2, <1>3, <1>4, <1>5 DEF CurrentInv, Composed
<1>7. Committed'
  <2> SUFFICES ASSUME NEW e \in Display, pending'[e] # None, pending'[e].picture # None
               PROVE  <<pending'[e].buf, pending'[e].picture>> \in Content
    BY <1>2 DEF Committed
  <2>1. CASE e = d
    <3>1. pending'[e] = [buf |-> dst[cur], picture |-> IF dropped THEN None ELSE want]
      BY <1>1, <2>1 DEF RingInv, TypeOK
    <3> QED
      BY <1>3, <3>1 DEF CurrentInv, Composed
  <2>2. CASE e # d
    BY <1>1, <2>2 DEF CurrentInv, Committed, RingInv, TypeOK
  <2> QED
    BY <2>1, <2>2
<1>8. Scanned'
  BY <1>1 DEF CurrentInv, Scanned
<1> QED
  BY <1>4, <1>6, <1>7, <1>8 DEF CurrentInv

(* presentDisplay() of any other display *)
LEMMA PresentOtherCurrent ==
  ASSUME RingInv, CurrentInv, NEW d \in Display, Present(d), user # d
  PROVE  CurrentInv'
<1>1. /\ skipping \in {None, d} /\ skipping' = None
      /\ pending' = [pending EXCEPT ![d] = Blank]
      /\ UNCHANGED <<user, cur, jobs, holds, screen, want, on, dropped>>
      /\ EndOfPresent(d, on, FALSE) /\ UpdateResourceState(d, on)
  BY DEF Present, Presents
<1>2. Content' = Content
  BY <1>1 DEF Content, Holds
<1>3. Flags' /\ (Serving' <=> Serving)
  BY <1>1, EndFlags DEF CurrentInv
<1>4. Composed'
  BY <1>1, <1>2, <1>3, EndComposed DEF CurrentInv
<1>5. \A e \in Display : pending'[e] = IF e = d THEN Blank ELSE pending[e]
  BY <1>1 DEF RingInv, TypeOK
<1>6. (Committed /\ Scanned)'
  BY <1>1, <1>2, <1>5 DEF CurrentInv, Committed, Scanned, Blank
<1> QED
  BY <1>3, <1>4, <1>6 DEF CurrentInv

(* doPostProcessing(): the current slot is the last to hold the picture, also *)
(* when the one of the previous frame is reused.                              *)
LEMMA ComposeCurrent ==
  ASSUME RingInv, CurrentInv, FencesSuffice, FirstValidateDue, NEW d \in on,
         NEW picture \in Picture, IsAssignable(d) \/ d = user, DoPostProcessing(d, picture),
         user' = d, want' = picture, shown' = shown, Presents(d)'
  PROVE  (Committed /\ Composed /\ Scanned)'
<1>1. /\ \A e \in Display \ {d} : Clean(e)
      /\ Clean(d) \/ (ShownInPriv(d) /\ Ready(d))
      /\ d \in Display
  BY RingIsFree DEF RingInv, TypeOK
<1>2. ~Serving
  BY BetweenFrames DEF Serving, RingInv, TypeOK
<1>3. Serving'
  BY <1>1, DestinationRing DEF Serving
<1>4. /\ prevFrame' = picture /\ pending' = pending /\ screen' = screen /\ picture # None
      /\ cur \in Slot /\ Before(cur) \in Slot
  BY Around, NothingIsNone DEF DoPostProcessing, shown, RingInv, TypeOK
<1>5. ASSUME NEW b \in Buf, NEW f \in Display \union {None},
             jobs' = Append(jobs, [buf |-> b, picture |-> picture, fence |-> f]),
             dst'[cur'] = b, dropped' = FALSE,
             \A e \in Display : pending[e] # None => pending[e].buf # b,
             \/ holds' = holds
             \/ holds' = [holds EXCEPT ![b] = None] /\ \A e \in Display : screen[e].buf # b
      PROVE  (Committed /\ Composed /\ Scanned)'
  <2> DEFINE j == [buf |-> b, picture |-> picture, fence |-> f]
  <2>1. j \in Job /\ j.buf = b /\ j.picture = picture
    BY DEF Job
  <2>2. \A c \in Buf \ {b} : holds'[c] = holds[c]
    BY <1>5 DEF RingInv, TypeOK
  <2>3. /\ \A w \in Content : w[1] # b => w \in Content'
        /\ <<b, picture>> \in Content'
    <3> HIDE DEF j
    <3> QED
      BY <1>5, <2>1, <2>2, ContentAppended DEF RingInv, j
  <2>4. Committed'
    BY <1>4, <1>5, <2>3 DEF CurrentInv, Committed
  <2>5. Composed'
    BY <1>3, <1>4, <1>5, <2>3 DEF Composed
  <2>6. Scanned'
    BY <1>4, <1>5, <2>2 DEF CurrentInv, Scanned, RingInv, TypeOK, Commit
  <2> QED
    BY <2>4, <2>5, <2>6
<1>6. ASSUME NEW b \in Buf \ InUse, dst' = [dst EXCEPT ![cur] = b], cur' = cur, dropped' = FALSE,
             holds' = [holds EXCEPT ![b] = None],
             jobs' = Append(jobs, [buf |-> b, picture |-> picture, fence |-> None])
      PROVE  (Committed /\ Composed /\ Scanned)'
  <2>1. /\ \A e \in Display : pending[e] # None => pending[e].buf # b
        /\ \A e \in Display : screen[e].buf # b
    BY DEF InUse, Imported
  <2>2. dst'[cur'] = b
    BY <1>4, <1>6 DEF RingInv, TypeOK
  <2> QED
    BY <1>5, <1>6, <2>1, <2>2
<1>7. ASSUME dst[cur] # None, UNCHANGED <<dst, cur, holds>>, dropped' = FALSE,
             NEW b, b = dst[cur], NEW f, f = fence[cur],
             jobs' = Append(jobs, [buf |-> b, picture |-> picture, fence |-> f])
      PROVE  (Committed /\ Composed /\ Scanned)'
  <2>1. \A e \in Display : pending[e] # None => pending[e].buf # b
    BY <1>1, <1>4, <1>7 DEF Clean, Ready
  <2>2. b \in Buf /\ f \in Display \union {None} /\ dst'[cur'] = b
    BY <1>4, <1>7 DEF RingInv, TypeOK
  <2> QED
    BY <1>5, <1>7, <2>1, <2>2
<1>8. ASSUME CanUsePrevFrame(picture), cur' = Before(cur),
             UNCHANGED <<dst, jobs, holds, dropped>>
      PROVE  (Committed /\ Composed /\ Scanned)'
  <2>1. Content' = Content
    BY <1>8 DEF Content, Holds
  <2>2. ~dropped => <<dst[Before(cur)], prevFrame>> \in Content
    BY <1>2, <1>4, <1>8 DEF CurrentInv, Composed, CanUsePrevFrame
  <2>3. Composed'
    BY <1>3, <1>4, <1>8, <2>1, <2>2 DEF Composed, CanUsePrevFrame
  <2> QED
    BY <1>4, <1>8, <2>1, <2>3 DEF CurrentInv, Committed, Scanned
<1>9. \/ \E b \in Buf \ InUse :
           /\ dst' = [dst EXCEPT ![cur] = b] /\ cur' = cur /\ dropped' = FALSE
           /\ holds' = [holds EXCEPT ![b] = None]
           /\ jobs' = Append(jobs, [buf |-> b, picture |-> picture, fence |-> None])
      \/ /\ CanUsePrevFrame(picture) /\ cur' = Before(cur)
         /\ UNCHANGED <<dst, jobs, holds, dropped>>
      \/ /\ dst[cur] # None /\ UNCHANGED <<dst, cur, holds>> /\ dropped' = FALSE
         /\ jobs' = Append(jobs, [buf |-> dst[cur], picture |-> picture, fence |-> fence[cur]])
  BY <1>4 DEF DoPostProcessing, NeedDstBufRealloc, InUse
<1> QED
  BY <1>6, <1>7, <1>8, <1>9

(* validateDisplay() inside a present *)
LEMMA SkipValidateCurrent ==
  ASSUME RingInv, CurrentInv, FencesSuffice, NEW d \in Display, SkipValidate(d)
  PROVE  CurrentInv'
<1>1. /\ FirstValidateDue /\ d \in on /\ skipping' = d
      /\ UNCHANGED <<user, shown, on, validated, presented>>
  BY DEF SkipValidate
<1>2. Flags'
  BY <1>1 DEF CurrentInv, Flags, FirstValidateDue
<1>3. CASE user = d
  <2>1. Presents(d)'
    BY <1>1 DEF Presents
  <2>2. PICK c \in ContentOf[d] : want' = <<d, c>> /\ DoPostProcessing(d, <<d, c>>)
    BY <1>3 DEF SkipValidate
  <2>3. <<d, c>> \in Picture
    BY Pictures
  <2> QED
    BY <1>1, <1>2, <1>3, <2>1, <2>2, <2>3, ComposeCurrent DEF CurrentInv
<1>4. CASE user # d
  <2>1. UNCHANGED <<prevFrame, cur, dst, jobs, holds, pending, screen, want, dropped>>
    BY <1>1, <1>4 DEF SkipValidate, ring, shown
  <2>2. Content' = Content
    BY <2>1 DEF Content, Holds
  <2>3. ~Serving /\ ~Serving'
    <3>1. ~Serving
      BY <1>1, BetweenFrames DEF Serving, RingInv, TypeOK
    <3> QED
      BY <1>1, <1>4, <3>1, DestinationRing DEF Serving, Presents
  <2>4. (Committed /\ Composed /\ Scanned)'
    BY <2>1, <2>2, <2>3 DEF CurrentInv, Committed, Composed, Scanned
  <2> QED
    BY <1>2, <2>4 DEF CurrentInv
<1> QED
  BY <1>3, <1>4

(* validateAllDisplays() *)
LEMMA FirstValidateCurrent ==
  ASSUME RingInv, CurrentInv, FencesSuffice, FirstValidate
  PROVE  CurrentInv'
<1>1. /\ FirstValidateDue /\ presented \intersect on = {}
      /\ validated' = validated \union on
      /\ UNCHANGED <<shown, on, presented, skipping>>
  BY DEF FirstValidate, FencesSuffice
<1>2. skipping = None /\ on \subseteq Display
  BY <1>1 DEF FirstValidateDue, RingInv, TypeOK
<1>3. Flags'
  BY <1>1, <1>2 DEF CurrentInv, Flags
<1>4. ASSUME NEW d \in on, NEW c \in ContentOf[d],
             IsAssignable(d) \/ d = user, user' = d, want' = <<d, c>>,
             DoPostProcessing(d, <<d, c>>)
      PROVE  CurrentInv'
  <2>1. Presents(d)' /\ <<d, c>> \in Picture
    BY <1>1, <1>2, Pictures DEF Presents
  <2> QED
    BY <1>1, <1>3, <1>4, <2>1, ComposeCurrent DEF CurrentInv
<1>5. ASSUME NEW d \in on, NEW c \in ContentOf[d], FailPostProcessing(d, <<d, c>>)
      PROVE  CurrentInv'
  <2>1. UNCHANGED <<jobs, holds, pending, screen>> /\ dropped'
    BY <1>1, <1>5 DEF FailPostProcessing, shown
  <2>2. Content' = Content
    BY <2>1 DEF Content, Holds
  <2>3. (Committed /\ Composed /\ Scanned)'
    BY <2>1, <2>2 DEF CurrentInv, Committed, Composed, Scanned
  <2> QED
    BY <1>3, <2>3 DEF CurrentInv
<1>6. ASSUME user' \in {None} \union ({user} \ on),
             UNCHANGED <<prevFrame, ring, jobs, holds, dropped>>
      PROVE  CurrentInv'
  <2>1. UNCHANGED <<cur, dst, pending, screen>>
    BY <1>1, <1>6 DEF ring, shown
  <2>2. Content' = Content
    BY <1>6 DEF Content, Holds
  <2>3. ~Serving /\ ~Serving'
    <3>1. ~Serving
      BY <1>1, BetweenFrames DEF Serving, RingInv, TypeOK
    <3> QED
      BY <1>1, <1>2, <1>6, <3>1 DEF Serving, Presents
  <2>4. (Committed /\ Composed /\ Scanned)'
    BY <1>6, <2>1, <2>2, <2>3 DEF CurrentInv, Committed, Composed, Scanned
  <2> QED
    BY <1>3, <2>4 DEF CurrentInv
<1>7. \/ \E d \in on : \E c \in ContentOf[d] :
           /\ IsAssignable(d) \/ d = user
           /\ \/ user' = d /\ want' = <<d, c>> /\ DoPostProcessing(d, <<d, c>>)
              \/ FailPostProcessing(d, <<d, c>>)
      \/ /\ user' \in {None} \union ({user} \ on)
         /\ UNCHANGED <<prevFrame, ring, jobs, holds, dropped>>
  BY DEF FirstValidate
<1> QED
  BY <1>4, <1>5, <1>6, <1>7

LEMMA CurrentStep ==
  ASSUME RingInv, CurrentInv, FencesSuffice, [Next]_vars
  PROVE  CurrentInv'
<1>1. CASE FirstValidate
  BY <1>1, FirstValidateCurrent
<1>2. CASE RunJob
  BY <1>2, RunJobCurrent
<1>3. CASE FreeBuffers
  BY <1>3, FreeBuffersCurrent
<1>4. ASSUME NEW d \in Display,
             \/ SkipValidate(d) \/ SkipValidateFails(d)
             \/ Present(d) \/ PresentFails(d) \/ SkipPresent(d)
             \/ PowerOn(d) \/ PowerOff(d) \/ TakeEffect(d)
      PROVE  CurrentInv'
  BY <1>4, SkipValidateCurrent, SkipValidateFailsCurrent, PresentServedCurrent,
     PresentOtherCurrent, PresentFailsCurrent, SkipPresentCurrent, PowerOnCurrent,
     PowerOffCurrent, TakeEffectCurrent
<1>5. CASE UNCHANGED vars
  <2>1. UNCHANGED <<user, prevFrame, cur, dst, jobs, holds, pending, screen, want, on,
                    validated, presented, skipping, dropped>>
    BY <1>5 DEF vars, mpp, ring, shown, frameVars
  <2>2. Content' = Content /\ (Serving' <=> Serving)
    BY <2>1 DEF Content, Holds, Serving, Presents
  <2> QED
    BY <2>1, <2>2 DEF CurrentInv, Flags, Committed, Composed, Scanned
<1> QED
  BY <1>1, <1>2, <1>3, <1>4, <1>5 DEF Next

(* A screen shows what its display had composed for that frame, also when the *)
(* picture of the frame before is reused instead.                             *)
THEOREM PicturesAreCurrent ==
  ASSUME FencesSuffice
  PROVE  Spec => []ShownIsCurrent
<1>1. Init => CurrentInv
  BY DestinationRing DEF Init, CurrentInv, Flags, Committed, Composed, Scanned, Serving, Presents,
     Blank
<1>2. RingInv /\ CurrentInv /\ [Next]_vars => RingInv' /\ CurrentInv'
  BY FencesStep, CurrentStep
<1>3. CurrentInv => ShownIsCurrent
  BY DEF CurrentInv, Scanned, ShownIsCurrent
<1> QED
  BY <1>1, <1>2, <1>3, FencesInit, PTL DEF Spec

=============================================================================
