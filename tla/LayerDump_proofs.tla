--------------------------- MODULE LayerDump_proofs ---------------------------
(* Proofs about LayerDump: what the handshake of index and frame states is    *)
(* worth although the dump thread shares little with the client's.            *)
EXTENDS LayerDump, TLAPS

\* A dump goes from frame to frame up to the last one, and the client is in it.
Progress(d) ==
    /\ running[d] => max[d] \in Frame /\ index[d] <= max[d]
    /\ client = <<"trigger", d>> => running[d] /\ index[d] < max[d]
    /\ client \in {<<"write", d>>, <<"free", d>>, <<"stop", d>>} =>
         running[d] /\ index[d] = max[d]
    /\ client = <<"join", d>> => ~running[d]

\* A thread runs from the start of a dump until it is joined.
OneThread(d) == ~running[d] /\ client # <<"join", d>> => thread[d] = "none"

\* Until the buffers are freed, a frame that is done is in its buffer, and so
\* is every frame before the current one.
Copied(d) ==
    running[d] /\ client # <<"stop", d>> =>
        /\ thread[d] = "mark" => raw[d][at[d]]
        /\ \A f \in Frame : f # 0 /\ f <= index[d] /\ info[d][f] = "done" => raw[d][f]
        /\ \A f \in Frame : f # 0 /\ f < index[d] => raw[d][f]

DumpOf(d) == Progress(d) /\ OneThread(d) /\ Copied(d)
DumpInv == TypeOK /\ \A d \in Display : DumpOf(d)

-----------------------------------------------------------------------------
(* At first nothing is dumped. *)
LEMMA DumpAtFirst == Init => DumpInv
  BY CountAssumption
     DEF Init, DumpInv, TypeOK, DumpOf, Progress, OneThread, Copied, Idle,
         Frame, None
(* Every step keeps the types, since no dump goes past its last frame. *)
LEMMA KeepsTypes ==
    ASSUME TypeOK, \A d \in Display : Progress(d), [Next]_vars
    PROVE  TypeOK'
  <1> USE CountAssumption DEF TypeOK, manager, frames, dumper, Idle, ClientStep,
            Frame, None, Progress
  <1>1. CASE Request
    BY <1>1 DEF Request
  <1>2. CASE BeginRefresh
    BY <1>2 DEF BeginRefresh
  <1>3. ASSUME NEW e \in Display, Present(e) PROVE TypeOK'
    BY <1>3 DEF Present
  <1>4. ASSUME NEW e \in Display, TriggerDumpFrame(e) PROVE TypeOK'
    BY <1>4 DEF TriggerDumpFrame, Triggered
  <1>5. ASSUME NEW e \in Display, WriteFiles(e) PROVE TypeOK'
    BY <1>5 DEF WriteFiles
  <1>6. ASSUME NEW e \in Display, FreeBuffers(e) PROVE TypeOK'
    BY <1>6 DEF FreeBuffers
  <1>7. ASSUME NEW e \in Display, Stop(e) PROVE TypeOK'
    BY <1>7 DEF Stop
  <1>8. ASSUME NEW e \in Display, Join(e) PROVE TypeOK'
    BY <1>8 DEF Join
  <1>9. ASSUME NEW e \in Display, IsRunning(e) PROVE TypeOK'
    BY <1>9 DEF IsRunning, MutexFree, Goto
  <1>10. ASSUME NEW e \in Display, GetDumpFrameIndex(e) PROVE TypeOK'
    BY <1>10 DEF GetDumpFrameIndex, MutexFree, Goto
  <1>11. ASSUME NEW e \in Display, GetLayerDumpFrameInfo(e) PROVE TypeOK'
    BY <1>11 DEF GetLayerDumpFrameInfo, MutexFree, Goto
  <1>12. ASSUME NEW e \in Display, CopyLayers(e) PROVE TypeOK'
    <2>1. CASE raw' = [raw EXCEPT ![e][at[e]] = TRUE] /\ Goto(e, "mark")
      <3>1. raw' \in [Display -> [Frame -> BOOLEAN]]
        BY <2>1, Zenon
      <3>. QED
        BY <1>12, <2>1, <3>1 DEF CopyLayers, Goto
    <2>2. CASE UNCHANGED raw /\ Goto(e, "check")
      BY <1>12, <2>2 DEF CopyLayers, Goto
    <2>. QED
      BY <1>12, <2>1, <2>2 DEF CopyLayers
  <1>13. ASSUME NEW e \in Display, MarkDone(e) PROVE TypeOK'
    BY <1>13 DEF MarkDone, Goto
  <1>14. CASE UNCHANGED vars
    BY <1>14 DEF vars
  <1>. QED
    BY <1>1, <1>2, <1>3, <1>4, <1>5, <1>6, <1>7, <1>8, <1>9, <1>10, <1>11, <1>12,
       <1>13, <1>14
       DEF Next, ClientNext, DumpThread

(* The client leaves the loop of frames at the last one. *)
LEMMA KeepsProgress ==
    ASSUME NEW c \in Display, TypeOK, Progress(c), [Next]_vars
    PROVE  Progress(c)'
  <1> USE CountAssumption DEF TypeOK, manager, frames, dumper, Idle, ClientStep,
            Frame, None, Progress
  <1>1. CASE Request
    BY <1>1 DEF Request
  <1>2. CASE BeginRefresh
    BY <1>2 DEF BeginRefresh
  <1>3. ASSUME NEW e \in Display, Present(e) PROVE Progress(c)'
    BY <1>3 DEF Present
  <1>4. ASSUME NEW e \in Display, TriggerDumpFrame(e) PROVE Progress(c)'
    BY <1>4 DEF TriggerDumpFrame, Triggered
  <1>5. ASSUME NEW e \in Display, WriteFiles(e) PROVE Progress(c)'
    BY <1>5 DEF WriteFiles
  <1>6. ASSUME NEW e \in Display, FreeBuffers(e) PROVE Progress(c)'
    BY <1>6 DEF FreeBuffers
  <1>7. ASSUME NEW e \in Display, Stop(e) PROVE Progress(c)'
    BY <1>7 DEF Stop
  <1>8. ASSUME NEW e \in Display, Join(e) PROVE Progress(c)'
    BY <1>8 DEF Join
  <1>9. ASSUME NEW e \in Display, IsRunning(e) PROVE Progress(c)'
    BY <1>9 DEF IsRunning, MutexFree, Goto
  <1>10. ASSUME NEW e \in Display, GetDumpFrameIndex(e) PROVE Progress(c)'
    BY <1>10 DEF GetDumpFrameIndex, MutexFree, Goto
  <1>11. ASSUME NEW e \in Display, GetLayerDumpFrameInfo(e) PROVE Progress(c)'
    BY <1>11 DEF GetLayerDumpFrameInfo, MutexFree, Goto
  <1>12. ASSUME NEW e \in Display, CopyLayers(e) PROVE Progress(c)'
    BY <1>12 DEF CopyLayers, Goto
  <1>13. ASSUME NEW e \in Display, MarkDone(e) PROVE Progress(c)'
    BY <1>13 DEF MarkDone, Goto
  <1>14. CASE UNCHANGED vars
    BY <1>14 DEF vars
  <1>. QED
    BY <1>1, <1>2, <1>3, <1>4, <1>5, <1>6, <1>7, <1>8, <1>9, <1>10, <1>11, <1>12,
       <1>13, <1>14
       DEF Next, ClientNext, DumpThread

(* A thread is joined before the next dump starts one. *)
LEMMA KeepsThread ==
    ASSUME NEW c \in Display, TypeOK, OneThread(c), Progress(c), [Next]_vars
    PROVE  OneThread(c)'
  <1> USE CountAssumption DEF TypeOK, manager, frames, dumper, Idle, ClientStep,
            Frame, None, Progress, OneThread
  <1>1. CASE Request
    BY <1>1 DEF Request
  <1>2. CASE BeginRefresh
    BY <1>2 DEF BeginRefresh
  <1>3. ASSUME NEW e \in Display, Present(e) PROVE OneThread(c)'
    BY <1>3 DEF Present
  <1>4. ASSUME NEW e \in Display, TriggerDumpFrame(e) PROVE OneThread(c)'
    BY <1>4 DEF TriggerDumpFrame, Triggered
  <1>5. ASSUME NEW e \in Display, WriteFiles(e) PROVE OneThread(c)'
    BY <1>5 DEF WriteFiles
  <1>6. ASSUME NEW e \in Display, FreeBuffers(e) PROVE OneThread(c)'
    BY <1>6 DEF FreeBuffers
  <1>7. ASSUME NEW e \in Display, Stop(e) PROVE OneThread(c)'
    BY <1>7 DEF Stop
  <1>8. ASSUME NEW e \in Display, Join(e) PROVE OneThread(c)'
    BY <1>8 DEF Join
  <1>9. ASSUME NEW e \in Display, IsRunning(e) PROVE OneThread(c)'
    BY <1>9 DEF IsRunning, MutexFree, Goto
  <1>10. ASSUME NEW e \in Display, GetDumpFrameIndex(e) PROVE OneThread(c)'
    BY <1>10 DEF GetDumpFrameIndex, MutexFree, Goto
  <1>11. ASSUME NEW e \in Display, GetLayerDumpFrameInfo(e) PROVE OneThread(c)'
    BY <1>11 DEF GetLayerDumpFrameInfo, MutexFree, Goto
  <1>12. ASSUME NEW e \in Display, CopyLayers(e) PROVE OneThread(c)'
    BY <1>12 DEF CopyLayers, Goto
  <1>13. ASSUME NEW e \in Display, MarkDone(e) PROVE OneThread(c)'
    BY <1>13 DEF MarkDone, Goto
  <1>14. CASE UNCHANGED vars
    BY <1>14 DEF vars
  <1>. QED
    BY <1>1, <1>2, <1>3, <1>4, <1>5, <1>6, <1>7, <1>8, <1>9, <1>10, <1>11, <1>12,
       <1>13, <1>14
       DEF Next, ClientNext, DumpThread

(* What is marked done has been copied. *)
LEMMA KeepsCopies ==
    ASSUME NEW c \in Display, TypeOK, DumpOf(c), [Next]_vars
    PROVE  Copied(c)'
  <1> USE CountAssumption DEF TypeOK, manager, frames, dumper, Idle, ClientStep,
            Frame, None, Progress, OneThread, Copied, DumpOf
  <1>1. CASE Request
    BY <1>1 DEF Request
  <1>2. CASE BeginRefresh
    BY <1>2 DEF BeginRefresh
  <1>3. ASSUME NEW e \in Display, Present(e) PROVE Copied(c)'
    BY <1>3 DEF Present
  <1>4. ASSUME NEW e \in Display, TriggerDumpFrame(e) PROVE Copied(c)'
    BY <1>4 DEF TriggerDumpFrame, Triggered
  <1>5. ASSUME NEW e \in Display, WriteFiles(e) PROVE Copied(c)'
    BY <1>5 DEF WriteFiles
  <1>6. ASSUME NEW e \in Display, FreeBuffers(e) PROVE Copied(c)'
    BY <1>6 DEF FreeBuffers
  <1>7. ASSUME NEW e \in Display, Stop(e) PROVE Copied(c)'
    BY <1>7 DEF Stop
  <1>8. ASSUME NEW e \in Display, Join(e) PROVE Copied(c)'
    BY <1>8 DEF Join
  <1>9. ASSUME NEW e \in Display, IsRunning(e) PROVE Copied(c)'
    BY <1>9 DEF IsRunning, MutexFree, Goto
  <1>10. ASSUME NEW e \in Display, GetDumpFrameIndex(e) PROVE Copied(c)'
    BY <1>10 DEF GetDumpFrameIndex, MutexFree, Goto
  <1>11. ASSUME NEW e \in Display, GetLayerDumpFrameInfo(e) PROVE Copied(c)'
    BY <1>11 DEF GetLayerDumpFrameInfo, MutexFree, Goto
  <1>12. ASSUME NEW e \in Display, CopyLayers(e) PROVE Copied(c)'
    <2>1. CASE raw' = [raw EXCEPT ![e][at[e]] = TRUE] /\ Goto(e, "mark")
      <3>1. \A d \in Display, f \in Frame : raw[d][f] => raw'[d][f]
        BY <2>1
      <3>2. raw'[e][at'[e]] /\ UNCHANGED at
        BY <1>12, <2>1 DEF CopyLayers
      <3>. QED
        BY <1>12, <2>1, <3>1, <3>2 DEF CopyLayers, Goto
    <2>2. CASE UNCHANGED raw /\ Goto(e, "check")
      BY <1>12, <2>2 DEF CopyLayers, Goto
    <2>. QED
      BY <1>12, <2>1, <2>2 DEF CopyLayers
  <1>13. ASSUME NEW e \in Display, MarkDone(e) PROVE Copied(c)'
    BY <1>13 DEF MarkDone, Goto
  <1>14. CASE UNCHANGED vars
    BY <1>14 DEF vars
  <1>. QED
    BY <1>1, <1>2, <1>3, <1>4, <1>5, <1>6, <1>7, <1>8, <1>9, <1>10, <1>11, <1>12,
       <1>13, <1>14
       DEF Next, ClientNext, DumpThread

-----------------------------------------------------------------------------
(* DumpInv is an invariant. *)
LEMMA Invariance == Spec => []DumpInv
  <1>1. Init => DumpInv
    BY DumpAtFirst
  <1>2. DumpInv /\ [Next]_vars => DumpInv'
    <2> SUFFICES ASSUME DumpInv, [Next]_vars PROVE DumpInv'
      OBVIOUS
    <2>1. TypeOK'
      BY KeepsTypes DEF DumpInv, DumpOf
    <2>2. ASSUME NEW d \in Display PROVE DumpOf(d)'
      BY KeepsProgress, KeepsThread, KeepsCopies DEF DumpInv, DumpOf
    <2>. QED
      BY <2>1, <2>2 DEF DumpInv
  <1>. QED
    BY <1>1, <1>2, PTL DEF Spec

(* The variables of LayerDumpManager and the threads are of their types; the  *)
(* index of a frame never goes past the requested count.                      *)
THEOREM DumpTyping == Spec => []TypeOK
  <1>1. DumpInv => TypeOK
    BY DEF DumpInv
  <1>. QED
    BY <1>1, Invariance, PTL

(* When dumpLayers() writes the files, every frame but the last is in its     *)
(* buffer, however often the fences of a copy have timed out.                 *)
THEOREM EarlierFramesAreWritten == Spec => []EarlierFramesWritten
  <1>1. DumpInv => EarlierFramesWritten
    <2> SUFFICES ASSUME DumpInv, NEW d \in Display, client = <<"write", d>>,
                        NEW f \in 1 .. max[d] - 1
                 PROVE  raw[d][f]
      BY DEF EarlierFramesWritten
    <2>1. running[d] /\ index[d] = max[d] /\ max[d] \in Frame
      BY DEF DumpInv, DumpOf, Progress
    <2>2. f \in Frame /\ f # 0 /\ f < index[d]
      BY <2>1, CountAssumption DEF Frame
    <2>. QED
      BY <2>1, <2>2 DEF DumpInv, DumpOf, Copied
  <1>. QED
    BY <1>1, Invariance, PTL
=============================================================================
