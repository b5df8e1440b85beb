------------------------------- MODULE LayerDump -------------------------------
(***************************************************************************)
(* The layer dump of a display (LayerDumpManager in                        *)
(* base/libhwc2.1/display/ExynosDisplay.cpp), a debugging aid that writes  *)
(* the layers of the next frames to files.                                 *)
(*                                                                         *)
(* The service asks for a number of frames, the next validate starts a     *)
(* dump thread for every display, each present hands one more frame to the *)
(* thread, and the present after the last one writes the files and stops   *)
(* the thread.  Validate and present run on the client's thread, under the *)
(* device mutex; the dump thread shares only the manager's mutex with it.  *)
(***************************************************************************)
EXTENDS Integers

CONSTANTS
    Display,      \* the plugged displays
    MaxCount,     \* bound: the largest number of frames asked for
    FencesFail    \* the wait for the acquire fence of a layer may time out

ASSUME CountAssumption == MaxCount \in Nat /\ FencesFail \in BOOLEAN

Frame == 0..MaxCount
None == -1

VARIABLES
    request,   \* mTotalDumpCount, or None when mIsDumpRequest is false
    running,   \* mState of each display's manager is RUN
    index,     \* mDumpFrameIndex
    max,       \* mDumpMaxIndex
    info,      \* layerDumpState of each frame of each display
    raw,       \* the frame's buffers are allocated and hold its pixels
    thread,    \* where the dump thread is
    at,        \* the frame index it has read
    client,    \* where the client's thread is: a step and a display
    todo       \* displays left to present in this refresh

manager == <<running, index, max>>
frames == <<info, raw>>
dumper == <<thread, at>>
vars == <<request, manager, frames, dumper, client, todo>>

ClientStep == {"trigger", "write", "free", "stop", "join"}
Idle == <<"idle">>

TypeOK ==
    /\ request \in Frame \cup {None}
    /\ running \in [Display -> BOOLEAN]
    /\ index \in [Display -> Frame]
    /\ max \in [Display -> Frame \cup {None}]
    /\ info \in [Display -> [Frame -> {"idle", "ready", "done"}]]
    /\ raw \in [Display -> [Frame -> BOOLEAN]]
    /\ thread \in [Display -> {"none", "check", "index", "info", "copy", "mark"}]
    /\ at \in [Display -> Frame]
    /\ client \in {Idle} \cup (ClientStep \X Display)
    /\ todo \in SUBSET Display

Init ==
    /\ request = None
    /\ running = [d \in Display |-> FALSE]
    /\ index = [d \in Display |-> 0]
    /\ max = [d \in Display |-> None]
    /\ info = [d \in Display |-> [f \in Frame |-> "idle"]]
    /\ raw = [d \in Display |-> [f \in Frame |-> FALSE]]
    /\ thread = [d \in Display |-> "none"]
    /\ at = [d \in Display |-> 0]
    /\ client = Idle
    /\ todo = {}

-----------------------------------------------------------------------------
(***************************************************************************)
(* The service and the client                                              *)
(***************************************************************************)

\* ExynosHWCService::setDumpCount
Request ==
    /\ request' \in Frame
    /\ UNCHANGED <<manager, frames, dumper, client, todo>>

\* A refresh starts with a validate, which runs every manager that is stopped
\* when a dump is requested.
BeginRefresh ==
    /\ client = Idle /\ todo = {}
    /\ todo' = Display
    /\ LET started == IF request = None THEN {} ELSE {d \in Display : ~running[d]}
       IN  /\ running' = [d \in Display |-> running[d] \/ d \in started]
           /\ index' = [d \in Display |-> IF d \in started THEN 0 ELSE index[d]]
           /\ max' = [d \in Display |-> IF d \in started THEN request ELSE max[d]]
           /\ thread' = [d \in Display |-> IF d \in started THEN "check" ELSE thread[d]]
    /\ request' = None
    /\ UNCHANGED <<frames, at, client>>

Present(d) ==
    /\ client = Idle /\ d \in todo
    /\ todo' = todo \ {d}
    /\ client' = IF ~running[d] THEN Idle
                 ELSE <<IF index[d] = max[d] THEN "write" ELSE "trigger", d>>
    /\ UNCHANGED <<request, manager, frames, dumper>>

Triggered(d) ==
    /\ client = <<"trigger", d>>
    /\ index' = [index EXCEPT ![d] = @ + 1]
    /\ info' = [info EXCEPT ![d][index[d] + 1] = "ready"]
    /\ client' = Idle
    /\ UNCHANGED <<request, running, max, raw, dumper, todo>>

\* Variant: the previous frame is not waited for.
TriggerUnwaited(d) == Triggered(d)

\* triggerDumpFrame: holding the manager's mutex it waits until the previous
\* frame has been copied.
TriggerDumpFrame(d) ==
    /\ index[d] > 0 => info[d][index[d]] = "done"
    /\ Triggered(d)

\* dumpLayers: write the files of all frames, then free their buffers.
WriteFiles(d) ==
    /\ client = <<"write", d>>
    /\ client' = <<"free", d>>
    /\ UNCHANGED <<request, manager, frames, dumper, todo>>

FreeBuffers(d) ==
    /\ client = <<"free", d>>
    /\ raw' = [raw EXCEPT ![d] = [f \in Frame |-> @[f] /\ f > max[d]]]
    /\ client' = <<"stop", d>>
    /\ UNCHANGED <<request, manager, info, dumper, todo>>

\* Variant: the thread is joined before it is told to stop.
StopJoiningFirst(d) ==
    /\ client = <<"stop", d>> /\ thread[d] = "none"
    /\ running' = [running EXCEPT ![d] = FALSE]
    /\ index' = [index EXCEPT ![d] = 0]
    /\ max' = [max EXCEPT ![d] = None]
    /\ client' = <<"join", d>>
    /\ UNCHANGED <<request, frames, dumper, todo>>

Stop(d) ==
    /\ client = <<"stop", d>>
    /\ running' = [running EXCEPT ![d] = FALSE]
    /\ index' = [index EXCEPT ![d] = 0]
    /\ max' = [max EXCEPT ![d] = None]
    /\ client' = <<"join", d>>
    /\ UNCHANGED <<request, frames, dumper, todo>>

Join(d) ==
    /\ client = <<"join", d>> /\ thread[d] = "none"
    /\ client' = Idle
    /\ UNCHANGED <<request, manager, frames, dumper, todo>>

ClientNext ==
    \/ BeginRefresh
    \/ \E d \in Display :
         \/ Present(d) \/ TriggerDumpFrame(d)
         \/ WriteFiles(d) \/ FreeBuffers(d) \/ Stop(d) \/ Join(d)

-----------------------------------------------------------------------------
(***************************************************************************)
(* The dump thread                                                         *)
(***************************************************************************)

\* The manager's mutex is held across steps only by triggerDumpFrame().
MutexFree(d) == client # <<"trigger", d>>

Goto(d, step) == thread' = [thread EXCEPT ![d] = step]

IsRunning(d) ==
    /\ thread[d] = "check" /\ MutexFree(d)
    /\ Goto(d, IF running[d] THEN "index" ELSE "none")
    /\ UNCHANGED <<request, manager, frames, at, client, todo>>

GetDumpFrameIndex(d) ==
    /\ thread[d] = "index" /\ MutexFree(d)
    /\ at' = [at EXCEPT ![d] = index[d]]
    /\ Goto(d, "info")
    /\ UNCHANGED <<request, manager, frames, client, todo>>

GetLayerDumpFrameInfo(d) ==
    /\ thread[d] = "info" /\ MutexFree(d)
    /\ Goto(d, IF info[d][at[d]] = "ready" THEN "copy" ELSE "check")
    /\ UNCHANGED <<request, manager, frames, at, client, todo>>

\* A fence that times out leaves the frame ready, to be tried again.
CopyLayers(d) ==
    /\ thread[d] = "copy"
    /\ \/ /\ raw' = [raw EXCEPT ![d][at[d]] = TRUE]
          /\ Goto(d, "mark")
       \/ /\ FencesFail
          /\ Goto(d, "check")
          /\ UNCHANGED raw
    /\ UNCHANGED <<request, manager, info, at, client, todo>>

MarkDone(d) ==
    /\ thread[d] = "mark"
    /\ info' = [info EXCEPT ![d][at[d]] = "done"]
    /\ Goto(d, "check")
    /\ UNCHANGED <<request, manager, raw, at, client, todo>>

DumpThread(d) ==
    \/ IsRunning(d) \/ GetDumpFrameIndex(d) \/ GetLayerDumpFrameInfo(d)
    \/ CopyLayers(d) \/ MarkDone(d)

Next == Request \/ ClientNext \/ \E d \in Display : DumpThread(d)

Spec == Init /\ [][Next]_vars

\* The scheduler runs every thread, and the display keeps being refreshed: the
\* service invalidates it with each request.
Fairness ==
    /\ WF_vars(ClientNext)
    /\ \A d \in Display : WF_vars(DumpThread(d))

FairSpec == Spec /\ Fairness

-----------------------------------------------------------------------------
(***************************************************************************)
(* Properties                                                              *)
(***************************************************************************)

\* When the files are written, every frame but the last has been copied
\* (LayerDumpManager::triggerDumpFrame waits for it).  The last one may still
\* be in the hands of the dump thread: dumpLayers() does not wait.
EarlierFramesWritten ==
    \A d \in Display : client = <<"write", d>> =>
        \A f \in 1 .. max[d] - 1 : raw[d][f]

\* A dump of at most one frame, which never waits for the dump thread, is
\* written and its thread stopped (ExynosDisplay::dumpLayers).
ShortDumpCompletes ==
    \A d \in Display : running[d] /\ max[d] <= 1 ~> ~running[d]

\* The wait for the previous frame's copy ends
\* (LayerDumpManager::triggerDumpFrame).
TriggerReturns ==
    \A d \in Display : client = <<"trigger", d>> ~> client # <<"trigger", d>>

=============================================================================
