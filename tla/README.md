# The Exynos hardware composer in TLA+

This directory holds TLA+ specifications of the hardware composer HAL for Exynos chips
(`src/base`), the TLC configurations that check them and the theorems that TLAPS proves
about them. Paths below are relative to `src/base/libhwc2.1` unless they start with `src/`.

    tlc -workers 2 -config frame_races.cfg MCDeviceFrame.tla
    tlapm DeviceFrame_proofs.tla

## 1. Inventory

The composer sits between SurfaceFlinger and the display driver. `src/base/hwc3` is the
binder service: one `ComposerClient` per client, whose `ComposerCommandEngine` turns command
buffers into HWC2 calls. `ExynosHWC.cpp` is the HWC2 function table. Behind it are one
`ExynosDevice` and its displays. Other threads enter the device as well: the hotplug event
thread, the dynamic recomposition thread, the threads of the MPPs (hardware blocks), the
thread that removes framebuffers, the dump threads and the binder threads of the HWC service.

| component | state it keeps | operations | interacts with | what makes it correct |
|---|---|---|---|---|
| **Frame protocol**: `device/ExynosDevice.cpp`, `display/ExynosDisplay.cpp`, `display/ExynosLayer.cpp` | `mGeometryChanged`; per display the rendering state, validate and present flags, skip flags, layers | validate, accept, present, setPowerMode, layer setters | all displays share one frame; the event thread | a validated display is accepted and presented; what is shown was assigned after the last change; nothing is shown on a display that is off |
| **External display**: `externaldisplay/` | plug and cable state, enabled, count of start frames | plug, unplug, enable, disable | event thread, virtual display | the start frames are hidden; an unplugged display is blank |
| **Virtual display**: `virtualdisplay/` | WFD state, plug state of the external display, skip flag and count | create, destroy, skip a frame | shares the DPU with the external display | yields to the external display |
| **Primary display**: `primarydisplay/` | power mode, pending configuration | power on, off, doze, suspend | the driver | off means blank |
| **Layer dump**: `LayerDumpManager` in `display/ExynosDisplay.cpp` | run state, frame index, state of each frame | run, trigger, stop; a thread that copies | service, present, validate | the files hold the frames asked for; the present is not held up forever |
| **Framebuffer manager**: `display/ExynosDrmFramebufferManager.cpp` | staging, cached and cleanup lists; time of each display's last commit | getBuffer, flip, removeBuffer, onDisplayRemoved; a removing thread | commits, layer and buffer destruction | a framebuffer that is scanned out is kept; one whose owner is gone is removed |
| **Configurations and vsync**: `display/ExynosDisplay.cpp` | state of a configuration request, its time constraints | setActiveConfigWithConstraints, doDisplayConfigPostProcess, handleVsyncPeriodChange | present, vsync thread | a request ends in one state, and the callback tells of it |
| **Device threads**: `device/ExynosDevice*.cpp` | threads and their requests | panel reset, DPU crash | frame protocol | the mutex covers what they change |
| **Dynamic recomposition**: `primarydisplay/`, `display/ExynosDisplay.cpp` | mode, whether in use | decide on a timeout, go back on a change, enable, disable | timer, frames, service | a static screen is left to the client, unless a layer needs the device |
| **Resource manager and MPP**: `device/ExynosResourceManager.cpp`, `resources/ExynosMPP.cpp` | who holds which block, destination buffers, lists of freed buffers and fences | assignResource, allocOutBuf, ResourceManageThread | validate and present | no block is assigned twice; a buffer is freed after its fences |
| **DRM and FB interfaces**: `display/ExynosDisplay*Interface.cpp` | properties last committed | deliverWinConfigData, clearDisplay, setPowerMode | driver, framebuffer manager | a commit is atomic |
| **One-shot timer**: `utils/OneShotTimer.cpp` | semaphore and atomic flags | start, stop, reset, setInterval | callbacks | a reset is not lost; the timeout comes |
| **Fence tracer**: `utils/ExynosFenceTracer.cpp` | count of each fence descriptor | setFenceInfo, validateFences | all users of fences | no leak |
| **Composer service**: `src/base/hwc3` | whether a client lives, its callback, displays and layers; must-validate flag, buffer caches | createClient, the destructor, registerCallback, calls on layers and displays, events | HWC2 table, event thread | one client at a time; nothing of a client outlives it; a requested validate happens |
| **DRM resources**: `src/base/libdrmresource` | connectors, planes; vsync and event threads | init, wait for vsync | driver | no event after stop |
| HWC service, entry points, helpers | - | binder calls, function table | device | - |
| repeater, tsmux, acryl, scalers, giantmscl, JPEG, ion, memtrack, sbwc, per-SoC overrides, unit tests | - | wrappers of kernel drivers, tables, tests | - | - |

What is hard about it:

* **One frame of many displays.** The first validate of a frame validates all displays, the
  last present ends it for all; "first" and "last" depend on flags and on the power and plug
  state of every other display (`device/ExynosDevice.cpp:442`, `:507`).
* **Events inside a frame.** Hotplug takes the device mutex between any two calls of the client,
  and takes it twice for one event (`:298`).
* **Flags cleared for all.** `finishFrame` clears the geometry flag and the rendering flags of
  all displays, and `setLayerDisplayFrame` the rendering flags, whatever happened to one of them.
* **Failure of one step.** A failed assignment, commit or driver call leaves part of a frame done.
* **Threads that wait for each other**, as the present and the dump thread do.

PROJECT.json lists each hazard with its line and the properties that guard against it.

## 2. Modules

| module | what it is |
|---|---|
| `DeviceFrame` | the frame protocol: the displays, the device's geometry flag, the client, the event thread and the WFD service |
| `MCDeviceFrame` | model values for its instances |
| `DeviceFrame_proofs` | lemmas and theorems about it |
| `LayerDump` | the dump manager of every display, the dump threads, the client's thread and the service |
| `MCLayerDump` | model values for the instance of finding 3 |
| `LayerDump_proofs` | its invariant, and theorems |
| `Recomposition` | dynamic recomposition of the primary display and the one-shot timer that drives it |
| `Recomposition_proofs` | its invariant, and theorems |
| `ComposerService` | the clients of the composer, one after the other, and the hotplug events that reach them |
| `ComposerService_proofs` | its invariants, and theorems |
| `MCThreads` | runs `LayerDump`, `Recomposition` and `ComposerService` side by side |
| `FramebufferLifetime` | the contract of the framebuffer manager: what exists, what is shown, what is to be removed |
| `FramebufferCache` | how it is kept: the cache, the commits of the DRM interface and the removing thread; refines the contract |
| `MCFramebufferCache` | model values for its instance, symmetry |
| `FramebufferCache_proofs` | its invariants and the refinement |
| `PostProcessor` | one post-processor with its ring of destination buffers, and the displays it serves |
| `PostProcessor_proofs` | lemmas and theorems about it |
| `LayerAssignment` | which blocks, windows and compositions the layers of a display get |
| `LayerAssignment_proofs` | lemmas about its operators, its two invariants, and theorems |
| `MCResources` | model values for `PostProcessor` and `LayerAssignment`, which it runs side by side, symmetry |
| `DisplayConfig` | how the primary display changes its configuration: request, mode states, power modes, vsync |
| `MCDisplayConfig` | three configurations, and the view |
| `DisplayConfig_proofs` | one lemma for each operator, and its theorems |

`DeviceFrame` is the frame of the whole device. `PostProcessor` and `FramebufferCache` look at the same
frames from below: from a post-processor that a display holds, and from the commits of the displays.
They are checked apart, since together they are beyond TLC; each allows the other every behaviour
(whether a validate is skipped, whether a commit fails, which buffers a frame uses). `LayerAssignment` is what `DeviceFrame` calls an assignment that is fresh: `assignResource()` of one display.

Some operators are plausible mistakes ("Variant:", or a comment that says what is wrong): each puts
a bug into the definition that it precedes, and some property must then fail in a run. The
specification does not use them.

### DeviceFrame

Most entry points of `ExynosDevice` hold `mMutex`, so that each is one action. `exynos_destroyVirtualDisplay` does
not hold it; its action is atomic only because the client's thread makes no other call meanwhile
and the event thread is taken to stay out, which is listed as a hazard.

| variable | code |
|---|---|
| `disp[d].plug`, `.hpd`, `.power`, `.enabled` | `mPlugState`, `mHpdStatus`, `mPowerModeState`, `mEnabled` |
| `disp[d].rs`, `.hrs` | `mRenderingState`, and whether `mHWCRenderingState` is VALIDATED |
| `disp[d].vflag`, `.pflag` | `mRenderingStateFlags.validateFlag`, `.presentFlag` |
| `disp[d].skipPresent`, `.skipVP`, `.skipFrame` | `mIsSkipPresent` (external), the skip of validate and present of a display that is off or suspended, `mIsSkipFrame` |
| `disp[d].startLeft` | `mSkipStartFrame` counted down, `mSkipFrameCount` |
| `disp[d].wfd`, `.extPlug`, `.firstShown` | `mIsWFDState` is not 0, `mExternalPlugState`, `mIsFirstFrameDisplayed` |
| `disp[d].layers` | `mLayers` is not empty |
| `disp[d].asg`, `.panel` | ghosts: is the assignment of the layers reset, older than a change, or fresh; and with which of these was the frame on the panel committed |
| `geo` | `mGeometryChanged` is not 0 |
| `phase`, `client` | the client: where it is with a display in this refresh, and what it believes of it |
| `hotplug` | the event thread, between its two critical sections and the callback |

The actions are `TryPresent`, `Validate`, `Accept`, `Present` (the order in which
`executePresentOrValidateDisplay` calls them), `ClientSetPower`, `ClientHotplug`, the layer
operations, creation and destruction of virtual displays, `HandleHotplug` and
`HandleHotplugVirtual` (the two critical sections), and `SetWFDMode`. The effect of a call is an
operator on the record of the displays (`ValidateDisplay`, `PresentDisplay`, `SetPowerMode`)
built from one operator per function of the code. What the code reads from outside is chosen:
whether client composition or a changed static layer forbids to skip the validate (`Content`),
whether preprocessing finds a geometry change, and which step fails.

Abstracted: layers to "some" and "none", the geometry flags to one bit, the assignment to its
three states, fences and buffers to the error they may cause.

Parameters: the displays of each kind, the power modes and layer setters in use, which events
may fall inside a refresh (`MidRefresh`), whether the client finishes one display before the
next (`OneByOne`), the start frames, the type of interface, and what may fail (`MayFail`).
The order in which a refresh visits the displays is free.

### LayerDump

`request` is the service's `mTotalDumpCount`; `running`, `index`, `max`, `info` are the manager of
each display; `raw` tells which buffers hold a copied frame. The client's thread holds
`LayerDumpManager::mMutex` while it waits in `triggerDumpFrame`, so that the thread's three short
critical sections (`IsRunning`, `GetDumpFrameIndex`, `GetLayerDumpFrameInfo`) are guarded by
`MutexFree`. Copying and marking happen outside of it. A layer's fence may time out, in which
case the frame is tried again.

### Recomposition

| variable | code |
|---|---|
| `on`, `use`, `mode` | power mode, `mUseDynamicRecomp`, `mDynamicRecompMode` |
| `content`, `changed` | the layers: none, plain, or one that only the device composes (`checkLayersForSettingDR` lists them); a buffer or a geometry flag has changed |
| `caller` | the thread that holds the device mutex: a frame from its preprocessing to the end of its present, or a power change or command with the steps of `stop()` and `start()` |
| `loop` | the timer's thread, at the line of `OneShotTimer::loop` it is about to execute |
| `semaphore`, `mWaiting`, `resetTriggered`, `stopTriggered` | the members of `OneShotTimer` |
| `due`, `resetDue` | whether `triggerTime` has come, and `mLastResetTime` plus the interval |
| `shown` | ghost: the last frame was presented to its end |

`reset()` is four steps (`ResetTime`, `ResetFlag`, `LookWhetherWaiting`, `ResetPost`), `stop()` three, and the timer's thread
comes between any two. The timeout looks at the layers (`Fire`) and sets the mode (`SetMode`) with `mDRMutex` held, which only
`RevertMode` waits for. A frame may be preprocessed more than once: by a present that tries to skip the validate, of any
display, and by the validate. Time is a Boolean for each thing that the code compares with it. Not modelled: signals that
interrupt a wait, and `start()` when a thread runs (a hazard: what a second `sem_init` does is undefined).
What the mode is good for is in `LayerAssignment`: in DEVICE_TO_CLIENT every layer is rejected (`Rejected`).

### ComposerService

| variable | code (`src/base/hwc3`) |
|---|---|
| `phase` | each client: not created, waiting in `createClient()`, or between two steps of its life up to the end of its destructor |
| `mClientAlive`, `mEventCallback` | the members of `Composer` and `HalImpl` |
| `hotplugOn` | the displays have a function for `HWC2_CALLBACK_HOTPLUG` |
| `known`, `tracked` | the displays of the client's resource manager (`ComposerResources`), and the layers of each |
| `plugged`, `layers`, `picture` | the device: `mPlugState` and `mLayers` of each display, and the layers of its last frame |
| `call`, `event` | a call of the client between the device and the resource manager; the event thread between the device, the display's callback pointer and the hook |

`createClient()` is `CreateClient`, or `WaitForClientDestroyed` followed by `WaitEnds` or `WaitTimesOut`. The destructor is
`UnregisterHotplug`, `UnregisterCallback`, `DestroyResources` for each display and `OnClientDestroyed`. `CreateLayer` and
`AddLayer`, `DestroyLayer` and `RemoveLayer` are the halves of the two calls on layers, of which the second fails when a
hotplug made the display unknown meanwhile. An event is `Plug` or `Unplug` (the device), `Hotplug` (which reads the
callback pointer) and `OnHotplug` (the hook, which reads `mEventCallback`). A frame is one step here. Assumed: a client uses no
display that it has been told is gone, one call at a time; an event that has read `mEventCallback` is done with it at once.
`mEventCallback` may be null when the hook looks: the process ends, which is a hazard, and the model stops there.

### FramebufferCache

Two threads: the client under the device mutex, and the removing thread
(`removeFBsThreadRoutine`), which holds no device mutex and evicts and destroys framebuffers
between the critical sections of the manager's own mutex. An action is one critical section, or
one step between two of them, so that a commit is `BeginFrame`, `GetBuffer` or `GetCached` for each
plane, then `Commit` or `CommitFails`, `Flip`, `Trim`, `Notify`.

| variable | code |
|---|---|
| `kernel`, `screen` | the driver: framebuffers that exist, and what each display scans out |
| `staging`, `cached`, `cleanup` | `mStagingBuffers`, `mCachedBuffers`, `mCleanupBuffers` |
| `dying` | the list that the removing thread spliced for itself |
| `newColour`, `oldColour` | `mFbIds`, `mOldFbIds` of each display's interface: framebuffers of solid colours |
| `info` | buffer, owner, type of display and `removePending` of what is staged or cached |
| `stamped` | those whose `lastActiveTime` is the `mLastActiveCommitTime` of the type of display |
| `frame`, `alive`, `freed` | the client and the frame it composes; layers that exist; buffers given up |
| `remover`, `running` | `mRmFBThread`, waiting on `mCondition` or not, and `mRmFBThreadRunning` |
| `exposed` | displays without the promise that what they show is kept, see below |

Times are not kept: only "is it the time of the last commit" is compared. The order of use in the cache is left
out, so `Trim` may evict any removable framebuffers, of which the code's choice is one.
A display is `exposed` once it is unplugged, or its mode set was refused, until its next
commit: `onDisplayRemoved` and a blank modeset reset the stamps while the driver still scans out.

`FramebufferLifetime` is what the rest of the composer relies on. `Contract` maps it: a
framebuffer is condemned when it is on a cleanup list or marked, and shown when it is on the screen of a display that
is not exposed. Looking up, failing, trimming nothing and all of the signalling are stutters; `GetBuffer` is Create,
`Commit` is Show, the sweeps and `Collect` are Condemn, `Clear`, `Flip` and the clearing of colours are Remove, unplugging
and a refused mode set are Drop, the end of the destructor is Close.

### PostProcessor

| variable | code (`resources/ExynosMPP.h`, `.cpp`) |
|---|---|
| `hw`, `user`, `prevType`, `prevFrame` | `mHWState`, `mAssignedDisplayInfo`, `mPrevAssignedDisplayType`, `mPrevFrameInfo` |
| `cur`, `priv`, `dst`, `fence` | `mCurrentDstBuf`, `mPrivDstBuf`, and handle and release fence of each of `mDstImgs` |
| `freed` | `mFreedBuffers`, emptied by the resource thread (`FreeBuffers`) |
| `jobs`, `holds` | the hardware: work submitted and not done, in the order of submission (external), and what each buffer holds |
| `pending`, `screen` | each display: a commit that has not taken effect, and what it scans out |
| `want`, `on`, `validated`, `presented`, `skipping`, `geometry` | the frames of the displays, as in `DeviceFrame` |
| `dropped` | ghost: a picture was composed, or tried, and never presented |

`FirstValidate` is a whole validate of all displays; `SkipValidate` a present that validates none. A fence is
named by the display whose commit signals it. Which display gets the post-processor is free, within
`isAssignableState`. Buffers are handles of the allocator: the hardware keeps the memory of one that was freed
(`Imported`), so the allocator may not hand it out again. A failing allocation, the capacity checks and the set-up of
images are left out.

### LayerAssignment

`assignResource()` runs in one thread under the mutex of the device. What makes it hard is that its steps undo each
other: a layer that joins the range of a composition takes those between along, which changes the range of the other
one, which starts everything over. An action is one iteration of the loops.

| variable | code |
|---|---|
| `kind` | of each layer, what decides its treatment: `mOverlayPriority`, a plane alpha of 1, whether the client or `validateLayer()` excludes the overlay, whether the blender supports it, dynamic HDR metadata |
| `plan.type` | `mValidateCompositionType` |
| `plan.otf`, `.m2m`, `.users` | `mOtfMPP` and `mM2mMPP` of a layer or composition; `mAssignedSources` of a block |
| `plan.client`, `.exynos` | `mHasCompositionLayer`, `mFirstIndex`, `mLastIndex` of the two `ExynosCompositionInfo` |
| `plan.windows`, `.window` | `mWindowNumUsed`, and `mWindowIndex` of each source from `mBaseWindowIndex` |
| `plan.disabled`, `.dynamic`, `.failed` | blocks disabled by `setResourcePriority()`; layers that have their dynamic metadata; an error was returned |
| `plan.counted`, `.miscounted` | ghosts: sources that this pass has counted as windows; it has subtracted one that it has not |
| `step` | the place in the code, the priority, the layer and the tries |

| action | code |
|---|---|
| `AddAsked`, `AskedAdded`, `BeginPass` | the layers the client composes in any case; `resetAssignedResources()` and the client's target |
| `LayerToDevice`, `LayerToBlender`, `LayerToClient`, `LayerFlattens` | `assignLayers()`, with the result of `assignLayer()` |
| `MeetClient`, `TakeOut`, `TakeIn`, `EndSandwich` | `addExynosCompositionLayer()`: the layers the blender's range has come to hold, then the range is cut or given up |
| `LeaveBlender`, `GivenUp` | a range that is given up, since a layer of high priority lies inside it or there is no block for its target: its layers go to the client one by one |
| `NextTurn`, `AssignExynosTarget`, `Prioritize` | the next priority, the blender's target, `setResourcePriority()` with a busy G2D |
| `UpdateExynos`, `LowerLeaves`, `LowerStays`, `UpperLeaves`, `UpperStays` | `updateExynosComposition()`, `updateClientComposition()` |
| `AssignWindow`, `ForceClient` | `assignWindow()`; the fallback of `validateAllDisplays()` |

Which block supports the image of a layer and has the capacity for it is chosen at each question, so the model has more
behaviours than a display whose blocks answer alike each time. The blender is `MPP_LOGICAL_G2D_RGB`, which refuses
YUV and DRM images (`resources/ExynosMPP.cpp:434`, `:460`), so `AssignmentAssumption` lets it have no layers of high
priority. An RGB layer with an HDR data space has high priority too; that the G2D supports one is not modelled. Left out as well:
`useMaxG2DSrc` (off unless a debugging command sets it), `forceGpu`, the dedicated top window,
displays without a DPU, blocks of other displays.

### DisplayConfig

The state is one record `dpy`: the request machine of `ExynosDisplay` (`mConfigRequestState`,
`mDesiredConfig`, the constraints, `mPendConfigInfo`), the power mode, the two `ModeState`s of the DRM
interface (`act...`, `des...`) with the property blobs they own, and what the driver keeps. Each entry point
holds the mutex of the device or of the display and is one action; entry points call each other, several times, and the
driver may refuse each call on its own, so the calls are operators from a record to a record or to the set of records they
may leave, composed by the actions. Two fields are history that no guard of the code reads: `refused` (a switch to another
resolution was refused and no mode has been set for a configuration since) and `lost` (blobs that nobody owns any more).

| action | code |
|---|---|
| `RequestConfig`, `RequestWithConstraints` | `setActiveConfig`, `setActiveConfigWithConstraints` |
| `Present`, `PresentSkipped`, `PresentFails` | a present, with `doDisplayConfigPostProcess` first and `ModeState::apply` at the end of its commit |
| `TimeComes` | the desired time of the request |
| `VsyncConfirms` | a vsync whose period is the awaited one |
| `PowerOn`, `PowerOff`, `PowerDoze` | `ExynosPrimaryDisplay::setPowerMode`, with what it postpones and restores |
| `SetVsyncEnabled`, `DestroyClient` | the client wants vsyncs or not; the client dies |

What the driver may refuse is the constant `MayFail`:

| value | refused | what the code leaves |
|---|---|---|
| `test` | the blob or the commit of a test | nothing changes, the blob is destroyed |
| `property` | the properties of a test | the new blob, which nobody owns (`ExynosDisplayDrmInterface.cpp:677-681`) |
| `switch` | the blob, the properties or the commit of `setActiveDrmMode()` | the panel and `mActiveModeState` as they were; `setActiveConfig()` returns 0 (`:828-833`), and the display takes over the configuration; a low power mode is not entered |
| `request` | the time or the blob that `doDisplayConfigPostProcess()` needs | the request waits for the next frame |
| `time` | the time that `setActiveConfigWithConstraints()` needs (`ExynosDisplay.cpp:3326`) | no request |
| `frame` | a frame whose mode has been set | the panel has the mode, `needs_modeset` stays |

A request is seamless, for later, both or neither (`Constraint`).
Not modelled: the vsync timeline in nanoseconds, callbacks to the client, and the external display.

## 3. Runs

`p`, `e`, `v` are a primary, an external and a virtual display. A run takes about three minutes at most with two workers.

| run | instance | shows |
|---|---|---|
| `frame_quiet` | 2p, e; all layer operations; modes on; 2 start frames; events between refreshes | `PanelAssigned`, `PanelFresh`, `NoLostGeometry`, `StartFramesHidden` |
| `frame_races` | p, e; on, off and suspend (p), on and off (e); power and hotplug anywhere | `TypeOK`, `HandshakeHonoured`, `PrimaryOffIsBlank`, `ShowsOnlyWhenActive` |
| `frame_failures` | p, e; e on and off; hotplug anywhere; preparation, assignment, commit and fence check may fail | `OffIsBlank` |
| `frame_virtual` | p on, v on the DPU, e plugged but not lit; the driver may fail | `VirtualYields` |
| `late_layer_change` | p, e; layers change inside a refresh | `PanelFresh` fails: finding 1 |
| `virtual_shares` | p suspended, v, e | `VirtualYields` fails: finding 2 |
| `dump` | 1 display, dumps of up to 3 frames | `EarlierFramesWritten`, `ShortDumpCompletes` |
| `dump`, the timer | every action; no present starts with more than 1 post pending (`MaxPosts` = 2) | `NoLostSignal`, `SpecialByDevice`, `TimerAnswers` |
| `dump`, the clients | 2 clients, p, one e, the virtual display, a handle | `ClientsApart`, `NothingLeft`, `KnownArePlugged` |
| `dump_stuck` | 2 displays, dumps of up to 2 frames | `TriggerReturns` fails: finding 3 |
| `fb_cache` | 2 displays of different types, 3 framebuffers, 2 buffers, 1 layer, a cache of 1 | `TypeOK`, `OnScreenKept`, `Listed`, `OrphansMarked`, `StopIsSeen`, `ContractKept` (the refinement) |
| `mpp` | p stays on, e goes on and off; 2 destinations, 3 buffers, at most 2 jobs (`MaxJobs`); composing for p and commits of e may fail | `TypeOK`, `DestinationReleased`, `ShownIsCurrent`, `RingOwned` |
| `mpp`, the assignment | 4 layers of 7 kinds; 3 overlays, a scaler of the G2D, a blender for 3 layers, 2 windows | `AssignmentTypeOK`, `BlocksExclusive`, `EveryLayerShown`, `InOrder`, `WindowsFit`, `RetriesEnd` |
| `blender_range` | 5 layers: two videos between one that the client has to compose and two for the blender; 4 overlays and windows | `RangeComposed` fails: finding 4 |
| `config` | 3 configurations of 2 resolutions, each with a low power mode; 6 blobs; the driver may refuse all but `time` | `TypeOK`, `BlobsOwned`, `ResolutionAgrees`, `ConfirmationPossible`, `PostponedTakenUp`, `Settles` |

Bounds and why they are enough. The protocol compares "this display" with "all the others", so
two displays in a frame show every interplay of first and last; `frame_quiet` has a third, of the
same kind as another, to have displays that are neither. No counter but the start frames grows;
two of them tell the first, a middle and the last apart. The client takes notice of a hotplug event before the
cable changes again. A dump of three frames has a first, a middle and a last one. With two posts the timer's thread has one left to take
after it has answered the first, which wakes it for nothing; the theorems hold for any number. Runs differ in
`MidRefresh`, `MayFail` and modes because all of them at once are beyond TLC; the theorems
below do not have these limits. In `fb_cache` a cache of one overflows with the second framebuffer, and the
third is one to create while the others are on a screen and on a cleanup list. In `mpp` two destinations are the fewest
for which "the current" and "the previous" differ, and the third buffer is one that replaces another; `e` has
two pictures, to tell a stale one. For the assignment, four layers let a composition nest in
another with a layer at each side, and two windows are used up by one layer and one composition; three overlays leave one that is free
then. A stack has at most one layer of the kinds video (opaque or not) and refused by `validateLayer()`, and then no cursor
(`SmallStacks`); any number of DRM layers. `Word` is 16 in place of 2^32, more than any count it can reach unless it wraps; `MaxTries` is 16 in place
of `ASSIGN_RESOURCE_TRY_COUNT` = 100: fewer tries are enough for four layers, and with 14 `RetriesEnd` fails. The
number grows with the layers; that 100 are enough for the most layers of a display is not shown. In `config`, `fast` and `slow` share a resolution and `small` does
not, so that a change is seamless or not; four blobs can be owned at once, the fifth is the new one, and the
sixth one that a test loses. `LoseBlob` loses none that would leave fewer than five: how a driver without blobs behaves is
not modelled. A second lost blob differs from the first in nothing but the count.

Two clients in `dump` are one that goes and one that comes, and a handle is free again when the device has
no layer of it; the theorems hold for any number of both.

`fb_cache` and `mpp` are symmetric in framebuffers, buffers, overlay blocks, and the pictures of `e`, none of which is compared other than for equality;
neither checks liveness. `config` has a VIEW, `ToldApart`, that drops what no step and no property tells apart: the
ids of blobs, which are only compared, what is in a blob that waits to be destroyed, `later`, `pendType` and `period` where the
next write precedes the next read, and the lost blob while the display is not off. For the last it is enough that a
lost blob is only ever counted by the bound: the states that are dropped go on like those in which it is not lost yet.

What the narrow instances leave out is stated here, since some properties do fail beyond them:
`PanelAssigned` and `PanelFresh` fail with a display that is switched off and on again before the others present (its
present flag stays set, and the last present clears the geometry change of the power on, against the comment at `device/ExynosDevice.cpp:1045`), with late layer changes
(finding 1) and with failing validates or presents, whose geometry flag the last present of
another display clears; `PanelAssigned` also when a primary display goes from off to doze.
`VirtualYields` fails as soon as a frame of the virtual display is left unfinished (finding 2), by a
hotplug inside a refresh, by a failed validate or present, or by a suspended display.
`StartFramesHidden` fails when an external display is powered or plugged inside a refresh, when it is powered off
between refreshes, and with failures: a present that no validate precedes, or one that a validate of before the plug precedes, does not skip. `disable()` then leaves that frame
on the panel, so `OffIsBlank` fails where `StartFramesHidden` has failed before, and only there (theorem `OffAreBlank`);
`frame_failures` has no start frames. That a connected
external display is open does not hold when the driver refuses to open it.
`OnScreenKept` fails when two displays share a type (a second primary display has the type of the first in
`src/exynos2100/libhwc2.1/ExynosHWCModule.h:252`), since the stamp of the last commit is kept by type; the same sharing breaks
`DestinationReleased`. `DestinationReleased` also fails when layers change inside a frame (`LateChange`),
for the reason of finding 1. `ShownIsCurrent` leaves out frames after one that was composed and not shown: the reused
picture may then be of the frame before. `WindowsFit` leaves out passes that have
subtracted a window they had not counted, for a layer that is `HWC2_COMPOSITION_DEVICE` since an earlier pass
(`display/ExynosDisplay.cpp:4114`, `:4276`): the display may then get more windows than it has. `EveryLayerShown` leaves out the fallback
for which no overlay block is left, whose error `validateAllDisplays()` ignores, and the window of a blender whose range ends
in a layer of high priority (finding 4), and `InOrder` the layers of such a blender, which with another layer below them
lie nowhere above it; it takes five layers to get there, so `blender_range` has five and `mpp` does not. `Settles` leaves out a request whose mode the interface
takes for set because an earlier one still waits there (`Misled`).

Some of what the driver refuses does break a property, and the properties of `config` say which. A refused switch to another
resolution is not told: `setActiveConfigInternal()` sets `mActiveConfig`, `mXres` and `mYres` while the panel keeps its mode
(`display/ExynosDisplayDrmInterface.cpp:828-833`, `display/ExynosDisplay.cpp:3408-3427`), so that frames are composed for a resolution the panel does
not have until a mode is set for a configuration. `ResolutionAgrees` excuses just that (`refused`); without the excuse it fails within one
request. Leaving a low power mode may be refused too: then the display is on and the panel keeps the low power mode, of the
right resolution. A test whose properties cannot be set loses the blob made for it, for good (`:677-681`, where `:717`, `:726` and
`:684` hand it to `addOldBlob()`); `BlobsOwned` keeps these apart (`lost`) and demands an owner for all others. `PostponedTakenUp` fails
when the time of the next vsync cannot be read at power on (`display/ExynosDisplay.cpp:3326`): `setPowerOn()` does not look
at the result and forgets the request. So `time` is not in the `MayFail` of the run, and the theorem assumes it away; all other properties hold with
it, in TLC and in the theorems.
That a framebuffer on the cleanup list is always released (`CleanupReleased`) does not hold: a signal sent while the
removing thread is between its loop's end and its wait is lost until the next one.

`NothingLeft` assumes that a client empties the virtual display before it destroys it (`EmptiesFirst`): the HAL's
`destroyVirtualDisplay()` (`src/base/hwc3/impl/HalImpl.cpp:245`) leaves the layers in the device, unlike the HWC2 entry point
(`ExynosHWC.cpp:237`), and without the assumption they stay there.

`TimerAnswers` is about screens whose last frame was presented to its end: after a frame that was only preprocessed the mode
may have gone back to the device, and no reset starts the timer again until the next present.

CHECK_DEADLOCK is off where the system may stop: in `dump` after finding 3's deadlock no step but a new request is left, and
not even that changes the state in the end; in `fb_cache` after the destructor.

Findings, each with its counterexample run:

1. A change of layers after the first validate of a frame is composed with the assignment that
   precedes it, against the comment at `device/ExynosDevice.cpp:1672`.
2. The virtual display shows a frame although the external one is plugged, against
   `virtualdisplay/ExynosVirtualDisplay.h:230`, when its previous frame was not finished.
3. `triggerDumpFrame` waits, with the mutex held, for a thread that needs the mutex.
4. The range of the blender ends in a layer that has a window of its own, so that the composition gets no window and its
   present fails, against the check of `validateExynosCompositionLayer()` (`display/ExynosDisplay.cpp:876`): of two layers of
   high priority at the end of the range, only the upper one is taken off it (`:4391`).

Fairness. `DeviceFrame` states safety only and has none. `LayerDump` assumes weak fairness of
the client's thread and of each dump thread (`FairSpec`): the scheduler runs every thread, no
step of them waits for anything but what its guard says, and the service invalidates the display
with each request so that refreshes go on. A request of the service, and the outcome of a fence, are never
assumed. A fence that times out for ever is allowed: the liveness property that holds concerns
dumps that do not wait for the thread. `DisplayConfig` assumes, while the configuration `Watched` is awaited, weak fairness of `Present(TRUE)` (the client draws until its
request is confirmed, and the driver does not refuse every frame or what a request needs), of `TimeComes` (time passes) and of `VsyncConfirms` (an
enabled vsync with the period of the panel's mode arrives); of other requests it assumes nothing. `Recomposition` assumes weak fairness of the timer's thread
and of the two ends of an interval (`RecompositionFairness`), and nothing of the caller: it may stop drawing at any time.
`MCThreads` assumes of each behaviour what the machine that moves in it assumes.

## 4. Theorems

`DeviceFrame_proofs` proves, for any sets of displays and any parameters that `KindAssumption` (a
display has one kind) and `ParamAssumption` (parameters are of their types) allow:

| theorem | statement |
|---|---|
| `Typing` | `Spec => []TypeOK` |
| `FramesOnlyOnActiveDisplays` | `Spec => ShowsOnlyWhenActive` |
| `PrimariesOffAreBlank` | `Spec => []PrimaryOffIsBlank` |
| `HandshakeIsHonoured` | `OneByOne => (Spec => []HandshakeHonoured)` |
| `OffAreBlank`, `OffAreBlankWithoutStartFrames` | `Spec /\ StartFramesHidden => []OffIsBlank`, `ExtStart = 0 => (Spec => []OffIsBlank)` |
| `QuietPanelsAssigned`, `QuietPanelsFresh`, `QuietGeometryKept` | `Quiet => (Spec => []PanelAssigned)`, `[]PanelFresh`, `[]NoLostGeometry` |
| `QuietStartFramesHidden`, `QuietOffAreBlank` | `Quiet => (Spec => StartFramesHidden)`, `Quiet => (Spec => []OffIsBlank)` |

The argument follows the code's layers. A lemma for each operator on one display says what it
keeps: most keep what is shown and what decides whether something may be shown (`SameSwitches`),
some blank the display (`NothingNew`). From them follow lemmas about the calls
(`ValidateDisplayFacts`, `PresentDisplayFacts`, `SetPowerModeFacts`), then one lemma for each group
of actions, that the step keeps the types and is a `PanelStep` of every display: it shows something new only
if the display may show it, and a primary display that goes off goes blank. `StepFacts`
combines them. `TypeOK` is inductive by itself.

`HandshakeHonoured` is not inductive: the accept and present of a display look at flags that other
calls write. The invariant `HandshakeInv` adds, for each phase of the client, what the flags of the
display are then: validated or accepted, and with no skip of the present that would ask for a
validate. With `OneByOne` no call for another display falls between a display's validate and its present, and what the event thread does there
is shown to keep these flags. Without `OneByOne` the property does not hold: the validate of
another display may start a new validation of all. The runs check it without a virtual display; the theorem covers them too.

`OffIsBlank` needs to know what `disable()` relies on: an external display that still skips its start frames has nothing on its panel, so
need not be cleared. `ExternalBlank` adds this and the same of a display whose cable is out, and is part of `PanelStep`. With
`ExtStart = 0` nothing is skipped, and the theorem holds for any races and failures.

`Quiet` is the hypothesis of `frame_quiet`: no virtual display, events only between refreshes, nothing fails, displays are
switched on and not off. Primary and external displays, the modes the driver offers, start frames, the layer operations and the order of the displays in a refresh
(`OneByOne` or not) are free; without any of the restrictions TLC shows that one of the properties fails (section 3). What is proved there is that the frame
protocol, undisturbed, does its work for any number of displays. `QuietInv` says how: the displays the loops look at
(`Lit`) are those the client composes (`Known`), and they are validated together (`Uniform`); one that is validated has a fresh assignment or skips the frame, and one
that is not has a fresh assignment or the geometry flag is set (`Assigned`); a display has presented when the client is done with it, and the flags are
cleared with the last one (`Progress`), so that a layer changes only when no display is between its validate and its present.
TLC found no violation of `QuietInv` with three displays before it was proved. One lemma for each action shows that it is kept, and of a present what is then shown.

`FramebufferCache_proofs`, for any framebuffers, buffers, layers, displays and limits that `DisplayTypes` allows:

| theorem | statement |
|---|---|
| `TypeCorrect`, `EachInOneList`, `RemovalsRemembered`, `DestructorEnds` | `Spec => []TypeOK`, `[]Listed`, `[]OrphansMarked`, `[]StopIsSeen` |
| `ScreenKept` | `OneDisplayPerType => (Spec => []OnScreenKept)` |
| `ContractIsKept` | `OneDisplayPerType => (Spec => ContractKept)` |

`OneDisplayPerType` says that `TypeOf` is injective, without which the last two fail. The invariant has three parts. `Base` says where the client may be with
which frame, that stamps are on framebuffers of the lists, and that a removing thread that waits has not been told to stop.
`Listed` partitions the framebuffers of the driver. `ScreensOK` is the heart: what a display
scans out is stamped with its type, or is a colour framebuffer that it keeps until the next flip; between a
commit and its flip it is the frame just committed. From that and `CanRemove` no step of either thread removes it. The refinement
takes this invariant and shows of each action the step of the contract that it is.

`PostProcessor_proofs`, for any displays, pictures, buffers and `NumDst` that `DestinationRing` allows, any displays switched on and off and any
step that may fail:

| theorem | statement |
|---|---|
| `TypeCorrect`, `RingKept` | `Spec => []TypeOK`, `[]RingOwned` |
| `ReleasesSuffice`, `PicturesAreCurrent` | `FencesSuffice => (Spec => []DestinationReleased)`, `(Spec => []ShownIsCurrent)` |

`FencesSuffice` is what the release fences rest on: more than one destination (`NUM_MPP_DST_BUFS` is 3, `resources/ExynosMPP.h:49`), layers that do not
change within a frame (the opposite is finding 1) and a type of its own for each display. `RingOwned` needs only the types, and that the
allocator hands out no buffer in use. `DestinationReleased` is far from inductive: it speaks of a job that may start, and what makes it safe was done one or
two frames before, by the present that stored a fence for the slot it is going to leave. `RingInv` adds, for each display, that the ring holds nothing of it (`Clean`), or
that it has the post-processor or lost it in this frame, and then the one buffer it shows, or commits, is in the slot `mPrivDstBuf` (`ShownInPriv`) and the
current slot may be written once its fence signals (`Ready`); and for each queued job, that it waits for the commit that replaces the buffer it writes, which is under
way (`Waits`). `ShownIsCurrent` then follows with `CurrentInv`: what each buffer will hold once the queued jobs are done (`Content`) is, for a
commit under way, its picture, and for the slot shown last, the picture `canUsePrevFrame()` compares with (`Composed`). TLC found no violation of these
invariants with both displays switched on and off and 2 or 3 destinations before they were proved. `NothingIsNone` only says
that `None` is no picture and no commit.

`DisplayConfig_proofs`, for any modes and blobs that `ModeAssumption`, `BlobAssumption` and `FailAssumption` allow:

| theorem | statement |
|---|---|
| `TypeCorrect`, `BlobsKept`, `ResolutionsAgree`, `VsyncsGoOn` | `Spec => []TypeOK`, `[]BlobsOwned`, `[]ResolutionAgrees`, `[]ConfirmationPossible` |
| `PostponedIsTakenUp` | `Spec => PostponedTakenUp`, if `"time" \notin MayFail` |

They hold for any `MayFail`: what is refused appears in the properties themselves (`refused`, `lost`).

The invariant is `Good(dpy) /\ Postponed(dpy)`, predicates on a record: types and ownership of blobs with the panel's
resolution (`Interface`), the blobs that are left (`Spare`), the sizes of what is active, desired and about to be set (`Sizes`), vsyncs while a request waits
(`Confirmable`), and what a postponed request has left in the other fields (`Postponed`). Each operator on records
has a lemma that every record it may leave keeps them, so that an action is a chain of lemmas. A new blob is there because more
than four are not lost (`PlentyLeft`, by counting).

`Recomposition_proofs`, for any `MaxPosts`: `RecompositionTyping` (`RecompositionTypeOK`), `SignalsAreKept` (`NoLostSignal`) and
`SpecialLayersByDevice` (`SpecialByDevice`). The invariant adds when a thread runs and is told to stop (`Lifecycle`); that
`mWaiting` is set only where the thread tests the flags before it sleeps, which is why `reset()` may leave its post out (`Signals`); and that a decision on old
layers can be under way only while their change is still to go through a frame (`Special`).

`LayerDump_proofs`, for any displays and any count that `CountAssumption` allows: `DumpTyping` (`TypeOK`) and
`EarlierFramesAreWritten` (`EarlierFramesWritten`). The invariant adds, for each display, that a dump never goes past its last frame
(`Progress`); that its thread is joined before the next dump starts one (`OneThread`); and that a frame that is done, or that the index
has passed, is in its buffer until the buffers are freed (`Copied`). The last part needs the other two: without them a thread of an
earlier dump could mark a frame of the next one.

`ComposerService_proofs`, for any clients, handles and external displays that `ScreenAssumption` allows:

| theorem | statement |
|---|---|
| `ServiceTyping`, `ClientsAreApart`, `KnownOnesArePlugged` | `ServiceSpec => []ServiceTypeOK`, `[]ClientsApart`, `[]KnownArePlugged` |
| `NothingIsLeft` | `EmptiesFirst => (ServiceSpec => []NothingLeft)` |

The first invariant, `ServiceInv`, says what each phase of a client means for the rest (`AliveIsLiving`: `mClientAlive` is set
as long as one lives; `Bound`: to whom the callback is bound and when displays are known at all) and, for each external display, that the
client knows of it only what the event thread has told or is about to (`InTime`). `OwnedInv` adds who answers for a
layer of the device: the resource manager tracks it, or the call under way does, or the display has been plugged anew or unplugged so that nothing can
show it (`Owned`). Without it `NothingLeft` is not inductive, since a hotplug between the two halves of a call makes the resource manager
forget a layer that is on its way to it. TLC checked both with 2 clients, 2 handles and 2 external displays before they were proved.

`LayerAssignment_proofs`, for any number of layers, any stacks, blocks, windows and tries that `AssignmentAssumption` allows:

| theorem | statement |
|---|---|
| `AssignmentTypeHolds`, `BlocksStayExclusive` | `AssignmentSpec => []AssignmentTypeOK`, `[]BlocksExclusive` |
| `LayersAreShown`, `WindowsKeepOrder` | `AssignmentSpec => []EveryLayerShown`, `[]InOrder` |
| `WindowsAreEnough` | `MaxWindow >= 1` proves `AssignmentSpec => []WindowsFit` |

`WindowsAreEnough` needs a display that has a window at all: with none, the fallback to the client would still take one. The code has
`mMaxWindowNum` 0 only for virtual displays that do not use the DPU (`virtualdisplay/ExynosVirtualDisplay.cpp:65`,
`src/exynos3830/libhwc2.1/virtualdisplay/ExynosVirtualDisplayModule.cpp:30`), and those are outside this model.

`BlocksExclusive` depends on what a layer has when it is given a block: `assignMPP()` does not ask whether it has one already:
a layer that gets a second post-processor stays among the sources of the first. So the invariant, `Assignable`, says of each place in `assignResource()` (`Stage`) what the types of the layers and the
ranges of the compositions are there. The blender composes only layers of its type and the range of the client holds only its layers and
those of high priority (`Sound`), and both have all of theirs (`Composed`, `Ranged`); the range of the blender has no gap, except that it may end in one layer it does not
compose (`Solid`, with `AtEnd` for what finding 4 shows); a post-processor belongs to a layer that has a block of its own (`Scaled`), and a layer that the loops
have yet to look at has none (`Waited`). While a range is looked through, given up or shortened, `Taken`, `GivingUp`, `Lower` and `Upper` say how
far the loop is. A lemma for each operator on plans says what it keeps, a lemma for each action that it leaves a plan and a place that are `Good`,
and `Carried` that nothing else counts. The ends of a range after `Trimmed` and `Unnested` (`TrimmedIs`, `UnnestedIs`) are where
most of the cases are. TLC found no violation of `Assignable` with four layers, nor with the five of finding 4, before it was proved, and several of
its earlier forms were refuted there.

`Assignable` says what a source may have, not that it has it, so the last three theorems need a second invariant, `Complete`, beside it:

* *Blocks.* No layer that `assignLayers()` has looked at is without a composition, and those that are to be shown by themselves have a
  block that has been counted (`Looked`, `Served`); so have the targets of the compositions from the point where the pass assigns
  them (`Targeted`, `Resulted`). A composition that begins has no block for its target and one that ends was given one for nothing: both make the pass start
  over, where `Looked` says nothing yet.
* *Windows.* Unless a layer was taken off the counter that the pass had not counted, `mWindowNumUsed` is at least the number of sources it was
  raised for, and at most `MaxWindow` (`Enough`). `updateExynosComposition()` gives the window of the blender to a layer without counting that one,
  so from there on the sources that have a window are compared with it (`Used`, `Fits`), whichever they are.
* *Ranges.* In the range of the client only opaque layers of high priority keep a window, above its first layer (`Clear`); the blender has all
  layers of its range, but for a last one of high priority under another one (`Held`, `CutShort`); the range of the client ends
  with a layer of its own (`Final`), and so does the place of its window.
* *Numbers.* The window of a source counts the sources that have theirs below it (`Windowed`), which makes `InOrder` a matter of the
  places alone (`WindowIs`).

After an error all layers are the client's (`AllClient`). TLC found no violation of `Complete` with four layers and with six,
on 800 000 and 870 000 states, before it was proved.

Model-checked only: `VirtualYields`, which holds in the narrow instance of `frame_virtual` alone, and `RetriesEnd`, which is a
matter of the instance: it compares the number of passes, which grows with the layers, with `MaxTries`, a constant of the code. The liveness properties `ShortDumpCompletes`, `TimerAnswers`
and `Settles` rest on fairness and are out of the prover's reach.

## 5. Plan

Done: the frame protocol, the layer dump, the framebuffer cache with its contract and refinement, the
post-processor's buffers, the configurations, the assignment of resources to the layers, and dynamic recomposition with its timer, and the clients of the composer service. Next, in this order, each a module that can be
proved about (no RECURSIVE, constants with named assumptions):

1. The frames of a composer client: the must-validate flag and the refresh request of `hwc3`, above an abstract frame contract
   (validate, accept, present of each display) that `DeviceFrame` implements under a refinement mapping.
   Liveness: a requested validate happens; frames end under a fair client.
2. The device threads: panel reset, DPU crash.
3. The pre-assignment of blocks to displays (`preAssignResources`, `preAssignWindows`): a block promised to one
   display is not given to another.

Theorems after these: the refinement of item 1; and for `RetriesEnd` a bound on the passes for a given number of layers, from a
measure that each retry lowers (a composition that there is, metadata that is left, layers that are not yet the client's).

## 6. Not modelled

* What a hardware block supports and its capacity, and which blocks and windows each display may use: chosen, or parameters of the instance.
* Fences, buffers and colour data of a frame, beyond those of a post-processor.
* The client target, readback, HDR and performance information.
* The FB interface, kernel objects, the properties of planes, per-SoC tables, and the libraries beside the composer (acryl, scalers, JPEG,
  ion, memtrack, sbwc, repeater, tsmux): wrappers of ioctls or separate processes.
* `handlePanelReset` and `resetForDestroyClient`, which change displays outside the device mutex: planned. (What the
  latter does to the configuration is in `DisplayConfig`, as one step.)
