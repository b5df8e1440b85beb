------------------------------ MODULE DeviceFrame ------------------------------
(***************************************************************************)
(* The frame protocol of the hardware composer (base/libhwc2.1).           *)
(*                                                                         *)
(* ExynosDevice owns up to three kinds of display and composes them as one *)
(* frame: the first validateDisplay() of a frame validates and assigns     *)
(* hardware resources for all displays, the last presentDisplay() finishes *)
(* the frame.  The device mutex mMutex makes every entry point of this     *)
(* module one atomic step; what interleaves are the entry points of the    *)
(* client (SurfaceFlinger through the hwc3 command engine), of the hotplug *)
(* event thread and of the WFD service.                                    *)
(***************************************************************************)
EXTENDS Naturals, FiniteSets

CONSTANTS
    Primaries, Externals, Virtuals,   \* the displays of each type
    PrimaryModes,   \* power modes the client asks of a primary display
    ExternalModes,  \* and of an external one
    ExtStart,       \* SKIP_EXTERNAL_FRAME: frames skipped after a plug
    VirtStart,      \* SKIP_FRAME_COUNT_FOR_*_INTERFACE: same for a virtual one
    Setters,        \* which layer setters the client uses
    OneByOne,       \* the client finishes one display before the next
    MidRefresh,     \* what may happen while a refresh is in progress
    UseDpu,         \* mUseDpu of the virtual displays
    Drm,            \* the display interface is INTERFACE_TYPE_DRM
    MayFail         \* what may fail: resource assignment, the commit or the
                    \* fence check, the driver's power and vsync calls

Display == Primaries \cup Externals \cup Virtuals

ASSUME KindAssumption ==
    /\ Primaries \cap Externals = {}
    /\ Primaries \cap Virtuals = {}
    /\ Externals \cap Virtuals = {}

ASSUME ParamAssumption ==
    /\ ExtStart \in Nat
    /\ VirtStart \in Nat
    /\ PrimaryModes \subseteq {"on", "off", "doze", "suspend"}
    /\ ExternalModes \subseteq {"on", "off"}
    /\ Setters \subseteq {"displayFrame", "other"}
    /\ MidRefresh \subseteq {"layer", "power", "hotplug"}
    /\ MayFail \subseteq {"assign", "present", "driver"}
    /\ {OneByOne, UseDpu, Drm} \subseteq BOOLEAN

VARIABLES
    disp,     \* the ExynosDisplay objects
    geo,      \* mGeometryChanged of the device is not 0
    phase,    \* where the client is with each display in this refresh
    client,   \* what the client believes of the display
    hotplug   \* where the event thread is with a plug or unplug event

vars == <<disp, geo, phase, client, hotplug>>

RenderingState == {"none", "validated", "accepted", "presented"}
PowerMode == {"on", "off", "doze", "suspend"}

(***************************************************************************)
(* asg is the state of the resource assignment of the display's layers:    *)
(* "none" when reset and not redone, "stale" when a layer changed since,   *)
(* "fresh" otherwise.  panel is what the hardware scans out: "blank" or    *)
(* the state the assignment had when the frame was committed.  hrs says    *)
(* that mHWCRenderingState is VALIDATED, all that the code asks of it.     *)
(***************************************************************************)
DisplayState == [
    plug : BOOLEAN, hpd : BOOLEAN, power : PowerMode, enabled : BOOLEAN,
    rs : RenderingState, hrs : BOOLEAN,
    vflag : BOOLEAN, pflag : BOOLEAN,
    skipPresent : BOOLEAN, skipVP : BOOLEAN, skipFrame : BOOLEAN,
    startLeft : Nat, layers : BOOLEAN,
    wfd : BOOLEAN, extPlug : BOOLEAN, firstShown : BOOLEAN,
    asg : {"none", "stale", "fresh"},
    panel : {"blank", "none", "stale", "fresh"} ]

Phase == {"idle", "todo", "mustValidate", "validated", "accepted", "rejected"}
InFlight == {"mustValidate", "validated", "accepted"}

\* "told": the callback was called, the client has not acted on it yet
HotplugState == {"idle", "plugged", "unplugged", "told"}

TypeOK ==
    /\ disp \in [Display -> DisplayState]
    /\ geo \in BOOLEAN
    /\ phase \in [Display -> Phase]
    /\ client \in [Display -> {"absent", "off", "on"}]
    /\ hotplug \in [Externals -> HotplugState]

-----------------------------------------------------------------------------
(***************************************************************************)
(* Predicates of a display                                                 *)
(***************************************************************************)

\* The test that every loop over the displays starts with: powered off
\* (a virtual display is never counted as such) or unplugged.
Inactive(d, r) == (d \notin Virtuals /\ r.power = "off") \/ ~r.plug

\* Variant: the power mode is not looked at.
SuspendedIgnoringPower(r) == ~r.plug

\* isFrameSkipPowerState() or unplugged
Suspended(r) == ~r.plug \/ r.power \in {"off", "suspend"}

IsFirstValidate(D) == \A x \in Display : Inactive(x, D[x]) \/ ~D[x].vflag

IsLastPresent(d, D) ==
    \A x \in Display \ {d} : Inactive(x, D[x]) \/ D[x].pflag

FlagsCleared(D) == \A x \in Display : ~D[x].vflag /\ ~D[x].pflag

\* Variant: the DPU is not shared with an external display.
CheckSkipFrameSharing(r) == ~r.layers \/ r.startLeft > 0 \/ ~r.wfd

\* ExynosVirtualDisplay::checkSkipFrame
CheckSkipFrame(r) == ~r.layers \/ r.startLeft > 0 \/ ~r.wfd \/ r.extPlug

DisplayCanSkipValidate(d, r) ==
    /\ r.rs # "none"
    /\ d \in Externals =>
         /\ r.hpd
         /\ r.startLeft = 0
         /\ ~r.skipFrame
         /\ r.power = "on" => r.enabled
    /\ d \in Virtuals => ~CheckSkipFrame(r) /\ r.firstShown

\* What canSkipValidate() finds in the layers' content: "composed" when a layer
\* is client composed, a static layer changed or a request is pending,
\* "changed" when doPreProcessing() sets a geometry flag.
Content == {"same", "composed", "changed"}

\* Variant: a geometry change does not require a validate.
CanSkipValidateAnyGeometry(D, g, content) ==
    /\ content = "same"
    /\ \A x \in Display : D[x].plug => DisplayCanSkipValidate(x, D[x])

CanSkipValidate(D, g, content) ==
    /\ ~g
    /\ content = "same"
    /\ \A x \in Display : D[x].plug => DisplayCanSkipValidate(x, D[x])

-----------------------------------------------------------------------------
(***************************************************************************)
(* The end of a frame                                                      *)
(***************************************************************************)

ClearRenderingStateFlags(D) ==
    [x \in Display |->
        [D[x] EXCEPT !.vflag = FALSE, !.pflag = FALSE]]

\* setGeometryFlagForNextFrame: GEOMETRY_DISPLAY_FRAME_SKIPPED
SkippedThisFrame(D) ==
    \E x \in Display : /\ ~Inactive(x, D[x])
                       /\ D[x].skipFrame \/ D[x].skipPresent \/ D[x].skipVP

\* Variant: skipped displays are forgotten with the frame.
FinishFrameForgetful(D) == [disp |-> ClearRenderingStateFlags(D), geo |-> FALSE]

FinishFrame(D) ==
    [disp |-> ClearRenderingStateFlags(D), geo |-> SkippedThisFrame(D)]

\* handlePresentError(): the display is cleared; clearDisplay() of a virtual
\* display does nothing.
HandlePresentError(d, r) == IF d \in Virtuals THEN r ELSE [r EXCEPT !.panel = "blank"]

\* setPresentState(), then finishFrame() if every active display has presented.
\* With fenceFails validateFences() reports a leak: handlePresentError() clears
\* the display and the error is noted in the geometry before the frame ends.
PresentPostProcessing(D, g, d, fenceFails) ==
    LET r == [D[d] EXCEPT !.rs = "presented", !.pflag = TRUE]
        P == [D EXCEPT ![d] = IF fenceFails THEN HandlePresentError(d, r) ELSE r]
    IN  IF IsLastPresent(d, P) THEN FinishFrame(P)
        ELSE [disp |-> P, geo |-> g \/ fenceFails]

-----------------------------------------------------------------------------
(***************************************************************************)
(* validateDisplay                                                         *)
(***************************************************************************)

\* initDisplay() forgets the composition information of the last frame.
InitDisplay(r) == [r EXCEPT !.rs = "none", !.asg = "none"]

PreProcessExternal(r) ==
    LET i == IF r.startLeft > 0 THEN InitDisplay(r) ELSE r
    IN  [i EXCEPT !.skipPresent = FALSE, !.skipFrame = r.startLeft > 0]

PreProcess(d, r) ==
    LET n == [r EXCEPT !.skipVP = FALSE]
    IN  IF d \in Externals THEN PreProcessExternal(n)
        ELSE IF d \in Virtuals THEN [n EXCEPT !.skipFrame = FALSE]
        ELSE n

\* GEOMETRY_DEVICE_DISPLAY_ADDED and GEOMETRY_DISPLAY_FRAME_SKIPPED are set by
\* preProcessValidate() while start frames are left.
PreProcessGeometry(d, r) == d \notin Primaries /\ r.startLeft > 0

\* assignResource()
Assign(r) == [r EXCEPT !.asg = "fresh"]

\* Variant: the count of start frames is not checked.
PostProcessUnbounded(d, r) ==
    IF d \in Externals
    THEN [InitDisplay(r) EXCEPT !.rs = "validated", !.startLeft = r.startLeft - 1]
    ELSE r

PostProcess(d, r) ==
    IF d \in Externals /\ r.startLeft > 0
    THEN [InitDisplay(r) EXCEPT !.rs = "validated", !.startLeft = r.startLeft - 1]
    ELSE IF d \in Virtuals
    THEN IF CheckSkipFrame(r)
         THEN [r EXCEPT !.skipFrame = TRUE, !.asg = "none",
                        !.startLeft = IF r.startLeft > 0 THEN r.startLeft - 1 ELSE 0]
         ELSE [r EXCEPT !.firstShown = TRUE]
    ELSE r

\* Variant: the rendering state is not set.
SetValidateStateFlagOnly(r) == [r EXCEPT !.vflag = TRUE, !.skipPresent = FALSE]

SetValidateState(r) ==
    [r EXCEPT !.rs = "validated", !.vflag = TRUE, !.skipPresent = FALSE]

SkipInValidateAll(D, d, first) ==
    /\ d # first
    /\ Inactive(d, D[d]) \/ (D[d].skipPresent /\ D[d].pflag)

\* The loops go over the displays from the last to the first.
Rank(d) == IF d \in Primaries THEN 0 ELSE IF d \in Externals THEN 1 ELSE 2

\* Variant: a display whose assignment fails is left out of the frame.
ValidateOneGivingUp(d, r, g, fail) ==
    IF fail # "none" THEN Assign(r) ELSE SetValidateState(PostProcess(d, r))

\* One display of the validation loop: resources are assigned when g, a geometry
\* flag, is set and the display does not skip the frame.  A failing step leaves
\* the display client composed, which is an assignment of its layers too.
ValidateOne(d, r, g, fail) ==
    LET a == IF g /\ ~r.skipFrame THEN Assign(r) ELSE r
    IN  SetValidateState(
          CASE fail = "none" -> PostProcess(d, a)
            [] fail = "assign" -> Assign(a)
            [] fail = "post" -> Assign(PostProcess(d, a)))

\* changed: doPreProcessing() or checkExceptionScenario() sets a geometry flag;
\* prepareFails: prepareResources() returns an error and nothing is validated;
\* failed says which step returns an error for a display, which then falls back
\* to client composition and sets a geometry flag the next displays see.
ValidateAllDisplays(D, g, first, changed, prepareFails, failed) ==
    LET Todo == {x \in Display : ~SkipInValidateAll(D, x, first)}
        P == [x \in Display |-> IF x \in Todo THEN PreProcess(x, D[x]) ELSE D[x]]
        gp == g \/ changed \/ \E x \in Todo : PreProcessGeometry(x, D[x])
        R == IF gp THEN [x \in Display |-> [P[x] EXCEPT !.asg = "none"]] ELSE P
        \* skip_display() is evaluated again: skipPresent of an external
        \* display in Todo was cleared, which keeps it in Todo.
        \* a failure sets a geometry flag the next displays see
        flagged(x) == gp \/ \E y \in Todo : Rank(y) > Rank(x) /\ failed[y] # "none"
    IN  IF gp /\ prepareFails
        THEN [disp |-> R, geo |-> TRUE, ret |-> "ERROR"]
        ELSE [disp |-> [x \in Display |-> 
                        IF x \in Todo THEN ValidateOne(x, R[x], flagged(x), failed[x])
                        ELSE R[x]],
              geo |-> gp \/ \E x \in Todo : failed[x] # "none",
              ret |-> "NONE"]

\* Variant: the state that a rejected present lost is not restored.
AlreadyValidatedUnrestored(r) == [r EXCEPT !.skipVP = ~r.vflag, !.hrs = TRUE]

\* A display of a frame whose displays are all validated: its state is restored,
\* as a present may have been rejected in between.  One that was not there then
\* waits for the next frame.
AlreadyValidated(r) ==
    SetValidateState([r EXCEPT !.skipVP = ~r.vflag, !.hrs = TRUE])

ValidateDisplay(D, g, d, changed, prepareFails, failed) ==
    IF Suspended(D[d])
    THEN [disp |-> [D EXCEPT ![d].skipVP = TRUE, ![d].rs = "validated",
                             ![d].vflag = FALSE, ![d].hrs = TRUE],
          geo |-> g, ret |-> "NONE"]
    ELSE IF IsFirstValidate(D)
    THEN LET v == ValidateAllDisplays(D, g, d, changed, prepareFails, failed)
         IN  [v EXCEPT !.disp[d].hrs = TRUE]
    ELSE [disp |-> [D EXCEPT ![d] = AlreadyValidated(@)], geo |-> g, ret |-> "NONE"]

-----------------------------------------------------------------------------
(***************************************************************************)
(* acceptDisplayChanges and presentDisplay                                 *)
(***************************************************************************)

AcceptDisplayChanges(r) ==
    IF r.rs = "validated" THEN [r EXCEPT !.rs = "accepted", !.hrs = FALSE] ELSE r

\* Variant: start and mirror frames are committed like others.
DisplayPresentUnskipped(d, r) ==
    IF d \in Externals /\ ~r.hpd THEN InitDisplay(r) ELSE [r EXCEPT !.panel = r.asg]

\* presentDisplay() of the display object: an external display that skips its
\* start frames only closes fences and re-initialises, a virtual one starts
\* the next frame; without layers a physical display is cleared; otherwise
\* deliverWinConfigData() shows the frame.
DisplayPresent(d, r) ==
    IF d \in Externals /\ (r.skipFrame \/ ~r.hpd) THEN InitDisplay(r)
    ELSE IF d \in Virtuals /\ r.skipFrame THEN [r EXCEPT !.skipFrame = FALSE]
    ELSE IF ~r.layers /\ d \notin Virtuals THEN [r EXCEPT !.panel = "blank"]
    ELSE [r EXCEPT !.panel = r.asg]

Committing(d, r) ==
    /\ r.layers \/ d \in Virtuals
    /\ ~(d \in Externals /\ ~r.hpd)
    /\ ~(d \notin Primaries /\ r.skipFrame)

ForceSkipPresent(D, g, d) ==
    [disp |-> [D EXCEPT ![d].rs = "presented", ![d].pflag = FALSE],
     geo |-> g, ret |-> "NONE"]

\* handleSkipPresent(): the client is asked to validate when this display was
\* powered on and not validated since, unless it would not present again.
SkipPresent(D, g, d, fenceFails) ==
    IF D[d].skipVP \/ D[d].rs = "none"
    THEN LET p == PresentPostProcessing(D, g, d, fenceFails)
         IN  [disp |-> p.disp, geo |-> p.geo, ret |-> "NONE"]
    ELSE [disp |-> D, geo |-> g, ret |-> "NOT_VALIDATED"]

RejectPresent(D, g, d, content) ==
    [disp |-> [D EXCEPT ![d].rs = "none"], geo |-> g \/ content = "changed",
     ret |-> "NOT_VALIDATED"]

CommitFrame(D, g, d, commitFails, fenceFails) ==
    LET bad == commitFails /\ Committing(d, D[d])
        n == IF bad THEN HandlePresentError(d, D[d]) ELSE DisplayPresent(d, D[d])
        p == PresentPostProcessing([D EXCEPT ![d] = n], g, d, fenceFails)
    IN  [disp |-> p.disp, geo |-> p.geo \/ bad,
         ret |-> IF bad \/ fenceFails THEN "ERROR" ELSE "NONE"]

PresentDisplay(Dev, g, d, content, commitFails, fenceFails) ==
    LET A == IF Dev[d].hrs
             THEN [Dev EXCEPT ![d] = AcceptDisplayChanges(@)] ELSE Dev
        D == [A EXCEPT ![d].skipVP = @ \/ Suspended(A[d]), ![d].hrs = FALSE]
    IN  IF Suspended(A[d]) /\ FlagsCleared(D) THEN ForceSkipPresent(D, g, d)
        ELSE IF D[d].skipPresent \/ D[d].skipVP THEN SkipPresent(D, g, d, fenceFails)
        ELSE IF D[d].rs # "accepted" /\ ~CanSkipValidate(D, g, content)
        THEN RejectPresent(D, g, d, content)
        ELSE CommitFrame(D, g, d, commitFails, fenceFails)

-----------------------------------------------------------------------------
(***************************************************************************)
(* setPowerMode                                                            *)
(***************************************************************************)

\* Variant: the panel is not cleared.
SetPowerPrimaryUncleared(r, mode, fails) ==
    IF mode = "off" THEN [r EXCEPT !.power = "off", !.rs = "none"]
    ELSE [r EXCEPT !.power = mode]

\* fails: the driver refuses the low power mode; the other calls' results are
\* ignored by a primary display.
SetPowerPrimary(r, mode, fails) ==
    IF mode = r.power \/ (fails /\ mode \in {"doze", "suspend"}) THEN r
    ELSE IF mode = "off" THEN [r EXCEPT !.power = "off", !.rs = "none", !.panel = "blank"]
    ELSE [r EXCEPT !.power = mode]

\* Variant: the panel is not cleared.
DisableUncleared(r, fails) == [r EXCEPT !.enabled = FALSE, !.power = "off"]

\* disable() does not clear a display that still skips its start frames, and
\* leaves a connected display of a DRM device on.
Disable(r, fails) ==
    LET c == IF r.startLeft = 0 THEN [r EXCEPT !.panel = "blank"] ELSE r
    IN  IF (Drm /\ r.hpd) \/ fails THEN c
        ELSE [c EXCEPT !.enabled = FALSE, !.power = "off"]

\* The driver is called, and may fail, unless enable() or disable() returns early.
PowerCallFails(r, mode, fails) ==
    /\ fails
    /\ IF mode = "off" THEN ~(Drm /\ r.hpd) ELSE r.hpd /\ ~r.enabled

SetPowerExternal(r, mode, fails) ==
    IF mode = "off"
    THEN IF PowerCallFails(r, mode, fails) THEN Disable(r, TRUE)
         ELSE [Disable(r, FALSE) EXCEPT !.power = "off", !.skipPresent = TRUE,
                                        !.rs = "none"]
    ELSE IF PowerCallFails(r, mode, fails) THEN r
    ELSE [r EXCEPT !.power = IF r.hpd THEN mode ELSE "off", !.enabled = @ \/ r.hpd]

\* A doze mode or a repeated mode of a primary display, and a driver error of an
\* external one, set no geometry flag.
PowerGeometry(d, r, mode, fails) ==
    IF d \in Externals THEN ~PowerCallFails(r, mode, fails)
    ELSE mode # r.power /\ mode \in {"on", "off"}

SetPowerMode(Dev, g, d, mode, fails) ==
    LET P == [Dev EXCEPT ![d].pflag = TRUE]
        f == IF mode # "off" THEN [disp |-> Dev, geo |-> g]
             ELSE IF IsLastPresent(d, P) THEN FinishFrame(P)
             ELSE [disp |-> P, geo |-> g]
        r == f.disp[d]
    IN  [disp |-> [f.disp EXCEPT ![d] =
                      IF d \in Externals THEN SetPowerExternal(r, mode, fails)
                      ELSE SetPowerPrimary(r, mode, fails)],
         geo |-> f.geo \/ PowerGeometry(d, r, mode, fails)]

-----------------------------------------------------------------------------
(***************************************************************************)
(* Hotplug and virtual displays                                            *)
(***************************************************************************)

\* The error of openExternalDisplay() is a positive number and its caller tests
\* for a negative one, so the display counts as connected without being open.
OpenExternalDisplay(r, fails) ==
    IF fails THEN [r EXCEPT !.hpd = TRUE]
    ELSE [r EXCEPT !.hpd = TRUE, !.plug = TRUE, !.startLeft = ExtStart,
                   !.layers = FALSE]

\* disable() and closeExternalDisplay(), which gives up, with the display still
\* plugged, when it has to power it off and cannot.
CloseExternalDisplay(r, disableFails, offFails) ==
    LET c == Disable([r EXCEPT !.hpd = FALSE], disableFails)
    IN  IF c.power # "off" /\ offFails THEN c
        ELSE [c EXCEPT !.plug = FALSE, !.power = "off"]

CreateVirtualDisplay(r) ==
    LET i == [InitDisplay(r) EXCEPT !.plug = TRUE, !.power = "on"]
    IN  IF UseDpu THEN [i EXCEPT !.startLeft = VirtStart, !.firstShown = FALSE] ELSE i

DestroyVirtualDisplay(r) == [r EXCEPT !.plug = FALSE, !.power = "off"]

-----------------------------------------------------------------------------
(***************************************************************************)
(* The client.  One refresh composes every display the client believes is  *)
(* on: presentOrValidate, and after a validate accept and present.         *)
(***************************************************************************)

InitDisplayState(d) == [
    plug |-> d \in Primaries, hpd |-> FALSE, power |-> "off", enabled |-> FALSE,
    rs |-> "none", hrs |-> FALSE, vflag |-> FALSE, pflag |-> FALSE,
    skipPresent |-> FALSE, skipVP |-> FALSE, skipFrame |-> FALSE,
    startLeft |-> IF d \in Externals THEN ExtStart ELSE 0, layers |-> FALSE,
    wfd |-> FALSE, extPlug |-> FALSE, firstShown |-> FALSE,
    asg |-> "none", panel |-> "blank" ]

Init ==
    /\ disp = [d \in Display |-> InitDisplayState(d)]
    /\ geo = FALSE
    /\ phase = [d \in Display |-> "idle"]
    /\ client = [d \in Display |-> IF d \in Primaries THEN "off" ELSE "absent"]
    /\ hotplug = [d \in Externals |-> "idle"]

\* The client's thread may act for d: with OneByOne it composes one display
\* after the other, without it displays of a refresh overlap freely.
Turn(d) == OneByOne => \A x \in Display \ {d} : phase[x] \notin InFlight

InRefresh == \E x \in Display : phase[x] \in InFlight \cup {"todo"}

\* Events of this kind may come now.
MayHappen(kind) == InRefresh => kind \in MidRefresh

\* Between two compositions of d
Between(d) == phase[d] \notin InFlight /\ Turn(d)

\* The client may change the layers of d
MayTouch(d) == MayHappen("layer") /\ Between(d)

Failures(kind) == IF kind \in MayFail THEN BOOLEAN ELSE {FALSE}

\* the step of the validation that fails for each display
FailedSteps ==
    [Display -> IF "assign" \in MayFail THEN {"none", "assign", "post"} ELSE {"none"}]

BeginRefresh ==
    /\ \A d \in Display : phase[d] \in {"idle", "rejected"}
    /\ \E d \in Display : client[d] = "on"
    /\ phase' = [d \in Display |-> IF client[d] = "on" THEN "todo" ELSE "idle"]
    /\ UNCHANGED <<disp, geo, client, hotplug>>

\* presentOrValidate tries a present first (HWC2_CAPABILITY_SKIP_VALIDATE)
TryPresent(d) ==
    /\ phase[d] = "todo" /\ Turn(d)
    /\ \E content \in Content, commitFails, fenceFails \in Failures("present") :
         LET p == PresentDisplay(disp, geo, d, content, commitFails, fenceFails)
         IN  /\ disp' = p.disp
             /\ geo' = p.geo
             /\ phase' = [phase EXCEPT ![d] =
                            IF p.ret = "NONE" THEN "idle" ELSE "mustValidate"]
    /\ UNCHANGED <<client, hotplug>>

Validate(d) ==
    /\ phase[d] \in {"todo", "mustValidate"} /\ Turn(d)
    /\ \E changed \in BOOLEAN, prepareFails \in Failures("assign"),
          failed \in FailedSteps :
         LET v == ValidateDisplay(disp, geo, d, changed, prepareFails, failed)
         IN  /\ disp' = v.disp
             /\ geo' = v.geo
             /\ phase' = [phase EXCEPT ![d] =
                            IF v.ret = "NONE" THEN "validated" ELSE "idle"]
    /\ UNCHANGED <<client, hotplug>>

Accept(d) ==
    /\ phase[d] = "validated" /\ Turn(d)
    /\ disp' = [disp EXCEPT ![d] = AcceptDisplayChanges(@)]
    /\ phase' = [phase EXCEPT ![d] =
                   IF disp[d].rs = "validated" THEN "accepted" ELSE "rejected"]
    /\ UNCHANGED <<geo, client, hotplug>>

Present(d) ==
    /\ phase[d] = "accepted" /\ Turn(d)
    /\ \E content \in Content, commitFails, fenceFails \in Failures("present") :
         LET p == PresentDisplay(disp, geo, d, content, commitFails, fenceFails)
         IN  /\ disp' = p.disp
             /\ geo' = p.geo
             /\ phase' = [phase EXCEPT ![d] =
                            IF p.ret = "NOT_VALIDATED" THEN "rejected" ELSE "idle"]
    /\ UNCHANGED <<client, hotplug>>

ClientSetPower(d, mode) ==
    /\ d \notin Virtuals /\ client[d] # "absent" /\ Between(d) /\ MayHappen("power")
    /\ mode \in IF d \in Primaries THEN PrimaryModes ELSE ExternalModes
    /\ mode = "off" => client[d] = "on"
    /\ \E fails \in Failures("driver") :
         LET p == SetPowerMode(disp, geo, d, mode, fails)
         IN  disp' = p.disp /\ geo' = p.geo
    /\ client' = [client EXCEPT ![d] = IF mode = "off" THEN "off" ELSE "on"]
    \* a display powered on may join the refresh in progress
    /\ \E p \in IF mode = "off" THEN {"idle"}
                ELSE IF client[d] = "on" \/ ~InRefresh THEN {phase[d]}
                ELSE {"idle", "todo"} :
         phase' = [phase EXCEPT ![d] = p]
    /\ UNCHANGED hotplug

\* The client acts on the hotplug callback: it starts or stops using the display.
ClientHotplug(d) ==
    /\ d \in Externals /\ hotplug[d] = "told" /\ Between(d) /\ MayHappen("hotplug")
    /\ client' = [client EXCEPT ![d] = IF disp[d].hpd THEN "off" ELSE "absent"]
    /\ phase' = [phase EXCEPT ![d] = "idle"]
    /\ hotplug' = [hotplug EXCEPT ![d] = "idle"]
    /\ UNCHANGED <<disp, geo>>

Touched(r) == [r EXCEPT !.asg = IF @ = "fresh" THEN "stale" ELSE @]

CreateLayer(d) ==
    /\ client[d] # "absent" /\ MayTouch(d) /\ disp[d].plug
    /\ disp' = [disp EXCEPT ![d] = [Touched(@) EXCEPT !.layers = TRUE]]
    /\ geo' = TRUE
    /\ UNCHANGED <<phase, client, hotplug>>

DestroyLayer(d) ==
    /\ MayTouch(d) /\ disp[d].layers
    /\ \E more \in BOOLEAN :
         disp' = [disp EXCEPT ![d] = [Touched(@) EXCEPT !.layers = more]]
    /\ geo' = TRUE
    /\ UNCHANGED <<phase, client, hotplug>>

\* setLayerDisplayFrame clears the rendering flags of all displays first, even
\* when the frame of the layer stays what it was.
SetLayerDisplayFrame(d) ==
    /\ "displayFrame" \in Setters /\ MayTouch(d) /\ disp[d].layers
    /\ \E moved \in BOOLEAN :
         /\ disp' = [ClearRenderingStateFlags(disp) EXCEPT
                       ![d] = IF moved THEN Touched(@) ELSE @]
         /\ geo' = (geo \/ moved)
    /\ UNCHANGED <<phase, client, hotplug>>

\* Variant: the setter does not flag the geometry.
SetLayerGeometryUnflagged(d) ==
    /\ "other" \in Setters /\ MayTouch(d) /\ disp[d].layers
    /\ disp' = [disp EXCEPT ![d] = Touched(@)]
    /\ UNCHANGED <<geo, phase, client, hotplug>>

\* Any other setter that changes the geometry: dataspace, source crop,
\* transform, z-order, blend mode, composition type, or a buffer of another
\* format.
SetLayerGeometry(d) ==
    /\ "other" \in Setters /\ MayTouch(d) /\ disp[d].layers
    /\ disp' = [disp EXCEPT ![d] = Touched(@)]
    /\ geo' = TRUE
    /\ UNCHANGED <<phase, client, hotplug>>

ClientCreateVirtual(d) ==
    /\ d \in Virtuals /\ client[d] = "absent" /\ Between(d) /\ MayHappen("hotplug")
    /\ disp' = [disp EXCEPT ![d] = CreateVirtualDisplay(@)]
    /\ client' = [client EXCEPT ![d] = "on"]
    /\ UNCHANGED <<geo, phase, hotplug>>

\* exynos_destroyVirtualDisplay deletes the layers, then the display.
ClientDestroyVirtual(d) ==
    /\ d \in Virtuals /\ client[d] = "on" /\ Between(d) /\ MayHappen("hotplug")
    /\ disp' = [disp EXCEPT ![d] = [DestroyVirtualDisplay(@) EXCEPT !.layers = FALSE]]
    /\ client' = [client EXCEPT ![d] = "absent"]
    /\ phase' = [phase EXCEPT ![d] = "idle"]
    /\ UNCHANGED <<geo, hotplug>>

-----------------------------------------------------------------------------
(***************************************************************************)
(* The hotplug event thread and the WFD service                            *)
(***************************************************************************)

\* The event thread is between the two critical sections of handleHotplug().
Handling(x) == hotplug[x] \in {"plugged", "unplugged"}

\* handleHotplug(), first critical section: the cable state differs from the
\* one last handled.  Bound: the client acts on one event before the next.
HandleHotplug(d) ==
    /\ d \in Externals /\ hotplug[d] = "idle" /\ MayHappen("hotplug")
    /\ \A x \in Externals : ~Handling(x)
    /\ \E f1, f2 \in Failures("driver") :
         disp' = [disp EXCEPT ![d] =
                    IF @.hpd THEN CloseExternalDisplay(@, f1, f2)
                    ELSE OpenExternalDisplay(@, f1)]
    /\ hotplug' = [hotplug EXCEPT ![d] = IF disp[d].hpd THEN "unplugged" ELSE "plugged"]
    /\ UNCHANGED <<geo, phase, client>>

\* Second critical section: a virtual display on the DPU gives way to the
\* external one.  Then the client is called back.
HandleHotplugVirtual(d) ==
    /\ d \in Externals /\ Handling(d) /\ MayHappen("hotplug")
    /\ LET plugged == hotplug[d] = "plugged"
       IN  /\ disp' = [x \in Display |->
                IF x \in Virtuals /\ UseDpu
                THEN LET e == [disp[x] EXCEPT !.extPlug = plugged]
                     IN  IF plugged /\ e.plug THEN DestroyVirtualDisplay(e) ELSE e
                ELSE disp[x]]
           /\ geo' = (geo \/ (UseDpu /\ \E x \in Virtuals : disp[x].plug))
    /\ hotplug' = [hotplug EXCEPT ![d] = "told"]
    /\ UNCHANGED <<phase, client>>

SetWFDMode(d) ==
    /\ d \in Virtuals /\ MayHappen("hotplug")
    /\ disp' = [disp EXCEPT ![d].wfd = ~@]
    /\ UNCHANGED <<geo, phase, client, hotplug>>

ClientNext ==
    \/ BeginRefresh
    \/ \E d \in Display :
         \/ TryPresent(d) \/ Validate(d) \/ Accept(d) \/ Present(d)
         \/ \E mode \in PowerMode : ClientSetPower(d, mode)
         \/ ClientHotplug(d)
         \/ CreateLayer(d) \/ DestroyLayer(d)
         \/ SetLayerDisplayFrame(d) \/ SetLayerGeometry(d)
         \/ ClientCreateVirtual(d) \/ ClientDestroyVirtual(d)

Next ==
    \/ ClientNext
    \/ \E d \in Display :
         HandleHotplug(d) \/ HandleHotplugVirtual(d) \/ SetWFDMode(d)

Spec == Init /\ [][Next]_vars

-----------------------------------------------------------------------------
(***************************************************************************)
(* Properties                                                              *)
(***************************************************************************)

\* Once a display is validated, acceptDisplayChanges() and presentDisplay() do
\* not answer NOT_VALIDATED in this refresh, whatever the event thread does to
\* the display in between (ExynosDevice::validateDisplay restores a state that
\* a rejected present lost).
HandshakeHonoured == \A d \in Display : phase[d] # "rejected"

\* What is shown was assigned hardware resources: no frame is committed with an
\* assignment that was reset and not redone
\* (ExynosDevice::setGeometryFlagForNextFrame).
PanelAssigned == \A d \in Display : disp[d].panel # "none"

\* What is shown was assigned after the last change of the display's layers: a
\* geometry change is never composed with the assignment made before it
\* (ExynosDevice::validateAllDisplays, finishFrame).
PanelFresh == \A d \in Display : disp[d].panel # "stale"

\* Between two frames, when no rendering state flag is set, the geometry flag
\* remembers every change that no assignment has taken into account
\* (ExynosDevice::finishFrame clears it for all displays).
NoLostGeometry ==
    FlagsCleared(disp) =>
        \A d \in Display : disp[d].asg = "stale" => geo \/ Inactive(d, disp[d])

\* A primary or external display that is off or unplugged shows nothing
\* (clearDisplay in setPowerOff and disable).
OffIsBlank ==
    \A d \in Display \ Virtuals :
        ~disp[d].plug \/ disp[d].power = "off" => disp[d].panel = "blank"

\* The part of it that holds in all circumstances.
PrimaryOffIsBlank ==
    \A d \in Primaries : disp[d].power = "off" => disp[d].panel = "blank"

\* The step shows a frame of d that differs from what d showed.
Shows(d) == disp'[d].panel \notin {"blank", disp[d].panel}

\* A frame is shown only on a display that is plugged, neither off nor
\* suspended and has layers, wherever the hotplug and power changes fall between
\* validate and present (ExynosDevice::presentDisplay).
ShowsOnlyWhenActive ==
    [][\A d \in Display : Shows(d) =>
          /\ disp[d].plug /\ disp[d].power \notin {"off", "suspend"}
          /\ disp[d].layers \/ d \in Virtuals]_vars

\* The first ExtStart frames after a plug are not shown
\* (ExynosExternalDisplay::preProcessValidate).
StartFramesHidden ==
    [][\A d \in Externals : Shows(d) => disp[d].startLeft = 0]_vars

\* A virtual display on the DPU shows nothing while an external display is
\* plugged: they share the hardware (ExynosDevice::handleHotplug).
VirtualYields ==
    [][\A d \in Virtuals : Shows(d) => ~disp[d].extPlug]_vars

=============================================================================
