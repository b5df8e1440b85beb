---------------------------- MODULE DisplayConfig ----------------------------
(***************************************************************************)
(* How the primary display changes its configuration: the request machine  *)
(* of ExynosDisplay (pending until its time has come, requested until a    *)
(* vsync confirms it), what ExynosPrimaryDisplay keeps and restores when   *)
(* the power mode changes, and the two ModeStates of                       *)
(* ExynosDisplayDrmInterface with the property blobs they own.             *)
(*                                                                         *)
(* Every entry point holds the mutex of the device or of the display, so   *)
(* an action is one entry point.  Entry points call each other, some       *)
(* several times, and the driver may refuse each call on its own: an       *)
(* operator below takes the display as it is before a call and yields the  *)
(* display after it or, where calls may be refused, the set of displays it *)
(* may leave.  An action composes them.                                    *)
(***************************************************************************)
EXTENDS Naturals, FiniteSets

CONSTANTS Config,      \* the configurations of the panel
          Group,       \* groupId: which configurations share a resolution
          DozeMode,    \* the low power mode of each resolution
          Period,      \* vsync period of each mode, in milliseconds
          Preferred,   \* get_preferred_mode_id() of the connector
          Blob,        \* ids of property blobs; 0 is no blob
          Watched,     \* the configuration that Settles is about
          None,        \* no mode, configuration or period
          MayFail      \* what the driver may refuse, see FailAssumption

\* What a request may ask for: a change that nobody sees and a change at a
\* time to come.
Constraint == SUBSET {"seamless", "later"}

Resolution == {Group[c] : c \in Config}
Doze == {DozeMode[g] : g \in Resolution}
Mode == Config \union Doze

ASSUME ModeAssumption ==
  /\ {Preferred, Watched} \subseteq Config
  /\ None \notin Mode
  /\ Config \intersect Doze = {}
  /\ \A g, h \in Resolution : DozeMode[g] = DozeMode[h] => g = h
  /\ \A m \in Mode : Period[m] # None

\* A display owns at most four blobs and the driver has more to give.
Plenty(blobs) == Cardinality(blobs) > 4
ASSUME BlobAssumption == 0 \notin Blob /\ IsFiniteSet(Blob) /\ Plenty(Blob)

(***************************************************************************)
(* The driver may refuse a test (its commit or its blob), the properties   *)
(* of a test, the mode set of setActiveDrmMode() (its blob, its properties *)
(* or its commit), the time or the blob that doDisplayConfigPostProcess()  *)
(* needs, the time that setActiveConfigWithConstraints() needs, and a      *)
(* frame whose mode has been set.                                          *)
(***************************************************************************)
ASSUME FailAssumption ==
  MayFail \subseteq {"test", "property", "switch", "request", "time", "frame"}

VARIABLE dpy   \* the display, its interface and what the driver keeps for it

vars == dpy

(***************************************************************************)
(* The display, see ExynosDisplay: power to period; the client's wish to   *)
(* get vsyncs and whether the driver sends them; the interface: mActive-   *)
(* ModeState (act...) and mDesiredModeState (des...), modeset is           *)
(* needs_modeset of the latter; the driver: the mode in each blob, None    *)
(* for one that does not exist, and the mode it scans out.                 *)
(* later: the desired time of the request has not come.                    *)
(* Two fields are history: the blobs that no reference owns any more, and  *)
(* whether a switch to another resolution was refused and no mode has been *)
(* set for a configuration since.                                          *)
(***************************************************************************)
Periods == {Period[c] : c \in Config}
Blobs == [Blob -> Mode \union {None}]
State ==
  [ power : {"on", "off", "doze", "suspend"},
    active : Config, desired : Config,             \* mActiveConfig, mDesiredConfig
    request : {"none", "pending", "requested"},    \* mConfigRequestState
    later : BOOLEAN,                               \* mVsyncPeriodChangeConstraints
    isPending : BOOLEAN, pendConfig : Config \union {None},    \* mPendConfigInfo
    pendType : {"free", "constrained"},
    pendConstraint : Constraint,
    period : Periods \union {None},    \* mDesiredVsyncPeriod
    vsync : BOOLEAN, hwVsync : BOOLEAN,
    actMode : Mode, actBlob : Blob, actOld : Blob \union {0},
    desMode : Config \union {None},
    desBlob : Blob \union {0}, desOld : Blob \union {0}, modeset : BOOLEAN,
    blobs : Blobs, panel : Mode,
    lost : SUBSET Blob, refused : BOOLEAN ]

SizeOf(mode) ==
  IF mode \in Config THEN Group[mode]
  ELSE CHOOSE g \in Resolution : DozeMode[g] = mode

-----------------------------------------------------------------------------
(* The interface: ExynosDisplayDrmInterface and its DrmModeAtomicReq.      *)

NewBlob(d) == CHOOSE b \in Blob : d.blobs[b] = None

\* destroyOldBlobs(); destroying blob 0 does nothing
Destroy(blobs, old) == [b \in Blob |-> IF b \in old THEN None ELSE blobs[b]]

SameMode(d, mode) == d.actMode = mode

\* What is left of a call that the driver refuses
Refused(what, d) == IF what \in MayFail THEN {d} ELSE {}

\* setActiveDrmMode() when the driver has taken the commit
ModeSet(d, mode) ==
  LET new == NewBlob(d)
  IN  [d EXCEPT !.blobs = Destroy([@ EXCEPT ![new] = mode], {d.actOld}),
                !.actMode = mode, !.actBlob = new, !.actOld = d.actBlob,
                !.panel = mode]

\* setActiveDrmMode(): the blob of a mode set that is refused is destroyed.
SetActiveDrmMode(d, mode) ==
  IF SameMode(d, mode) THEN {d} ELSE {ModeSet(d, mode)} \union Refused("switch", d)

\* Whether a resolution is missing on the panel after e came from d
Missed(d, e, c) ==
  IF SameMode(d, c) THEN d.refused
  ELSE ~SameMode(e, c) /\ (d.refused \/ SizeOf(d.actMode) # Group[c])

\* setActiveConfig(): an earlier desired mode is given up, and that the driver
\* has refused the new one is not told.
InterfaceSetConfig(d, c) ==
  {[e EXCEPT !.modeset = FALSE, !.refused = Missed(d, e, c)] : e \in SetActiveDrmMode(d, c)}

\* ModeState::setMode() of the desired mode, in a blob of its own
DesireMode(d, c) ==
  IF d.desMode = c THEN d
  ELSE LET new == NewBlob(d)
       IN  [d EXCEPT !.blobs = Destroy([@ EXCEPT ![new] = c], {d.desOld}),
                     !.desMode = c, !.desBlob = new, !.desOld = d.desBlob]

\* setActiveConfigWithConstraints() of the interface, as a test and for good
TestMode(d, c) == IF SameMode(d, c) THEN d ELSE DesireMode(d, c)
RequestMode(d, c) ==
  IF SameMode(d, c) THEN d ELSE [DesireMode(d, c) EXCEPT !.modeset = TRUE]

\* A blob that is made for a test and neither destroyed nor owned.  Bound: the
\* driver keeps enough to give.
LoseBlob(d, c) ==
  LET new == NewBlob(d)
  IN  IF d.desMode = c \/ ~Plenty(Blob \ (d.lost \union {new})) THEN d
      ELSE [d EXCEPT !.blobs[new] = c, !.lost = @ \union {new}]

\* A test that fails returns early; when it cannot even set its properties it
\* returns without the new blob.
TestFails(d, c) ==
  IF SameMode(d, c) THEN {}
  ELSE Refused("test", d) \union Refused("property", LoseBlob(d, c))

\* Variant: a frame without a new mode applies the desired one too.
ApplyAlways(d) ==
  [d EXCEPT !.blobs = Destroy(@, {d.actOld, d.desOld}),
            !.actMode = d.desMode, !.actBlob = d.desBlob, !.actOld = d.actBlob,
            !.desMode = None, !.desBlob = 0, !.desOld = 0, !.modeset = FALSE,
            !.refused = FALSE]

\* Variant: the blob given to the active mode stays that of the desired one.
ApplyKeepingBlob(d) ==
  IF ~d.modeset THEN d
  ELSE [d EXCEPT !.blobs = Destroy(@, {d.actOld, d.desOld}),
                 !.actMode = d.desMode, !.actBlob = d.desBlob, !.actOld = d.actBlob,
                 !.desOld = 0, !.modeset = FALSE, !.refused = FALSE]

\* ModeState::apply(), at the end of a commit
Apply(d) ==
  IF ~d.modeset THEN d
  ELSE [d EXCEPT !.blobs = Destroy(@, {d.actOld, d.desOld}),
                 !.actMode = d.desMode, !.actBlob = d.desBlob, !.actOld = d.actBlob,
                 !.desMode = None, !.desBlob = 0, !.desOld = 0, !.modeset = FALSE,
                 !.refused = FALSE]

\* deliverWinConfigData(): the mode of the blob is set before the frame
SetMode(d) == IF d.modeset THEN [d EXCEPT !.panel = d.blobs[d.desBlob]] ELSE d

-----------------------------------------------------------------------------
(* Requests: ExynosDisplay.                                                *)

NeedChangeConfig(d, c) ==
  IF d.request = "none" THEN c # d.active ELSE c # d.desired

SetActiveConfigInternal(d, c) ==
  {[e EXCEPT !.active = c, !.desired = c, !.request = "none"] : e \in InterfaceSetConfig(d, c)}

SetActiveConfig(d, c) ==
  IF d.power # "on"
  THEN {[d EXCEPT !.isPending = TRUE, !.pendConfig = c, !.pendType = "free"]}
  ELSE IF NeedChangeConfig(d, c) THEN SetActiveConfigInternal(d, c) ELSE {d}

\* checkValidationConfigConstraints() before it comes to the test
Valid(d, c, constraint) ==
  /\ c \in Config
  /\ constraint # {} => Group[d.active] = Group[c]

\* mConfigRequestState, mDesiredConfig and mVsyncPeriodChangeConstraints
Ask(d, c, constraint) ==
  [d EXCEPT !.request = "pending", !.desired = c, !.later = "later" \in constraint]

\* Variant: a change of resolution waits like any other.
ChangeLater(d, c, constraint) == {Ask(d, c, constraint)} \union Refused("time", d)

\* A change of resolution is made at once.
Change(d, c, constraint) ==
  (IF Group[d.active] # Group[c] THEN SetActiveConfigInternal(Ask(d, c, constraint), c)
   ELSE {Ask(d, c, constraint)}) \union Refused("time", d)

\* What becomes of a valid request
TakeRequest(d, c, constraint) ==
  IF d.power # "on"
  THEN {[d EXCEPT !.isPending = TRUE, !.pendConfig = c,
                  !.pendType = "constrained", !.pendConstraint = constraint]}
  ELSE IF NeedChangeConfig(d, c) THEN Change(d, c, constraint) ELSE {d}

SetWithConstraints(d, c, constraint) ==
  IF ~Valid(d, c, constraint) THEN {d}
  ELSE IF "seamless" \in constraint
  THEN TakeRequest(TestMode(d, c), c, constraint) \union TestFails(d, c)
  ELSE TakeRequest(d, c, constraint)

-----------------------------------------------------------------------------
(* Power modes: ExynosPrimaryDisplay.                                      *)

ApplyPending(d) ==
  IF ~d.isPending \/ d.active = d.pendConfig THEN {d}
  ELSE IF d.pendType = "free" THEN SetActiveConfig(d, d.pendConfig)
  ELSE SetWithConstraints(d, d.pendConfig, d.pendConstraint)

\* Variant: a request that the restoring has reset is not made again.
RestoreOnly(d) == SetActiveConfigInternal(d, d.active)

\* The low power mode has replaced the active configuration on the panel.
Restore(d) ==
  UNION {IF d.request = "pending"
         THEN SetWithConstraints(restored, d.pendConfig, d.pendConstraint)
         ELSE {restored} : restored \in SetActiveConfigInternal(d, d.active)}

\* d before power on, on with what was postponed
Restores(d, on) ==
  /\ d.power # "off"
  /\ \/ ~d.isPending
     \/ on.active = on.pendConfig
     \/ on.request = "pending"

SetPowerOn(d) ==
  {[e EXCEPT !.isPending = FALSE] :
     e \in UNION {IF Restores(d, on) THEN Restore(on) ELSE {on} :
                     on \in ApplyPending([d EXCEPT !.power = "on"])}}

SetPowerOff(d) ==
  {[e EXCEPT !.power = "off"] :
     e \in IF d.power # "on" THEN SetActiveConfigInternal(d, d.active) ELSE {d}}

-----------------------------------------------------------------------------
\* An action of the display that yields d, and one that leaves one of many
To(d) == dpy' = d
Into(displays) == dpy' \in displays

\* mPendConfigInfo.constraints is not initialised.
Init ==
  \E b \in Blob : \E constraint \in Constraint :
    dpy = [ power |-> "off", active |-> Preferred, desired |-> Preferred,
            request |-> "none", later |-> FALSE,
            isPending |-> FALSE, pendConfig |-> None, pendType |-> "free",
            pendConstraint |-> constraint,
            period |-> None, vsync |-> FALSE, hwVsync |-> FALSE,
            actMode |-> Preferred, actBlob |-> b, actOld |-> 0,
            desMode |-> None, desBlob |-> 0, desOld |-> 0, modeset |-> FALSE,
            blobs |-> [x \in Blob |-> IF x = b THEN Preferred ELSE None],
            panel |-> Preferred, lost |-> {}, refused |-> FALSE ]

RequestConfig(c) == Into(SetActiveConfig(dpy, c))

RequestWithConstraints(c, constraint) == Into(SetWithConstraints(dpy, c, constraint))

\* The desired time of a request comes.
TimeComes ==
  \/ dpy.later /\ To([dpy EXCEPT !.later = FALSE])
  \/ /\ "later" \in dpy.pendConstraint
     /\ To([dpy EXCEPT !.pendConstraint = @ \ {"later"}])

PowerOn == dpy.power # "on" /\ Into(SetPowerOn(dpy))

PowerOff == dpy.power # "off" /\ Into(SetPowerOff(dpy))

LowPowerMode(d) == DozeMode[SizeOf(d.actMode)]

\* setPowerDoze(); when the driver refuses the mode the display stays as it is
PowerDoze(mode) ==
  /\ mode \in {"doze", "suspend"} \ {dpy.power}
  /\ \E e \in SetActiveDrmMode(dpy, LowPowerMode(dpy)) :
       /\ SameMode(e, LowPowerMode(dpy))
       /\ To([e EXCEPT !.power = mode])

\* Variant: vsyncs stop when the client asks, whatever waits for one.
SetVsyncAtOnce(on) == To([dpy EXCEPT !.vsync = on, !.hwVsync = on])

\* setVsyncEnabled()
SetVsyncEnabled(on) ==
  To([dpy EXCEPT !.vsync = on, !.hwVsync = on \/ (@ /\ dpy.period # None)])

-----------------------------------------------------------------------------
(* Frames and vsyncs                                                       *)

\* Variant: the mode that is set already needs no request.
PostProcessOthers(d) ==
  IF d.request = "pending" /\ d.power = "on" /\ ~d.later /\ ~SameMode(d, d.desired)
  THEN [RequestMode(d, d.desired) EXCEPT
          !.request = "requested", !.period = Period[d.desired], !.hwVsync = TRUE]
  ELSE d

\* doDisplayConfigPostProcess()
PostProcess(d) ==
  IF d.request = "pending" /\ d.power = "on" /\ ~d.later
  THEN [RequestMode(d, d.desired) EXCEPT
          !.request = "requested", !.period = Period[d.desired], !.hwVsync = TRUE]
  ELSE d

\* presentDisplay() before it comes to the layers; taken: the driver does not
\* refuse what doDisplayConfigPostProcess() needs
BeginPresent(d, taken) ==
  LET asked == IF taken THEN PostProcess(d) ELSE d
  IN  IF asked.request = "requested" THEN [asked EXCEPT !.active = asked.desired]
      ELSE asked

Taken == IF "request" \in MayFail THEN BOOLEAN ELSE {TRUE}
Shows == dpy.power \in {"on", "doze"}

\* The frame does not reach the driver: it is identical to the last one, there
\* is no layer, or the driver refuses the mode.
PresentSkipped(taken) == Shows /\ To(BeginPresent(dpy, taken))

\* The driver sets the mode and refuses the frame.
PresentFails(taken) ==
  Shows /\ "frame" \in MayFail /\ To(SetMode(BeginPresent(dpy, taken)))

Present(taken) ==
  /\ Shows
  /\ \E begun \in {BeginPresent(dpy, taken)} :
       \E set \in {SetMode(begun)} : To(Apply(set))

\* handleVsync() finds the desired period
VsyncConfirms ==
  /\ Shows /\ dpy.hwVsync
  /\ dpy.request = "requested" /\ Period[dpy.panel] = dpy.period
  /\ To([dpy EXCEPT !.request = "none", !.modeset = FALSE, !.period = None,
                    !.hwVsync = dpy.vsync])

\* resetForDestroyClient()
DestroyClient ==
  LET none == [dpy EXCEPT !.request = "none"]
  IN  \E on \in IF dpy.power = "on" THEN {none} ELSE SetPowerOn(none) :
        \E reset \in SetActiveConfigInternal([on EXCEPT !.active = Preferred], Preferred) :
          Into(SetPowerOff([reset EXCEPT !.vsync = FALSE, !.hwVsync = FALSE,
                                         !.period = None]))

Next ==
  \/ \E c \in Config : RequestConfig(c)
  \/ \E c \in Config : \E constraint \in Constraint : RequestWithConstraints(c, constraint)
  \/ TimeComes
  \/ PowerOn
  \/ PowerOff
  \/ \E mode \in {"doze", "suspend"} : PowerDoze(mode)
  \/ \E on \in BOOLEAN : SetVsyncEnabled(on)
  \/ \E taken \in Taken : PresentSkipped(taken)
  \/ \E taken \in Taken : PresentFails(taken)
  \/ \E taken \in Taken : Present(taken)
  \/ VsyncConfirms
  \/ DestroyClient

Spec == Init /\ [][Next]_vars

(***************************************************************************)
(* While Watched is awaited the client draws new content, the driver does  *)
(* not refuse for ever, time passes and vsyncs are handled.                *)
(***************************************************************************)
Awaited == dpy.request # "none" /\ dpy.desired = Watched /\ dpy.power = "on"
FairSpec ==
  /\ Spec
  /\ WF_vars(Awaited /\ Present(TRUE))
  /\ WF_vars(Awaited /\ TimeComes)
  /\ WF_vars(Awaited /\ VsyncConfirms)

-----------------------------------------------------------------------------
(* Properties                                                              *)

TypeOK == dpy \in State

(* Every blob of the driver is owned by exactly one of the four references, *)
(* and holds the mode that the interface sets with it, whatever fails: the  *)
(* switches, tests, requests and frames free no blob too early or twice,    *)
(* and none loses one but a test whose properties cannot be set             *)
(* (ModeState, DrmModeAtomicReq::mOldBlobs, setActiveConfigWithConstraints).*)
BlobsOwned ==
  /\ {b \in Blob : dpy.blobs[b] # None}
       = ({dpy.actBlob, dpy.actOld, dpy.desBlob, dpy.desOld} \ {0}) \union dpy.lost
  /\ dpy.lost \intersect {dpy.actBlob, dpy.actOld, dpy.desBlob, dpy.desOld} = {}
  /\ dpy.lost # {} => "property" \in MayFail
  /\ dpy.actBlob \notin {dpy.actOld, dpy.desBlob, dpy.desOld}
  /\ dpy.actOld # 0 => dpy.actOld \notin {dpy.desBlob, dpy.desOld}
  /\ dpy.desBlob # 0 => dpy.desBlob # dpy.desOld
  /\ dpy.blobs[dpy.actBlob] = dpy.actMode
  /\ dpy.desBlob # 0 => dpy.blobs[dpy.desBlob] = dpy.desMode
  /\ dpy.desBlob = 0 <=> dpy.desMode = None

(* Frames are composed for the resolution of mActiveConfig: whatever was   *)
(* requested, postponed, restored or lost, the panel has that resolution,  *)
(* and a request that waits does not change it (mXres, mYres).  Only a     *)
(* switch of resolution that the driver refuses, which setActiveConfig()   *)
(* does not tell, parts the two, until a configuration's mode is set.      *)
ResolutionAgrees ==
  /\ ~dpy.refused => SizeOf(dpy.panel) = SizeOf(dpy.active)
  /\ dpy.refused => "switch" \in MayFail
  /\ dpy.request # "none" => SizeOf(dpy.desired) = SizeOf(dpy.active)
  /\ dpy.modeset => SizeOf(dpy.desMode) = SizeOf(dpy.active)

(* While a mode awaits its confirmation the driver sends vsyncs and the    *)
(* period they are compared with is the one of that mode, whatever the     *)
(* client does to vsyncs meanwhile (setVsyncEnabled, handleVsync).         *)
ConfirmationPossible ==
  dpy.request = "requested" => dpy.hwVsync /\ dpy.period = Period[dpy.desired]

(* Power on takes up the configuration asked for while the display was not *)
(* on: it is active or requested then, even when the low power mode had to *)
(* be undone first and the driver refuses to set a mode (setPowerOn).  A   *)
(* seamless one may fail its test again.                                   *)
PostponedTakenUp ==
  [][ dpy.isPending /\ dpy.power # "on" /\ dpy'.power = "on" =>
        \/ dpy'.active = dpy.pendConfig
        \/ dpy'.request = "pending" /\ dpy'.desired = dpy.pendConfig
        \/ "seamless" \in dpy.pendConstraint ]_vars

\* The interface sets or has set another mode than the one that is awaited.
Misled ==
  /\ dpy.request = "requested"
  /\ dpy.desired # IF dpy.modeset THEN dpy.desMode ELSE dpy.panel

(* A request for any configuration, Watched, does not wait for ever: it is  *)
(* confirmed unless another one replaces it, the display leaves the power   *)
(* mode, or the interface still has the mode of an earlier request to set   *)
(* (doDisplayConfigPostProcess to handleVsync).                             *)
Settles == []<>(~Awaited \/ Misled)
=============================================================================
