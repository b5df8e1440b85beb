--------------------------- MODULE ComposerService ---------------------------
(* The composer service (hwc3/): the one client it serves at a time, what the *)
(* client's resource manager knows of the device, and the events of the       *)
(* device, which come on a thread of their own.                               *)
(*                                                                            *)
(* A client comes with createClient() and goes with its destructor, each on a *)
(* binder thread.  The events reach it through function pointers of the       *)
(* displays and mEventCallback of the HAL, which no lock guards.              *)
(* Assumed: a client uses no display that it was told is gone; an event that  *)
(* has read mEventCallback is done with it at once; the driver refuses        *)
(* nothing.  A frame is one step: DeviceFrame is about its inside.  Refresh   *)
(* and vsync events only ask for frames, which may come at any time here.     *)
(* The tables of a resource manager are those of ComposerResources, which is  *)
(* not in this repository.                                                    *)
EXTENDS Integers

CONSTANTS
  Client,        \* clients of the composer
  Nobody,        \* no client
  Handle,        \* handles of layers
  Main,          \* the primary display, which is never unplugged
  Externals,     \* displays that are plugged and unplugged
  Virtual,       \* the one virtual display
  EmptiesFirst   \* a client destroys the layers of the virtual display before it

ASSUME ScreenAssumption ==
  /\ Nobody \notin Client
  /\ Main \notin Externals /\ Virtual \notin Externals /\ Main # Virtual
  /\ EmptiesFirst \in BOOLEAN

Physical == {Main} \union Externals
Screen == Physical \union {Virtual}

VARIABLES
  phase,          \* where each client is, from createClient() to its destructor
  mClientAlive,
  mEventCallback, \* the client that the HAL calls
  hotplugOn,      \* the displays have a hotplug callback
  known,          \* the displays of the client's resource manager
  tracked,        \* the layers of each
  plugged,        \* mPlugState
  layers,         \* mLayers of each display of the device
  picture,        \* the layers in the last frame of each physical display
  call,           \* the client's call that is under way
  event           \* where the event thread is

registration == <<mEventCallback, hotplugOn>>
resources == <<known, tracked>>
device == <<plugged, layers, picture>>
serviceVars == <<phase, mClientAlive, registration, resources, device, call, event>>

\* "made" to "deaf" is the life of a client, in the order of its steps.
Living == {"made", "serving", "leaving", "deaf"}
NoCall == <<"no call">>
NoEvent == <<"none">>
Calls == {NoCall} \union ({"add", "remove"} \X Screen \X Handle)
Events ==
  {NoEvent}
    \union ({"hotplug"} \X Externals) \union ({"hotplug hook"} \X Externals \X BOOLEAN)

ServiceTypeOK ==
  /\ phase \in [Client -> {"none", "waiting"} \union Living]
  /\ mClientAlive \in BOOLEAN
  /\ mEventCallback \in Client \union {Nobody}
  /\ hotplugOn \in BOOLEAN
  /\ known \in SUBSET Screen
  /\ tracked \in [Screen -> SUBSET Handle]
  /\ plugged \in [Screen -> BOOLEAN]
  /\ layers \in [Screen -> SUBSET Handle]
  /\ picture \in [Physical -> SUBSET Handle]
  /\ call \in Calls
  /\ event \in Events

ServiceInit ==
  /\ phase = [c \in Client |-> "none"]
  /\ mClientAlive = FALSE
  /\ mEventCallback = Nobody /\ hotplugOn = FALSE
  /\ known = {}
  /\ tracked = [s \in Screen |-> {}]
  /\ plugged = [s \in Screen |-> s = Main]
  /\ layers = [s \in Screen |-> {}]
  /\ picture = [s \in Physical |-> {}]
  /\ call = NoCall
  /\ event = NoEvent

-----------------------------------------------------------------------------
(* Clients come and go                                                       *)

Enter(c, p) == phase' = [phase EXCEPT ![c] = p]

Created(c) ==
  /\ mClientAlive' = TRUE
  /\ Enter(c, "made")
  /\ UNCHANGED <<registration, resources, device, call, event>>

\* Composer::createClient, which gives up its mutex only to wait.
CreateClient(c) == phase[c] = "none" /\ ~mClientAlive /\ Created(c)

WaitForClientDestroyed(c) ==
  /\ phase[c] = "none" /\ mClientAlive
  /\ Enter(c, "waiting")
  /\ UNCHANGED <<mClientAlive, registration, resources, device, call, event>>

\* Variant: after a second the client is created in any case.
WaitOut(c) == phase[c] = "waiting" /\ Created(c)

\* The wait looks at mClientAlive again whatever ended it.
WaitEnds(c) == phase[c] = "waiting" /\ ~mClientAlive /\ Created(c)

WaitTimesOut(c) ==
  /\ phase[c] = "waiting" /\ mClientAlive
  /\ Enter(c, "none")
  /\ UNCHANGED <<mClientAlive, registration, resources, device, call, event>>

\* A display that the resource manager gets to know, as a new one, or forgets.
Learn(s) ==
  /\ known' = known \union {s}
  /\ tracked' = [tracked EXCEPT ![s] = {}]

Forget(s) ==
  /\ known' = known \ {s}
  /\ tracked' = [tracked EXCEPT ![s] = {}]

\* registerCallback: the hotplug callback reports the primary display, and
\* no other.
RegisterCallback(c) ==
  /\ phase[c] = "made"
  /\ mEventCallback' = c /\ hotplugOn' = TRUE
  /\ Learn(Main)
  /\ Enter(c, "serving")
  /\ UNCHANGED <<mClientAlive, device, call, event>>

\* ~ComposerClient, when no call holds the client any more.
UnregisterHotplug(c) ==
  /\ phase[c] \in {"made", "serving"} /\ call = NoCall
  /\ hotplugOn' = FALSE
  /\ Enter(c, "leaving")
  /\ UNCHANGED <<mClientAlive, mEventCallback, resources, device, call, event>>

UnregisterCallback(c) ==
  /\ phase[c] = "leaving"
  /\ mEventCallback' = Nobody
  /\ Enter(c, "deaf")
  /\ UNCHANGED <<mClientAlive, hotplugOn, resources, device, call, event>>

\* A display of the device without layers, and its last frame.
Emptied(s, gone) ==
  /\ layers' = [layers EXCEPT ![s] = @ \ gone]
  /\ IF s = Virtual
     THEN plugged' = [plugged EXCEPT ![s] = FALSE] /\ UNCHANGED picture
     ELSE /\ picture' = [picture EXCEPT ![s] = IF plugged[s] THEN layers[s] \ gone ELSE @]
          /\ UNCHANGED plugged

\* Variant: the layers are left to the device.
DestroyResourcesOnly(c, s) ==
  /\ phase[c] = "deaf" /\ s \in known
  /\ Emptied(s, {})
  /\ Forget(s)
  /\ UNCHANGED <<phase, mClientAlive, registration, call, event>>

\* destroyResources, for one display of the resource manager
DestroyResources(c, s) ==
  /\ phase[c] = "deaf" /\ s \in known
  /\ Emptied(s, tracked[s])
  /\ Forget(s)
  /\ UNCHANGED <<phase, mClientAlive, registration, call, event>>

OnClientDestroyed(c) ==
  /\ phase[c] = "deaf" /\ known = {}
  /\ mClientAlive' = FALSE
  /\ Enter(c, "none")
  /\ UNCHANGED <<registration, resources, device, call, event>>

-----------------------------------------------------------------------------
(* Calls of the client, one at a time                                        *)

Called == call = NoCall /\ \E c \in Client : phase[c] = "serving"
Returns == call' = NoCall
Quiet == UNCHANGED <<phase, mClientAlive, registration, event>>

\* A new layer has the address of none that the device has.
CreateLayer(s, h) ==
  /\ Called /\ s \in known
  /\ plugged[s] /\ \A t \in Screen : h \notin layers[t]
  /\ layers' = [layers EXCEPT ![s] = @ \union {h}]
  /\ call' = <<"add", s, h>>
  /\ UNCHANGED <<resources, plugged, picture>> /\ Quiet

\* addLayer fails when the display is no longer known: the layer stays in the
\* device without the client.
AddLayer(s, h) ==
  /\ call = <<"add", s, h>>
  /\ tracked' = [tracked EXCEPT ![s] = IF s \in known THEN @ \union {h} ELSE @]
  /\ Returns
  /\ UNCHANGED <<known, device>> /\ Quiet

\* Of an unplugged display the layer is destroyed too, but with an error,
\* after which the resource manager keeps it.
DestroyLayer(s, h) ==
  /\ Called /\ h \in tracked[s] \intersect layers[s]
  /\ layers' = [layers EXCEPT ![s] = @ \ {h}]
  /\ call' = IF plugged[s] THEN <<"remove", s, h>> ELSE NoCall
  /\ UNCHANGED <<resources, plugged, picture>> /\ Quiet

RemoveLayer(s, h) ==
  /\ call = <<"remove", s, h>>
  /\ tracked' = [tracked EXCEPT ![s] = @ \ {h}]
  /\ Returns
  /\ UNCHANGED <<known, device>> /\ Quiet

CreateVirtualDisplay ==
  /\ Called /\ Virtual \notin known
  /\ plugged' = [plugged EXCEPT ![Virtual] = TRUE]
  /\ Learn(Virtual)
  /\ UNCHANGED <<layers, picture, call>> /\ Quiet

\* HalImpl::destroyVirtualDisplay leaves the layers of the display alone.
DestroyVirtualDisplay ==
  /\ Called /\ Virtual \in known
  /\ EmptiesFirst => layers[Virtual] = {}
  /\ plugged' = [plugged EXCEPT ![Virtual] = FALSE]
  /\ Forget(Virtual)
  /\ UNCHANGED <<layers, picture, call>> /\ Quiet

\* presentDisplay, with or without a validate before it.  Nothing is shown of
\* a frame for an unplugged display.
PresentScreen(s) ==
  /\ Called /\ s \in known \intersect Physical /\ plugged[s]
  /\ picture' = [picture EXCEPT ![s] = layers[s]]
  /\ UNCHANGED <<resources, plugged, layers, call>> /\ Quiet

-----------------------------------------------------------------------------
(* Events of the device                                                      *)

Unserved == UNCHANGED <<phase, mClientAlive, registration, call>>

\* ExynosDevice::handleHotplug: the display is opened, which drops its
\* layers, and takes the screen from the virtual display, or it is closed.
Plug(s) ==
  /\ event = NoEvent /\ ~plugged[s]
  /\ plugged' = [plugged EXCEPT ![s] = TRUE, ![Virtual] = FALSE]
  /\ layers' = [layers EXCEPT ![s] = {}]
  /\ event' = <<"hotplug", s>>
  /\ UNCHANGED <<picture, resources>> /\ Unserved

Unplug(s) ==
  /\ event = NoEvent /\ plugged[s]
  /\ plugged' = [plugged EXCEPT ![s] = FALSE]
  /\ picture' = [picture EXCEPT ![s] = {}]
  /\ event' = <<"hotplug", s>>
  /\ UNCHANGED <<layers, resources>> /\ Unserved

\* ExynosDisplay::hotplug, up to the call of the function it finds
Hotplug(s) ==
  /\ event = <<"hotplug", s>>
  /\ event' = IF hotplugOn THEN <<"hotplug hook", s, plugged[s]>> ELSE NoEvent
  /\ UNCHANGED <<device, resources>> /\ Unserved

\* Variant: a display that goes is kept.
OnHotplugKeeping(s, connected) ==
  /\ event = <<"hotplug hook", s, connected>>
  /\ mEventCallback # Nobody
  /\ IF connected THEN Learn(s) ELSE UNCHANGED resources
  /\ event' = NoEvent
  /\ UNCHANGED device /\ Unserved

\* hook::hotplug and HalEventCallback::onHotplug.  Without a callback the hook
\* ends the process, and the behaviour ends with it.
OnHotplug(s, connected) ==
  /\ event = <<"hotplug hook", s, connected>>
  /\ mEventCallback # Nobody
  /\ IF connected THEN Learn(s) ELSE Forget(s)
  /\ event' = NoEvent
  /\ UNCHANGED device /\ Unserved

-----------------------------------------------------------------------------
ClientMoves(c) ==
  \/ CreateClient(c) \/ WaitForClientDestroyed(c) \/ WaitEnds(c) \/ WaitTimesOut(c)
  \/ RegisterCallback(c) \/ UnregisterHotplug(c) \/ UnregisterCallback(c)
  \/ \E s \in Screen : DestroyResources(c, s)
  \/ OnClientDestroyed(c)

CallStep ==
  \/ \E s \in Screen, h \in Handle :
       CreateLayer(s, h) \/ AddLayer(s, h) \/ DestroyLayer(s, h) \/ RemoveLayer(s, h)
  \/ CreateVirtualDisplay \/ DestroyVirtualDisplay
  \/ \E s \in Screen : PresentScreen(s)

EventStep ==
  \/ \E s \in Externals : Plug(s) \/ Unplug(s) \/ Hotplug(s)
  \/ \E s \in Externals, connected \in BOOLEAN : OnHotplug(s, connected)

ServiceNext == (\E c \in Client : ClientMoves(c)) \/ CallStep \/ EventStep

ServiceSpec == ServiceInit /\ [][ServiceNext]_serviceVars

-----------------------------------------------------------------------------
(* Properties                                                                *)

\* Two clients never use the device at the same time, although a client may
\* be created before the one before it is destroyed and waits for a second
\* only (createClient, waitForClientDestroyedLocked).
ClientsApart ==
  \A c, e \in Client : (phase[c] \in Living /\ phase[e] \in Living) => c = e

\* When no client is left, none of its layers is, in the device or on a panel
\* ("Below we manually clean all resources", destroyResources): a layer is
\* not lost by hotplugs, failed calls and clients that go at any point.
NothingLeft ==
  (\A c \in Client : phase[c] \notin Living) =>
    /\ \A s \in Physical : plugged[s] => layers[s] = {} /\ picture[s] = {}
    /\ layers[Virtual] = {}

\* Between events the client knows of no external display that is gone
\* (onHotplug), whichever client an event was meant for.
KnownArePlugged ==
  \A c \in Client : (phase[c] = "serving" /\ event = NoEvent) =>
    \A s \in known \intersect Externals : plugged[s]
=============================================================================
