------------------------ MODULE ComposerService_proofs ------------------------
(* Proofs about ComposerService: clients are apart, and nothing of a client   *)
(* is left behind, however hotplugs fall between the steps of its calls, its  *)
(* registration and its destruction.                                          *)
EXTENDS ComposerService, TLAPS

\* mClientAlive says whether there is a client.
AliveIsLiving == mClientAlive <=> \E c \in Client : phase[c] \in Living

Serving == \E c \in Client : phase[c] = "serving"

\* Calls, callbacks and what is known come and go with the client.
Bound ==
  /\ call # NoCall => Serving
  /\ Serving => hotplugOn
  /\ mEventCallback # Nobody => phase[mEventCallback] \in {"serving", "leaving"}
  /\ known # {} => \E c \in Client : phase[c] \in {"serving", "leaving", "deaf"}

\* The event of display s is not over.
About(s) ==
  event = <<"hotplug", s>> \/ \E connected \in BOOLEAN : event = <<"hotplug hook", s, connected>>

\* A display has no layers until its client hears that it was plugged, and
\* until then a client that makes calls does not know it.
InTime(s) ==
  /\ \A connected \in BOOLEAN : event = <<"hotplug hook", s, connected>> => connected = plugged[s]
  /\ About(s) /\ plugged[s] => layers[s] = {}
  /\ Serving /\ s \in known => (plugged[s] <=> ~About(s))

ServiceInv ==
  /\ ServiceTypeOK /\ ClientsApart /\ AliveIsLiving /\ Bound
  /\ \A s \in Externals : InTime(s)

\* A layer that is or can be shown is one the client tracks, or is about to.
\* What is shown is on a display that the client knows.
Pending(kind, s) == {h \in Handle : call = <<kind, s, h>>}
Owned(s) ==
  /\ tracked[s] # {} => s \in known
  /\ s = Virtual \/ plugged[s] =>
       layers[s] \subseteq (IF s \in known THEN tracked[s] \union Pending("add", s) ELSE {})
  /\ layers[s] \intersect Pending("remove", s) = {}
  /\ s \in Physical /\ picture[s] # {} => plugged[s] /\ s \in known

OwnedInv == \A s \in Screen : Owned(s)

-----------------------------------------------------------------------------
(* No two of the values that tell where the event thread or a call is are the *)
(* same.                                                                      *)
LEMMA TagsDiffer ==
  /\ \A s : <<"hotplug", s>> # NoEvent
  /\ \A s, b : <<"hotplug hook", s, b>> # NoEvent
  /\ \A s, t, b : <<"hotplug hook", s, b>> # <<"hotplug", t>>
  /\ \A s, h : <<"add", s, h>> # NoCall
  /\ \A s, h : <<"remove", s, h>> # NoCall
  /\ \A s, t, h, k : <<"add", s, h>> # <<"remove", t, k>>
  /\ \A s, t : <<"hotplug", s>> = <<"hotplug", t>> => s = t
  /\ \A s, t, b, e : <<"hotplug hook", s, b>> = <<"hotplug hook", t, e>> => s = t /\ b = e
  /\ \A s, t, h, k : <<"add", s, h>> = <<"add", t, k>> => s = t /\ h = k
  /\ \A s, t, h, k : <<"remove", s, h>> = <<"remove", t, k>> => s = t /\ h = k
  <1>1. \A s : <<"hotplug", s>> # NoEvent
    <2>. SUFFICES ASSUME NEW s, <<"hotplug", s>> = NoEvent PROVE FALSE
      OBVIOUS
    <2>1. <<"hotplug", s>>[1] = NoEvent[1]
      OBVIOUS
    <2>. QED
      BY <2>1 DEF NoEvent
  <1>2. \A s, b : <<"hotplug hook", s, b>> # NoEvent
    <2>. SUFFICES ASSUME NEW s, NEW b, <<"hotplug hook", s, b>> = NoEvent PROVE FALSE
      OBVIOUS
    <2>1. <<"hotplug hook", s, b>>[1] = NoEvent[1]
      OBVIOUS
    <2>. QED
      BY <2>1 DEF NoEvent
  <1>3. \A s, t, b : <<"hotplug hook", s, b>> # <<"hotplug", t>>
    <2>. SUFFICES ASSUME NEW s, NEW t, NEW b, <<"hotplug hook", s, b>> = <<"hotplug", t>>
                  PROVE FALSE
      OBVIOUS
    <2>1. <<"hotplug hook", s, b>>[1] = <<"hotplug", t>>[1]
      OBVIOUS
    <2>. QED
      BY <2>1
  <1>4. \A s, h : <<"add", s, h>> # NoCall
    <2>. SUFFICES ASSUME NEW s, NEW h, <<"add", s, h>> = NoCall PROVE FALSE
      OBVIOUS
    <2>1. <<"add", s, h>>[1] = NoCall[1]
      OBVIOUS
    <2>. QED
      BY <2>1 DEF NoCall
  <1>5. \A s, h : <<"remove", s, h>> # NoCall
    <2>. SUFFICES ASSUME NEW s, NEW h, <<"remove", s, h>> = NoCall PROVE FALSE
      OBVIOUS
    <2>1. <<"remove", s, h>>[1] = NoCall[1]
      OBVIOUS
    <2>. QED
      BY <2>1 DEF NoCall
  <1>6. \A s, t, h, k : <<"add", s, h>> # <<"remove", t, k>>
    OBVIOUS
  <1>7. \A s, t : <<"hotplug", s>> = <<"hotplug", t>> => s = t
    OBVIOUS
  <1>8. \A s, t, b, e : <<"hotplug hook", s, b>> = <<"hotplug hook", t, e>> => s = t /\ b = e
    OBVIOUS
  <1>9. /\ \A s, t, h, k : <<"add", s, h>> = <<"add", t, k>> => s = t /\ h = k
        /\ \A s, t, h, k : <<"remove", s, h>> = <<"remove", t, k>> => s = t /\ h = k
    OBVIOUS
  <1>. QED
    BY <1>1, <1>2, <1>3, <1>4, <1>5, <1>6, <1>7, <1>8, <1>9, Zenon

(* Without an event no display has one, and without a call no layer does. *)
LEMMA NoEventIsAboutNone ==
  ASSUME event = NoEvent, NEW s
  PROVE  ~About(s) /\ \A b \in BOOLEAN : event # <<"hotplug hook", s, b>>
  BY TagsDiffer, Zenon DEF About

LEMMA NoCallIsPending ==
  ASSUME call = NoCall, NEW s
  PROVE  Pending("add", s) = {} /\ Pending("remove", s) = {}
  <1>1. \A h : call # <<"add", s, h>> /\ call # <<"remove", s, h>>
    BY TagsDiffer, Zenon
  <1>. QED
    BY <1>1 DEF Pending

-----------------------------------------------------------------------------
(* Steps of the calls and of the events leave the clients alone. *)
LEMMA OthersKeepClients ==
  ASSUME CallStep \/ EventStep \/ UNCHANGED serviceVars
  PROVE  UNCHANGED <<phase, mClientAlive, mEventCallback, hotplugOn>>
  BY DEF CallStep, EventStep, serviceVars, registration, Quiet, Unserved, CreateLayer, AddLayer,
         DestroyLayer, RemoveLayer, CreateVirtualDisplay, DestroyVirtualDisplay, PresentScreen,
         Plug, Unplug, Hotplug, OnHotplug

(* The types hold at first, *)
LEMMA TypesAtFirst == ServiceInit => ServiceTypeOK
  BY DEF ServiceInit, ServiceTypeOK, Physical, Screen, Calls, Events

(* and every step keeps them. *)
LEMMA KeepsServiceTypes ==
  ASSUME ServiceTypeOK, [ServiceNext]_serviceVars
  PROVE  ServiceTypeOK'
  <1>. USE DEF ServiceTypeOK, registration, resources, device, Screen, Physical
  <1>1. ASSUME NEW c \in Client, ClientMoves(c)
        PROVE  ServiceTypeOK'
    <2>. USE DEF Enter, Living
    <2>1. CASE CreateClient(c) \/ WaitEnds(c)
      BY <2>1 DEF CreateClient, WaitEnds, Created
    <2>2. CASE WaitForClientDestroyed(c) \/ WaitTimesOut(c)
      BY <2>2 DEF WaitForClientDestroyed, WaitTimesOut
    <2>3. CASE RegisterCallback(c)
      BY <2>3 DEF RegisterCallback, Learn
    <2>4. CASE UnregisterHotplug(c) \/ UnregisterCallback(c)
      BY <2>4 DEF UnregisterHotplug, UnregisterCallback
    <2>5. ASSUME NEW s \in Screen, DestroyResources(c, s)
          PROVE  ServiceTypeOK'
      <3>1. UNCHANGED <<phase, mClientAlive, mEventCallback, hotplugOn, call, event>>
        BY <2>5 DEF DestroyResources
      <3>2. known' \in SUBSET Screen /\ tracked' \in [Screen -> SUBSET Handle]
        BY <2>5 DEF DestroyResources, Forget
      <3>3. layers' \in [Screen -> SUBSET Handle]
        BY <2>5 DEF DestroyResources, Emptied
      <3>4. plugged' \in [Screen -> BOOLEAN]
        BY <2>5 DEF DestroyResources, Emptied
      <3>5. picture' \in [Physical -> SUBSET Handle]
        <4>1. CASE s = Virtual
          BY <2>5, <4>1 DEF DestroyResources, Emptied
        <4>2. CASE s # Virtual
          <5>1. picture' = [picture EXCEPT ![s] =
                              IF plugged[s] THEN layers[s] \ tracked[s] ELSE picture[s]]
            BY <2>5, <4>2 DEF DestroyResources, Emptied
          <5>2. s \in Physical
            BY <4>2
          <5>. QED
            BY <5>1, <5>2
        <4>. QED
          BY <4>1, <4>2
      <3>. QED
        BY <3>1, <3>2, <3>3, <3>4, <3>5
    <2>6. CASE OnClientDestroyed(c)
      BY <2>6 DEF OnClientDestroyed
    <2>. QED
      BY <1>1, <2>1, <2>2, <2>3, <2>4, <2>5, <2>6 DEF ClientMoves
  <1>2. CASE CallStep
    <2>. USE DEF Quiet, Returns, Calls
    <2>1. ASSUME NEW s \in Screen, NEW h \in Handle, CreateLayer(s, h)
          PROVE  ServiceTypeOK'
      BY <2>1 DEF CreateLayer
    <2>2. ASSUME NEW s \in Screen, NEW h \in Handle, AddLayer(s, h)
          PROVE  ServiceTypeOK'
      BY <2>2 DEF AddLayer
    <2>3. ASSUME NEW s \in Screen, NEW h \in Handle, DestroyLayer(s, h)
          PROVE  ServiceTypeOK'
      BY <2>3 DEF DestroyLayer
    <2>4. ASSUME NEW s \in Screen, NEW h \in Handle, RemoveLayer(s, h)
          PROVE  ServiceTypeOK'
      BY <2>4 DEF RemoveLayer
    <2>5. CASE CreateVirtualDisplay
      BY <2>5 DEF CreateVirtualDisplay, Learn
    <2>6. CASE DestroyVirtualDisplay
      BY <2>6 DEF DestroyVirtualDisplay, Forget
    <2>7. ASSUME NEW s \in Screen, PresentScreen(s)
          PROVE  ServiceTypeOK'
      BY <2>7 DEF PresentScreen
    <2>. QED
      BY <1>2, <2>1, <2>2, <2>3, <2>4, <2>5, <2>6, <2>7 DEF CallStep
  <1>3. CASE EventStep
    <2>. USE DEF Unserved, Events
    <2>1. ASSUME NEW s \in Externals, Plug(s)
          PROVE  ServiceTypeOK'
      BY <2>1 DEF Plug
    <2>2. ASSUME NEW s \in Externals, Unplug(s)
          PROVE  ServiceTypeOK'
      BY <2>2 DEF Unplug
    <2>3. ASSUME NEW s \in Externals, Hotplug(s)
          PROVE  ServiceTypeOK'
      <3>1. plugged[s] \in BOOLEAN
        OBVIOUS
      <3>. QED
        BY <2>3, <3>1 DEF Hotplug
    <2>4. ASSUME NEW s \in Externals, NEW connected \in BOOLEAN, OnHotplug(s, connected)
          PROVE  ServiceTypeOK'
      BY <2>4 DEF OnHotplug, Learn, Forget
    <2>. QED
      BY <1>3, <2>1, <2>2, <2>3, <2>4 DEF EventStep
  <1>4. CASE UNCHANGED serviceVars
    BY <1>4 DEF serviceVars
  <1>. QED
    BY <1>1, <1>2, <1>3, <1>4 DEF ServiceNext

(* A client is created only when mClientAlive says that there is none. *)
LEMMA KeepsApart ==
  ASSUME ServiceTypeOK, ClientsApart, AliveIsLiving, [ServiceNext]_serviceVars
  PROVE  ClientsApart' /\ AliveIsLiving'
  <1>. USE DEF ServiceTypeOK, ClientsApart, AliveIsLiving
  <1>1. ASSUME NEW c \in Client, ClientMoves(c)
        PROVE  ClientsApart' /\ AliveIsLiving'
    <2>. USE DEF Enter, Living
    <2>1. CASE CreateClient(c) \/ WaitEnds(c)
      BY <2>1 DEF CreateClient, WaitEnds, Created
    <2>2. CASE WaitForClientDestroyed(c) \/ WaitTimesOut(c)
      BY <2>2 DEF WaitForClientDestroyed, WaitTimesOut
    <2>3. CASE RegisterCallback(c) \/ UnregisterHotplug(c) \/ UnregisterCallback(c)
      BY <2>3 DEF RegisterCallback, UnregisterHotplug, UnregisterCallback
    <2>4. ASSUME NEW s \in Screen, DestroyResources(c, s)
          PROVE  ClientsApart' /\ AliveIsLiving'
      BY <2>4 DEF DestroyResources
    <2>5. CASE OnClientDestroyed(c)
      BY <2>5 DEF OnClientDestroyed
    <2>. QED
      BY <1>1, <2>1, <2>2, <2>3, <2>4, <2>5 DEF ClientMoves
  <1>2. CASE CallStep \/ EventStep \/ UNCHANGED serviceVars
    BY <1>2, OthersKeepClients
  <1>. QED
    BY <1>1, <1>2 DEF ServiceNext

(* A client is done with its calls before it leaves, and with its callbacks  *)
(* before it is gone.                                                        *)
LEMMA KeepsBound ==
  ASSUME ServiceInv, [ServiceNext]_serviceVars
  PROVE  Bound'
  <1>. USE ScreenAssumption DEF ServiceInv, ServiceTypeOK, Bound, Serving, ClientsApart, Living
  <1>1. ASSUME NEW c \in Client, ClientMoves(c)
        PROVE  Bound'
    <2>. USE DEF Enter, registration, resources, device
    <2>1. CASE CreateClient(c) \/ WaitEnds(c)
      <3>1. \A e \in Client : phase[e] \notin Living
        BY <2>1 DEF CreateClient, WaitEnds, AliveIsLiving
      <3>. QED
        BY <2>1, <3>1 DEF CreateClient, WaitEnds, Created
    <2>2. CASE WaitForClientDestroyed(c) \/ WaitTimesOut(c)
      BY <2>2 DEF WaitForClientDestroyed, WaitTimesOut
    <2>3. CASE RegisterCallback(c)
      BY <2>3 DEF RegisterCallback, Learn
    <2>4. CASE UnregisterHotplug(c)
      BY <2>4 DEF UnregisterHotplug
    <2>5. CASE UnregisterCallback(c)
      BY <2>5 DEF UnregisterCallback
    <2>6. ASSUME NEW s \in Screen, DestroyResources(c, s)
          PROVE  Bound'
      BY <2>6 DEF DestroyResources, Forget
    <2>7. CASE OnClientDestroyed(c)
      BY <2>7 DEF OnClientDestroyed
    <2>. QED
      BY <1>1, <2>1, <2>2, <2>3, <2>4, <2>5, <2>6, <2>7 DEF ClientMoves
  <1>2. CASE CallStep
    <2>1. UNCHANGED <<phase, mEventCallback, hotplugOn>>
      BY <1>2, OthersKeepClients
    <2>2. call' # NoCall => Serving
      BY <1>2 DEF CallStep, CreateLayer, AddLayer, DestroyLayer, RemoveLayer, PresentScreen,
                  CreateVirtualDisplay, DestroyVirtualDisplay, Called, Returns
    <2>3. known' = known \/ Serving
      BY <1>2 DEF CallStep, CreateLayer, AddLayer, DestroyLayer, RemoveLayer, PresentScreen,
                  CreateVirtualDisplay, DestroyVirtualDisplay, Called, resources
    <2>. QED
      BY <2>1, <2>2, <2>3
  <1>3. CASE EventStep
    <2>1. UNCHANGED <<phase, mEventCallback, hotplugOn, call>>
      BY <1>3, OthersKeepClients DEF EventStep, Plug, Unplug, Hotplug, OnHotplug, Unserved
    <2>2. known' = known \/ mEventCallback # Nobody
      BY <1>3 DEF EventStep, Plug, Unplug, Hotplug, OnHotplug, resources
    <2>. QED
      BY <2>1, <2>2
  <1>4. CASE UNCHANGED serviceVars
    BY <1>4 DEF serviceVars, registration, resources
  <1>. QED
    BY <1>1, <1>2, <1>3, <1>4 DEF ServiceNext

(* Whatever a client does, its own view of the displays changes with their    *)
(* events: registering forgets the past, and only the event thread forgets or *)
(* learns an external display.                                                *)
LEMMA KeepsInTime ==
  ASSUME ServiceInv, [ServiceNext]_serviceVars, NEW s \in Externals
  PROVE  InTime(s)'
  <1>. USE ScreenAssumption DEF ServiceInv, ServiceTypeOK, InTime, About, Serving, Bound, Living,
                                Screen, Physical
  <1>1. ASSUME NEW c \in Client, ClientMoves(c)
        PROVE  InTime(s)'
    <2>. USE DEF Enter, registration, resources, device
    <2>1. CASE CreateClient(c) \/ WaitEnds(c)
      BY <2>1 DEF CreateClient, WaitEnds, Created
    <2>2. CASE WaitForClientDestroyed(c) \/ WaitTimesOut(c)
      BY <2>2 DEF WaitForClientDestroyed, WaitTimesOut
    <2>3. CASE RegisterCallback(c)
      <3>1. \A e \in Client : phase[e] \in Living => e = c
        BY <2>3 DEF RegisterCallback, ClientsApart
      <3>2. known = {}
        BY <2>3, <3>1 DEF RegisterCallback
      <3>3. s \notin known' /\ UNCHANGED <<plugged, layers, event>>
        BY <2>3, <3>2 DEF RegisterCallback, Learn
      <3>. QED
        BY <3>3
    <2>4. CASE UnregisterHotplug(c) \/ UnregisterCallback(c)
      BY <2>4 DEF UnregisterHotplug, UnregisterCallback
    <2>5. ASSUME NEW t \in Screen, DestroyResources(c, t)
          PROVE  InTime(s)'
      <3>1. ~Serving'
        <4>1. \A e \in Client : phase[e] \in Living => e = c
          BY <2>5 DEF DestroyResources, ClientsApart
        <4>. QED
          BY <2>5, <4>1 DEF DestroyResources
      <3>2. plugged'[s] = plugged[s] /\ layers'[s] \subseteq layers[s] /\ UNCHANGED event
        BY <2>5 DEF DestroyResources, Emptied
      <3>. QED
        BY <3>1, <3>2
    <2>6. CASE OnClientDestroyed(c)
      BY <2>6 DEF OnClientDestroyed
    <2>. QED
      BY <1>1, <2>1, <2>2, <2>3, <2>4, <2>5, <2>6 DEF ClientMoves
  <1>2. CASE CallStep
    <2>1. UNCHANGED <<phase, event>>
      BY <1>2, OthersKeepClients
         DEF CallStep, CreateLayer, AddLayer, DestroyLayer, RemoveLayer, PresentScreen,
             CreateVirtualDisplay, DestroyVirtualDisplay, Quiet
    <2>2. plugged'[s] = plugged[s]
      BY <1>2 DEF CallStep, CreateLayer, AddLayer, DestroyLayer, RemoveLayer, PresentScreen,
                  CreateVirtualDisplay, DestroyVirtualDisplay, device
    <2>3. s \in known' <=> s \in known
      BY <1>2 DEF CallStep, CreateLayer, AddLayer, DestroyLayer, RemoveLayer, PresentScreen,
                  CreateVirtualDisplay, DestroyVirtualDisplay, Learn, Forget, resources
    <2>4. layers'[s] \subseteq layers[s] \/ (Serving /\ s \in known /\ plugged[s])
      <3>1. ASSUME NEW t \in Screen, NEW h \in Handle, CreateLayer(t, h)
            PROVE  layers'[s] \subseteq layers[s] \/ (Serving /\ s \in known /\ plugged[s])
        BY <3>1 DEF CreateLayer, Called
      <3>2. ASSUME NEW t \in Screen, NEW h \in Handle, DestroyLayer(t, h)
            PROVE  layers'[s] \subseteq layers[s]
        BY <3>2 DEF DestroyLayer
      <3>3. (\E t \in Screen, h \in Handle : CreateLayer(t, h) \/ DestroyLayer(t, h))
              \/ UNCHANGED layers
        BY <1>2 DEF CallStep, AddLayer, RemoveLayer, PresentScreen, CreateVirtualDisplay,
                    DestroyVirtualDisplay, device
      <3>. QED
        BY <3>1, <3>2, <3>3
    <2>5. (About(s)' <=> About(s)) /\ (Serving' <=> Serving)
      BY <2>1, Zenon
    <2>6. (About(s) /\ plugged[s] => layers[s] = {})'
      BY <2>2, <2>4, <2>5
    <2>7. (Serving /\ s \in known => (plugged[s] <=> ~About(s)))'
      BY <2>2, <2>3, <2>5
    <2>. QED
      BY <2>1, <2>2, <2>6, <2>7
  <1>3. CASE EventStep
    <2>1. UNCHANGED <<phase, hotplugOn, mEventCallback>>
      BY <1>3, OthersKeepClients
    <2>2. ASSUME NEW t \in Externals, Plug(t)
          PROVE  InTime(s)'
      <3>1. /\ event = NoEvent /\ ~About(s)
            /\ About(s)' <=> s = t
            /\ \A connected \in BOOLEAN : event' # <<"hotplug hook", s, connected>>
        BY <2>2, TagsDiffer DEF Plug
      <3>2. /\ s = t => ~plugged[s] /\ plugged'[s] /\ layers'[s] = {}
            /\ s # t => plugged'[s] = plugged[s]
            /\ UNCHANGED known
        BY <2>2 DEF Plug, resources
      <3>. QED
        BY <2>1, <3>1, <3>2
    <2>3. ASSUME NEW t \in Externals, Unplug(t)
          PROVE  InTime(s)'
      BY <2>1, <2>3, TagsDiffer DEF Unplug, resources
    <2>4. ASSUME NEW t \in Externals, Hotplug(t)
          PROVE  InTime(s)'
      BY <2>1, <2>4, TagsDiffer DEF Hotplug, resources, device
    <2>5. ASSUME NEW t \in Externals, NEW connected \in BOOLEAN, OnHotplug(t, connected)
          PROVE  InTime(s)'
      BY <2>1, <2>5, TagsDiffer DEF OnHotplug, Learn, Forget, device
    <2>. QED
      BY <1>3, <2>2, <2>3, <2>4, <2>5 DEF EventStep
  <1>4. CASE UNCHANGED serviceVars
    BY <1>4 DEF serviceVars, registration, resources, device
  <1>. QED
    BY <1>1, <1>2, <1>3, <1>4 DEF ServiceNext

-----------------------------------------------------------------------------
(* The clients: the invariant holds at first and is kept. *)
LEMMA ServiceInvAtFirst == ServiceInit => ServiceInv
  <1>. SUFFICES ASSUME ServiceInit PROVE ServiceInv
    OBVIOUS
  <1>1. ServiceTypeOK
    BY TypesAtFirst
  <1>2. ClientsApart /\ AliveIsLiving /\ Bound
    <2>1. \A c \in Client : phase[c] = "none"
      BY DEF ServiceInit
    <2>2. ~mClientAlive /\ mEventCallback = Nobody /\ known = {} /\ call = NoCall
      BY DEF ServiceInit
    <2>. QED
      BY <2>1, <2>2 DEF ClientsApart, AliveIsLiving, Bound, Serving, Living
  <1>3. ASSUME NEW s \in Externals
        PROVE  InTime(s)
    <2>1. event = NoEvent /\ known = {}
      BY DEF ServiceInit
    <2>. QED
      BY <2>1, NoEventIsAboutNone DEF InTime
  <1>. QED
    BY <1>1, <1>2, <1>3 DEF ServiceInv

LEMMA KeepsServiceInv ==
  ASSUME ServiceInv, [ServiceNext]_serviceVars
  PROVE  ServiceInv'
  <1>1. ServiceTypeOK'
    BY KeepsServiceTypes DEF ServiceInv
  <1>2. ClientsApart' /\ AliveIsLiving'
    BY KeepsApart DEF ServiceInv
  <1>3. Bound'
    BY KeepsBound
  <1>4. \A s \in Externals : InTime(s)'
    BY KeepsInTime
  <1>. QED
    BY <1>1, <1>2, <1>3, <1>4 DEF ServiceInv

(* The types of the composer service are those of ServiceTypeOK. *)
THEOREM ServiceTyping == ServiceSpec => []ServiceTypeOK
  <1>1. ServiceTypeOK /\ [ServiceNext]_serviceVars => ServiceTypeOK'
    BY KeepsServiceTypes
  <1>. QED
    BY TypesAtFirst, <1>1, PTL DEF ServiceSpec

(* No two clients use the device at the same time, however creations,        *)
(* destructions and timeouts of Composer::createClient fall.                 *)
THEOREM ClientsAreApart == ServiceSpec => []ClientsApart
  <1>1. ServiceInv /\ [ServiceNext]_serviceVars => ServiceInv'
    BY KeepsServiceInv
  <1>2. ServiceInv => ClientsApart
    BY DEF ServiceInv
  <1>. QED
    BY ServiceInvAtFirst, <1>1, <1>2, PTL DEF ServiceSpec

(* A client that makes calls knows no external display that is gone, between *)
(* events: HalEventCallback::onHotplug has told it, even of events that      *)
(* began before it registered.                                               *)
THEOREM KnownOnesArePlugged == ServiceSpec => []KnownArePlugged
  <1>1. ServiceInv /\ [ServiceNext]_serviceVars => ServiceInv'
    BY KeepsServiceInv
  <1>2. ServiceInv => KnownArePlugged
    <2>. SUFFICES ASSUME ServiceInv, NEW c \in Client, phase[c] = "serving", event = NoEvent,
                         NEW s \in known \intersect Externals
                  PROVE  plugged[s]
      BY DEF KnownArePlugged
    <2>1. InTime(s) /\ Serving
      BY DEF ServiceInv, Serving
    <2>2. ~About(s)
      BY NoEventIsAboutNone
    <2>. QED
      BY <2>1, <2>2 DEF InTime
  <1>. QED
    BY ServiceInvAtFirst, <1>1, <1>2, PTL DEF ServiceSpec

-----------------------------------------------------------------------------
(* The layers.                                                               *)
LEMMA OwnedAtFirst == ServiceInit => OwnedInv
  <1>. SUFFICES ASSUME ServiceInit, NEW s \in Screen PROVE Owned(s)
    BY DEF OwnedInv
  <1>1. layers[s] = {} /\ tracked[s] = {} /\ (s \in Physical => picture[s] = {})
    BY DEF ServiceInit
  <1>. QED
    BY <1>1 DEF Owned

(* The steps of a client itself: registering starts from nothing, and a      *)
(* display is destroyed together with its layers and its picture.            *)
LEMMA ClientKeepsOwned ==
  ASSUME ServiceInv, OwnedInv, NEW c \in Client, ClientMoves(c), NEW s \in Screen
  PROVE  Owned(s)'
  <1>. USE ScreenAssumption DEF OwnedInv, Owned, Screen, Physical
  <1>1. CASE UNCHANGED <<known, tracked, plugged, layers, picture, call>>
    BY <1>1 DEF Pending
  <1>2. CASE RegisterCallback(c)
    <2>1. \A e \in Client : phase[e] \in Living => e = c
      BY <1>2 DEF RegisterCallback, ServiceInv, ClientsApart, Living
    <2>2. known = {}
      BY <1>2, <2>1 DEF RegisterCallback, ServiceInv, Bound, Living
    <2>3. UNCHANGED <<plugged, layers, picture, call>>
      BY <1>2 DEF RegisterCallback, device
    <2>4. known' = {Main} /\ tracked' = [tracked EXCEPT ![Main] = {}]
      BY <1>2, <2>2 DEF RegisterCallback, Learn
    <2>5. Pending("add", s)' = Pending("add", s) /\ Pending("remove", s)' = Pending("remove", s)
      BY <2>3 DEF Pending
    <2>6. tracked[s] = {} /\ tracked'[s] = {} /\ (s = Virtual \/ plugged[s] => layers[s] = {})
      BY <2>2, <2>4 DEF ServiceInv, ServiceTypeOK
    <2>. QED
      BY <2>2, <2>3, <2>4, <2>5, <2>6
  <1>3. ASSUME NEW t \in Screen, DestroyResources(c, t)
        PROVE  Owned(s)'
    <2>1. call = NoCall /\ UNCHANGED call
      <3>1. \A e \in Client : phase[e] \in Living => e = c
        BY <1>3 DEF DestroyResources, ServiceInv, ClientsApart, Living
      <3>2. ~Serving
        BY <1>3, <3>1 DEF DestroyResources, Serving, Living
      <3>. QED
        BY <1>3, <3>2 DEF DestroyResources, ServiceInv, Bound
    <2>2. /\ Pending("add", s) = {} /\ Pending("remove", s) = {}
          /\ Pending("add", s)' = {} /\ Pending("remove", s)' = {}
      <3>1. Pending("add", s)' = Pending("add", s) /\ Pending("remove", s)' = Pending("remove", s)
        BY <2>1 DEF Pending
      <3>. QED
        BY <2>1, <3>1, NoCallIsPending
    <2>3. known' = known \ {t} /\ tracked' = [tracked EXCEPT ![t] = {}]
      BY <1>3 DEF DestroyResources, Forget
    <2>4. layers' = [layers EXCEPT ![t] = layers[t] \ tracked[t]]
      BY <1>3 DEF DestroyResources, Emptied
    <2>5. s # t => plugged'[s] = plugged[s] /\ (s \in Physical => picture'[s] = picture[s])
      BY <1>3 DEF DestroyResources, Emptied, ServiceInv, ServiceTypeOK
    <2>6. t \in Physical => plugged' = plugged
      BY <1>3 DEF DestroyResources, Emptied
    <2>7. t \in Physical => picture'[t] = IF plugged[t] THEN layers[t] \ tracked[t] ELSE picture[t]
      BY <1>3 DEF DestroyResources, Emptied, ServiceInv, ServiceTypeOK
    <2>8. t = Virtual \/ plugged[t] => layers'[t] = {}
      <3>1. t \in known
        BY <1>3 DEF DestroyResources
      <3>2. Pending("add", t) = {} /\ Pending("remove", t) = {}
        BY <2>1, NoCallIsPending
      <3>. QED
        BY <2>4, <3>1, <3>2 DEF ServiceInv, ServiceTypeOK
    <2>9. CASE s = t
      BY <2>2, <2>3, <2>4, <2>6, <2>7, <2>8, <2>9 DEF ServiceInv, ServiceTypeOK
    <2>10. CASE s # t
      BY <2>2, <2>3, <2>4, <2>5, <2>10 DEF ServiceInv, ServiceTypeOK
    <2>. QED
      BY <2>9, <2>10
  <1>. QED
    BY <1>1, <1>2, <1>3
       DEF ClientMoves, CreateClient, WaitEnds, Created, WaitForClientDestroyed, WaitTimesOut,
           UnregisterHotplug, UnregisterCallback, OnClientDestroyed, resources, device

(* The calls of a client: a layer is in the device before the client tracks  *)
(* it and until after it has forgotten it, whatever happens in between.      *)
LEMMA CallKeepsOwned ==
  ASSUME EmptiesFirst, ServiceInv, OwnedInv, CallStep, NEW s \in Screen
  PROVE  Owned(s)'
  <1>. USE ScreenAssumption DEF OwnedInv, Owned, ServiceInv, ServiceTypeOK
  <1>1. ASSUME NEW t \in Screen, NEW h \in Handle, CreateLayer(t, h)
        PROVE  Owned(s)'
    <2>1. call = NoCall /\ t \in known /\ UNCHANGED <<known, tracked, plugged, picture>>
      BY <1>1 DEF CreateLayer, Called, resources
    <2>2. layers' = [layers EXCEPT ![t] = layers[t] \union {h}] /\ call' = <<"add", t, h>>
      BY <1>1 DEF CreateLayer
    <2>3. Pending("add", s) = {} /\ Pending("remove", s)' = {}
      BY <2>1, <2>2, NoCallIsPending, TagsDiffer DEF Pending
    <2>4. CASE s = t
      <3>1. h \in Pending("add", s)'
        BY <2>2, <2>4 DEF Pending
      <3>. QED
        BY <2>1, <2>2, <2>3, <2>4, <3>1
    <2>5. CASE s # t
      BY <2>1, <2>2, <2>3, <2>5
    <2>. QED
      BY <2>4, <2>5
  <1>2. ASSUME NEW t \in Screen, NEW h \in Handle, AddLayer(t, h)
        PROVE  Owned(s)'
    <2>1. call = <<"add", t, h>> /\ call' = NoCall /\ UNCHANGED <<known, plugged, layers, picture>>
      BY <1>2 DEF AddLayer, Returns, device
    <2>2. tracked' = [tracked EXCEPT ![t] = IF t \in known THEN tracked[t] \union {h} ELSE tracked[t]]
      BY <1>2 DEF AddLayer
    <2>3. Pending("add", s)' = {} /\ Pending("remove", s)' = {}
      <3>1. \A k \in Handle : call' # <<"add", s, k>> /\ call' # <<"remove", s, k>>
        BY <2>1, TagsDiffer, Zenon
      <3>. QED
        BY <3>1 DEF Pending
    <2>4. Pending("add", s) \subseteq (IF s = t THEN {h} ELSE {})
      BY <2>1, TagsDiffer DEF Pending
    <2>5. CASE s = t
      BY <2>1, <2>2, <2>3, <2>4, <2>5
    <2>6. CASE s # t
      BY <2>1, <2>2, <2>3, <2>4, <2>6
    <2>. QED
      BY <2>5, <2>6
  <1>3. ASSUME NEW t \in Screen, NEW h \in Handle, DestroyLayer(t, h)
        PROVE  Owned(s)'
    <2>1. call = NoCall /\ UNCHANGED <<known, tracked, plugged, picture>>
      BY <1>3 DEF DestroyLayer, Called, resources
    <2>2. layers' = [layers EXCEPT ![t] = layers[t] \ {h}]
      BY <1>3 DEF DestroyLayer
    <2>3. call' = NoCall \/ call' = <<"remove", t, h>>
      BY <1>3 DEF DestroyLayer
    <2>4. Pending("add", s) = {} /\ Pending("remove", s)' \subseteq (IF s = t THEN {h} ELSE {})
      <3>1. Pending("add", s) = {}
        BY <2>1, NoCallIsPending
      <3>2. \A k \in Handle : call' = <<"remove", s, k>> => s = t /\ k = h
        BY <2>3, TagsDiffer
      <3>. QED
        BY <3>1, <3>2 DEF Pending
    <2>. QED
      BY <2>1, <2>2, <2>4
  <1>4. ASSUME NEW t \in Screen, NEW h \in Handle, RemoveLayer(t, h)
        PROVE  Owned(s)'
    <2>1. call = <<"remove", t, h>> /\ call' = NoCall /\ UNCHANGED <<known, plugged, layers, picture>>
      BY <1>4 DEF RemoveLayer, Returns, device
    <2>2. tracked' = [tracked EXCEPT ![t] = tracked[t] \ {h}]
      BY <1>4 DEF RemoveLayer
    <2>3. /\ Pending("add", s) = {} /\ Pending("remove", s)' = {}
          /\ s = t => h \in Pending("remove", s)
      <3>1. \A k \in Handle : call' # <<"remove", s, k>> /\ call # <<"add", s, k>>
        BY <2>1, TagsDiffer, Zenon
      <3>. QED
        BY <2>1, <3>1 DEF Pending
    <2>. QED
      BY <2>1, <2>2, <2>3
  <1>5. CASE CreateVirtualDisplay
    <2>1. call = NoCall /\ Virtual \notin known /\ UNCHANGED <<layers, picture, call>>
      BY <1>5 DEF CreateVirtualDisplay, Called
    <2>2. /\ plugged' = [plugged EXCEPT ![Virtual] = TRUE]
          /\ known' = known \union {Virtual} /\ tracked' = [tracked EXCEPT ![Virtual] = {}]
      BY <1>5 DEF CreateVirtualDisplay, Learn
    <2>3. Pending("add", s)' = Pending("add", s) /\ Pending("remove", s)' = Pending("remove", s)
      BY <2>1 DEF Pending
    <2>4. Virtual \notin Physical
      BY DEF Physical
    <2>. QED
      BY <2>1, <2>2, <2>3, <2>4
  <1>6. CASE DestroyVirtualDisplay
    <2>1. call = NoCall /\ layers[Virtual] = {} /\ UNCHANGED <<layers, picture, call>>
      BY <1>6 DEF DestroyVirtualDisplay, Called
    <2>2. /\ plugged' = [plugged EXCEPT ![Virtual] = FALSE]
          /\ known' = known \ {Virtual} /\ tracked' = [tracked EXCEPT ![Virtual] = {}]
      BY <1>6 DEF DestroyVirtualDisplay, Forget
    <2>3. Pending("add", s)' = Pending("add", s) /\ Pending("remove", s)' = Pending("remove", s)
      BY <2>1 DEF Pending
    <2>4. Virtual \notin Physical
      BY DEF Physical
    <2>. QED
      BY <2>1, <2>2, <2>3, <2>4
  <1>7. ASSUME NEW t \in Screen, PresentScreen(t)
        PROVE  Owned(s)'
    <2>1. t \in known /\ plugged[t] /\ UNCHANGED <<known, tracked, plugged, layers, call>>
      BY <1>7 DEF PresentScreen, resources
    <2>2. picture' = [picture EXCEPT ![t] = layers[t]]
      BY <1>7 DEF PresentScreen
    <2>3. Pending("add", s)' = Pending("add", s) /\ Pending("remove", s)' = Pending("remove", s)
      BY <2>1 DEF Pending
    <2>. QED
      BY <2>1, <2>2, <2>3
  <1>. QED
    BY <1>1, <1>2, <1>3, <1>4, <1>5, <1>6, <1>7 DEF CallStep

(* The events: a display has neither layers nor a picture when it comes, and *)
(* it is forgotten only when it is gone.                                     *)
LEMMA EventKeepsOwned ==
  ASSUME ServiceInv, OwnedInv, EventStep, NEW s \in Screen
  PROVE  Owned(s)'
  <1>. USE ScreenAssumption DEF OwnedInv, Owned, ServiceInv, ServiceTypeOK, Screen, Physical
  <1>1. UNCHANGED call /\ Pending("add", s)' = Pending("add", s)
          /\ Pending("remove", s)' = Pending("remove", s)
    <2>1. UNCHANGED call
      BY DEF EventStep, Plug, Unplug, Hotplug, OnHotplug, Unserved
    <2>. QED
      BY <2>1 DEF Pending
  <1>2. ASSUME NEW t \in Externals, Plug(t)
        PROVE  Owned(s)'
    <2>1. ~plugged[t] /\ UNCHANGED <<known, tracked, picture>>
      BY <1>2 DEF Plug, resources
    <2>2. /\ plugged' = [plugged EXCEPT ![t] = TRUE, ![Virtual] = FALSE]
          /\ layers' = [layers EXCEPT ![t] = {}]
      BY <1>2 DEF Plug
    <2>. QED
      BY <1>1, <2>1, <2>2
  <1>3. ASSUME NEW t \in Externals, Unplug(t)
        PROVE  Owned(s)'
    <2>1. UNCHANGED <<known, tracked, layers>>
      BY <1>3 DEF Unplug, resources
    <2>2. /\ plugged' = [plugged EXCEPT ![t] = FALSE]
          /\ picture' = [picture EXCEPT ![t] = {}]
      BY <1>3 DEF Unplug
    <2>. QED
      BY <1>1, <2>1, <2>2
  <1>4. ASSUME NEW t \in Externals, Hotplug(t)
        PROVE  Owned(s)'
    BY <1>1, <1>4 DEF Hotplug, resources, device
  <1>5. ASSUME NEW t \in Externals, NEW connected \in BOOLEAN, OnHotplug(t, connected)
        PROVE  Owned(s)'
    <2>1. About(t) /\ connected = plugged[t] /\ (plugged[t] => layers[t] = {})
      <3>1. event = <<"hotplug hook", t, connected>>
        BY <1>5 DEF OnHotplug
      <3>2. About(t)
        BY <3>1, Zenon DEF About
      <3>3. InTime(t)
        OBVIOUS
      <3>. QED
        BY <3>1, <3>2, <3>3, Zenon DEF InTime
    <2>2. UNCHANGED <<plugged, layers, picture>>
      BY <1>5 DEF OnHotplug, device
    <2>3. CASE connected
      <3>1. known' = known \union {t} /\ tracked' = [tracked EXCEPT ![t] = {}]
        BY <1>5, <2>3 DEF OnHotplug, Learn
      <3>. QED
        BY <1>1, <2>1, <2>2, <2>3, <3>1
    <2>4. CASE ~connected
      <3>1. known' = known \ {t} /\ tracked' = [tracked EXCEPT ![t] = {}]
        BY <1>5, <2>4 DEF OnHotplug, Forget
      <3>. QED
        BY <1>1, <2>1, <2>2, <2>4, <3>1
    <2>. QED
      BY <2>3, <2>4
  <1>. QED
    BY <1>2, <1>3, <1>4, <1>5 DEF EventStep

(* When a client has gone, the device has none of its layers and no panel    *)
(* shows one (destroyResources), if it empties its virtual display first.    *)
THEOREM NothingIsLeft ==
  ASSUME EmptiesFirst
  PROVE  ServiceSpec => []NothingLeft
  <1>1. ServiceInv /\ OwnedInv /\ [ServiceNext]_serviceVars => (ServiceInv /\ OwnedInv)'
    <2>. SUFFICES ASSUME ServiceInv, OwnedInv, [ServiceNext]_serviceVars
                  PROVE  OwnedInv'
      BY KeepsServiceInv
    <2>1. ASSUME NEW s \in Screen PROVE Owned(s)'
      <3>1. CASE UNCHANGED serviceVars
        BY <3>1 DEF serviceVars, resources, device, OwnedInv, Owned, Pending
      <3>. QED
        BY <3>1, ClientKeepsOwned, CallKeepsOwned, EventKeepsOwned DEF ServiceNext
    <2>. QED
      BY <2>1 DEF OwnedInv, Screen, Physical
  <1>2. ServiceInv /\ OwnedInv => NothingLeft
    <2>. SUFFICES ASSUME ServiceInv, OwnedInv, \A c \in Client : phase[c] \notin Living,
                         NEW s \in Screen
                  PROVE  /\ s = Virtual \/ plugged[s] => layers[s] = {}
                         /\ s \in Physical => picture[s] = {}
      BY DEF NothingLeft, Screen, Physical
    <2>1. known = {}
      BY DEF ServiceInv, Bound, Living
    <2>. QED
      BY <2>1 DEF OwnedInv, Owned
  <1>. QED
    BY ServiceInvAtFirst, OwnedAtFirst, <1>1, <1>2, PTL DEF ServiceSpec
=============================================================================
