-------------------------- MODULE LayerAssignment --------------------------
(***************************************************************************)
(* Which hardware composes which layer of a display, decided anew in each  *)
(* validate that assigns resources (ExynosResourceManager::assignResource):*)
(* a layer has an overlay block (OTF) and a window of its own, with a      *)
(* single-source post-processor before it if need be, or is composed with  *)
(* others by the blender (G2D, "exynos composition") or by the client (the *)
(* GPU), whose result is one more source with a block and a window.        *)
(*                                                                         *)
(* The two compositions each take a range of the layers: what lies inside  *)
(* a range joins it.  Assigning one layer can thus undo the assignment of  *)
(* others, and the code starts over until nothing changes.  It runs in one *)
(* thread, under the mutex of the device; an action is one iteration of    *)
(* its loops.  The display uses the DPU, and its blender is G2D_RGB.       *)
(***************************************************************************)
EXTENDS Integers, FiniteSets

CONSTANTS Top,        \* the layers are 0 .. Top, from the bottom
          Kind,       \* kinds of layers, which the next ones classify
          Stacks,     \* the layers the client may set, as the kind of each
          Priority,   \* mOverlayPriority of each kind
          Opaque,     \* kinds with a plane alpha of 1
          Asked,      \* kinds for which HWC2_COMPOSITION_CLIENT is requested
          Rejected,   \* kinds that validateLayer() leaves to the client
          Blendable,  \* kinds that the blender supports
          Dynamic,    \* kinds with dynamic HDR metadata
          MaxDynamic, \* the number of blocks that can process it
          Overlay,    \* mOtfMPPs
          Single,     \* mM2mMPPs with one source
          Graphics,   \* those of Single that are part of the G2D
          Blender,    \* mBlendingMPP
          MaxSources, \* its mMaxSrcLayerNum
          MaxWindow,  \* mMaxWindowNum
          Word,       \* 2^32 of uint32_t mWindowNumUsed, smaller for TLC
          MaxTries,   \* ASSIGN_RESOURCE_TRY_COUNT
          NoBlock     \* not a block

Layer == 0 .. Top
ClientTarget == -1
ExynosTarget == -2
Source == Layer \union {ClientTarget, ExynosTarget}
Block == Overlay \union Single \union {Blender}
Turn == 1 .. 4    \* ePriorityLow to ePriorityMax

ASSUME AssignmentAssumption ==
  /\ Top \in Nat /\ MaxSources \in Nat /\ MaxWindow \in Nat /\ MaxTries \in Nat
  /\ MaxDynamic \in Nat
  /\ Word \in Nat /\ Word > MaxWindow + 2 * Top + 4
  /\ Stacks \subseteq [Layer -> Kind]
  /\ Priority \in [Kind -> Turn]
  /\ \A k \in Blendable : Priority[k] <= 2  \* G2D_RGB takes no video
  /\ Graphics \subseteq Single
  /\ Overlay \intersect Single = {}
  /\ Blender \notin Overlay \union Single
  /\ NoBlock \notin Block

VARIABLES
  kind,  \* of each layer, what the client has set
  plan,  \* the layers, blocks, compositions and windows of the display
  step   \* where assignResource() is

assignmentVars == <<kind, plan, step>>

High(i) == Priority[kind[i]] >= 3
\* The client clears its target where such a layer is: it may show through.
ShowsThrough(i) == High(i) /\ kind[i] \in Opaque
Accepted(i) == kind[i] \notin Asked \union Rejected

\* ExynosCompositionInfo: the range of a composition
Nothing == [has |-> FALSE, first |-> -1, last |-> -1]
Composition == [has : BOOLEAN, first : Int, last : Int]

Plan ==
  [ type : [Layer -> {"invalid", "device", "exynos", "client"}],
    otf : [Source -> Overlay \union {NoBlock}],
    m2m : [Layer -> Single \union {Blender, NoBlock}],
    users : [Block -> SUBSET Source],  \* mAssignedSources
    disabled : SUBSET Block,           \* busy for setResourcePriority()
    client : Composition, exynos : Composition,
    windows : 0 .. Word - 1,           \* mWindowNumUsed
    counted : SUBSET Source,           \* the sources it has counted
    miscounted : BOOLEAN,              \* it went down for others, too
    dynamic : SUBSET Layer,            \* layers with dynamic HDR metadata
    failed : BOOLEAN,                  \* an error has been returned
    window : [Source -> Int] ]

Step ==
  [ at : {"asked", "pass", "layers", "sandwich", "pierced", "target",
          "untargeted", "priority", "alone", "lower", "upper", "windows",
          "assigned", "forced"},
    layer : Int, from : Int, seen : Int, turn : Turn,
    invalid : BOOLEAN, changed : BOOLEAN, tries : Nat ]

-----------------------------------------------------------------------------
(* The blocks: ExynosMPP and ExynosMPPSource.                              *)

\* isAssignableState() of a block whose display this is
IsFree(p, b) == b \notin p.disabled /\ p.users[b] = {}
CanTakeMore(p) ==
  Blender \notin p.disabled /\ Cardinality(p.users[Blender]) < MaxSources

\* assignMPP()
AssignOverlay(p, b, s) ==
  [p EXCEPT !.otf[s] = b, !.users[b] = @ \union {s}]
AssignM2M(p, b, i) ==
  [p EXCEPT !.m2m[i] = b, !.users[b] = @ \union {i}]

\* resetAssignedState() of every block in B
Release(p, B) ==
  [p EXCEPT
    !.otf = [s \in Source |-> IF @[s] \in B /\ s \in p.users[@[s]] THEN NoBlock ELSE @[s]],
    !.m2m = [i \in Layer |-> IF @[i] \in B /\ i \in p.users[@[i]] THEN NoBlock ELSE @[i]],
    !.users = [b \in Block |-> IF b \in B THEN {} ELSE @[b]]]

\* Variant: the post-processor keeps the layer among its sources.
FreeOverlayOnly(p, F) ==
  [Release(p, {p.otf[i] : i \in F} \ {NoBlock}) EXCEPT
    !.otf = [s \in Source |-> IF s \in F THEN NoBlock ELSE @[s]],
    !.m2m = [i \in Layer |-> IF i \in F THEN NoBlock ELSE @[i]]]

\* ExynosLayer::resetAssignedResource() of the layers in F
Free(p, F) ==
  [Release(p, {p.otf[i] : i \in F} \ {NoBlock}) EXCEPT
    !.otf = [s \in Source |-> IF s \in F THEN NoBlock ELSE @[s]],
    !.m2m = [i \in Layer |-> IF i \in F THEN NoBlock ELSE @[i]],
    !.users = [b \in Block |-> @[b] \ {i \in F : p.m2m[i] = b}]]

-----------------------------------------------------------------------------
(* Windows and compositions: ExynosDisplay.                                *)

\* Variant: the counter is signed.
UncountedSigned(p, S) ==
  [p EXCEPT !.windows = @ - Cardinality(S),
            !.counted = @ \ S, !.miscounted = @ \/ ~(S \subseteq p.counted)]

\* mWindowNumUsed goes down for the sources in S; miscounted records that it
\* was not raised for one of them since it was set to 0.
Uncounted(p, S) ==
  [p EXCEPT !.windows = (@ - Cardinality(S)) % Word,
            !.counted = @ \ S, !.miscounted = @ \/ ~(S \subseteq p.counted)]
Counted(p, s) ==
  [p EXCEPT !.windows = (@ + 1) % Word, !.counted = @ \union {s}]

WithType(p, F, type) ==
  [p EXCEPT !.type = [i \in Layer |-> IF i \in F THEN type ELSE @[i]]]

\* initializeInfos(): the overlay block is forgotten, not released.
NoExynos(p) == [p EXCEPT !.exynos = Nothing, !.otf[ExynosTarget] = NoBlock]
NoClient(p) == [p EXCEPT !.client = Nothing, !.otf[ClientTarget] = NoBlock]

Lowest(S) == CHOOSE i \in S : \A j \in S : i <= j
Highest(S) == CHOOSE i \in S : \A j \in S : i >= j

\* The smallest composition that takes the layers in S.
Extended(comp, S) ==
  LET T == S \union IF comp.has THEN {comp.first, comp.last} ELSE {}
  IN  [has |-> TRUE, first |-> Lowest(T), last |-> Highest(T)]

OfType(p, type) == {i \in Layer : p.type[i] = type}

\* Variant: a layer of the blender stays in the range of the client.
AddClientKeepsExynos(p, i) ==
  LET comp == Extended(p.client, {i})
      between == {j \in comp.first + 1 .. comp.last - 1 :
                    ~ShowsThrough(j) /\ p.type[j] \notin {"client", "exynos"}}
  IN  WithType(Free([p EXCEPT !.client = comp], between), between, "client")

\* addClientCompositionLayer(), when the type of layer i is set: the layers
\* between the first and the last follow, if they cannot show through.
AddClient(p, i) ==
  LET comp == Extended(p.client, {i})
      between == {j \in comp.first + 1 .. comp.last - 1 :
                    ~ShowsThrough(j) /\ p.type[j] # "client"}
      device == {j \in between : p.type[j] = "device"}
      q == WithType(Free(Uncounted([p EXCEPT !.client = comp], device), between),
                    between, "client")
  IN  IF \A j \in between : p.type[j] # "exynos" THEN q
      ELSE IF ~p.exynos.has THEN [q EXCEPT !.failed = TRUE]
      ELSE IF OfType(q, "exynos") = {} THEN NoExynos(q)
      ELSE [q EXCEPT !.exynos = Extended(Nothing, OfType(q, "exynos"))]

\* It returned EXYNOS_ERROR_CHANGED when p became q.
Changes(p, q) == p.client.has # q.client.has \/ (p.exynos.has /\ ~q.exynos.has)

\* Layer i leaves its blocks and goes to the client.
ToClient(p, i) == AddClient(WithType(Free(p, {i}), {i}, "client"), i)

\* removeClientCompositionLayer(), which takes the first or the last layer
RemoveClient(p, i) ==
  IF ~p.client.has \/ i \notin {p.client.first, p.client.last}
  THEN [p EXCEPT !.failed = TRUE]
  ELSE IF p.client.first = p.client.last
  THEN IF p.otf[ClientTarget] = NoBlock THEN [p EXCEPT !.failed = TRUE]
       ELSE NoClient(Uncounted(Release(p, {p.otf[ClientTarget]}), {ClientTarget}))
  ELSE IF i = p.client.first THEN [p EXCEPT !.client.first = @ + 1]
  ELSE [p EXCEPT !.client.last = @ - 1]

-----------------------------------------------------------------------------
(* assignLayer(): what a layer may get.  Whether a block supports its image *)
(* and has the capacity is chosen; the code takes the first in this order.  *)

Outcome == [type : {"device", "exynos", "client"}, otf : Overlay \union {NoBlock},
            m2m : Single \union {Blender, NoBlock}]
ByClient == [type |-> "client", otf |-> NoBlock, m2m |-> NoBlock]
ByBlender == [type |-> "exynos", otf |-> NoBlock, m2m |-> Blender]

\* Variant: one window too many.
NoWindowBeyond(p) == p.windows > MaxWindow

NoWindow(p) == p.windows >= MaxWindow

Outcomes(p, i) ==
  {o \in Outcome :
     \/ o = ByClient
     \/ /\ o.type = "device" /\ Accepted(i) /\ ~NoWindow(p)
        /\ o.otf # NoBlock /\ IsFree(p, o.otf)
        /\ o.m2m # Blender /\ (o.m2m # NoBlock => IsFree(p, o.m2m))
     \/ /\ o = ByBlender /\ (Accepted(i) \/ NoWindow(p))
        /\ kind[i] \in Blendable /\ CanTakeMore(p)}

\* The blocks and the window that o gives to layer i.
Given(p, i, o) ==
  LET q == IF o.otf = NoBlock THEN p ELSE AssignOverlay(p, o.otf, i)
  IN  IF o.m2m = NoBlock THEN q ELSE AssignM2M(q, o.m2m, i)
ByDevice(p, i, o) == Counted(WithType(Given(p, i, o), {i}, "device"), i)

\* Variant: the metadata stays.
KeepsMetadata(p, i) == p

\* clearHdrDynamicType()
WithoutMetadata(p, i) == [p EXCEPT !.dynamic = @ \ {i}]

-----------------------------------------------------------------------------
(* assignResourceInternal().                                               *)

At(place) == step.at = place
Goto(place, i) == step' = [step EXCEPT !.at = place, !.layer = i]

\* A handler leaves the plan p and, without an error, goes to a place.
Then(p, place, i) ==
  /\ plan' = p
  /\ IF p.failed THEN Goto("forced", 0) ELSE Goto(place, i)

\* EXYNOS_ERROR_CHANGED: all over again, at most MaxTries times.
Retry(p) ==
  /\ plan' = p
  /\ step' = [step EXCEPT !.tries = @ + 1, !.layer = 0,
                !.at = IF p.failed \/ step.tries + 1 = MaxTries THEN "forced" ELSE "pass"]

\* processHdr10plusToHdr10(): the layers that exceed the blocks lose theirs.
MetadataKept(k) ==
  LET has == {i \in Layer : k[i] \in Dynamic}
  IN  {i \in has : Cardinality({j \in has : j <= i}) <= MaxDynamic}

\* resetValidateData() and initializeValidateInfos() after resetResources()
Fresh(k) ==
  [ type |-> [i \in Layer |-> "invalid"],
    otf |-> [s \in Source |-> NoBlock], m2m |-> [i \in Layer |-> NoBlock],
    users |-> [b \in Block |-> {}], disabled |-> {},
    client |-> Nothing, exynos |-> Nothing,
    windows |-> 0, counted |-> {}, miscounted |-> FALSE,
    dynamic |-> MetadataKept(k), failed |-> FALSE,
    window |-> [s \in Source |-> -1] ]

AssignmentInit ==
  /\ kind \in Stacks
  /\ plan = Fresh(kind)
  /\ step = [at |-> "asked", layer |-> 0, turn |-> 4, from |-> 0, seen |-> -1,
             invalid |-> FALSE, changed |-> FALSE, tries |-> 0]

\* The same layers again: the first frame may have had any.
NextFrame ==
  /\ At("assigned")
  /\ UNCHANGED kind
  /\ plan' = Fresh(kind)
  /\ step' = [at |-> "asked", layer |-> 0, turn |-> 4, from |-> 0, seen |-> -1,
              invalid |-> FALSE, changed |-> FALSE, tries |-> 0]

\* The layers that the client asked for, from the lowest; what this changes is
\* no reason to retry.
Asking == {i \in Layer : i >= step.layer /\ kind[i] \in Asked}
AddAsked(i) ==
  /\ At("asked")
  /\ i \in Asking /\ \A j \in Asking : i <= j
  /\ Then(ToClient(plan, i), "asked", i + 1)
  /\ UNCHANGED kind

AskedAdded ==
  /\ At("asked")
  /\ Asking = {}
  /\ Goto("pass", 0)
  /\ UNCHANGED <<kind, plan>>

-----------------------------------------------------------------------------
(* A pass: resetAssignedResources() and the client target, then the layers  *)
(* of each priority, with the target of the blender after the high ones.    *)

\* assignCompositionTarget() returns eInsufficientMPP, whatever blocks are free
Unsupported == NoBlock
TargetBlocks(p) ==
  {b \in Overlay : IsFree(p, b) /\ ~NoWindow(p)} \union {Unsupported}
WithTarget(p, target, b) == Counted(AssignOverlay(p, b, target), target)

StartPass(p) == [Release(p, Overlay \union Single) EXCEPT
                   !.windows = 0, !.counted = {}, !.miscounted = FALSE]

BeginPass ==
  /\ At("pass")
  /\ LET p == StartPass(plan) IN
       IF ~p.client.has
       THEN plan' = p /\ step' = [step EXCEPT !.at = "layers", !.layer = 0, !.turn = 4]
       ELSE \E b \in TargetBlocks(p) :
              IF b = Unsupported
              THEN plan' = [p EXCEPT !.failed = TRUE] /\ Goto("forced", 0)
              ELSE /\ plan' = WithTarget(p, ClientTarget, b)
                   /\ step' = [step EXCEPT !.at = "layers", !.layer = 0, !.turn = 4]
  /\ UNCHANGED kind

\* assignLayers(): the layers it still has to look at, from the lowest
Waiting == {i \in Layer : /\ i >= step.layer
                          /\ Priority[kind[i]] = step.turn
                          /\ plan.type[i] \notin {"client", "exynos"}}
IsNext(i) == At("layers") /\ i \in Waiting /\ \A j \in Waiting : i <= j

LayerToDevice(i) ==
  /\ IsNext(i)
  /\ \E o \in Outcomes(plan, i) :
       o.type = "device" /\ Then(ByDevice(plan, i, o), "layers", i + 1)
  /\ UNCHANGED kind

LayerToClient(i) ==
  /\ IsNext(i)
  /\ i \notin plan.dynamic
  /\ LET p == AddClient(WithType(plan, {i}, "client"), i) IN
       IF Changes(plan, p) THEN Retry(p) ELSE Then(p, "layers", i + 1)
  /\ UNCHANGED kind

\* Its dynamic HDR metadata is removed, and everything is assigned anew: the
\* layers the client asked for are no longer known as such.
LayerFlattens(i) ==
  /\ IsNext(i)
  /\ i \in plan.dynamic
  /\ LET targets == ({plan.otf[ClientTarget], plan.otf[ExynosTarget]} \ {NoBlock})
                      \union (IF plan.exynos.has THEN {Blender} ELSE {})
         p == NoExynos(NoClient(Release(plan, targets)))
     IN  Retry(WithoutMetadata(WithType(p, Layer, "invalid"), i))
  /\ UNCHANGED kind

\* addExynosCompositionLayer(): the first layer makes it all start over.
LayerToBlender(i) ==
  /\ IsNext(i)
  /\ ByBlender \in Outcomes(plan, i)
  /\ LET p == [WithType(AssignM2M(plan, Blender, i), {i}, "exynos") EXCEPT
                 !.exynos = Extended(@, {i})]
     IN  IF ~plan.exynos.has THEN Retry(p)
         ELSE /\ plan' = p
              /\ step' = [step EXCEPT !.at = "sandwich", !.layer = i,
                            !.from = p.exynos.first, !.seen = p.exynos.first - 1,
                            !.invalid = FALSE, !.changed = FALSE]
  /\ UNCHANGED kind

-----------------------------------------------------------------------------
(* handleSandwitchedExynosCompositionLayer(): what the range of the blender *)
(* takes in, one layer after the other.                                     *)

Sandwiched == {i \in Layer : /\ step.seen < i /\ i <= plan.exynos.last
                             /\ ~High(i) /\ plan.type[i] # "exynos"}
IsSandwiched(i) == At("sandwich") /\ i \in Sandwiched /\ \A j \in Sandwiched : i <= j

MeetClient(i) ==
  /\ IsSandwiched(i)
  /\ plan.type[i] = "client"
  /\ step' = [step EXCEPT !.seen = i, !.invalid = TRUE]
  /\ UNCHANGED <<kind, plan>>

\* The blender does not support the layer, or has not the capacity for it.
TakeOut(i) ==
  /\ IsSandwiched(i)
  /\ plan.type[i] # "client"
  /\ LET p == ToClient(plan, i) IN
       /\ plan' = p
       /\ step' = IF p.failed THEN [step EXCEPT !.at = "forced"]
                  ELSE [step EXCEPT !.seen = i, !.invalid = TRUE,
                          !.changed = @ \/ Changes(plan, p)]
  /\ UNCHANGED kind

TakeIn(i) ==
  /\ IsSandwiched(i)
  /\ plan.type[i] # "client"
  /\ kind[i] \in Blendable
  /\ CanTakeMore(plan)
  /\ LET p == [AssignM2M(Free(plan, {i}), Blender, i) EXCEPT !.exynos = Extended(@, {i})]
     IN  plan' = WithType(IF plan.type[i] = "device" THEN Uncounted(p, {i}) ELSE p,
                          {i}, "exynos")
  /\ step' = [step EXCEPT !.seen = i]
  /\ UNCHANGED kind

\* handleNestedClientCompositionLayer(): the shorter side goes to the client.
Unnested(p) ==
  LET e == p.exynos
      c == p.client
      lower == c.first - e.first < e.last - c.last
      end == IF lower THEN e.first ELSE e.last
      q == ToClient(p, end)
  IN  IF ~(/\ c.has
           /\ e.first < c.first /\ c.first < e.last
           /\ e.first < c.last /\ c.last < e.last) THEN p
      ELSE IF OfType(p, "exynos") \ {end} # OfType(q, "exynos") THEN q
      ELSE IF lower THEN [q EXCEPT !.exynos.first = q.client.last + 1]
      ELSE [q EXCEPT !.exynos.last = q.client.first - 1]

\* Variant: the ends are left alone.
Untrimmed(p, high) == p

\* The range ends where layers of high priority would be its ends.
Trimmed(p, high) ==
  LET e == p.exynos
      first == Lowest((e.first .. Top + 1) \ high)
  IN  IF first > e.last THEN [p EXCEPT !.exynos.first = first]
      ELSE [p EXCEPT !.exynos.first = first,
                     !.exynos.last = IF @ \in high THEN @ - 1 ELSE @]

IsRange(e) == 0 <= e.first /\ e.first <= e.last /\ e.last <= Top

\* A layer of high priority inside it: there is no composition by the blender.
Pierced(p, high) == \E i \in high : p.exynos.first < i /\ i < p.exynos.last

\* Its layers go to the client, one after the other.
GiveUp(p, reason) ==
  /\ plan' = p
  /\ step' = [step EXCEPT !.at = reason, !.layer = p.exynos.first, !.from = p.exynos.last]

EndSandwich ==
  /\ At("sandwich")
  /\ Sandwiched = {}
  /\ LET high == {i \in Layer : /\ High(i) /\ step.from <= i
                                /\ (i <= step.seen \/ i <= plan.exynos.last)}
         p == IF step.invalid THEN Unnested(plan) ELSE plan
         q == Trimmed(p, high)
         r == IF IsRange(q.exynos) THEN q ELSE NoExynos(q)
     IN  IF p.failed THEN Then(p, "forced", 0)
         ELSE IF Pierced(r, high) THEN GiveUp(r, "pierced")
         ELSE IF \/ step.changed \/ Changes(plan, p) \/ ~IsRange(q.exynos)
              THEN Retry(r)
         ELSE Then(r, "layers", step.layer + 1)
  /\ UNCHANGED kind

\* The layers of the given range that have not left it yet
Leaving == {i \in step.layer .. step.from : At("pierced") => ~High(i)}

\* addClientCompositionLayer() may return an error: it is logged when layers of
\* high priority are the reason, and ends the assignment otherwise.
LeaveBlender(i) ==
  /\ step.at \in {"pierced", "untargeted"}
  /\ i \in Leaving /\ \A j \in Leaving : i <= j
  /\ LET p == ToClient(plan, i) IN
       IF At("pierced") THEN Then([p EXCEPT !.failed = FALSE], "pierced", i + 1)
       ELSE Then(p, "untargeted", i + 1)
  /\ UNCHANGED kind

GivenUp ==
  /\ step.at \in {"pierced", "untargeted"}
  /\ Leaving = {}
  /\ Retry(NoExynos(plan))
  /\ UNCHANGED kind

-----------------------------------------------------------------------------
(* Between and after the layers.                                            *)

NextTurn ==
  /\ At("layers")
  /\ Waiting = {}
  /\ step' = CASE step.turn = 3 -> [step EXCEPT !.at = "target"]
               [] step.turn = 1 -> [step EXCEPT !.at = "priority"]
               [] OTHER -> [step EXCEPT !.turn = @ - 1, !.layer = 0]
  /\ UNCHANGED <<kind, plan>>

\* assignCompositionTarget() for the result of the blender
AssignExynosTarget ==
  /\ At("target")
  /\ LET lower == [step EXCEPT !.at = "layers", !.turn = 2, !.layer = 0] IN
       IF ~plan.exynos.has THEN step' = lower /\ UNCHANGED plan
       ELSE \E b \in TargetBlocks(plan) :
              IF b # Unsupported
              THEN step' = lower /\ plan' = WithTarget(plan, ExynosTarget, b)
              ELSE GiveUp(plan, "untargeted")
  /\ UNCHANGED kind

\* setResourcePriority(): blocks of the G2D that are busy are not used.  The
\* types of the layers that lose them stay HWC2_COMPOSITION_DEVICE.
Prioritize ==
  /\ At("priority")
  /\ \E R \in SUBSET {i \in OfType(plan, "device") : plan.m2m[i] \in Graphics},
        busy \in IF plan.exynos.has THEN BOOLEAN ELSE {FALSE} :
       LET p == [Free(plan, R) EXCEPT !.disabled = @ \union {plan.m2m[i] : i \in R}]
           F == p.exynos.first .. p.exynos.last
           q == [NoExynos(WithType(Free(p, F), F, "device")) EXCEPT
                   !.disabled = @ \union {Blender}]
       IN  IF busy THEN Retry(q)
           ELSE IF R # {} THEN Retry(p)
           ELSE IF step.tries + 1 = MaxTries THEN Then(plan, "forced", 0)
           ELSE Then(plan, "alone", 0)
  /\ UNCHANGED kind

\* updateExynosComposition(): one layer needs no blender, if the block of the
\* result supports it.  useMaxG2DSrc is off, as the code sets it.
UpdateExynos ==
  /\ At("alone")
  /\ \/ UNCHANGED plan
     \/ LET i == plan.exynos.first
            b == plan.otf[ExynosTarget]
            p == NoExynos(WithType(Free(plan, {i}), {i}, "device"))
        IN  /\ i \in Layer /\ i = plan.exynos.last /\ b # NoBlock
            /\ plan' = AssignOverlay(Release(p, {b}), b, i)
  /\ step' = [step EXCEPT !.at = IF plan.client.has THEN "lower" ELSE "windows",
                !.layer = plan.client.first, !.from = plan.client.last]
  /\ UNCHANGED kind

\* updateClientComposition(): the first layers of the client may find blocks
\* after all, then the last ones.  Blocks of the G2D are not given now.
Spare(i) == {o \in Outcomes(plan, i) : o.type = "device" /\ o.m2m \notin Graphics}
Leaves(i, o) == LET p == RemoveClient(plan, i) IN IF p.failed THEN p ELSE ByDevice(p, i, o)
IsHole(i) == High(i) /\ plan.type[i] = "device"
\* A layer for which assignLayer() finds nothing loses its metadata here too.
Stays(i) == plan' \in {plan, WithoutMetadata(plan, i)}
GoUp == step' = [step EXCEPT !.at = "upper", !.layer = plan.client.last]

LowerLeaves ==
  /\ At("lower")
  /\ step.layer <= step.from
  /\ LET i == step.layer IN
       \/ IsHole(i) /\ Then([plan EXCEPT !.client.first = @ + 1], "lower", i + 1)
       \/ ~IsHole(i) /\ \E o \in Spare(i) : Then(Leaves(i, o), "lower", i + 1)
  /\ UNCHANGED kind

LowerStays ==
  /\ At("lower")
  /\ \/ step.layer > step.from /\ UNCHANGED plan
     \/ step.layer <= step.from /\ ~IsHole(step.layer) /\ Stays(step.layer)
  /\ GoUp
  /\ UNCHANGED kind

\* It goes down to layer 0, even when the first layer of the client has left.
UpperLeaves ==
  /\ At("upper")
  /\ step.layer >= 0
  /\ LET i == step.layer IN
       \/ IsHole(i) /\ Then([plan EXCEPT !.client.last = @ - 1], "upper", i - 1)
       \/ ~IsHole(i) /\ \E o \in Spare(i) : Then(Leaves(i, o), "upper", i - 1)
  /\ UNCHANGED kind

UpperStays ==
  /\ At("upper")
  /\ \/ step.layer < 0 /\ UNCHANGED plan
     \/ step.layer >= 0 /\ ~IsHole(step.layer) /\ Stays(step.layer)
  /\ Goto("windows", 0)
  /\ UNCHANGED kind

\* The layer at which a source has its window: a composition is where its
\* last layer is, if that layer is of its type.
Place(p) ==
  [s \in Source |->
     IF s \in Layer THEN IF p.type[s] = "device" THEN s ELSE -1
     ELSE LET comp == IF s = ClientTarget THEN p.client ELSE p.exynos
              type == IF s = ClientTarget THEN "client" ELSE "exynos"
          IN  IF /\ comp.has /\ comp.first >= 0 /\ comp.last \in Layer
                 /\ p.type[comp.last] = type
              THEN comp.last ELSE -1]

\* assignWindow(), from window mBaseWindowIndex
AssignWindow ==
  /\ At("windows")
  /\ LET place == Place(plan) IN
       plan' = [plan EXCEPT !.window = [s \in Source |->
                  IF place[s] = -1 THEN -1
                  ELSE Cardinality({t \in Source : 0 <= place[t] /\ place[t] < place[s]})]]
  /\ Goto("assigned", 0)
  /\ UNCHANGED kind

\* validateAllDisplays() after an error: setForceClient(), then every block
\* is released and the client target is assigned, whatever that returns.
ForceClient ==
  /\ At("forced")
  /\ LET p == Release(WithType(plan, Layer, "client"), Block)
         q == [p EXCEPT !.windows = 0, !.counted = {}, !.miscounted = FALSE,
                 !.client = [has |-> TRUE, first |-> 0, last |-> Top],
                 !.otf[ClientTarget] = NoBlock, !.failed = TRUE]
     IN  \E b \in TargetBlocks(q) :
           plan' = IF b = Unsupported THEN NoExynos(q)
                   ELSE WithTarget(NoExynos(q), ClientTarget, b)
  /\ Goto("windows", 0)
  /\ UNCHANGED kind

AssignmentNext ==
  \/ NextFrame \/ AskedAdded \/ BeginPass \/ NextTurn
  \/ \E i \in Layer : \/ AddAsked(i) \/ LeaveBlender(i) \/ LayerToDevice(i) \/ LayerToClient(i)
                      \/ LayerFlattens(i) \/ LayerToBlender(i)
                      \/ MeetClient(i) \/ TakeOut(i) \/ TakeIn(i)
  \/ EndSandwich \/ GivenUp \/ AssignExynosTarget \/ Prioritize \/ UpdateExynos
  \/ LowerLeaves \/ LowerStays \/ UpperLeaves \/ UpperStays
  \/ AssignWindow \/ ForceClient

AssignmentSpec == AssignmentInit /\ [][AssignmentNext]_assignmentVars

-----------------------------------------------------------------------------
(* Properties.                                                             *)

\* The type invariant: mWindowNumUsed, which goes down for layers it was
\* not raised for, stays a number of its width.
AssignmentTypeOK ==
  /\ kind \in [Layer -> Kind]
  /\ plan \in Plan
  /\ step \in Step

Assigned == step.at = "assigned"

\* mAssignedSources of a block and the mOtfMPP and mM2mMPP of the sources
\* agree through all the releases of resetAssignedResource(),
\* resetAssignedState() and initializeInfos(); an overlay or a single-source
\* block has one source at most, the blender never more than it can take.
BlocksExclusive ==
  /\ \A s \in Source : plan.otf[s] # NoBlock => s \in plan.users[plan.otf[s]]
  /\ \A i \in Layer, b \in Single \union {Blender} :
       plan.m2m[i] = b <=> i \in plan.users[b]
  /\ \A b \in Overlay \union Single : Cardinality(plan.users[b]) <= 1
  /\ Cardinality(plan.users[Blender]) <= MaxSources

SourceOf(i) == CASE plan.type[i] = "client" -> ClientTarget
                 [] plan.type[i] = "exynos" -> ExynosTarget
                 [] OTHER -> i

\* The loop of addExynosCompositionLayer() takes one layer of high priority off
\* the end of the range, and leaves another one below it there.
CutShort ==
  LET last == plan.exynos.last
  IN  last \in Layer /\ last + 1 \in Layer /\ High(last) /\ High(last + 1)

\* Nothing the client put on the display is lost: when assignResource() is
\* done each layer has an overlay block and a window of its own, or lies in
\* the range of a composition that has both, and the blender has its layers.
\* Only a blender whose range was cut short may have no window.
EveryLayerShown ==
  Assigned /\ (plan.failed => plan.otf[ClientTarget] # NoBlock) =>
    \A i \in Layer : LET s == SourceOf(i) IN
      /\ plan.type[i] # "invalid"
      /\ plan.otf[s] # NoBlock
      /\ plan.window[s] >= 0 \/ (s = ExynosTarget /\ CutShort)
      /\ s = ClientTarget => plan.client.first <= i /\ i <= plan.client.last
      /\ s = ExynosTarget => /\ plan.exynos.first <= i /\ i <= plan.exynos.last
                             /\ plan.m2m[i] = Blender

\* validateExynosCompositionLayer() wants the blender to have as many sources
\* as there are layers in its range.
RangeComposed ==
  Assigned /\ plan.exynos.has =>
    Cardinality(plan.users[Blender]) = plan.exynos.last - plan.exynos.first + 1

WindowOf(i) == plan.window[SourceOf(i)]

\* Windows keep the order of the layers, though compositions merge layers
\* and ranges are extended, cut and given up: no layer is shown above one
\* that lies above it, except a client layer over an opaque layer of high
\* priority, for which the client leaves a hole in its target, and what a
\* blender whose range was cut short does not show at all.
InOrder ==
  Assigned => \A i, j \in Layer :
    i < j => \/ WindowOf(i) <= WindowOf(j)
             \/ /\ plan.type[i] = "client" /\ plan.type[j] = "device"
                /\ ShowsThrough(j)
             \/ SourceOf(j) = ExynosTarget /\ CutShort

\* A display gets no more windows than preAssignWindows() gave it, as long as
\* addClientCompositionLayer() and handleSandwitchedExynosCompositionLayer()
\* take no layer off mWindowNumUsed that this pass had not counted.
WindowsFit ==
  Assigned /\ ~plan.miscounted => Cardinality({s \in Source : plan.window[s] >= 0}) <= MaxWindow

\* The assignment starts over only after it has changed what it cannot
\* change back for ever: ASSIGN_RESOURCE_TRY_COUNT is never reached.
RetriesEnd == step.tries < MaxTries

=============================================================================
