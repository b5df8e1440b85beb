----------------------------- MODULE MCResources -----------------------------
(* The two machines of the resources, each on a small instance of its own:    *)
(* PostProcessor with a primary display that stays on with one picture and    *)
(* an external one that comes and goes and has two, to tell a stale picture   *)
(* from a current one; and LayerAssignment with four layers.  They share      *)
(* nothing here, so a behaviour is one of either.                             *)
EXTENDS PostProcessor, LayerAssignment, TLC

CONSTANTS pri, ext, b1, b2, b3, c1, c2, still,
          low, mid, top, tint, hdr, gpu, raw

OwnType == [d \in Display |-> d]
ExternalChanges == [d \in Display |-> IF d = ext THEN {c1, c2} ELSE {still}]
Fails == {<<"process", pri>>, <<"commit", ext>>}

\* As ExynosLayer::doPreProcess() sets it: top is DRM, hdr and tint are video,
\* of which tint is not opaque, and mid is the cursor.
KindPriority ==
  [k \in Kind |-> CASE k = top -> 4 [] k \in {hdr, tint} -> 3 [] k = mid -> 2 [] OTHER -> 1]
\* At most one layer of an uncommon kind, and then none of the middle priority.
SmallStacks ==
  LET rare(k) == {i \in Layer : k[i] \in {tint, hdr, raw}}
  IN  {k \in [Layer -> Kind] : \/ rare(k) = {}
                               \/ /\ Cardinality(rare(k)) = 1
                                  /\ \A i \in Layer : k[i] # mid}

\* Two videos next to each other, between a layer that the client has to compose
\* and one that the blender takes first.
VideosBetween ==
  {[i \in Layer |-> IF i \in {0, Top} THEN low ELSE IF i = Top - 1 THEN raw ELSE tint]}

\* Both machines take b1, b2 and b3, one for its buffers and one for its
\* overlay blocks, so that one symmetry serves both.
Symmetry == Permutations(Buf) \union Permutations({c1, c2})

VARIABLE moves  \* "post-processor" or "assignment"

ResourcesInit ==
  /\ Init
  /\ AssignmentInit
  /\ moves \in {"post-processor", "assignment"}
  /\ moves = "post-processor" => kind = [i \in Layer |-> low]

ResourcesNext ==
  /\ UNCHANGED moves
  /\ \/ moves = "post-processor" /\ Next /\ UNCHANGED assignmentVars
     \/ moves = "assignment" /\ AssignmentNext /\ UNCHANGED vars

ResourcesSpec == ResourcesInit /\ [][ResourcesNext]_<<vars, assignmentVars, moves>>
\* The assignment alone
OnlyAssignment == ResourcesSpec /\ moves = "assignment"
=============================================================================
