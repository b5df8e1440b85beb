----------------------- MODULE LayerAssignment_proofs -----------------------
(***************************************************************************)
(* Theorems about LayerAssignment, for any number of layers, any blocks    *)
(* and any stacks that AssignmentAssumption allows.                        *)
(***************************************************************************)
EXTENDS LayerAssignment, FiniteSetTheorems, WellFoundedInduction, TLAPS

-----------------------------------------------------------------------------
(* Ranges of layers.                                                       *)

\* A set of numbers has a least one.
LEMMA LeastExists ==
  ASSUME NEW S \in SUBSET Nat, S # {}
  PROVE  \E i \in S : \A j \in S : i <= j
<1> DEFINE R == {ss \in Nat \X Nat : ss[1] < ss[2]}
<1>1. IsWellFoundedOn(R, Nat)
  BY NatLessThanWellFounded, Zenon DEF OpToRel
<1>2. ASSUME NEW x \in Nat, NEW y \in Nat, y < x
      PROVE  <<y, x>> \in R
  BY <1>2
<1> HIDE DEF R
<1>3. PICK x \in S : \A y \in S : ~(<<y, x>> \in R)
  BY <1>1, WFMin
<1>4. \A y \in S : ~(y < x)
  BY <1>2, <1>3
<1> QED BY <1>4

\* The first layer of a range is the lowest of its layers.
LEMMA LowestIs ==
  ASSUME NEW S \in SUBSET Nat, S # {}
  PROVE  Lowest(S) \in S /\ \A j \in S : Lowest(S) <= j
BY LeastExists, Zenon DEF Lowest

\* Its last layer is the highest of them.
LEMMA HighestIs ==
  ASSUME NEW n \in Nat, NEW S \in SUBSET (0 .. n), S # {}
  PROVE  Highest(S) \in S /\ \A j \in S : j <= Highest(S)
<1> DEFINE T == {n - i : i \in S}
<1>1. T \in SUBSET Nat /\ T # {}
  OBVIOUS
<1> HIDE DEF T
<1>2. PICK k \in T : \A j \in T : k <= j
  BY <1>1, LeastExists
<1>3. PICK i \in S : k = n - i
  BY DEF T
<1>4. \A j \in S : n - j \in T
  BY DEF T
<1>5. \A j \in S : i >= j
  BY <1>2, <1>3, <1>4
<1>6. Highest(S) \in S /\ \A j \in S : Highest(S) >= j
  BY <1>5, Zenon DEF Highest
<1> QED BY <1>6

\* There is a layer 0.
LEMMA TopIsNat == Top \in Nat
BY AssignmentAssumption

\* Within(i, comp): layer i lies in the range of a composition.
Within(i, comp) == comp.has /\ comp.first <= i /\ i <= comp.last

\* A composition that there is has a range of layers.
Valid(comp) == comp.has => IsRange(comp)

\* What Extended() returns, for layers added to a range.
LEMMA ExtendedIs ==
  ASSUME NEW comp \in Composition, Valid(comp),
         NEW S \in SUBSET Layer, S # {}
  PROVE  /\ Extended(comp, S) \in Composition
         /\ Extended(comp, S).has
         /\ IsRange(Extended(comp, S))
         /\ \A i \in S : Within(i, Extended(comp, S))
         /\ comp.has => /\ Extended(comp, S).first <= comp.first
                        /\ comp.last <= Extended(comp, S).last
         /\ Extended(comp, S).first \in S \/ (comp.has /\ Extended(comp, S).first = comp.first)
         /\ Extended(comp, S).last \in S \/ (comp.has /\ Extended(comp, S).last = comp.last)
<1> DEFINE ends == IF comp.has THEN {comp.first, comp.last} ELSE {}
           T == S \union ends
<1>1. ends \subseteq Layer
  BY TopIsNat DEF Valid, IsRange, Layer, Composition
<1>2. T \in SUBSET (0 .. Top) /\ T # {}
  BY <1>1 DEF Layer
<1>3. T \in SUBSET Nat
  BY <1>2, TopIsNat
<1>4. comp.has => comp.first \in T /\ comp.last \in T
  OBVIOUS
<1>5. \A i \in S : i \in T
  OBVIOUS
<1>6. \A i \in T : i \in S \/ (comp.has /\ i = comp.first) \/ (comp.has /\ i = comp.last)
  OBVIOUS
<1>7. Extended(comp, S) = [has |-> TRUE, first |-> Lowest(T), last |-> Highest(T)]
  BY DEF Extended
<1> HIDE DEF T, ends
<1>8. Lowest(T) \in T /\ \A j \in T : Lowest(T) <= j
  BY <1>2, <1>3, LowestIs
<1>9. Highest(T) \in T /\ \A j \in T : j <= Highest(T)
  BY <1>2, HighestIs, TopIsNat
<1>10. comp.has => comp.first \in Int /\ comp.last \in Int /\ comp.first <= comp.last
  BY DEF Valid, IsRange, Composition
<1>11. Lowest(T) \in 0 .. Top /\ Highest(T) \in 0 .. Top /\ Lowest(T) <= Highest(T)
  BY <1>2, <1>8, <1>9
<1>12. /\ \A i \in S : Lowest(T) <= i /\ i <= Highest(T)
       /\ comp.has => Lowest(T) <= comp.first /\ comp.last <= Highest(T)
  BY <1>4, <1>5, <1>8, <1>9
<1>13. Lowest(T) \in S \/ (comp.has /\ Lowest(T) = comp.first)
  BY <1>2, <1>4, <1>6, <1>8, <1>10, <1>11
<1>14. Highest(T) \in S \/ (comp.has /\ Highest(T) = comp.last)
  BY <1>2, <1>4, <1>6, <1>9, <1>10, <1>11
<1> QED
  BY <1>7, <1>11, <1>12, <1>13, <1>14, TopIsNat DEF Composition, IsRange, Within

-----------------------------------------------------------------------------
(* The blocks.  OneUser says BlocksExclusive of the overlay and the        *)
(* single-source blocks without counting.                                  *)

OtfUsed(p) == \A s \in Source : p.otf[s] # NoBlock => s \in p.users[p.otf[s]]
M2mUsed(p) ==
  \A i \in Layer, b \in Single \union {Blender} : p.m2m[i] = b <=> i \in p.users[b]
OneUser(p) ==
  \A b \in Overlay \union Single : \A s, t \in p.users[b] : s = t
BlenderFits(p) == Cardinality(p.users[Blender]) <= MaxSources

BlocksOK(p) == OtfUsed(p) /\ M2mUsed(p) /\ OneUser(p) /\ BlenderFits(p)

\* What an operator on plans leaves as it is
SameLayers(p, q) ==
  /\ q.type = p.type /\ q.client = p.client /\ q.exynos = p.exynos
  /\ q.disabled = p.disabled /\ q.dynamic = p.dynamic /\ q.failed = p.failed
SameCounts(p, q) ==
  q.windows = p.windows /\ q.counted = p.counted /\ q.miscounted = p.miscounted
SameBlocks(p, q) == q.otf = p.otf /\ q.m2m = p.m2m /\ q.users = p.users

\* No block is of two kinds.
LEMMA BlocksApart ==
  /\ Graphics \subseteq Single
  /\ Overlay \intersect Single = {}
  /\ Blender \notin Overlay /\ Blender \notin Single
  /\ NoBlock \notin Overlay /\ NoBlock \notin Single /\ NoBlock # Blender
  /\ MaxSources \in Nat
BY AssignmentAssumption DEF Block

\* A block that loses sources does not count more of them.
LEMMA FewerUsers ==
  ASSUME NEW S \in SUBSET Source, NEW T \in SUBSET S
  PROVE  IsFiniteSet(S) /\ Cardinality(T) \in Nat /\ Cardinality(T) <= Cardinality(S)
<1>1. Source = -2 .. Top
  BY TopIsNat DEF Source, Layer, ClientTarget, ExynosTarget
<1>2. IsFiniteSet(Source)
  BY <1>1, FS_Interval, TopIsNat
<1>3. IsFiniteSet(S)
  BY <1>2, FS_Subset
<1>4. IsFiniteSet(T) /\ Cardinality(T) <= Cardinality(S)
  BY <1>3, FS_Subset
<1> QED BY <1>3, <1>4, FS_CardinalityType

\* The layers that had a block of B have none.
Rid(p, q, B) == q.m2m = [i \in Layer |-> IF p.m2m[i] \in B THEN NoBlock ELSE p.m2m[i]]

\* Blocks that are released have no source, and their sources no such block.
LEMMA ReleaseIs ==
  ASSUME NEW p \in Plan, BlocksOK(p), NEW B \in SUBSET Block,
         NEW q, q = Release(p, B)
  PROVE  /\ q \in Plan
         /\ SameLayers(p, q) /\ SameCounts(p, q)
         /\ q.window = p.window
         /\ q.otf = [s \in Source |-> IF p.otf[s] \in B THEN NoBlock ELSE p.otf[s]]
         /\ q.m2m = [i \in Layer |-> IF p.m2m[i] \in B THEN NoBlock ELSE p.m2m[i]]
         /\ q.users = [b \in Block |-> IF b \in B THEN {} ELSE p.users[b]]
         /\ BlocksOK(q) /\ Rid(p, q, B)
<1> DEFINE otf == [s \in Source |-> IF p.otf[s] \in B /\ s \in p.users[p.otf[s]]
                                    THEN NoBlock ELSE p.otf[s]]
           m2m == [i \in Layer |-> IF p.m2m[i] \in B /\ i \in p.users[p.m2m[i]]
                                   THEN NoBlock ELSE p.m2m[i]]
           users == [b \in Block |-> IF b \in B THEN {} ELSE p.users[b]]
<1>1. /\ p.otf \in [Source -> Overlay \union {NoBlock}]
      /\ p.m2m \in [Layer -> Single \union {Blender, NoBlock}]
      /\ p.users \in [Block -> SUBSET Source]
  BY DEF Plan
<1>2. q = [p EXCEPT !.otf = otf, !.m2m = m2m, !.users = users]
  BY DEF Release
<1>3. otf = [s \in Source |-> IF p.otf[s] \in B THEN NoBlock ELSE p.otf[s]]
  <2>1. \A s \in Source : p.otf[s] \in B => s \in p.users[p.otf[s]]
    BY BlocksApart DEF BlocksOK, OtfUsed, Block
  <2> QED BY <2>1, Zenon
<1>4. m2m = [i \in Layer |-> IF p.m2m[i] \in B THEN NoBlock ELSE p.m2m[i]]
  <2>1. \A i \in Layer : p.m2m[i] \in B => i \in p.users[p.m2m[i]]
    BY <1>1, BlocksApart DEF BlocksOK, M2mUsed, Block
  <2> QED BY <2>1, Zenon
<1>5. /\ otf \in [Source -> Overlay \union {NoBlock}]
      /\ m2m \in [Layer -> Single \union {Blender, NoBlock}]
      /\ users \in [Block -> SUBSET Source]
  BY <1>1
<1> HIDE DEF otf, m2m, users
<1>6. q \in Plan
  BY <1>2, <1>5 DEF Plan
<1>7. /\ SameLayers(p, q) /\ SameCounts(p, q) /\ q.window = p.window
      /\ q.otf = otf /\ q.m2m = m2m /\ q.users = users
  BY <1>2 DEF Plan, SameLayers, SameCounts
<1>8. OtfUsed(q)
  BY <1>1, <1>3, <1>7, BlocksApart DEF BlocksOK, OtfUsed, users, Block
<1>9. M2mUsed(q)
  BY <1>1, <1>4, <1>7, BlocksApart DEF BlocksOK, M2mUsed, users, Block
<1>10. OneUser(q)
  BY <1>1, <1>7 DEF BlocksOK, OneUser, users, Block
<1>11. BlenderFits(q)
  BY <1>1, <1>7, FS_EmptySet, BlocksApart DEF BlocksOK, BlenderFits, users, Block
<1> QED
  BY <1>3, <1>4, <1>6, <1>7, <1>8, <1>9, <1>10, <1>11 DEF BlocksOK, users, Rid

\* Layers that are freed have no block, and no block has them.
LEMMA FreeIs ==
  ASSUME NEW p \in Plan, BlocksOK(p), NEW F \in SUBSET Layer,
         NEW q, q = Free(p, F)
  PROVE  /\ q \in Plan
         /\ SameLayers(p, q) /\ SameCounts(p, q)
         /\ q.m2m = [i \in Layer |-> IF i \in F THEN NoBlock ELSE p.m2m[i]]
         /\ \A s \in Source : q.otf[s] # NoBlock => q.otf[s] = p.otf[s]
         /\ \A b \in Block : q.users[b] \subseteq p.users[b]
         /\ BlocksOK(q)
<1> DEFINE B == {p.otf[i] : i \in F} \ {NoBlock}
           r == Release(p, B)
           otf == [s \in Source |-> IF s \in F THEN NoBlock ELSE r.otf[s]]
           m2m == [i \in Layer |-> IF i \in F THEN NoBlock ELSE r.m2m[i]]
           users == [b \in Block |-> r.users[b] \ {i \in F : p.m2m[i] = b}]
<1>1. /\ p.otf \in [Source -> Overlay \union {NoBlock}]
      /\ p.m2m \in [Layer -> Single \union {Blender, NoBlock}]
      /\ p.users \in [Block -> SUBSET Source]
      /\ Layer \subseteq Source
  BY DEF Plan, Source
<1>2. B \subseteq Overlay /\ B \in SUBSET Block
  BY <1>1 DEF Block
<1>3. q = [r EXCEPT !.otf = otf, !.m2m = m2m, !.users = users]
  BY DEF Free
<1> HIDE DEF B
<1>4. /\ r \in Plan /\ SameLayers(p, r) /\ SameCounts(p, r) /\ BlocksOK(r)
      /\ r.otf = [s \in Source |-> IF p.otf[s] \in B THEN NoBlock ELSE p.otf[s]]
      /\ r.m2m = [i \in Layer |-> IF p.m2m[i] \in B THEN NoBlock ELSE p.m2m[i]]
      /\ r.users = [b \in Block |-> IF b \in B THEN {} ELSE p.users[b]]
  BY <1>2, ReleaseIs
<1> HIDE DEF r
<1>5. r.m2m = p.m2m
  <2>1. \A i \in Layer : p.m2m[i] \notin B
    BY <1>1, <1>2, BlocksApart
  <2> QED BY <1>1, <1>4, <2>1
<1>6. /\ otf \in [Source -> Overlay \union {NoBlock}]
      /\ m2m \in [Layer -> Single \union {Blender, NoBlock}]
      /\ users \in [Block -> SUBSET Source]
  BY <1>1, <1>4
<1> HIDE DEF otf, m2m, users
<1>7. q \in Plan
  BY <1>3, <1>4, <1>6 DEF Plan
<1>8. SameLayers(r, q) /\ SameCounts(r, q) /\ q.otf = otf /\ q.m2m = m2m /\ q.users = users
  BY <1>3, <1>4 DEF Plan, SameLayers, SameCounts
<1>9. SameLayers(p, q) /\ SameCounts(p, q)
  BY <1>4, <1>8 DEF SameLayers, SameCounts
<1>10. q.m2m = [i \in Layer |-> IF i \in F THEN NoBlock ELSE p.m2m[i]]
  BY <1>5, <1>8 DEF m2m
<1>11. \A s \in Source : q.otf[s] # NoBlock => q.otf[s] = p.otf[s] /\ s \notin F
  BY <1>4, <1>8 DEF otf
<1>12. \A b \in Block : q.users[b] \subseteq p.users[b]
  BY <1>4, <1>8 DEF users
<1>13. OtfUsed(q)
  <2> SUFFICES ASSUME NEW s \in Source, q.otf[s] # NoBlock
               PROVE  s \in q.users[q.otf[s]]
    BY DEF OtfUsed
  <2>1. q.otf[s] = p.otf[s] /\ s \notin F /\ p.otf[s] \in Overlay /\ p.otf[s] \notin B
    BY <1>1, <1>4, <1>8, <1>11 DEF otf
  <2>2. s \in p.users[p.otf[s]]
    BY <2>1, BlocksApart DEF BlocksOK, OtfUsed
  <2>3. q.users[p.otf[s]] = p.users[p.otf[s]] \ {i \in F : p.m2m[i] = p.otf[s]}
    BY <1>4, <1>8, <2>1 DEF users, Block
  <2> QED BY <2>1, <2>2, <2>3
<1>14. M2mUsed(q)
  <2> SUFFICES ASSUME NEW i \in Layer, NEW b \in Single \union {Blender}
               PROVE  q.m2m[i] = b <=> i \in q.users[b]
    BY DEF M2mUsed
  <2>1. q.users[b] = p.users[b] \ {j \in F : p.m2m[j] = b}
    BY <1>2, <1>4, <1>8, BlocksApart DEF users, Block
  <2>2. p.m2m[i] = b <=> i \in p.users[b]
    BY DEF BlocksOK, M2mUsed
  <2>3. b # NoBlock
    BY BlocksApart
  <2> QED BY <1>10, <2>1, <2>2, <2>3
<1>15. OneUser(q)
  BY <1>12 DEF BlocksOK, OneUser, Block
<1>16. BlenderFits(q)
  <2>1. p.users[Blender] \in SUBSET Source /\ q.users[Blender] \in SUBSET p.users[Blender]
    BY <1>1, <1>12 DEF Block
  <2>2. Cardinality(q.users[Blender]) <= Cardinality(p.users[Blender])
    BY <2>1, FewerUsers
  <2>3. Cardinality(q.users[Blender]) \in Nat /\ Cardinality(p.users[Blender]) \in Nat
    BY <2>1, FewerUsers
  <2> QED BY <2>2, <2>3, BlocksApart DEF BlocksOK, BlenderFits
<1> QED
  BY <1>7, <1>9, <1>10, <1>11, <1>12, <1>13, <1>14, <1>15, <1>16 DEF BlocksOK

\* The other sources keep their overlay block when layers are freed.
LEMMA FreeKeeps ==
  ASSUME NEW p \in Plan, BlocksOK(p), NEW F \in SUBSET Layer,
         NEW q, q = Free(p, F)
  PROVE  \A s \in Source : s \notin F => q.otf[s] = p.otf[s]
<1> DEFINE B == {p.otf[i] : i \in F} \ {NoBlock}
           r == Release(p, B)
           otf == [s \in Source |-> IF s \in F THEN NoBlock ELSE r.otf[s]]
           m2m == [i \in Layer |-> IF i \in F THEN NoBlock ELSE r.m2m[i]]
           users == [b \in Block |-> r.users[b] \ {i \in F : p.m2m[i] = b}]
<1>1. p.otf \in [Source -> Overlay \union {NoBlock}] /\ F \subseteq Source
  BY DEF Plan, Source
<1>2. B \subseteq Overlay /\ B \in SUBSET Block
  BY <1>1 DEF Block
<1>3. q = [r EXCEPT !.otf = otf, !.m2m = m2m, !.users = users]
  BY DEF Free
<1>4. \A s \in Source : p.otf[s] \in B => \E i \in F : p.otf[s] = p.otf[i] /\ p.otf[s] \in Overlay
  BY <1>2
<1>5. \A s \in Source : p.otf[s] \in B => s \in F
  <2> SUFFICES ASSUME NEW s \in Source, p.otf[s] \in B
               PROVE  s \in F
    OBVIOUS
  <2>1. PICK i \in F : p.otf[s] = p.otf[i] /\ p.otf[s] \in Overlay
    BY <1>4
  <2>2. s \in p.users[p.otf[s]] /\ i \in p.users[p.otf[s]]
    BY <1>1, <2>1, BlocksApart DEF BlocksOK, OtfUsed
  <2>3. s = i
    BY <2>1, <2>2 DEF BlocksOK, OneUser
  <2> QED BY <2>1, <2>3
<1> HIDE DEF B
<1>6. /\ r \in Plan /\ SameLayers(p, r) /\ SameCounts(p, r) /\ BlocksOK(r)
      /\ r.otf = [s \in Source |-> IF p.otf[s] \in B THEN NoBlock ELSE p.otf[s]]
      /\ r.m2m = [i \in Layer |-> IF p.m2m[i] \in B THEN NoBlock ELSE p.m2m[i]]
      /\ r.users = [b \in Block |-> IF b \in B THEN {} ELSE p.users[b]]
  BY <1>2, ReleaseIs
<1> HIDE DEF r
<1> HIDE DEF m2m, users
<1>7. q.otf = otf
  BY <1>3, <1>6 DEF Plan
<1> QED BY <1>5, <1>6, <1>7

\* A free overlay block is given to a source.
LEMMA AssignOverlayIs ==
  ASSUME NEW p \in Plan, BlocksOK(p), NEW b \in Overlay, NEW s \in Source,
         p.users[b] = {},
         NEW q, q = AssignOverlay(p, b, s)
  PROVE  /\ q \in Plan
         /\ SameLayers(p, q) /\ SameCounts(p, q)
         /\ q.m2m = p.m2m
         /\ q.otf = [p.otf EXCEPT ![s] = b]
         /\ q.users = [p.users EXCEPT ![b] = {s}]
         /\ BlocksOK(q)
<1> DEFINE otf == [p.otf EXCEPT ![s] = b]
           users == [p.users EXCEPT ![b] = {s}]
<1>1. /\ p.otf \in [Source -> Overlay \union {NoBlock}]
      /\ p.m2m \in [Layer -> Single \union {Blender, NoBlock}]
      /\ p.users \in [Block -> SUBSET Source]
      /\ b \in Block
  BY DEF Plan, Block
<1>2. users = [p.users EXCEPT ![b] = p.users[b] \union {s}]
  OBVIOUS
<1>3. q = [p EXCEPT !.otf = otf, !.users = users]
  BY <1>1, <1>2 DEF AssignOverlay, Plan
<1>4. otf \in [Source -> Overlay \union {NoBlock}] /\ users \in [Block -> SUBSET Source]
  BY <1>1
<1> HIDE DEF otf, users
<1>5. q \in Plan
  BY <1>3, <1>4 DEF Plan
<1>6. SameLayers(p, q) /\ SameCounts(p, q) /\ q.m2m = p.m2m /\ q.otf = otf /\ q.users = users
  BY <1>3 DEF Plan, SameLayers, SameCounts
<1>7. OtfUsed(q)
  <2> SUFFICES ASSUME NEW t \in Source, q.otf[t] # NoBlock
               PROVE  t \in q.users[q.otf[t]]
    BY DEF OtfUsed
  <2>1. CASE t = s
    BY <1>1, <1>6, <2>1 DEF otf, users
  <2>2. CASE t # s
    BY <1>1, <1>6, <2>2 DEF otf, users, BlocksOK, OtfUsed, Block
  <2> QED BY <2>1, <2>2
<1>8. M2mUsed(q)
  BY <1>1, <1>6, BlocksApart DEF users, BlocksOK, M2mUsed, Block
<1>9. OneUser(q)
  BY <1>1, <1>6 DEF users, BlocksOK, OneUser, Block
<1>10. BlenderFits(q)
  BY <1>1, <1>6, BlocksApart DEF users, BlocksOK, BlenderFits, Block
<1> QED
  BY <1>5, <1>6, <1>7, <1>8, <1>9, <1>10 DEF BlocksOK, otf, users

\* A layer without a post-processor gets one that has room for it.
LEMMA AssignM2MIs ==
  ASSUME NEW p \in Plan, BlocksOK(p), NEW b \in Single \union {Blender}, NEW i \in Layer,
         p.m2m[i] = NoBlock,
         b \in Single => p.users[b] = {},
         b = Blender => Cardinality(p.users[b]) < MaxSources,
         NEW q, q = AssignM2M(p, b, i)
  PROVE  /\ q \in Plan
         /\ SameLayers(p, q) /\ SameCounts(p, q)
         /\ q.otf = p.otf
         /\ q.m2m = [p.m2m EXCEPT ![i] = b]
         /\ BlocksOK(q)
<1> DEFINE m2m == [p.m2m EXCEPT ![i] = b]
           users == [p.users EXCEPT ![b] = p.users[b] \union {i}]
<1>1. /\ p.otf \in [Source -> Overlay \union {NoBlock}]
      /\ p.m2m \in [Layer -> Single \union {Blender, NoBlock}]
      /\ p.users \in [Block -> SUBSET Source]
      /\ b \in Block /\ i \in Source
  BY DEF Plan, Block, Source
<1>2. q = [p EXCEPT !.m2m = m2m, !.users = users]
  BY <1>1 DEF AssignM2M, Plan
<1>3. m2m \in [Layer -> Single \union {Blender, NoBlock}] /\ users \in [Block -> SUBSET Source]
  BY <1>1
<1> HIDE DEF m2m, users
<1>4. q \in Plan
  BY <1>2, <1>3 DEF Plan
<1>5. SameLayers(p, q) /\ SameCounts(p, q) /\ q.otf = p.otf /\ q.m2m = m2m /\ q.users = users
  BY <1>2 DEF Plan, SameLayers, SameCounts
<1>6. OtfUsed(q)
  BY <1>1, <1>5 DEF users, BlocksOK, OtfUsed, Block
<1>7. M2mUsed(q)
  <2> SUFFICES ASSUME NEW j \in Layer, NEW c \in Single \union {Blender}
               PROVE  q.m2m[j] = c <=> j \in q.users[c]
    BY DEF M2mUsed
  <2>1. (p.m2m[j] = c <=> j \in p.users[c]) /\ c # NoBlock /\ c \in Block
    BY BlocksApart DEF BlocksOK, M2mUsed, Block
  <2>2. q.m2m[j] = IF j = i THEN b ELSE p.m2m[j]
    BY <1>1, <1>5 DEF m2m
  <2>3. q.users[c] = IF c = b THEN p.users[b] \union {i} ELSE p.users[c]
    BY <1>1, <1>5, <2>1 DEF users
  <2> QED BY <2>1, <2>2, <2>3
<1>8. OneUser(q)
  BY <1>1, <1>5, BlocksApart DEF users, BlocksOK, OneUser, Block
<1>9. BlenderFits(q)
  <2>1. CASE b = Blender
    <3>1. q.users[Blender] = p.users[Blender] \union {i}
      BY <1>1, <1>5, <2>1 DEF users
    <3>2. p.users[Blender] \in SUBSET Source
      BY <1>1, <2>1
    <3>3. IsFiniteSet(p.users[Blender]) /\ Cardinality(p.users[Blender]) \in Nat
      BY <3>2, FewerUsers
    <3>4. \A U : IsFiniteSet(U) =>
             Cardinality(U \union {i}) \in {Cardinality(U), Cardinality(U) + 1}
      BY FS_AddElement
    <3>5. Cardinality(q.users[Blender]) <= Cardinality(p.users[Blender]) + 1
      BY <3>1, <3>3, <3>4
    <3> QED BY <1>5, <2>1, <3>1, <3>3, <3>4, BlocksApart DEF BlenderFits
  <2>2. CASE b # Blender
    BY <1>1, <1>5, <2>2 DEF users, BlocksOK, BlenderFits, Block
  <2> QED BY <2>1, <2>2
<1> QED
  BY <1>4, <1>5, <1>6, <1>7, <1>8, <1>9 DEF BlocksOK, m2m

\* Who has which block is all that BlocksOK reads.
LEMMA SameBlocksOK ==
  ASSUME NEW p, NEW q, SameBlocks(p, q), BlocksOK(p)
  PROVE  BlocksOK(q)
BY DEF SameBlocks, BlocksOK, OtfUsed, M2mUsed, OneUser, BlenderFits

LayerType == {"invalid", "device", "exynos", "client"}

\* Only the types change when layers are given one.
LEMMA WithTypeIs ==
  ASSUME NEW p \in Plan, BlocksOK(p), NEW F, NEW type \in LayerType,
         NEW q, q = WithType(p, F, type)
  PROVE  /\ q \in Plan /\ BlocksOK(q)
         /\ SameBlocks(p, q) /\ SameCounts(p, q)
         /\ q.type = [i \in Layer |-> IF i \in F THEN type ELSE p.type[i]]
         /\ q.client = p.client
         /\ q.exynos = p.exynos
         /\ q.disabled = p.disabled
         /\ q.dynamic = p.dynamic
         /\ q.failed = p.failed
<1> DEFINE types == [i \in Layer |-> IF i \in F THEN type ELSE p.type[i]]
<1>1. types \in [Layer -> LayerType]
  BY DEF Plan, LayerType
<1>2. q = [p EXCEPT !.type = types]
  BY DEF WithType, LayerType
<1> HIDE DEF types
<1>3. q \in Plan
  BY <1>1, <1>2 DEF Plan, LayerType
<1>4. q.type = types
  BY <1>2 DEF Plan
<1>5. /\ SameBlocks(p, q) /\ SameCounts(p, q)
      /\ q.client = p.client /\ q.exynos = p.exynos
      /\ q.disabled = p.disabled /\ q.dynamic = p.dynamic /\ q.failed = p.failed
  BY <1>2 DEF Plan, SameBlocks, SameCounts
<1> QED BY <1>3, <1>4, <1>5, SameBlocksOK DEF types

\* The width of mWindowNumUsed.
LEMMA WordIs == Word \in Nat /\ Word > 0 /\ MaxWindow \in Nat
BY AssignmentAssumption

\* mWindowNumUsed keeps its width when it is raised
LEMMA CountedIs ==
  ASSUME NEW p \in Plan, BlocksOK(p), NEW s \in Source,
         NEW q, q = Counted(p, s)
  PROVE  /\ q \in Plan /\ BlocksOK(q)
         /\ SameBlocks(p, q) /\ SameLayers(p, q)
<1> DEFINE n == (p.windows + 1) % Word
           counted == p.counted \union {s}
<1>1. n \in 0 .. Word - 1 /\ counted \in SUBSET Source
  BY WordIs DEF Plan
<1>2. q = [p EXCEPT !.windows = n, !.counted = counted]
  BY DEF Counted, Plan
<1> HIDE DEF n, counted
<1>3. q \in Plan
  BY <1>1, <1>2 DEF Plan
<1>4. SameBlocks(p, q) /\ SameLayers(p, q)
  BY <1>2 DEF Plan, SameBlocks, SameLayers
<1> QED BY <1>3, <1>4, SameBlocksOK

\* and when it is lowered, below zero too.
LEMMA UncountedIs ==
  ASSUME NEW p \in Plan, BlocksOK(p), NEW S \in SUBSET Source,
         NEW q, q = Uncounted(p, S)
  PROVE  /\ q \in Plan /\ BlocksOK(q)
         /\ SameBlocks(p, q) /\ SameLayers(p, q)
<1> DEFINE n == (p.windows - Cardinality(S)) % Word
           lost == p.miscounted \/ ~(S \subseteq p.counted)
<1>1. Cardinality(S) \in Nat
  BY FewerUsers
<1>2. n \in 0 .. Word - 1
  BY <1>1, WordIs DEF Plan
<1>3. lost \in BOOLEAN
  OBVIOUS
<1>4. PICK counted : counted = p.counted \ S
  OBVIOUS
<1>5. q \in Plan
  <2>1. counted \in SUBSET Source
    BY <1>4 DEF Plan
  <2>2. q = [p EXCEPT !.windows = n, !.counted = counted, !.miscounted = lost]
    BY <1>4 DEF Uncounted, Plan
  <2> HIDE DEF n, lost
  <2> QED BY <1>2, <1>3, <2>1, <2>2 DEF Plan
<1>6. SameBlocks(p, q) /\ SameLayers(p, q)
  BY DEF Uncounted, Plan, SameBlocks, SameLayers
<1> QED BY <1>5, <1>6, SameBlocksOK

\* A composition that is given up forgets its overlay block.
LEMMA NoExynosIs ==
  ASSUME NEW p \in Plan, BlocksOK(p),
         NEW q, q = NoExynos(p)
  PROVE  /\ q \in Plan /\ BlocksOK(q)
         /\ q.type = p.type /\ q.m2m = p.m2m
         /\ q.users = p.users
         /\ q.client = p.client /\ q.exynos = Nothing
         /\ q.disabled = p.disabled /\ q.dynamic = p.dynamic
         /\ q.failed = p.failed /\ SameCounts(p, q)
<1> DEFINE otf == [p.otf EXCEPT ![ExynosTarget] = NoBlock]
<1>1. otf \in [Source -> Overlay \union {NoBlock}]
  BY DEF Plan
<1>2. Nothing \in Composition
  BY DEF Nothing, Composition
<1>3. q = [p EXCEPT !.exynos = Nothing, !.otf = otf]
  BY DEF NoExynos, Plan
<1>4. \A s \in Source : otf[s] # NoBlock => otf[s] = p.otf[s]
  BY DEF Plan
<1> HIDE DEF otf
<1>5. q \in Plan
  BY <1>1, <1>2, <1>3 DEF Plan
<1>6. /\ q.type = p.type /\ q.m2m = p.m2m /\ q.users = p.users /\ q.otf = otf
      /\ q.client = p.client /\ q.exynos = Nothing
      /\ q.disabled = p.disabled /\ q.dynamic = p.dynamic
      /\ q.failed = p.failed /\ SameCounts(p, q)
  BY <1>3 DEF Plan, SameCounts
<1>7. BlocksOK(q)
  BY <1>4, <1>6 DEF BlocksOK, OtfUsed, M2mUsed, OneUser, BlenderFits
<1> QED BY <1>5, <1>6, <1>7

\* The same for the composition by the client
LEMMA NoClientIs ==
  ASSUME NEW p \in Plan, BlocksOK(p),
         NEW q, q = NoClient(p)
  PROVE  /\ q \in Plan /\ BlocksOK(q)
         /\ q.type = p.type /\ q.m2m = p.m2m
         /\ q.users = p.users
         /\ q.client = Nothing /\ q.exynos = p.exynos
         /\ q.disabled = p.disabled /\ q.dynamic = p.dynamic
         /\ q.failed = p.failed /\ SameCounts(p, q)
<1> DEFINE otf == [p.otf EXCEPT ![ClientTarget] = NoBlock]
<1>1. otf \in [Source -> Overlay \union {NoBlock}]
  BY DEF Plan
<1>2. Nothing \in Composition
  BY DEF Nothing, Composition
<1>3. q = [p EXCEPT !.client = Nothing, !.otf = otf]
  BY DEF NoClient, Plan
<1>4. \A s \in Source : otf[s] # NoBlock => otf[s] = p.otf[s]
  BY DEF Plan
<1> HIDE DEF otf
<1>5. q \in Plan
  BY <1>1, <1>2, <1>3 DEF Plan
<1>6. /\ q.type = p.type /\ q.m2m = p.m2m /\ q.users = p.users /\ q.otf = otf
      /\ q.client = Nothing /\ q.exynos = p.exynos
      /\ q.disabled = p.disabled /\ q.dynamic = p.dynamic
      /\ q.failed = p.failed /\ SameCounts(p, q)
  BY <1>3 DEF Plan, SameCounts
<1>7. BlocksOK(q)
  BY <1>4, <1>6 DEF BlocksOK, OtfUsed, M2mUsed, OneUser, BlenderFits
<1> QED BY <1>5, <1>6, <1>7

\* A composition gets another range, or an error is recorded.
LEMMA ClientSet ==
  ASSUME NEW p \in Plan, BlocksOK(p), NEW comp \in Composition,
         NEW q, q = [p EXCEPT !.client = comp]
  PROVE  /\ q \in Plan /\ BlocksOK(q)
         /\ SameBlocks(p, q) /\ SameCounts(p, q)
         /\ q.client = comp /\ q.type = p.type /\ q.exynos = p.exynos
         /\ q.disabled = p.disabled /\ q.dynamic = p.dynamic /\ q.failed = p.failed
<1>1. /\ q \in Plan
      /\ SameBlocks(p, q) /\ SameCounts(p, q)
      /\ q.client = comp /\ q.type = p.type /\ q.exynos = p.exynos
      /\ q.disabled = p.disabled /\ q.dynamic = p.dynamic /\ q.failed = p.failed
  BY DEF Plan, SameBlocks, SameCounts
<1> QED BY <1>1, SameBlocksOK

\* The same for the range of the blender
LEMMA ExynosSet ==
  ASSUME NEW p \in Plan, BlocksOK(p), NEW comp \in Composition,
         NEW q, q = [p EXCEPT !.exynos = comp]
  PROVE  /\ q \in Plan /\ BlocksOK(q)
         /\ SameBlocks(p, q) /\ SameCounts(p, q)
         /\ q.exynos = comp /\ q.type = p.type /\ q.client = p.client
         /\ q.disabled = p.disabled /\ q.dynamic = p.dynamic /\ q.failed = p.failed
<1>1. /\ q \in Plan
      /\ SameBlocks(p, q) /\ SameCounts(p, q)
      /\ q.exynos = comp /\ q.type = p.type /\ q.client = p.client
      /\ q.disabled = p.disabled /\ q.dynamic = p.dynamic /\ q.failed = p.failed
  BY DEF Plan, SameBlocks, SameCounts
<1> QED BY <1>1, SameBlocksOK

\* and for an error that is recorded.
LEMMA FailedSet ==
  ASSUME NEW p \in Plan, BlocksOK(p), NEW f \in BOOLEAN,
         NEW q, q = [p EXCEPT !.failed = f]
  PROVE  /\ q \in Plan /\ BlocksOK(q)
         /\ SameBlocks(p, q) /\ SameCounts(p, q)
         /\ q.failed = f /\ q.type = p.type /\ q.client = p.client /\ q.exynos = p.exynos
         /\ q.disabled = p.disabled /\ q.dynamic = p.dynamic
<1>1. /\ q \in Plan
      /\ SameBlocks(p, q) /\ SameCounts(p, q)
      /\ q.failed = f /\ q.type = p.type /\ q.client = p.client /\ q.exynos = p.exynos
      /\ q.disabled = p.disabled /\ q.dynamic = p.dynamic
  BY DEF Plan, SameBlocks, SameCounts
<1> QED BY <1>1, SameBlocksOK

-----------------------------------------------------------------------------
(* addClientCompositionLayer().                                            *)

\* Layer j lies inside the range and cannot show through it.
Joins(comp, j) == comp.first < j /\ j < comp.last /\ ~ShowsThrough(j)

\* The range of the client grows to the layer that is added.
LEMMA ClientRange ==
  ASSUME NEW comp \in Composition, Valid(comp), NEW i \in Layer
  PROVE  /\ Extended(comp, {i}) \in Composition
         /\ Extended(comp, {i}).has /\ Valid(Extended(comp, {i}))
         /\ IsRange(Extended(comp, {i}))
         /\ Within(i, Extended(comp, {i}))
         /\ comp.has => /\ Extended(comp, {i}).first <= comp.first
                        /\ comp.last <= Extended(comp, {i}).last
         /\ Extended(comp, {i}).first = i \/ (comp.has /\ Extended(comp, {i}).first = comp.first)
         /\ Extended(comp, {i}).last = i \/ (comp.has /\ Extended(comp, {i}).last = comp.last)
<1>1. {i} \in SUBSET Layer /\ {i} # {} /\ i \in {i} /\ \A j \in {i} : j = i
  OBVIOUS
<1> DEFINE S == {i}
<1> HIDE DEF S
<1>2. S \in SUBSET Layer /\ S # {} /\ i \in S /\ \A j \in S : j = i
  BY <1>1 DEF S
<1>3. /\ Extended(comp, S) \in Composition
      /\ Extended(comp, S).has /\ IsRange(Extended(comp, S))
      /\ Within(i, Extended(comp, S))
      /\ comp.has => /\ Extended(comp, S).first <= comp.first
                     /\ comp.last <= Extended(comp, S).last
      /\ Extended(comp, S).first \in S \/ (comp.has /\ Extended(comp, S).first = comp.first)
      /\ Extended(comp, S).last \in S \/ (comp.has /\ Extended(comp, S).last = comp.last)
  BY <1>2, ExtendedIs
<1> QED BY <1>2, <1>3 DEF S, Valid

\* What AddClient() makes of a plan
ClientAdded(p, q, comp) ==
  /\ q.client = comp
  /\ \A j \in Layer : q.type[j] = IF Joins(comp, j) THEN "client" ELSE p.type[j]
  /\ \A j \in Layer : q.m2m[j] = IF Joins(comp, j) /\ p.type[j] # "client"
                                 THEN NoBlock ELSE p.m2m[j]
  /\ q.disabled = p.disabled /\ q.dynamic = p.dynamic
  /\ \/ /\ \A j \in Layer : Joins(comp, j) => p.type[j] # "exynos"
        /\ q.exynos = p.exynos /\ q.failed = p.failed
     \/ q.failed
     \/ /\ p.exynos.has /\ q.exynos = Nothing /\ q.failed = p.failed
        /\ \A j \in Layer : q.type[j] # "exynos"
     \/ /\ p.exynos.has /\ q.failed = p.failed
        /\ \E j \in Layer : Joins(comp, j) /\ p.type[j] = "exynos"
        /\ OfType(q, "exynos") # {}
        /\ q.exynos = Extended(Nothing, OfType(q, "exynos"))

\* What addClientCompositionLayer() does, step by step
LEMMA AddClientIs ==
  ASSUME NEW p \in Plan, BlocksOK(p), Valid(p.client), NEW i \in Layer,
         NEW comp, comp = Extended(p.client, {i}),
         NEW q, q = AddClient(p, i)
  PROVE  q \in Plan /\ BlocksOK(q) /\ ClientAdded(p, q, comp)
<1> DEFINE between == {j \in comp.first + 1 .. comp.last - 1 :
                          ~ShowsThrough(j) /\ p.type[j] # "client"}
           device == {j \in between : p.type[j] = "device"}
           a == [p EXCEPT !.client = comp]
           b == Uncounted(a, device)
           c == Free(b, between)
           r == WithType(c, between, "client")
           gone == \A j \in between : p.type[j] # "exynos"
<1>1. comp \in Composition /\ comp.has /\ IsRange(comp)
  BY ClientRange DEF Plan
<1>2. between \in SUBSET Layer /\ device \in SUBSET Source
  <2>1. \A j \in comp.first + 1 .. comp.last - 1 : j \in Layer
    BY <1>1, TopIsNat DEF IsRange, Layer, Composition
  <2>2. between \in SUBSET Layer
    BY <2>1
  <2> QED BY <2>2 DEF Source
<1>3. \A j \in Layer : j \in between <=> Joins(comp, j) /\ p.type[j] # "client"
  BY <1>1, TopIsNat DEF IsRange, Layer, Composition, Joins
<1>4. q = IF gone THEN r
          ELSE IF ~p.exynos.has THEN [r EXCEPT !.failed = TRUE]
          ELSE IF OfType(r, "exynos") = {} THEN NoExynos(r)
          ELSE [r EXCEPT !.exynos = Extended(Nothing, OfType(r, "exynos"))]
  BY Zenon DEF AddClient
<1>5. /\ a = [p EXCEPT !.client = comp]
      /\ b = Uncounted(a, device)
      /\ c = Free(b, between)
      /\ r = WithType(c, between, "client")
  OBVIOUS
<1> HIDE DEF between, device, a, b, c, r
<1>6. /\ a \in Plan /\ BlocksOK(a) /\ SameBlocks(p, a)
      /\ a.client = comp /\ a.type = p.type /\ a.exynos = p.exynos
      /\ a.disabled = p.disabled /\ a.dynamic = p.dynamic /\ a.failed = p.failed
  BY <1>1, <1>5, ClientSet
<1>7. b \in Plan /\ BlocksOK(b) /\ SameBlocks(a, b) /\ SameLayers(a, b)
  BY <1>2, <1>5, <1>6, UncountedIs
<1>8. /\ c \in Plan /\ SameLayers(b, c) /\ BlocksOK(c)
      /\ c.m2m = [j \in Layer |-> IF j \in between THEN NoBlock ELSE b.m2m[j]]
  <2>1. b \in Plan /\ BlocksOK(b)
    BY <1>7
  <2>2. between \in SUBSET Layer
    BY <1>2
  <2>3. c = Free(b, between)
    BY <1>5
  <2> QED BY <2>1, <2>2, <2>3, FreeIs
<1>9. /\ r \in Plan /\ BlocksOK(r) /\ SameBlocks(c, r)
       /\ r.type = [j \in Layer |-> IF j \in between THEN "client" ELSE c.type[j]]
       /\ r.client = c.client /\ r.exynos = c.exynos
       /\ r.disabled = c.disabled /\ r.dynamic = c.dynamic /\ r.failed = c.failed
  <2>1. "client" \in LayerType
    BY DEF LayerType
  <2>2. c \in Plan /\ BlocksOK(c)
    BY <1>8
  <2>3. r = WithType(c, between, "client")
    BY <1>5
  <2> QED BY <2>1, <2>2, <2>3, WithTypeIs
<1>10. /\ r.client = comp /\ r.exynos = p.exynos /\ r.disabled = p.disabled
       /\ r.dynamic = p.dynamic /\ r.failed = p.failed
  BY <1>6, <1>7, <1>8, <1>9 DEF SameLayers
<1>11. \A j \in Layer : r.type[j] = IF Joins(comp, j) THEN "client" ELSE p.type[j]
  <2>1. \A j \in Layer : r.type[j] = IF j \in between THEN "client" ELSE p.type[j]
    BY <1>6, <1>7, <1>8, <1>9 DEF SameLayers
  <2> QED BY <1>3, <2>1
<1>12. \A j \in Layer : r.m2m[j] = IF Joins(comp, j) /\ p.type[j] # "client"
                                   THEN NoBlock ELSE p.m2m[j]
  <2>1. \A j \in Layer : r.m2m[j] = IF j \in between THEN NoBlock ELSE p.m2m[j]
    BY <1>6, <1>7, <1>8, <1>9 DEF SameBlocks
  <2> QED BY <1>3, <2>1
<1>13. CASE gone
  <2>1. q = r
    BY <1>4, <1>13
  <2>2. \A j \in Layer : Joins(comp, j) => p.type[j] # "exynos"
    BY <1>3, <1>13
  <2> QED BY <1>9, <1>10, <1>11, <1>12, <2>1, <2>2 DEF ClientAdded
<1>14. CASE ~gone /\ ~p.exynos.has
  <2>1. q = [r EXCEPT !.failed = TRUE]
    BY <1>4, <1>14
  <2>2. /\ q \in Plan /\ BlocksOK(q) /\ SameBlocks(r, q) /\ q.failed = TRUE
        /\ q.type = r.type /\ q.client = r.client /\ q.exynos = r.exynos
        /\ q.disabled = r.disabled /\ q.dynamic = r.dynamic
    <3>1. r \in Plan /\ BlocksOK(r) /\ TRUE \in BOOLEAN
      BY <1>9
    <3> QED BY <2>1, <3>1, FailedSet
  <2> QED BY <1>10, <1>11, <1>12, <2>2 DEF SameBlocks, ClientAdded
<1>15. CASE ~gone /\ p.exynos.has /\ OfType(r, "exynos") = {}
  <2>1. q = NoExynos(r)
    BY <1>4, <1>15
  <2>2. /\ q \in Plan /\ BlocksOK(q) /\ q.m2m = r.m2m /\ q.type = r.type
        /\ q.client = r.client /\ q.exynos = Nothing
        /\ q.disabled = r.disabled /\ q.dynamic = r.dynamic /\ q.failed = r.failed
    BY <1>9, <2>1, NoExynosIs
  <2>3. \A j \in Layer : q.type[j] # "exynos"
    BY <1>15, <2>2 DEF OfType
  <2> QED BY <1>10, <1>11, <1>12, <1>15, <2>2, <2>3 DEF ClientAdded
<1>16. CASE ~gone /\ p.exynos.has /\ OfType(r, "exynos") # {}
  <2> DEFINE e == Extended(Nothing, OfType(r, "exynos"))
  <2>1. q = [r EXCEPT !.exynos = e]
    BY <1>4, <1>16
  <2>2. e \in Composition
    <3>1. Nothing \in Composition /\ Valid(Nothing)
      BY DEF Valid, Nothing, Composition
    <3>2. OfType(r, "exynos") \in SUBSET Layer
      BY DEF OfType
    <3> QED BY <1>16, <3>1, <3>2, ExtendedIs, Zenon
  <2> HIDE DEF e
  <2>3. /\ q \in Plan /\ BlocksOK(q) /\ SameBlocks(r, q) /\ q.type = r.type
        /\ q.client = r.client /\ q.exynos = e
        /\ q.disabled = r.disabled /\ q.dynamic = r.dynamic /\ q.failed = r.failed
    BY <1>9, <2>1, <2>2, ExynosSet
  <2>4. OfType(q, "exynos") = OfType(r, "exynos")
    BY <2>3 DEF OfType
  <2>5. \E j \in Layer : Joins(comp, j) /\ p.type[j] = "exynos"
    BY <1>2, <1>3, <1>16
  <2> QED
    BY <1>10, <1>11, <1>12, <1>16, <2>3, <2>4, <2>5 DEF e, SameBlocks, ClientAdded
<1> QED BY <1>13, <1>14, <1>15, <1>16

-----------------------------------------------------------------------------
(* The invariant.  It says of each place in assignResource() what the types *)
(* of the layers and the ranges of the compositions are there; a layer has  *)
(* no block when it is given one because of that.                           *)

\* The blender composes layers of its type, and the range of the client has
\* layers of its type, but for those of high priority that lie in it.
Sound(p) ==
  /\ Valid(p.client)
  /\ \A i \in Layer : p.m2m[i] = Blender => p.type[i] = "exynos"
  /\ \A i \in Layer : Within(i, p.client) =>
       p.type[i] = "client" \/ (High(i) /\ p.type[i] # "exynos")

\* The range of the client has all its layers and ends with one of them.
Composed(p) ==
  /\ \A i \in Layer : p.type[i] = "client" => Within(i, p.client)
  /\ p.client.has => p.type[p.client.last] = "client"
  /\ \A i \in Layer : p.type[i] = "exynos" => ~High(i)

\* The range of the blender has all its layers.
Ranged(p) ==
  /\ IF p.exynos.has THEN IsRange(p.exynos) ELSE p.exynos = Nothing
  /\ \A i \in Layer : p.type[i] = "exynos" => Within(i, p.exynos)

\* It ends with a layer of high priority, another one above it: it was cut
\* below the range of the client, by one layer only (EndSandwich).
AtEnd(p) ==
  LET last == p.exynos.last
  IN  /\ last < Top /\ High(last) /\ High(last + 1)
      /\ p.exynos.first < last /\ p.type[last - 1] = "exynos"
      /\ p.client.has /\ last <= p.client.first /\ last < p.client.last

\* It has no other layers.
Solid(p) ==
  p.exynos.has =>
    /\ \A i \in Layer : p.exynos.first <= i /\ i < p.exynos.last => p.type[i] = "exynos"
    /\ p.type[p.exynos.last] = "exynos" \/ AtEnd(p)

Scaled(p) == \A i \in Layer : p.m2m[i] \in Single => p.type[i] = "device"

\* No layer that assignLayers() still has to look at has a post-processor.
Waited(p, turn, layer) ==
  \A i \in Layer : p.m2m[i] \in Single =>
    Priority[kind[i]] > turn \/ (Priority[kind[i]] = turn /\ i < layer)

\* What the blender has taken in until now
Taken(p, s) ==
  /\ p.exynos.has =>
       /\ s.from <= p.exynos.first /\ p.type[p.exynos.first] = "exynos"
       /\ p.type[p.exynos.last] = "exynos" \/ AtEnd(p)
  /\ \A i \in Layer : s.from <= i /\ i <= s.seen /\ ~High(i) =>
       p.type[i] = "exynos" \/ (s.invalid /\ p.type[i] = "client")
  /\ 0 <= s.from /\ s.from - 1 <= s.seen
  /\ ~s.invalid => p.exynos.has /\ p.exynos.first = s.from

\* The layers of the blender that have to leave it yet
GivingUp(p, s) == \A i \in Layer : p.type[i] = "exynos" => s.layer <= i /\ i <= s.from

\* The range of the client is shortened from below, then from above.
Lower(p, s) ==
  IF p.client.has THEN /\ s.layer = p.client.first /\ s.from = p.client.last
                       /\ p.type[p.client.last] = "client"
                  ELSE s.layer > s.from
Upper(p, s) ==
  p.client.has => /\ s.layer = p.client.last
                  /\ ~(High(p.client.first) /\ p.type[p.client.first] = "device")

Live == {"asked", "pass", "layers", "sandwich", "pierced", "target",
         "untargeted", "priority", "alone", "lower", "upper"}
Whole == {"asked", "pass", "layers", "target", "priority", "alone"}

Stage(p, s) ==
  /\ s.at \in Live => ~p.failed /\ Sound(p)
  /\ s.at \in Live \ {"lower", "upper"} => Composed(p)
  /\ s.at \in Whole \union {"sandwich"} => Ranged(p)
  /\ s.at \in Whole => Solid(p)
  /\ s.at \in Live \ {"asked", "pass"} => Scaled(p)
  /\ s.at = "asked" => ~p.exynos.has
  /\ s.at \in {"layers", "sandwich"} => Waited(p, s.turn, s.layer)
  /\ s.at = "target" => s.turn = 3 /\ Waited(p, 3, Top + 1)
  /\ s.at = "sandwich" => Taken(p, s)
  /\ s.at \in {"pierced", "untargeted"} => GivingUp(p, s)
  /\ s.at = "lower" => Lower(p, s)
  /\ s.at = "upper" => Upper(p, s)

Assignable == AssignmentTypeOK /\ BlocksOK(plan) /\ Stage(plan, step)

\* What an action makes of a plan and a place
Good(p, s) == p \in Plan /\ BlocksOK(p) /\ s \in Step /\ Stage(p, s)

\* The fields of a plan
LEMMA PlanFields ==
  ASSUME NEW p \in Plan
  PROVE  /\ p.type \in [Layer -> LayerType]
         /\ p.otf \in [Source -> Overlay \union {NoBlock}]
         /\ p.m2m \in [Layer -> Single \union {Blender, NoBlock}]
         /\ p.users \in [Block -> SUBSET Source]
         /\ p.disabled \in SUBSET Block
         /\ p.client \in Composition /\ p.exynos \in Composition
         /\ p.client.has \in BOOLEAN /\ p.client.first \in Int /\ p.client.last \in Int
         /\ p.exynos.has \in BOOLEAN /\ p.exynos.first \in Int /\ p.exynos.last \in Int
         /\ p.dynamic \in SUBSET Layer
         /\ p.failed \in BOOLEAN
BY DEF Plan, Composition, LayerType

\* and those of a place.
LEMMA StepFields ==
  ASSUME NEW s \in Step
  PROVE  /\ s.layer \in Int /\ s.from \in Int /\ s.seen \in Int
         /\ s.turn \in Turn /\ s.turn \in Int
         /\ s.invalid \in BOOLEAN /\ s.changed \in BOOLEAN /\ s.tries \in Nat
BY DEF Step, Turn

\* The client does not change its layers while they are assigned.
LEMMA Carried ==
  ASSUME kind' = kind, kind \in [Layer -> Kind], Good(plan', step')
  PROVE  Assignable'
<1>1. \A i : High(i)' <=> High(i)
  BY DEF High
<1>2. (AssignmentTypeOK /\ BlocksOK(plan))'
  BY DEF Good, AssignmentTypeOK, BlocksOK, OtfUsed, M2mUsed, OneUser, BlenderFits
<1>3. (Sound(plan)' <=> Sound(plan')) /\ (Composed(plan)' <=> Composed(plan'))
  BY <1>1 DEF Sound, Composed, Valid, Within, IsRange
<1>4. (Ranged(plan)' <=> Ranged(plan')) /\ (Scaled(plan)' <=> Scaled(plan'))
  BY DEF Ranged, Scaled, Within, IsRange
<1>5. AtEnd(plan)' <=> AtEnd(plan')
  BY <1>1 DEF AtEnd
<1>6. Solid(plan)' <=> Solid(plan')
  BY <1>5 DEF Solid
<1>7. /\ Waited(plan, step.turn, step.layer)' <=> Waited(plan', step'.turn, step'.layer)
      /\ Waited(plan, 3, Top + 1)' <=> Waited(plan', 3, Top + 1)
  BY DEF Waited
<1>8. Taken(plan, step)' <=> Taken(plan', step')
  BY <1>1, <1>5 DEF Taken
<1>9. GivingUp(plan, step)' <=> GivingUp(plan', step')
  BY DEF GivingUp
<1>10. /\ Lower(plan, step)' <=> Lower(plan', step')
       /\ Upper(plan, step)' <=> Upper(plan', step')
  BY <1>1 DEF Lower, Upper
<1>11. Stage(plan, step)'
  BY <1>3, <1>4, <1>6, <1>7, <1>8, <1>9, <1>10 DEF Good, Stage, Live, Whole
<1> QED BY <1>2, <1>11 DEF Assignable

-----------------------------------------------------------------------------
(* Layers that go to the client.                                           *)

\* What addClientCompositionLayer() makes of the range of the blender
BlenderRest(p, q, i) ==
  \/ /\ \A j \in Layer : j # i /\ p.type[j] = "exynos" => ~Joins(q.client, j)
     /\ q.exynos = p.exynos /\ q.failed = p.failed
  \/ q.failed
  \/ /\ p.exynos.has /\ q.exynos = Nothing /\ q.failed = p.failed
     /\ \A j \in Layer : q.type[j] # "exynos"
  \/ /\ p.exynos.has /\ q.exynos.has /\ q.failed = p.failed
     /\ \E j \in Layer : j # i /\ Joins(q.client, j) /\ p.type[j] = "exynos"
     /\ IsRange(q.exynos)
     /\ q.type[q.exynos.first] = "exynos" /\ q.type[q.exynos.last] = "exynos"
     /\ \A j \in Layer : q.type[j] = "exynos" => Within(j, q.exynos)

\* The range of the client grows to layer i.
ClientGrown(p, q, i) ==
  /\ q.client.has /\ IsRange(q.client)
  /\ Within(i, q.client)
  /\ p.client.has => q.client.first <= p.client.first /\ p.client.last <= q.client.last
  /\ q.client.first = i \/ (p.client.has /\ q.client.first = p.client.first)
  /\ q.client.last = i \/ (p.client.has /\ q.client.last = p.client.last)

\* Layer i and those inside the range become layers of the client.
ClientTook(p, q, i) ==
  /\ ClientGrown(p, q, i)
  /\ \A j \in Layer :
       q.type[j] = IF j = i \/ Joins(q.client, j) THEN "client" ELSE p.type[j]
  /\ \A j \in Layer : q.m2m[j] \in {p.m2m[j], NoBlock}
  /\ BlenderRest(p, q, i)

\* Layer i has got the type, and has no block.
ClientGiven(p, r, i) ==
  /\ r.client = p.client /\ r.exynos = p.exynos /\ r.failed = p.failed
  /\ r.disabled = p.disabled /\ r.dynamic = p.dynamic
  /\ \A j \in Layer : r.type[j] = IF j = i THEN "client" ELSE p.type[j]
  /\ \A j \in Layer : r.m2m[j] = IF j = i THEN NoBlock ELSE p.m2m[j]

\* The range of the client takes in layer i and what lies inside, and still has
\* all its layers.
LEMMA AddClientTakes ==
  ASSUME NEW p \in Plan, Sound(p), Composed(p), NEW i \in Layer,
         NEW r \in Plan, BlocksOK(r), ClientGiven(p, r, i),
         NEW q, q = AddClient(r, i)
  PROVE  /\ q \in Plan /\ BlocksOK(q)
         /\ ClientTook(p, q, i)
         /\ q.disabled = p.disabled /\ q.dynamic = p.dynamic
         /\ Sound(q) /\ Composed(q)
         /\ Scaled(p) => Scaled(q)
<1> DEFINE comp == Extended(r.client, {i})
<1>1. /\ r.client = p.client /\ r.exynos = p.exynos /\ r.failed = p.failed
      /\ r.disabled = p.disabled /\ r.dynamic = p.dynamic
      /\ \A j \in Layer : r.type[j] = IF j = i THEN "client" ELSE p.type[j]
      /\ \A j \in Layer : r.m2m[j] = IF j = i THEN NoBlock ELSE p.m2m[j]
  BY DEF ClientGiven
<1>2. /\ r.client \in Composition /\ Valid(r.client) /\ r.exynos \in Composition
      /\ p.type \in [Layer -> LayerType] /\ r.type \in [Layer -> LayerType]
      /\ p.m2m \in [Layer -> Single \union {Blender, NoBlock}]
  BY <1>1, <1>1, PlanFields DEF Sound
<1>3. /\ comp \in Composition /\ comp.has /\ IsRange(comp) /\ Within(i, comp)
      /\ r.client.has => comp.first <= r.client.first /\ r.client.last <= comp.last
      /\ comp.first = i \/ (r.client.has /\ comp.first = r.client.first)
      /\ comp.last = i \/ (r.client.has /\ comp.last = r.client.last)
  BY <1>1, <1>2, ClientRange
<1>4. comp = Extended(r.client, {i})
  OBVIOUS
<1> HIDE DEF comp
<1>5. q \in Plan /\ BlocksOK(q) /\ ClientAdded(r, q, comp)
  BY <1>1, <1>2, <1>4, AddClientIs
<1>6. /\ q \in Plan /\ BlocksOK(q)
      /\ q.client = comp
      /\ \A j \in Layer : q.type[j] = IF Joins(comp, j) THEN "client" ELSE r.type[j]
      /\ \A j \in Layer : q.m2m[j] = IF Joins(comp, j) /\ r.type[j] # "client"
                                     THEN NoBlock ELSE r.m2m[j]
      /\ q.disabled = r.disabled /\ q.dynamic = r.dynamic
      /\ \/ /\ \A j \in Layer : Joins(comp, j) => r.type[j] # "exynos"
            /\ q.exynos = r.exynos /\ q.failed = r.failed
         \/ q.failed
         \/ /\ r.exynos.has /\ q.exynos = Nothing /\ q.failed = r.failed
            /\ \A j \in Layer : q.type[j] # "exynos"
         \/ /\ r.exynos.has /\ q.failed = r.failed
            /\ \E j \in Layer : Joins(comp, j) /\ r.type[j] = "exynos"
            /\ OfType(q, "exynos") # {}
            /\ q.exynos = Extended(Nothing, OfType(q, "exynos"))
  BY <1>1, <1>5 DEF ClientAdded
<1>7. ClientGrown(p, q, i)
  BY <1>1, <1>3, <1>6 DEF ClientGrown
<1>8. \A j \in Layer :
        q.type[j] = IF j = i \/ Joins(q.client, j) THEN "client" ELSE p.type[j]
  BY <1>1, <1>6
<1>9. \A j \in Layer : q.m2m[j] \in {p.m2m[j], NoBlock}
  BY <1>1, <1>6
<1>10. q.m2m[i] = NoBlock
  BY <1>1, <1>6
<1>11. \A j \in Layer : q.m2m[j] # NoBlock =>
        q.m2m[j] = p.m2m[j] /\ (q.type[j] = p.type[j] \/ p.type[j] = "client")
  BY <1>1, <1>6, <1>8, <1>10
<1>12. BlenderRest(p, q, i)
  <2>1. CASE /\ \A j \in Layer : Joins(comp, j) => r.type[j] # "exynos"
             /\ q.exynos = r.exynos /\ q.failed = r.failed
    BY <1>1, <1>6, <2>1 DEF BlenderRest
  <2>2. CASE q.failed
    BY <2>2 DEF BlenderRest
  <2>3. CASE /\ r.exynos.has /\ q.exynos = Nothing /\ q.failed = r.failed
             /\ \A j \in Layer : q.type[j] # "exynos"
    BY <1>1, <2>3 DEF BlenderRest
  <2>4. CASE /\ r.exynos.has /\ q.failed = r.failed
             /\ \E j \in Layer : Joins(comp, j) /\ r.type[j] = "exynos"
             /\ OfType(q, "exynos") # {}
             /\ q.exynos = Extended(Nothing, OfType(q, "exynos"))
    <3>1. Nothing \in Composition /\ Valid(Nothing) /\ ~Nothing.has
      BY DEF Nothing, Composition, Valid
    <3>2. OfType(q, "exynos") \in SUBSET Layer
      BY DEF OfType
    <3>3. /\ q.exynos.has /\ IsRange(q.exynos)
          /\ \A j \in OfType(q, "exynos") : Within(j, q.exynos)
          /\ q.exynos.first \in OfType(q, "exynos")
          /\ q.exynos.last \in OfType(q, "exynos")
      BY <2>4, <3>1, <3>2, ExtendedIs
    <3>4. /\ \A j \in Layer : q.type[j] = "exynos" => Within(j, q.exynos)
          /\ q.type[q.exynos.first] = "exynos" /\ q.type[q.exynos.last] = "exynos"
      BY <3>3 DEF OfType
    <3>5. \E j \in Layer : j # i /\ Joins(q.client, j) /\ p.type[j] = "exynos"
      BY <1>1, <1>6, <2>4
    <3> QED BY <1>1, <2>4, <3>3, <3>4, <3>5 DEF BlenderRest
  <2> QED BY <1>1, <1>6, <2>1, <2>2, <2>3, <2>4
<1>13. Sound(q)
  <2>1. Valid(q.client)
    BY <1>1, <1>3, <1>6 DEF Valid
  <2>2. ASSUME NEW j \in Layer, q.m2m[j] = Blender
        PROVE  q.type[j] = "exynos"
    BY <1>1, <1>11, <2>2, BlocksApart DEF Sound
  <2>3. ASSUME NEW j \in Layer, Within(j, q.client)
        PROVE  q.type[j] = "client" \/ (High(j) /\ q.type[j] # "exynos")
    <3>1. CASE j = i \/ Joins(q.client, j)
      BY <1>1, <1>8, <3>1
    <3>2. CASE j # i /\ ~Joins(q.client, j) /\ ShowsThrough(j)
      BY <1>1, <1>8, <3>2 DEF ShowsThrough, Composed
    <3>3. CASE j # i /\ ~Joins(q.client, j) /\ ~ShowsThrough(j)
      <4>1. j = comp.first \/ j = comp.last
        BY <1>1, <1>3, <1>6, <2>3, <3>3 DEF Joins, Within, Composition, Layer
      <4>2. Within(j, p.client)
        BY <1>1, <1>2, <1>3, <3>3, <4>1 DEF Within, Valid, IsRange, Composition
      <4> QED BY <1>1, <1>8, <3>3, <4>2 DEF Sound
    <3> QED BY <3>1, <3>2, <3>3
  <2> QED BY <2>1, <2>2, <2>3 DEF Sound
<1>14. Composed(q)
  <2>1. ASSUME NEW j \in Layer, q.type[j] = "client"
        PROVE  Within(j, q.client)
    <3>1. CASE j = i
      BY <1>1, <1>7, <3>1 DEF ClientGrown
    <3>2. CASE j # i /\ Joins(q.client, j)
      BY <1>1, <1>3, <1>6, <3>2 DEF Joins, Within, Composition, Layer
    <3>3. CASE j # i /\ ~Joins(q.client, j)
      <4>1. Within(j, p.client)
        BY <1>1, <1>8, <2>1, <3>3 DEF Composed
      <4> QED BY <1>1, <1>2, <1>3, <1>6, <4>1 DEF Within, Composition, Layer
    <3> QED BY <3>1, <3>2, <3>3
  <2>2. q.type[q.client.last] = "client"
    <3>1. q.client.last \in Layer
      BY <1>1, <1>3, <1>6, TopIsNat DEF IsRange, Layer, Composition
    <3> QED BY <1>1, <1>3, <1>6, <1>8, <3>1 DEF Composed
  <2>3. \A j \in Layer : q.type[j] = "exynos" => ~High(j)
    BY <1>1, <1>8 DEF Composed
  <2> QED BY <2>1, <2>2, <2>3 DEF Composed
<1>15. ASSUME Scaled(p)
       PROVE  Scaled(q)
  BY <1>1, <1>11, <1>15, BlocksApart DEF Scaled
<1> QED
  BY <1>1, <1>6, <1>7, <1>8, <1>9, <1>12, <1>13, <1>14, <1>15 DEF ClientTook

\* So it does when layer i leaves its blocks for it.
LEMMA ToClientTakes ==
  ASSUME NEW p \in Plan, BlocksOK(p), Sound(p), Composed(p), NEW i \in Layer,
         NEW q, q = ToClient(p, i)
  PROVE  /\ q \in Plan /\ BlocksOK(q)
         /\ ClientTook(p, q, i)
         /\ q.disabled = p.disabled /\ q.dynamic = p.dynamic
         /\ Sound(q) /\ Composed(q)
         /\ Scaled(p) => Scaled(q)
<1> DEFINE F == {i}
           a == Free(p, F)
           r == WithType(a, F, "client")
<1>1. F \in SUBSET Layer /\ "client" \in LayerType /\ \A j : j \in F <=> j = i
  BY DEF LayerType
<1>2. a = Free(p, F) /\ r = WithType(a, F, "client") /\ q = AddClient(r, i)
  BY DEF ToClient
<1> HIDE DEF a, r, F
<1>3. /\ a \in Plan /\ BlocksOK(a) /\ SameLayers(p, a)
      /\ a.m2m = [j \in Layer |-> IF j \in F THEN NoBlock ELSE p.m2m[j]]
  BY <1>1, <1>2, FreeIs
<1>4. /\ r \in Plan /\ BlocksOK(r) /\ SameBlocks(a, r)
      /\ r.type = [j \in Layer |-> IF j \in F THEN "client" ELSE a.type[j]]
      /\ r.client = a.client /\ r.exynos = a.exynos
      /\ r.disabled = a.disabled /\ r.dynamic = a.dynamic /\ r.failed = a.failed
  BY <1>1, <1>2, <1>3, WithTypeIs
<1>5. /\ r.client = p.client /\ r.exynos = p.exynos /\ r.failed = p.failed
      /\ r.disabled = p.disabled /\ r.dynamic = p.dynamic
  BY <1>3, <1>4 DEF SameLayers
<1>6. \A j \in Layer : r.type[j] = IF j = i THEN "client" ELSE p.type[j]
  BY <1>1, <1>3, <1>4 DEF SameLayers
<1>7. \A j \in Layer : r.m2m[j] = IF j = i THEN NoBlock ELSE p.m2m[j]
  BY <1>1, <1>3, <1>4 DEF SameBlocks
<1>8. ClientGiven(p, r, i)
  BY <1>5, <1>6, <1>7 DEF ClientGiven
<1> QED BY <1>2, <1>4, <1>8, AddClientTakes

\* Fewer layers have a post-processor, and nothing else is different.
LEMMA ShapeKept ==
  ASSUME NEW p \in Plan, NEW q \in Plan,
         q.type = p.type, q.client = p.client, q.exynos = p.exynos,
         \A i \in Layer : q.m2m[i] \in {p.m2m[i], NoBlock}
  PROVE  /\ Sound(p) => Sound(q)
         /\ Composed(p) => Composed(q)
         /\ Ranged(p) => Ranged(q)
         /\ Solid(p) => Solid(q)
         /\ Scaled(p) => Scaled(q)
         /\ \A turn, layer \in Int : Waited(p, turn, layer) => Waited(q, turn, layer)
<1>1. AtEnd(q) <=> AtEnd(p)
  BY DEF AtEnd
<1>2. NoBlock # Blender /\ NoBlock \notin Single
  BY BlocksApart
<1>3. Sound(p) => Sound(q)
  BY <1>2 DEF Sound
<1>4. Composed(p) => Composed(q)
  BY DEF Composed
<1>5. Ranged(p) => Ranged(q)
  BY DEF Ranged
<1>6. Solid(p) => Solid(q)
  BY <1>1 DEF Solid
<1>7. Scaled(p) => Scaled(q)
  BY <1>2 DEF Scaled
<1>8. \A turn, layer \in Int : Waited(p, turn, layer) => Waited(q, turn, layer)
  BY <1>2 DEF Waited
<1> QED BY <1>3, <1>4, <1>5, <1>6, <1>7, <1>8

\* A layer has one of the priorities, and the blender takes no high one.
LEMMA PriorityIs ==
  ASSUME kind \in [Layer -> Kind], NEW i \in Layer
  PROVE  /\ Priority[kind[i]] \in Turn /\ Priority[kind[i]] \in Int
         /\ kind[i] \in Blendable => ~High(i)
<1>1. kind[i] \in Kind
  OBVIOUS
<1>2. Priority[kind[i]] \in Turn
  BY <1>1, AssignmentAssumption
<1>3. kind[i] \in Blendable => Priority[kind[i]] <= 2
  BY AssignmentAssumption
<1> QED BY <1>2, <1>3 DEF Turn, High

-----------------------------------------------------------------------------
(* Places.                                                                 *)

Places == {"asked", "pass", "layers", "sandwich", "pierced", "target",
           "untargeted", "priority", "alone", "lower", "upper", "windows",
           "assigned", "forced"}

\* The loops move on to another layer or place,
LEMMA StepMoved ==
  ASSUME NEW s \in Step, NEW place \in Places, NEW i \in Int,
         NEW t, t = [s EXCEPT !.at = place, !.layer = i]
  PROVE  /\ t \in Step /\ t.at = place /\ t.layer = i
         /\ t.from = s.from /\ t.seen = s.seen /\ t.turn = s.turn
         /\ t.invalid = s.invalid /\ t.changed = s.changed /\ t.tries = s.tries
BY DEF Step, Places

\* start over
LEMMA StepRetried ==
  ASSUME NEW s \in Step, NEW place \in Places, NEW i \in Int, NEW n \in Nat,
         NEW t, t = [s EXCEPT !.tries = n, !.layer = i, !.at = place]
  PROVE  t \in Step /\ t.at = place
BY DEF Step, Places

\* or go on with the next priority.
LEMMA StepTurned ==
  ASSUME NEW s \in Step, NEW place \in Places, NEW i \in Int, NEW turn \in Turn,
         NEW t, t = [s EXCEPT !.at = place, !.layer = i, !.turn = turn]
  PROVE  t \in Step
BY DEF Step, Places

\* Nothing is said of a place where no layer is assigned.
LEMMA Elsewhere ==
  ASSUME NEW p, NEW s, s.at \in {"windows", "assigned", "forced"}
  PROVE  Stage(p, s)
BY DEF Stage, Live, Whole

\* A handler is done: only what is said of the next place has to be shown.
LEMMA ThenGood ==
  ASSUME step \in Step,
         NEW p \in Plan, BlocksOK(p), NEW place \in Places, NEW i \in Int,
         Then(p, place, i),
         ~p.failed => Stage(p, [step EXCEPT !.at = place, !.layer = i])
  PROVE  Good(plan', step')
<1>1. plan' = p /\ p.failed \in BOOLEAN
  BY PlanFields DEF Then
<1>2. CASE p.failed
  <2>1. step' = [step EXCEPT !.at = "forced", !.layer = 0]
    BY <1>2 DEF Then, Goto
  <2>2. "forced" \in Places /\ 0 \in Int
    BY DEF Places
  <2>3. step' \in Step
    BY <2>1, <2>2, StepMoved
  <2>4. step'.at = "forced"
    BY <2>1 DEF Step
  <2> QED BY <1>1, <2>3, <2>4, Elsewhere DEF Good
<1>3. CASE ~p.failed
  <2>1. step' = [step EXCEPT !.at = place, !.layer = i]
    BY <1>3 DEF Then, Goto
  <2>2. step' \in Step
    BY <2>1, StepMoved
  <2> QED BY <1>1, <1>3, <2>1, <2>2 DEF Good
<1> QED BY <1>1, <1>2, <1>3

\* All over again: a pass needs the two ranges to have their layers.
LEMMA RetryGood ==
  ASSUME step \in Step,
         NEW p \in Plan, BlocksOK(p), Retry(p),
         ~p.failed => Sound(p) /\ Composed(p) /\ Ranged(p) /\ Solid(p)
  PROVE  Good(plan', step')
<1> DEFINE place == IF p.failed \/ step.tries + 1 = MaxTries THEN "forced" ELSE "pass"
<1>1. plan' = p /\ step.tries + 1 \in Nat
  BY StepFields DEF Retry
<1>2. step' = [step EXCEPT !.tries = step.tries + 1, !.layer = 0, !.at = place]
  BY DEF Retry, Step
<1>3. place \in {"forced", "pass"} /\ (place = "pass" => ~p.failed)
  OBVIOUS
<1> HIDE DEF place
<1>4. place \in Places /\ 0 \in Int
  BY <1>3 DEF Places
<1>5. step' \in Step
  BY <1>1, <1>2, <1>4, StepRetried
<1>6. step'.at = place
  BY <1>2 DEF Step
<1>7. Stage(p, step')
  BY <1>3, <1>6 DEF Stage, Live, Whole
<1> QED BY <1>1, <1>5, <1>7 DEF Good

\* What the invariant says, conjunct by conjunct
LEMMA AssignableFacts ==
  ASSUME Assignable
  PROVE  /\ plan \in Plan /\ BlocksOK(plan) /\ step \in Step
         /\ kind \in [Layer -> Kind]
         /\ Stage(plan, step)
BY DEF Assignable, AssignmentTypeOK

\* and at the places of assignLayers(),
LEMMA InLayers ==
  ASSUME Assignable, At("layers")
  PROVE  /\ plan \in Plan /\ BlocksOK(plan) /\ step \in Step /\ kind \in [Layer -> Kind]
         /\ ~plan.failed /\ Sound(plan) /\ Composed(plan)
         /\ Ranged(plan) /\ Solid(plan) /\ Scaled(plan)
         /\ Waited(plan, step.turn, step.layer)
BY AssignableFacts DEF Stage, Live, Whole, At

\* of handleSandwitchedExynosCompositionLayer()
LEMMA InSandwich ==
  ASSUME Assignable, At("sandwich")
  PROVE  /\ plan \in Plan /\ BlocksOK(plan) /\ step \in Step /\ kind \in [Layer -> Kind]
         /\ ~plan.failed /\ Sound(plan) /\ Composed(plan)
         /\ Ranged(plan) /\ Scaled(plan)
         /\ Waited(plan, step.turn, step.layer) /\ Taken(plan, step)
BY AssignableFacts DEF Stage, Live, Whole, At

\* and where the layers of the blender are sent to the client.
LEMMA InGivingUp ==
  ASSUME Assignable, step.at \in {"pierced", "untargeted"}
  PROVE  /\ plan \in Plan /\ BlocksOK(plan) /\ step \in Step /\ kind \in [Layer -> Kind]
         /\ ~plan.failed /\ Sound(plan) /\ Composed(plan)
         /\ Scaled(plan) /\ GivingUp(plan, step)
BY AssignableFacts DEF Stage, Live, Whole

\* A layer that waits has no block.
LEMMA NextIsFree ==
  ASSUME Assignable, NEW i \in Layer, IsNext(i)
  PROVE  /\ plan.m2m[i] = NoBlock
         /\ Priority[kind[i]] = step.turn /\ step.layer <= i
         /\ plan.type[i] # "client" /\ plan.type[i] # "exynos"
<1>1. /\ At("layers") /\ Priority[kind[i]] = step.turn /\ step.layer <= i
      /\ plan.type[i] # "client" /\ plan.type[i] # "exynos"
  BY DEF IsNext, Waiting
<1>2. plan.m2m[i] \in Single \union {Blender, NoBlock}
  BY <1>1, InLayers, PlanFields
<1>3. plan.m2m[i] # Blender
  BY <1>1, InLayers DEF Sound
<1>4. plan.m2m[i] \notin Single
  <2>1. step.layer \in Int /\ step.turn \in Int
    BY <1>1, InLayers, StepFields
  <2>2. Waited(plan, step.turn, step.layer)
    BY <1>1, InLayers
  <2> QED BY <1>1, <2>1, <2>2 DEF Waited, Layer
<1> QED BY <1>1, <1>2, <1>3, <1>4

-----------------------------------------------------------------------------
(* What each action makes of the plan.                                     *)

\* The loops go up and down by one layer.
LEMMA LayerIsInt == \A i \in Layer : i \in Int /\ i + 1 \in Int /\ i - 1 \in Int
BY DEF Layer

\* A layer the client asked to compose goes to it before the first pass.
LEMMA AddAskedGood ==
  ASSUME Assignable, NEW i \in Layer, AddAsked(i)
  PROVE  Good(plan', step')
<1> DEFINE p == ToClient(plan, i)
           s == [step EXCEPT !.at = "asked", !.layer = i + 1]
<1>1. /\ plan \in Plan /\ BlocksOK(plan) /\ step \in Step
      /\ Sound(plan) /\ Composed(plan) /\ Ranged(plan) /\ ~plan.exynos.has /\ ~plan.failed
  BY AssignableFacts DEF AddAsked, At, Stage, Live, Whole
<1>2. p = ToClient(plan, i) /\ Then(p, "asked", i + 1)
  BY DEF AddAsked
<1>3. s.at = "asked" /\ "asked" \in Places /\ i + 1 \in Int
  BY <1>1, LayerIsInt DEF Step, Places
<1> HIDE DEF p
<1>4. /\ p \in Plan /\ BlocksOK(p) /\ ClientTook(plan, p, i)
      /\ Sound(p) /\ Composed(p)
  BY <1>1, <1>2, ToClientTakes
<1>5. ~p.failed => p.exynos = plan.exynos
  BY <1>1, <1>4 DEF ClientTook, BlenderRest
<1>6. \A j \in Layer : p.type[j] # "exynos"
  <2>1. \A j \in Layer : plan.type[j] # "exynos"
    BY <1>1 DEF Ranged, Within
  <2> QED BY <1>4, <2>1 DEF ClientTook
<1>7. ~p.failed => Ranged(p) /\ ~p.exynos.has
  BY <1>1, <1>5, <1>6 DEF Ranged
<1>8. ~p.failed => Stage(p, s)
  <2> HIDE DEF s
  <2> QED BY <1>3, <1>4, <1>7 DEF Stage, Live, Whole, Solid
<1> QED BY <1>1, <1>2, <1>3, <1>4, <1>8, ThenGood

\* All such layers have gone to it.
LEMMA AskedAddedGood ==
  ASSUME Assignable, AskedAdded
  PROVE  Good(plan', step')
<1>1. plan' = plan /\ step' = [step EXCEPT !.at = "pass", !.layer = 0] /\ step.at = "asked"
  BY DEF AskedAdded, Goto, At
<1>2. /\ plan \in Plan /\ BlocksOK(plan) /\ step \in Step
      /\ Sound(plan) /\ Composed(plan) /\ Ranged(plan) /\ Solid(plan) /\ ~plan.failed
  BY <1>1, AssignableFacts DEF Stage, Live, Whole
<1>3. "pass" \in Places /\ 0 \in Int
  BY DEF Places
<1>4. step' \in Step
  BY <1>1, <1>2, <1>3, StepMoved
<1>5. step'.at = "pass"
  BY <1>1, <1>2 DEF Step
<1>6. Stage(plan, step')
  BY <1>2, <1>5 DEF Stage, Live, Whole
<1> QED BY <1>1, <1>2, <1>4, <1>6 DEF Good

\* StartPass() releases all but the blender.
LEMMA StartPassIs ==
  ASSUME NEW p \in Plan, BlocksOK(p), NEW q, q = StartPass(p)
  PROVE  /\ q \in Plan /\ BlocksOK(q)
         /\ SameLayers(p, q)
         /\ \A i \in Layer : q.m2m[i] \in {p.m2m[i], NoBlock} /\ q.m2m[i] \notin Single
<1> DEFINE B == Overlay \union Single
           r == Release(p, B)
<1>1. B \in SUBSET Block
  BY DEF Block
<1>2. r = Release(p, B)
  OBVIOUS
<1>3. q = [r EXCEPT !.windows = 0, !.counted = {}, !.miscounted = FALSE]
  BY DEF StartPass
<1> HIDE DEF r, B
<1>4. r \in Plan /\ SameLayers(p, r) /\ BlocksOK(r) /\ Rid(p, r, B)
  BY <1>1, <1>2, ReleaseIs
<1>5. 0 \in 0 .. Word - 1 /\ {} \in SUBSET Source
  BY WordIs
<1>6. q \in Plan
  BY <1>3, <1>4, <1>5 DEF Plan
<1>7. SameBlocks(r, q) /\ SameLayers(r, q)
  BY <1>3, <1>4 DEF Plan, SameBlocks, SameLayers
<1>8. BlocksOK(q)
  BY <1>4, <1>7, SameBlocksOK
<1>9. SameLayers(p, q) /\ q.m2m = r.m2m
  BY <1>4, <1>7 DEF SameLayers, SameBlocks
<1>10. \A i \in Layer : q.m2m[i] \in {p.m2m[i], NoBlock} /\ q.m2m[i] \notin Single
  BY <1>4, <1>9, BlocksApart, PlanFields DEF B, Rid
<1> QED BY <1>6, <1>8, <1>9, <1>10

\* The target of a composition gets a free block and a window.
LEMMA WithTargetIs ==
  ASSUME NEW p \in Plan, BlocksOK(p), NEW target \in {ClientTarget, ExynosTarget},
         NEW b \in TargetBlocks(p), b # Unsupported,
         NEW q, q = WithTarget(p, target, b)
  PROVE  /\ q \in Plan /\ BlocksOK(q)
         /\ SameLayers(p, q) /\ q.m2m = p.m2m
<1> DEFINE r == AssignOverlay(p, b, target)
<1>1. r = AssignOverlay(p, b, target) /\ q = Counted(r, target)
  BY DEF WithTarget
<1> HIDE DEF r
<1>2. b \in Overlay /\ p.users[b] = {} /\ target \in Source
  BY DEF TargetBlocks, IsFree, Source
<1>3. r \in Plan /\ BlocksOK(r) /\ SameLayers(p, r)
  BY <1>1, <1>2, AssignOverlayIs
<1>4. r.m2m = p.m2m
  BY <1>1 DEF AssignOverlay, Plan
<1>5. q \in Plan /\ BlocksOK(q) /\ SameBlocks(r, q) /\ SameLayers(r, q)
  BY <1>1, <1>2, <1>3, CountedIs
<1> QED BY <1>3, <1>5, <1>4 DEF SameLayers, SameBlocks

\* A pass starts with no layer before a single-source block.
LEMMA PassStarted ==
  ASSUME Assignable, At("pass"),
         NEW q \in Plan, BlocksOK(q), SameLayers(plan, q),
         \A i \in Layer : q.m2m[i] \in {plan.m2m[i], NoBlock} /\ q.m2m[i] \notin Single,
         plan' = q,
         step' = [step EXCEPT !.at = "layers", !.layer = 0, !.turn = 4]
  PROVE  Good(plan', step')
<1>1. /\ plan \in Plan /\ step \in Step /\ ~plan.failed
      /\ Sound(plan) /\ Composed(plan) /\ Ranged(plan) /\ Solid(plan)
  BY AssignableFacts DEF At, Stage, Live, Whole
<1>2. step' \in Step /\ step'.at = "layers"
  <2>1. "layers" \in Places /\ 0 \in Int /\ 4 \in Turn
    BY DEF Places, Turn
  <2>2. step' \in Step
    BY <1>1, <2>1, StepTurned
  <2>3. step'.at = "layers"
    BY <1>1 DEF Step
  <2> QED BY <2>2, <2>3
<1>3. q.type = plan.type /\ q.client = plan.client /\ q.exynos = plan.exynos /\ ~q.failed
  BY <1>1 DEF SameLayers
<1>4. Sound(q) /\ Composed(q) /\ Ranged(q) /\ Solid(q)
  BY <1>1, <1>3, ShapeKept
<1>5. Scaled(q) /\ Waited(q, step'.turn, step'.layer)
  BY DEF Scaled, Waited
<1>6. Stage(q, step')
  BY <1>2, <1>3, <1>4, <1>5 DEF Stage, Live, Whole
<1> QED BY <1>2, <1>6 DEF Good

\* resetAssignedResources() and the block of the client target
LEMMA BeginPassGood ==
  ASSUME Assignable, BeginPass
  PROVE  Good(plan', step')
<1> DEFINE p == StartPass(plan)
<1>1. plan \in Plan /\ BlocksOK(plan) /\ step \in Step /\ At("pass")
  BY AssignableFacts DEF BeginPass
<1>2. p = StartPass(plan)
  OBVIOUS
<1>3. \/ /\ plan' = p
         /\ step' = [step EXCEPT !.at = "layers", !.layer = 0, !.turn = 4]
      \/ \E b \in TargetBlocks(p) :
           IF b = Unsupported
           THEN plan' = [p EXCEPT !.failed = TRUE] /\ Goto("forced", 0)
           ELSE /\ plan' = WithTarget(p, ClientTarget, b)
                /\ step' = [step EXCEPT !.at = "layers", !.layer = 0, !.turn = 4]
  BY DEF BeginPass
<1> HIDE DEF p
<1>4. /\ p \in Plan /\ BlocksOK(p) /\ SameLayers(plan, p)
      /\ \A i \in Layer : p.m2m[i] \in {plan.m2m[i], NoBlock} /\ p.m2m[i] \notin Single
  BY <1>1, <1>2, StartPassIs
<1>5. CASE /\ plan' = p
           /\ step' = [step EXCEPT !.at = "layers", !.layer = 0, !.turn = 4]
  BY <1>1, <1>4, <1>5, PassStarted
<1>6. ASSUME NEW b \in TargetBlocks(p), b # Unsupported,
             plan' = WithTarget(p, ClientTarget, b),
             step' = [step EXCEPT !.at = "layers", !.layer = 0, !.turn = 4]
      PROVE  Good(plan', step')
  <2> DEFINE q == WithTarget(p, ClientTarget, b)
  <2>1. q = WithTarget(p, ClientTarget, b) /\ plan' = q
    BY <1>6
  <2>2. ClientTarget \in {ClientTarget, ExynosTarget}
    OBVIOUS
  <2> HIDE DEF q
  <2>3. q \in Plan /\ BlocksOK(q) /\ SameLayers(p, q) /\ q.m2m = p.m2m
    BY <1>4, <1>6, <2>1, <2>2, WithTargetIs
  <2>4. SameLayers(plan, q)
    BY <1>4, <2>3 DEF SameLayers
  <2> QED BY <1>1, <1>4, <1>6, <2>1, <2>3, <2>4, PassStarted
<1>7. CASE plan' = [p EXCEPT !.failed = TRUE] /\ Goto("forced", 0)
  <2>1. plan' \in Plan /\ BlocksOK(plan')
    BY <1>4, <1>7, FailedSet
  <2>2. step' = [step EXCEPT !.at = "forced", !.layer = 0]
    BY <1>7 DEF Goto
  <2>3. "forced" \in Places /\ 0 \in Int
    BY DEF Places
  <2>4. step' \in Step
    BY <1>1, <2>2, <2>3, StepMoved
  <2>5. step'.at = "forced"
    BY <1>1, <2>2 DEF Step
  <2> QED BY <2>1, <2>4, <2>5, Elsewhere DEF Good
<1> QED BY <1>3, <1>5, <1>6, <1>7

\* assignLayers() is done with a priority.
LEMMA NextTurnGood ==
  ASSUME Assignable, NextTurn
  PROVE  Good(plan', step')
<1>1. plan' = plan /\ At("layers") /\ Waiting = {}
  BY DEF NextTurn
<1>2. /\ plan \in Plan /\ BlocksOK(plan) /\ step \in Step /\ kind \in [Layer -> Kind]
      /\ ~plan.failed /\ Sound(plan) /\ Composed(plan)
      /\ Ranged(plan) /\ Solid(plan) /\ Scaled(plan)
      /\ Waited(plan, step.turn, step.layer)
  BY <1>1, InLayers
<1>3. step.turn \in 1 .. 4 /\ step.layer \in Int
  BY <1>2, StepFields DEF Turn
<1>4. \A i \in Layer : plan.m2m[i] \in Single => Priority[kind[i]] > step.turn \/ Priority[kind[i]] = step.turn
  BY <1>2 DEF Waited
<1>5. CASE step.turn = 3
  <2>1. step' = [step EXCEPT !.at = "target"]
    BY <1>5 DEF NextTurn
  <2>2. step' \in Step /\ step'.at = "target" /\ step'.turn = 3
    BY <1>2, <1>5, <2>1 DEF Step
  <2>3. Waited(plan, 3, Top + 1)
    BY <1>4, <1>5, TopIsNat DEF Waited, Layer
  <2>4. Stage(plan, step')
    BY <1>2, <2>2, <2>3 DEF Stage, Live, Whole
  <2> QED BY <1>1, <1>2, <2>2, <2>4 DEF Good
<1>6. CASE step.turn = 1
  <2>1. step' = [step EXCEPT !.at = "priority"]
    BY <1>6 DEF NextTurn
  <2>2. step' \in Step /\ step'.at = "priority"
    BY <1>2, <2>1 DEF Step
  <2>3. Stage(plan, step')
    BY <1>2, <2>2 DEF Stage, Live, Whole
  <2> QED BY <1>1, <1>2, <2>2, <2>3 DEF Good
<1>7. CASE step.turn # 3 /\ step.turn # 1
  <2>1. step' = [step EXCEPT !.at = "layers", !.layer = 0, !.turn = step.turn - 1]
    BY <1>1, <1>2, <1>7 DEF NextTurn, Step, At
  <2>2. step.turn - 1 \in Turn
    BY <1>3, <1>7 DEF Turn
  <2>3. "layers" \in Places /\ 0 \in Int
    BY DEF Places
  <2>4. step' \in Step
    BY <1>2, <2>1, <2>2, <2>3, StepTurned
  <2>5. step'.at = "layers" /\ step'.turn = step.turn - 1 /\ step'.layer = 0
    BY <1>2, <2>1 DEF Step
  <2>6. Waited(plan, step.turn - 1, 0)
    <3>1. \A i \in Layer : Priority[kind[i]] \in Int
      BY <1>2, PriorityIs
    <3> QED BY <1>3, <1>4, <3>1 DEF Waited
  <2>7. Stage(plan, step')
    BY <1>2, <2>5, <2>6 DEF Stage, Live, Whole
  <2> QED BY <1>1, <1>2, <2>4, <2>7 DEF Good
<1> QED BY <1>5, <1>6, <1>7

\* Layer i has got an overlay block, and perhaps a post-processor.
DeviceGiven(p, q, i) ==
  /\ q.client = p.client /\ q.exynos = p.exynos /\ q.failed = p.failed
  /\ q.disabled = p.disabled /\ q.dynamic = p.dynamic
  /\ \A j \in Layer : q.type[j] = IF j = i THEN "device" ELSE p.type[j]
  /\ \A j \in Layer : j # i => q.m2m[j] = p.m2m[j]
  /\ q.m2m[i] \in Single \union {NoBlock}

\* The blocks of an outcome are free.
Offered(p, o) ==
  /\ o.otf \in Overlay /\ p.users[o.otf] = {}
  /\ o.m2m \in Single \union {NoBlock}
  /\ o.m2m # NoBlock => p.users[o.m2m] = {}

\* What assignLayer() finds for a layer is free.
LEMMA OutcomeOffered ==
  ASSUME NEW p \in Plan, NEW i, NEW o \in Outcomes(p, i), o.type = "device"
  PROVE  Offered(p, o)
BY BlocksApart DEF Outcomes, Outcome, ByClient, ByBlender, IsFree, Offered

\* The layer gets it.
LEMMA ByDeviceIs ==
  ASSUME NEW p \in Plan, BlocksOK(p), NEW i \in Layer, p.m2m[i] = NoBlock,
         NEW o, Offered(p, o),
         NEW q, q = ByDevice(p, i, o)
  PROVE  q \in Plan /\ BlocksOK(q) /\ DeviceGiven(p, q, i)
<1> DEFINE a == AssignOverlay(p, o.otf, i)
           b == AssignM2M(a, o.m2m, i)
           g == Given(p, i, o)
           F == {i}
           r == WithType(g, F, "device")
<1>1. /\ o.otf \in Overlay /\ p.users[o.otf] = {}
      /\ o.m2m \in Single \union {NoBlock}
      /\ o.m2m # NoBlock => p.users[o.m2m] = {}
  BY DEF Offered
<1>2. /\ a = AssignOverlay(p, o.otf, i) /\ b = AssignM2M(a, o.m2m, i)
      /\ g = IF o.m2m = NoBlock THEN a ELSE b
      /\ r = WithType(g, F, "device") /\ q = Counted(r, i)
  BY <1>1, BlocksApart DEF Given, ByDevice
<1>3. i \in Source /\ "device" \in LayerType /\ \A j : j \in F <=> j = i
  BY DEF Source, LayerType
<1>4. a.m2m = p.m2m /\ a.users = [p.users EXCEPT ![o.otf] = p.users[o.otf] \union {i}]
  BY DEF AssignOverlay, Plan
<1> HIDE DEF a, b, g, r, F
<1>5. a \in Plan /\ BlocksOK(a) /\ SameLayers(p, a)
  BY <1>1, <1>2, <1>3, AssignOverlayIs
<1>6. /\ g \in Plan /\ BlocksOK(g) /\ SameLayers(p, g)
      /\ \A j \in Layer : j # i => g.m2m[j] = p.m2m[j]
      /\ g.m2m[i] \in Single \union {NoBlock}
  <2>1. CASE o.m2m = NoBlock
    BY <1>2, <1>4, <1>5, <2>1
  <2>2. CASE o.m2m # NoBlock
    <3>1. o.m2m \in Single /\ o.m2m # Blender /\ o.m2m # o.otf /\ o.m2m \in Block
      BY <1>1, <2>2, BlocksApart DEF Block
    <3>2. a.users[o.m2m] = {}
      BY <1>1, <1>4, <2>2, <3>1, PlanFields
    <3>3. a.m2m[i] = NoBlock /\ o.m2m \in Single \union {Blender}
      BY <1>4, <3>1
    <3>4. b \in Plan /\ BlocksOK(b) /\ SameLayers(a, b)
      BY <1>2, <1>5, <3>1, <3>2, <3>3, AssignM2MIs
    <3>5. b.m2m = [a.m2m EXCEPT ![i] = o.m2m]
      BY <1>2, <1>5 DEF AssignM2M, Plan
    <3>6. /\ \A j \in Layer : j # i => b.m2m[j] = p.m2m[j]
          /\ b.m2m[i] \in Single \union {NoBlock}
      BY <1>1, <1>4, <3>5, PlanFields
    <3>7. g = b
      BY <1>2, <2>2
    <3>8. SameLayers(p, b)
      BY <1>5, <3>4 DEF SameLayers
    <3> QED BY <3>4, <3>6, <3>7, <3>8
  <2> QED BY <2>1, <2>2
<1>7. /\ r \in Plan /\ BlocksOK(r) /\ SameBlocks(g, r)
      /\ r.type = [j \in Layer |-> IF j \in F THEN "device" ELSE g.type[j]]
      /\ r.client = g.client /\ r.exynos = g.exynos
      /\ r.disabled = g.disabled /\ r.dynamic = g.dynamic /\ r.failed = g.failed
  BY <1>2, <1>3, <1>6, WithTypeIs
<1>8. q \in Plan /\ BlocksOK(q) /\ SameBlocks(r, q) /\ SameLayers(r, q)
  BY <1>2, <1>3, <1>7, CountedIs
<1>9. /\ q.type = r.type /\ q.client = p.client /\ q.exynos = p.exynos /\ q.failed = p.failed
      /\ q.disabled = p.disabled /\ q.dynamic = p.dynamic /\ g.type = p.type
      /\ q.m2m = g.m2m
  BY <1>6, <1>7, <1>8 DEF SameLayers, SameBlocks
<1>10. \A j \in Layer : q.type[j] = IF j = i THEN "device" ELSE p.type[j]
  BY <1>3, <1>7, <1>9
<1> QED BY <1>6, <1>8, <1>9, <1>10 DEF DeviceGiven

\* assignLayer() finds an overlay block.
LEMMA LayerToDeviceGood ==
  ASSUME Assignable, NEW i \in Layer, LayerToDevice(i)
  PROVE  Good(plan', step')
<1>1. /\ plan \in Plan /\ BlocksOK(plan) /\ step \in Step /\ kind \in [Layer -> Kind]
      /\ ~plan.failed /\ Sound(plan) /\ Composed(plan)
      /\ Ranged(plan) /\ Solid(plan) /\ Scaled(plan)
      /\ Waited(plan, step.turn, step.layer)
  BY InLayers DEF LayerToDevice, IsNext
<1>2. /\ plan.m2m[i] = NoBlock
      /\ Priority[kind[i]] = step.turn /\ step.layer <= i
      /\ plan.type[i] # "client" /\ plan.type[i] # "exynos"
  BY NextIsFree DEF LayerToDevice
<1>3. PICK o \in Outcomes(plan, i) :
        o.type = "device" /\ Then(ByDevice(plan, i, o), "layers", i + 1)
  BY DEF LayerToDevice
<1> DEFINE q == ByDevice(plan, i, o)
           s == [step EXCEPT !.at = "layers", !.layer = i + 1]
<1>4. q = ByDevice(plan, i, o) /\ Then(q, "layers", i + 1)
  BY <1>3
<1>5. /\ s.at = "layers" /\ s.layer = i + 1 /\ s.turn = step.turn
      /\ "layers" \in Places /\ i + 1 \in Int
  BY <1>1, LayerIsInt DEF Step, Places
<1> HIDE DEF q, s
<1>6. q \in Plan /\ BlocksOK(q) /\ DeviceGiven(plan, q, i)
  <2>1. Offered(plan, o)
    BY <1>1, <1>3, OutcomeOffered
  <2> QED BY <1>1, <1>2, <1>4, <2>1, ByDeviceIs
<1>7. /\ q.client = plan.client /\ q.exynos = plan.exynos /\ q.failed = plan.failed
      /\ \A j \in Layer : q.type[j] = IF j = i THEN "device" ELSE plan.type[j]
      /\ \A j \in Layer : j # i => q.m2m[j] = plan.m2m[j]
      /\ q.m2m[i] \in Single \union {NoBlock}
  BY <1>6 DEF DeviceGiven
<1>8. Sound(q)
  <2>1. Valid(q.client)
    BY <1>1, <1>7 DEF Sound
  <2>2. \A j \in Layer : q.m2m[j] = Blender => q.type[j] = "exynos"
    BY <1>1, <1>7, BlocksApart DEF Sound
  <2>3. \A j \in Layer : Within(j, q.client) =>
          q.type[j] = "client" \/ (High(j) /\ q.type[j] # "exynos")
    BY <1>1, <1>2, <1>7 DEF Sound
  <2> QED BY <2>1, <2>2, <2>3 DEF Sound
<1>9. Composed(q)
  <2>1. plan.client.has => plan.client.last \in Layer
    BY <1>1, TopIsNat, PlanFields DEF Sound, Valid, IsRange, Layer
  <2> QED BY <1>1, <1>2, <1>7, <2>1 DEF Composed
<1>10. Ranged(q)
  BY <1>1, <1>7 DEF Ranged
<1>11. Solid(q)
  <2> SUFFICES ASSUME q.exynos.has
               PROVE  /\ \A j \in Layer : q.exynos.first <= j /\ j < q.exynos.last =>
                           q.type[j] = "exynos"
                      /\ q.type[q.exynos.last] = "exynos" \/ AtEnd(q)
    BY DEF Solid
  <2>1. IsRange(plan.exynos) /\ plan.exynos.first \in Int /\ plan.exynos.last \in Int
    BY <1>1, <1>7, PlanFields DEF Ranged
  <2>2. plan.exynos.last \in Layer
    BY <2>1, TopIsNat DEF IsRange, Layer
  <2>3. \A j \in Layer : plan.type[j] = "exynos" => q.type[j] = "exynos"
    BY <1>2, <1>7
  <2>4. AtEnd(plan) => AtEnd(q)
    <3>1. plan.exynos.first < plan.exynos.last => plan.exynos.last - 1 \in Layer
      BY <2>1, TopIsNat DEF IsRange, Layer
    <3> QED BY <1>7, <2>3, <3>1 DEF AtEnd
  <2> QED BY <1>1, <1>7, <2>2, <2>3, <2>4 DEF Solid
<1>12. Scaled(q)
  BY <1>1, <1>7, BlocksApart DEF Scaled
<1>13. Waited(q, s.turn, s.layer)
  <2>1. step.layer \in Int /\ step.turn \in Int
    BY <1>1, StepFields
  <2> QED BY <1>1, <1>2, <1>5, <1>7, <2>1 DEF Waited, Layer
<1>14. Stage(q, s)
  BY <1>1, <1>5, <1>7, <1>8, <1>9, <1>10, <1>11, <1>12, <1>13 DEF Stage, Live, Whole
<1> QED BY <1>1, <1>4, <1>5, <1>6, <1>14, ThenGood DEF s

\* A layer that is not the blender's goes to the client: the blender loses all
\* of its layers or none.
LEMMA ClientKeepsSolid ==
  ASSUME NEW p \in Plan, Sound(p), Composed(p), Ranged(p), Solid(p),
         NEW i \in Layer, p.type[i] # "exynos",
         NEW q \in Plan, ClientTook(p, q, i), ~q.failed
  PROVE  Ranged(q) /\ Solid(q)
<1> DEFINE e == p.exynos
           c == q.client
<1>1. /\ \A j \in Layer :
           q.type[j] = IF j = i \/ Joins(c, j) THEN "client" ELSE p.type[j]
      /\ c.has /\ IsRange(c)
      /\ p.client.has => c.first <= p.client.first /\ p.client.last <= c.last
      /\ c.first = i \/ (p.client.has /\ c.first = p.client.first)
      /\ c.last = i \/ (p.client.has /\ c.last = p.client.last)
  BY DEF ClientTook, ClientGrown
<1>2. BlenderRest(p, q, i)
  BY DEF ClientTook
<1>3. /\ c.first \in Int /\ c.last \in Int /\ e.first \in Int /\ e.last \in Int
      /\ i \in Int /\ 0 <= i /\ i <= Top
      /\ p.client.has => p.client.first \in Int /\ p.client.last \in Int
  BY PlanFields, TopIsNat DEF Layer
<1>4. \A j \in Layer : j \in Int /\ 0 <= j /\ j <= Top
  BY TopIsNat DEF Layer
<1>5. \A j \in Layer : p.type[j] = "exynos" => e.has /\ e.first <= j /\ j <= e.last /\ ~ShowsThrough(j)
  BY DEF Ranged, Within, Composed, ShowsThrough
<1>6. \A j \in Layer : q.type[j] = "exynos" => p.type[j] = "exynos" /\ ~Joins(c, j)
  BY <1>1
<1>7. p.exynos.has => IsRange(e)
  BY DEF Ranged
<1>8. CASE /\ \A j \in Layer : j # i /\ p.type[j] = "exynos" => ~Joins(c, j)
           /\ q.exynos = e
  <2>1. \A j \in Layer : p.type[j] = "exynos" => q.type[j] = "exynos"
    BY <1>1, <1>8
  <2>2. Ranged(q)
    BY <1>6, <1>8 DEF Ranged
  <2>3. ASSUME e.has, AtEnd(p)
        PROVE  AtEnd(q)
    <3>1. /\ e.last < Top /\ High(e.last) /\ High(e.last + 1)
          /\ e.first < e.last /\ p.type[e.last - 1] = "exynos"
          /\ p.client.has /\ e.last <= p.client.first /\ e.last < p.client.last
      BY <2>3 DEF AtEnd
    <3>2. e.last - 1 \in Layer
      BY <1>3, <1>7, <2>3, <3>1, TopIsNat DEF IsRange, Layer
    <3>3. q.type[e.last - 1] = "exynos" /\ ~Joins(c, e.last - 1) /\ ~ShowsThrough(e.last - 1)
      BY <1>5, <1>6, <2>1, <3>1, <3>2
    <3>4. i # e.last - 1
      BY <3>1
    <3>5. e.last < c.last
      BY <1>1, <1>3, <3>1
    <3>6. e.last <= c.first
      BY <1>1, <1>3, <3>1, <3>3, <3>4, <3>5 DEF Joins
    <3> QED BY <1>1, <1>8, <3>1, <3>3, <3>5, <3>6 DEF AtEnd
  <2>4. e.has => /\ \A j \in Layer : e.first <= j /\ j < e.last => q.type[j] = "exynos"
                 /\ q.type[e.last] = "exynos" \/ AtEnd(q)
    <3>1. e.has => e.last \in Layer
      BY <1>3, <1>7, TopIsNat DEF IsRange, Layer
    <3> QED BY <2>1, <2>3, <3>1 DEF Solid
  <2> QED BY <1>8, <2>2, <2>4 DEF Solid
<1>9. CASE q.exynos = Nothing /\ \A j \in Layer : q.type[j] # "exynos"
  BY <1>9 DEF Ranged, Solid, Nothing
<1>10. CASE /\ p.exynos.has
            /\ \E j \in Layer : j # i /\ Joins(c, j) /\ p.type[j] = "exynos"
            /\ IsRange(q.exynos)
            /\ q.type[q.exynos.first] = "exynos"
  <2>1. PICK j \in Layer : Joins(c, j) /\ p.type[j] = "exynos"
    BY <1>10
  <2> DEFINE k == q.exynos.first
  <2>2. k \in Layer /\ q.type[k] = "exynos"
    BY <1>10, TopIsNat, PlanFields DEF IsRange, Layer
  <2> HIDE DEF k
  <2>3. /\ p.type[k] = "exynos" /\ ~Joins(c, k) /\ ~ShowsThrough(k)
        /\ e.first <= k /\ k <= e.last /\ e.first <= j /\ j <= e.last
    BY <1>5, <1>6, <2>1, <2>2
  <2>4. k \in Int
    BY <1>4, <2>2
  <2>5. k <= c.first \/ c.last <= k
    <3>1. ~(c.first < k /\ k < c.last)
      BY <2>3 DEF Joins
    <3> QED BY <1>3, <2>4, <3>1
  <2>6. c.first < j /\ j < c.last
    BY <2>1 DEF Joins
  <2>7. c.first \in Layer /\ c.last \in Layer
    BY <1>1, <1>3, TopIsNat DEF IsRange, Layer
  <2>8. p.type[c.first] # "exynos" /\ p.type[c.last] # "exynos"
    <3>1. p.client.has => p.client.first <= p.client.last
      BY DEF Sound, Valid, IsRange
    <3> QED BY <1>1, <1>3, <2>7, <3>1 DEF Sound, Within
  <2>9. \A l \in Layer : e.first <= l /\ l < e.last => p.type[l] = "exynos"
    BY <1>10 DEF Solid
  <2>10. CASE k <= c.first
    BY <1>3, <1>4, <2>2, <2>3, <2>6, <2>7, <2>8, <2>9, <2>10
  <2>11. CASE c.last <= k
    <3>1. e.first <= c.last /\ c.last <= e.last
      BY <1>3, <1>4, <2>1, <2>2, <2>3, <2>6, <2>11
    <3>2. c.last = e.last => c.last = k
      BY <1>3, <2>3, <2>11, <2>4
    <3> QED BY <1>3, <2>3, <2>7, <2>8, <2>9, <3>1, <3>2
  <2> QED BY <2>5, <2>10, <2>11
<1> QED BY <1>2, <1>8, <1>9, <1>10 DEF BlenderRest

\* It finds nothing: the layer goes to the client.
LEMMA LayerToClientGood ==
  ASSUME Assignable, NEW i \in Layer, LayerToClient(i)
  PROVE  Good(plan', step')
<1> DEFINE F == {i}
           r == WithType(plan, F, "client")
           q == AddClient(r, i)
           s == [step EXCEPT !.at = "layers", !.layer = i + 1]
<1>1. /\ plan \in Plan /\ BlocksOK(plan) /\ step \in Step /\ kind \in [Layer -> Kind]
      /\ ~plan.failed /\ Sound(plan) /\ Composed(plan)
      /\ Ranged(plan) /\ Solid(plan) /\ Scaled(plan)
      /\ Waited(plan, step.turn, step.layer)
  BY InLayers DEF LayerToClient, IsNext
<1>2. /\ plan.m2m[i] = NoBlock
      /\ Priority[kind[i]] = step.turn /\ step.layer <= i
      /\ plan.type[i] # "client" /\ plan.type[i] # "exynos"
  BY NextIsFree DEF LayerToClient
<1>3. IF Changes(plan, q) THEN Retry(q) ELSE Then(q, "layers", i + 1)
  BY DEF LayerToClient
<1>4. /\ r = WithType(plan, F, "client") /\ q = AddClient(r, i)
      /\ \A j : j \in F <=> j = i
  OBVIOUS
<1>5. /\ s.at = "layers" /\ s.layer = i + 1 /\ s.turn = step.turn
      /\ "layers" \in Places /\ i + 1 \in Int /\ "client" \in LayerType
  BY <1>1, LayerIsInt DEF Step, Places, LayerType
<1> HIDE DEF F, r, q, s
<1>6. /\ r \in Plan /\ BlocksOK(r) /\ SameBlocks(plan, r)
      /\ r.type = [j \in Layer |-> IF j \in F THEN "client" ELSE plan.type[j]]
      /\ r.client = plan.client /\ r.exynos = plan.exynos
      /\ r.disabled = plan.disabled /\ r.dynamic = plan.dynamic /\ r.failed = plan.failed
  BY <1>1, <1>4, <1>5, WithTypeIs
<1>7. ClientGiven(plan, r, i)
  <2>1. \A j \in Layer : r.type[j] = IF j = i THEN "client" ELSE plan.type[j]
    BY <1>4, <1>6
  <2>2. \A j \in Layer : r.m2m[j] = IF j = i THEN NoBlock ELSE plan.m2m[j]
    BY <1>2, <1>6 DEF SameBlocks
  <2> QED BY <1>6, <2>1, <2>2 DEF ClientGiven
<1>8. /\ q \in Plan /\ BlocksOK(q) /\ ClientTook(plan, q, i)
      /\ Sound(q) /\ Composed(q) /\ Scaled(q)
  BY <1>1, <1>4, <1>6, <1>7, AddClientTakes
<1>9. ~q.failed => Ranged(q) /\ Solid(q)
  BY <1>1, <1>2, <1>8, ClientKeepsSolid
<1>10. Waited(q, s.turn, s.layer)
  <2>1. step.layer \in Int /\ step.turn \in Int
    BY <1>1, StepFields
  <2>2. \A j \in Layer : q.m2m[j] \in {plan.m2m[j], NoBlock}
    BY <1>8 DEF ClientTook
  <2> QED BY <1>1, <1>2, <1>5, <2>1, <2>2, BlocksApart DEF Waited, Layer
<1>11. ~q.failed => Stage(q, s)
  BY <1>5, <1>8, <1>9, <1>10 DEF Stage, Live, Whole
<1>12. CASE Changes(plan, q)
  <2>1. Retry(q)
    BY <1>3, <1>12
  <2> QED BY <1>1, <1>8, <1>9, <2>1, RetryGood
<1>13. CASE ~Changes(plan, q)
  <2>1. Then(q, "layers", i + 1)
    BY <1>3, <1>13
  <2> QED BY <1>1, <1>5, <1>8, <1>11, <2>1, ThenGood DEF s
<1> QED BY <1>12, <1>13

\* A layer loses its dynamic metadata.
LEMMA WithoutMetadataIs ==
  ASSUME NEW p \in Plan, BlocksOK(p), NEW i, NEW q, q = WithoutMetadata(p, i)
  PROVE  /\ q \in Plan /\ BlocksOK(q)
         /\ SameBlocks(p, q) /\ SameCounts(p, q)
         /\ q.type = p.type /\ q.client = p.client /\ q.exynos = p.exynos
         /\ q.disabled = p.disabled /\ q.failed = p.failed
<1>1. q = [p EXCEPT !.dynamic = p.dynamic \ {i}]
  BY DEF WithoutMetadata, Plan
<1>2. p.dynamic \ {i} \in SUBSET Layer
  BY DEF Plan
<1>3. q \in Plan
  BY <1>1, <1>2 DEF Plan
<1>4. /\ SameBlocks(p, q) /\ SameCounts(p, q)
      /\ q.type = p.type /\ q.client = p.client /\ q.exynos = p.exynos
      /\ q.disabled = p.disabled /\ q.failed = p.failed
  BY <1>1 DEF Plan, SameBlocks, SameCounts
<1> QED BY <1>3, <1>4, SameBlocksOK

\* It finds nothing for a layer with dynamic metadata: all types are reset.
LEMMA LayerFlattensGood ==
  ASSUME Assignable, NEW i \in Layer, LayerFlattens(i)
  PROVE  Good(plan', step')
<1> DEFINE targets == ({plan.otf[ClientTarget], plan.otf[ExynosTarget]} \ {NoBlock})
                         \union (IF plan.exynos.has THEN {Blender} ELSE {})
           a == Release(plan, targets)
           b == NoClient(a)
           c == NoExynos(b)
           r == WithType(c, Layer, "invalid")
           q == WithoutMetadata(r, i)
<1>1. /\ plan \in Plan /\ BlocksOK(plan) /\ step \in Step
      /\ ~plan.failed /\ Sound(plan) /\ Ranged(plan)
  BY InLayers DEF LayerFlattens, IsNext
<1>2. Retry(q)
  BY DEF LayerFlattens
<1>3. targets \in SUBSET Block
  BY <1>1, PlanFields DEF Block, Source
<1>4. plan.exynos.has => Blender \in targets
  OBVIOUS
<1>5. /\ a = Release(plan, targets) /\ b = NoClient(a) /\ c = NoExynos(b)
      /\ r = WithType(c, Layer, "invalid") /\ q = WithoutMetadata(r, i)
      /\ "invalid" \in LayerType
  BY DEF LayerType
<1> HIDE DEF targets, a, b, c, r, q
<1>6. a \in Plan /\ BlocksOK(a) /\ SameLayers(plan, a) /\ Rid(plan, a, targets)
  BY <1>1, <1>3, <1>5, ReleaseIs
<1>7. /\ b \in Plan /\ BlocksOK(b) /\ b.m2m = a.m2m /\ b.client = Nothing
      /\ b.failed = a.failed
  BY <1>5, <1>6, NoClientIs
<1>8. /\ c \in Plan /\ BlocksOK(c) /\ c.m2m = b.m2m /\ c.client = b.client
      /\ c.exynos = Nothing /\ c.failed = b.failed
  BY <1>5, <1>7, NoExynosIs
<1>9. /\ r \in Plan /\ BlocksOK(r) /\ SameBlocks(c, r)
      /\ r.type = [j \in Layer |-> IF j \in Layer THEN "invalid" ELSE c.type[j]]
      /\ r.client = c.client /\ r.exynos = c.exynos /\ r.failed = c.failed
  BY <1>5, <1>8, WithTypeIs
<1>10. /\ q \in Plan /\ BlocksOK(q) /\ SameBlocks(r, q)
       /\ q.type = r.type /\ q.client = r.client /\ q.exynos = r.exynos
  BY <1>5, <1>9, WithoutMetadataIs
<1>11. \A j \in Layer : q.m2m[j] # Blender
  <2>1. q.m2m = a.m2m
    BY <1>7, <1>8, <1>9, <1>10 DEF SameBlocks
  <2>2. \A j \in Layer : plan.m2m[j] = Blender => plan.exynos.has
    BY <1>1 DEF Sound, Ranged, Within
  <2> QED BY <1>4, <1>6, <2>1, <2>2, BlocksApart DEF Rid
<1>12. \A j \in Layer : q.type[j] = "invalid"
  BY <1>9, <1>10
<1>13. q.client = Nothing /\ q.exynos = Nothing
  BY <1>7, <1>8, <1>9, <1>10
<1>14. Sound(q) /\ Composed(q)
  BY <1>11, <1>12, <1>13 DEF Sound, Composed, Valid, Within, Nothing
<1>15. Ranged(q) /\ Solid(q)
  BY <1>12, <1>13 DEF Ranged, Solid, Within, Nothing
<1> QED BY <1>1, <1>2, <1>10, <1>14, <1>15, RetryGood

\* Layer i becomes a layer of the blender, whose range is then e.
BlenderTook(p, q, i, e) ==
  /\ q.exynos = e /\ q.client = p.client /\ q.failed = p.failed
  /\ \A j \in Layer : q.type[j] = IF j = i THEN "exynos" ELSE p.type[j]
  /\ \A j \in Layer : q.m2m[j] = IF j = i THEN Blender ELSE p.m2m[j]

\* A layer that the blender can take becomes one of its layers.
LEMMA BlenderTakes ==
  ASSUME NEW p \in Plan, BlocksOK(p), NEW i \in Layer, p.m2m[i] = NoBlock,
         CanTakeMore(p), p.exynos.has => IsRange(p.exynos),
         NEW F, F = {i}, NEW e, e = Extended(p.exynos, F),
         NEW q, q = [WithType(AssignM2M(p, Blender, i), F, "exynos") EXCEPT !.exynos = e]
  PROVE  q \in Plan /\ BlocksOK(q) /\ BlenderTook(p, q, i, e)
<1> DEFINE a == AssignM2M(p, Blender, i)
           r == WithType(a, F, "exynos")
<1>1. /\ Blender \in Single \union {Blender} /\ "exynos" \in LayerType
      /\ Blender \notin Single
  BY BlocksApart DEF LayerType
<1>2. Cardinality(p.users[Blender]) < MaxSources
  BY DEF CanTakeMore
<1>3. e \in Composition
  BY ClientRange DEF Plan, Valid
<1>4. a = AssignM2M(p, Blender, i) /\ r = WithType(a, F, "exynos") /\ q = [r EXCEPT !.exynos = e]
  OBVIOUS
<1> HIDE DEF a, r
<1>5. a \in Plan /\ BlocksOK(a) /\ SameLayers(p, a)
  BY <1>1, <1>2, <1>4, AssignM2MIs
<1>6. a.m2m = [p.m2m EXCEPT ![i] = Blender]
  BY <1>4 DEF AssignM2M, Plan
<1>7. /\ r \in Plan /\ BlocksOK(r) /\ SameBlocks(a, r)
      /\ r.type = [j \in Layer |-> IF j \in F THEN "exynos" ELSE a.type[j]]
      /\ r.client = a.client /\ r.failed = a.failed
  BY <1>1, <1>4, <1>5, WithTypeIs
<1>8. /\ q \in Plan /\ BlocksOK(q) /\ SameBlocks(r, q)
      /\ q.exynos = e /\ q.type = r.type /\ q.client = r.client /\ q.failed = r.failed
  <2>1. q \in Plan /\ BlocksOK(q) /\ SameBlocks(r, q)
    BY <1>3, <1>4, <1>7, ExynosSet
  <2>2. q.exynos = e /\ q.type = r.type /\ q.client = r.client /\ q.failed = r.failed
    BY <1>4, <1>7 DEF Plan
  <2> QED BY <2>1, <2>2
<1>9. /\ q.client = p.client /\ q.failed = p.failed /\ a.type = p.type /\ q.m2m = a.m2m
  BY <1>5, <1>7, <1>8 DEF SameLayers, SameBlocks
<1>10. \A j \in Layer : q.type[j] = IF j = i THEN "exynos" ELSE p.type[j]
  BY <1>7, <1>8, <1>9
<1>11. \A j \in Layer : q.m2m[j] = IF j = i THEN Blender ELSE p.m2m[j]
  BY <1>6, <1>9, PlanFields
<1> QED BY <1>8, <1>9, <1>10, <1>11 DEF BlenderTook

\* The first layer of a range that is Solid is one of its layers.
LEMMA SolidFirst ==
  ASSUME NEW p \in Plan, Ranged(p), Solid(p), p.exynos.has
  PROVE  p.type[p.exynos.first] = "exynos"
<1>1. /\ p.exynos.first \in Int /\ p.exynos.last \in Int /\ IsRange(p.exynos)
  BY PlanFields DEF Ranged
<1>2. p.exynos.first \in Layer
  BY <1>1, TopIsNat DEF IsRange, Layer
<1>3. CASE p.exynos.first < p.exynos.last
  BY <1>2, <1>3, <1>1 DEF Solid
<1>4. CASE p.exynos.first = p.exynos.last
  <2>1. ~AtEnd(p)
    BY <1>1, <1>4 DEF AtEnd
  <2> QED BY <1>4, <2>1 DEF Solid
<1> QED BY <1>1, <1>3, <1>4 DEF IsRange

\* It finds room in the blender, whose range grows to the layer.
LEMMA LayerToBlenderGood ==
  ASSUME Assignable, NEW i \in Layer, LayerToBlender(i)
  PROVE  Good(plan', step')
<1> DEFINE F == {i}
           e == Extended(plan.exynos, F)
           q == [WithType(AssignM2M(plan, Blender, i), F, "exynos") EXCEPT !.exynos = e]
           s == [step EXCEPT !.at = "sandwich", !.layer = i,
                   !.from = e.first, !.seen = e.first - 1,
                   !.invalid = FALSE, !.changed = FALSE]
<1>1. /\ plan \in Plan /\ BlocksOK(plan) /\ step \in Step /\ kind \in [Layer -> Kind]
      /\ ~plan.failed /\ Sound(plan) /\ Composed(plan)
      /\ Ranged(plan) /\ Solid(plan) /\ Scaled(plan)
      /\ Waited(plan, step.turn, step.layer)
  BY InLayers DEF LayerToBlender, IsNext
<1>2. /\ plan.m2m[i] = NoBlock
      /\ Priority[kind[i]] = step.turn /\ step.layer <= i
      /\ plan.type[i] # "client" /\ plan.type[i] # "exynos"
  BY NextIsFree DEF LayerToBlender
<1>3. kind[i] \in Blendable /\ CanTakeMore(plan)
  BY BlocksApart DEF LayerToBlender, Outcomes, ByBlender, ByClient
<1>4. ~High(i)
  BY <1>1, <1>3, PriorityIs
<1>5. Valid(plan.exynos) /\ plan.exynos \in Composition
  BY <1>1, PlanFields DEF Ranged, Valid
<1>6. /\ e \in Composition /\ e.has /\ IsRange(e) /\ Within(i, e)
      /\ plan.exynos.has => e.first <= plan.exynos.first /\ plan.exynos.last <= e.last
      /\ e.first = i \/ (plan.exynos.has /\ e.first = plan.exynos.first)
      /\ e.last = i \/ (plan.exynos.has /\ e.last = plan.exynos.last)
  BY <1>5, ClientRange
<1>7. q = [WithType(AssignM2M(plan, Blender, i), F, "exynos") EXCEPT !.exynos = e]
  OBVIOUS
<1>8. q = [WithType(AssignM2M(plan, Blender, i), F, "exynos") EXCEPT !.exynos = Extended(@, F)]
  <2>1. WithType(AssignM2M(plan, Blender, i), F, "exynos").exynos = plan.exynos
    BY <1>1 DEF WithType, AssignM2M, Plan
  <2> QED BY <2>1
<1>9. /\ ~plan.exynos.has => Retry(q)
      /\ plan.exynos.has => plan' = q /\ step' = [step EXCEPT !.at = "sandwich", !.layer = i,
                            !.from = q.exynos.first, !.seen = q.exynos.first - 1,
                            !.invalid = FALSE, !.changed = FALSE]
  BY <1>8, Zenon DEF LayerToBlender
<1>10. F = {i} /\ e = Extended(plan.exynos, F)
  OBVIOUS
<1> HIDE DEF F, e, q
<1>11. /\ q \in Plan /\ BlocksOK(q)
       /\ q.exynos = e /\ q.client = plan.client /\ q.failed = plan.failed
       /\ \A j \in Layer : q.type[j] = IF j = i THEN "exynos" ELSE plan.type[j]
       /\ \A j \in Layer : q.m2m[j] = IF j = i THEN Blender ELSE plan.m2m[j]
  <2>1. q \in Plan /\ BlocksOK(q) /\ BlenderTook(plan, q, i, e)
    BY <1>1, <1>2, <1>3, <1>5, <1>7, <1>10, BlenderTakes DEF Valid
  <2> QED BY <2>1 DEF BlenderTook
<1>12. e.first \in Int /\ e.last \in Int /\ e.first \in Layer /\ e.last \in Layer
  BY <1>6, TopIsNat DEF Composition, IsRange, Layer
<1>13. Sound(q)
  <2>1. ~Within(i, plan.client)
    BY <1>1, <1>2, <1>4 DEF Sound
  <2>2. Valid(q.client)
    BY <1>1, <1>11 DEF Sound
  <2>3. \A j \in Layer : q.m2m[j] = Blender => q.type[j] = "exynos"
    BY <1>1, <1>11 DEF Sound
  <2> QED BY <1>1, <1>11, <2>1, <2>2, <2>3 DEF Sound
<1>14. Composed(q)
  <2>1. plan.client.has => plan.client.last \in Layer
    BY <1>1, TopIsNat, PlanFields DEF Sound, Valid, IsRange, Layer
  <2>2. plan.client.has => plan.client.last # i
    BY <1>1, <1>2 DEF Composed
  <2> QED BY <1>1, <1>2, <1>4, <1>11, <2>1, <2>2 DEF Composed
<1>15. Ranged(q)
  <2>1. ASSUME NEW j \in Layer, q.type[j] = "exynos"
        PROVE  Within(j, e)
    <3>1. CASE j = i
      BY <1>6, <3>1
    <3>2. CASE j # i
      <4>1. Within(j, plan.exynos)
        BY <1>1, <1>11, <2>1, <3>2 DEF Ranged
      <4> QED BY <1>5, <1>6, <1>12, <4>1 DEF Within, Layer, Composition
    <3> QED BY <3>1, <3>2
  <2> QED BY <1>6, <1>11, <2>1 DEF Ranged
<1>16. Scaled(q)
  BY <1>1, <1>11, BlocksApart DEF Scaled
<1>17. CASE ~plan.exynos.has
  <2>1. e.first = i /\ e.last = i /\ i \in Int
    BY <1>6, <1>17, LayerIsInt
  <2>2. Solid(q)
    <3>1. q.exynos.first = i /\ q.exynos.last = i /\ q.type[i] = "exynos"
      BY <1>11, <2>1
    <3>2. \A j \in Layer : ~(i <= j /\ j < i)
      BY DEF Layer
    <3> QED BY <3>1, <3>2 DEF Solid
  <2> QED BY <1>1, <1>9, <1>11, <1>13, <1>14, <1>15, <1>17, <2>2, RetryGood
<1>18. CASE plan.exynos.has
  <2>1. step' = s
    BY <1>9, <1>11, <1>18
  <2>2. e.first - 1 \in Int /\ i \in Int /\ "sandwich" \in Places
    BY <1>12, LayerIsInt DEF Places
  <2>3. s \in Step
    BY <1>1, <1>12, <2>2 DEF Step, Places
  <2>4. /\ s.at = "sandwich" /\ s.layer = i /\ s.turn = step.turn
        /\ s.from = e.first /\ s.seen = e.first - 1 /\ s.invalid = FALSE
    BY <1>1 DEF Step
  <2> HIDE DEF s
  <2>5. Waited(q, s.turn, s.layer)
    <3>1. step.layer \in Int /\ step.turn \in Int
      BY <1>1, StepFields
    <3> QED BY <1>1, <1>2, <1>11, <2>4, <3>1, BlocksApart DEF Waited, Layer
  <2>6. q.type[q.exynos.first] = "exynos"
    <3>1. plan.type[plan.exynos.first] = "exynos"
      BY <1>1, <1>18, SolidFirst
    <3> QED BY <1>6, <1>11, <1>12, <3>1
  <2>7. q.type[q.exynos.last] = "exynos" \/ AtEnd(q)
    <3>1. CASE e.last = i
      BY <1>11, <3>1
    <3>2. CASE e.last # i /\ plan.type[plan.exynos.last] = "exynos"
      BY <1>6, <1>11, <1>12, <3>2
    <3>3. CASE e.last # i /\ AtEnd(plan)
      <4>1. e.last = plan.exynos.last /\ e.first <= plan.exynos.first
        BY <1>6, <3>3
      <4>2. plan.exynos.first \in Int /\ IsRange(plan.exynos)
        BY <1>1, <1>18, PlanFields DEF Ranged
      <4>3. e.last - 1 \in Layer /\ e.first < e.last
        BY <1>12, <3>3, <4>1, <4>2, TopIsNat DEF AtEnd, Layer, IsRange
      <4>4. q.type[e.last - 1] = "exynos"
        BY <1>11, <3>3, <4>1, <4>3 DEF AtEnd
      <4> QED BY <1>11, <3>3, <4>1, <4>3, <4>4 DEF AtEnd
    <3> QED BY <1>1, <1>18, <3>1, <3>2, <3>3 DEF Solid
  <2>8. Taken(q, s)
    <3>1. 0 <= e.first
      BY <1>6 DEF IsRange
    <3> QED BY <1>6, <1>11, <1>12, <2>4, <2>6, <2>7, <3>1 DEF Taken, Layer
  <2>9. Stage(q, s)
    BY <1>1, <1>11, <1>13, <1>14, <1>15, <1>16, <2>4, <2>5, <2>8 DEF Stage, Live, Whole
  <2> QED BY <1>9, <1>11, <1>18, <2>1, <2>3, <2>9 DEF Good
<1> QED BY <1>17, <1>18

\* The next layer in the range of the blender, and those below it
LEMMA SandwichedIs ==
  ASSUME Assignable, NEW i \in Layer, IsSandwiched(i)
  PROVE  /\ ~High(i) /\ plan.type[i] # "exynos"
         /\ plan.exynos.has /\ IsRange(plan.exynos) /\ i <= plan.exynos.last
         /\ step.from <= i /\ step.seen < i /\ 0 <= step.from
         /\ step.from <= plan.exynos.first
         /\ plan.type[plan.exynos.first] = "exynos"
         /\ plan.type[plan.exynos.last] = "exynos" \/ AtEnd(plan)
         /\ ~step.invalid => plan.exynos.first = step.from
         /\ \A j \in Layer : step.from <= j /\ j < i /\ ~High(j) =>
              plan.type[j] = "exynos" \/ (step.invalid /\ plan.type[j] = "client")
<1>1. /\ plan \in Plan /\ step \in Step /\ Ranged(plan) /\ Taken(plan, step)
  BY InSandwich DEF IsSandwiched
<1>2. /\ step.seen < i /\ i <= plan.exynos.last /\ ~High(i) /\ plan.type[i] # "exynos"
      /\ \A j \in Sandwiched : i <= j
  BY DEF IsSandwiched, Sandwiched
<1>3. /\ step.from \in Int /\ step.seen \in Int
      /\ plan.exynos.first \in Int /\ plan.exynos.last \in Int
  BY <1>1, StepFields, PlanFields
<1>4. plan.exynos.has
  BY <1>1, <1>2 DEF Ranged, Nothing, Layer
<1>5. 0 <= step.from /\ step.from - 1 <= step.seen
  BY <1>1 DEF Taken
<1>6. \A j \in Layer : step.from <= j /\ j < i /\ ~High(j) =>
        plan.type[j] = "exynos" \/ (step.invalid /\ plan.type[j] = "client")
  <2> SUFFICES ASSUME NEW j \in Layer, step.from <= j, j < i, ~High(j)
               PROVE  plan.type[j] = "exynos" \/ (step.invalid /\ plan.type[j] = "client")
    OBVIOUS
  <2>1. CASE j <= step.seen
    BY <1>1, <2>1 DEF Taken
  <2>2. CASE step.seen < j
    <3>1. j \notin Sandwiched
      BY <1>2 DEF Layer
    <3>2. j <= plan.exynos.last
      BY <1>2, <1>3 DEF Layer
    <3> QED BY <2>2, <3>1, <3>2 DEF Sandwiched
  <2> QED BY <1>3, <2>1, <2>2 DEF Layer
<1>7. step.from <= i
  BY <1>2, <1>3, <1>5 DEF Layer
<1>8. /\ step.from <= plan.exynos.first
      /\ plan.type[plan.exynos.first] = "exynos"
      /\ plan.type[plan.exynos.last] = "exynos" \/ AtEnd(plan)
      /\ ~step.invalid => plan.exynos.first = step.from
  BY <1>1, <1>4 DEF Taken
<1> QED BY <1>1, <1>2, <1>4, <1>5, <1>6, <1>7, <1>8 DEF Ranged

\* The range of the blender meets a layer of the client.
LEMMA MeetClientGood ==
  ASSUME Assignable, NEW i \in Layer, MeetClient(i)
  PROVE  Good(plan', step')
<1>1. /\ plan \in Plan /\ BlocksOK(plan) /\ step \in Step
      /\ ~plan.failed /\ Sound(plan) /\ Composed(plan)
      /\ Ranged(plan) /\ Scaled(plan) /\ step.at = "sandwich"
      /\ Waited(plan, step.turn, step.layer)
  BY InSandwich DEF MeetClient, IsSandwiched, At
<1>2. /\ step' = [step EXCEPT !.seen = i, !.invalid = TRUE] /\ plan' = plan
      /\ plan.type[i] = "client"
  BY DEF MeetClient
<1>3. i \in Int
  BY LayerIsInt
<1>4. step' \in Step
  BY <1>1, <1>2, <1>3 DEF Step
<1>5. /\ step'.at = "sandwich" /\ step'.seen = i /\ step'.invalid = TRUE
      /\ step'.from = step.from /\ step'.turn = step.turn /\ step'.layer = step.layer
  BY <1>1, <1>2 DEF Step
<1>6. Taken(plan, step')
  <2>1. /\ step.from <= i /\ step.seen < i /\ 0 <= step.from
        /\ plan.exynos.has /\ step.from <= plan.exynos.first
        /\ plan.type[plan.exynos.first] = "exynos"
        /\ plan.type[plan.exynos.last] = "exynos" \/ AtEnd(plan)
        /\ \A j \in Layer : step.from <= j /\ j < i /\ ~High(j) =>
             plan.type[j] = "exynos" \/ (step.invalid /\ plan.type[j] = "client")
    BY SandwichedIs DEF MeetClient
  <2>2. step.from \in Int
    BY <1>1, StepFields
  <2> QED BY <1>2, <1>3, <1>5, <2>1, <2>2 DEF Taken, Layer
<1>7. Stage(plan, step')
  BY <1>1, <1>5, <1>6 DEF Stage, Live, Whole
<1> QED BY <1>1, <1>2, <1>4, <1>7 DEF Good

\* A layer in the range goes to the client: the ends of the range stay layers
\* of the blender.
LEMMA TakenOut ==
  ASSUME NEW p \in Plan, Sound(p), Composed(p), Ranged(p), p.exynos.has,
         p.type[p.exynos.first] = "exynos",
         p.type[p.exynos.last] = "exynos" \/ AtEnd(p),
         NEW i \in Layer, i <= p.exynos.last, ~High(i), p.type[i] # "exynos",
         NEW q \in Plan, ClientTook(p, q, i), ~q.failed
  PROVE  /\ Ranged(q)
         /\ q.exynos.has => /\ p.exynos.first <= q.exynos.first
                            /\ q.type[q.exynos.first] = "exynos"
                            /\ q.type[q.exynos.last] = "exynos" \/ AtEnd(q)
<1> DEFINE e == p.exynos
           c == q.client
<1>1. /\ \A j \in Layer :
           q.type[j] = IF j = i \/ Joins(c, j) THEN "client" ELSE p.type[j]
      /\ c.has /\ IsRange(c)
      /\ p.client.has => c.first <= p.client.first /\ p.client.last <= c.last
      /\ c.first = i \/ (p.client.has /\ c.first = p.client.first)
      /\ c.last = i \/ (p.client.has /\ c.last = p.client.last)
  BY DEF ClientTook, ClientGrown
<1>2. BlenderRest(p, q, i)
  BY DEF ClientTook
<1>3. /\ c.first \in Int /\ c.last \in Int /\ e.first \in Int /\ e.last \in Int
      /\ i \in Int /\ 0 <= i /\ i <= Top
      /\ p.client.has => p.client.first \in Int /\ p.client.last \in Int
  BY PlanFields, TopIsNat DEF Layer
<1>4. \A j \in Layer : p.type[j] = "exynos" => e.first <= j /\ j <= e.last /\ ~ShowsThrough(j)
  BY DEF Ranged, Within, Composed, ShowsThrough
<1>5. \A j \in Layer : q.type[j] = "exynos" => p.type[j] = "exynos" /\ ~Joins(c, j)
  BY <1>1
<1>6. IsRange(e) /\ e.first \in Layer /\ e.last \in Layer
  BY <1>3, TopIsNat DEF Ranged, IsRange, Layer
<1>7. CASE /\ \A j \in Layer : j # i /\ p.type[j] = "exynos" => ~Joins(c, j)
           /\ q.exynos = e
  <2>1. \A j \in Layer : p.type[j] = "exynos" => q.type[j] = "exynos"
    BY <1>1, <1>7
  <2>2. Ranged(q)
    BY <1>5, <1>7 DEF Ranged
  <2>3. ASSUME AtEnd(p)
        PROVE  AtEnd(q)
    <3>1. /\ e.last < Top /\ High(e.last) /\ High(e.last + 1)
          /\ e.first < e.last /\ p.type[e.last - 1] = "exynos"
          /\ p.client.has /\ e.last <= p.client.first /\ e.last < p.client.last
      BY <2>3 DEF AtEnd
    <3>2. e.last - 1 \in Layer
      BY <1>3, <1>6, <3>1, TopIsNat DEF IsRange, Layer
    <3>3. q.type[e.last - 1] = "exynos" /\ ~Joins(c, e.last - 1) /\ ~ShowsThrough(e.last - 1)
      BY <1>4, <1>5, <2>1, <3>1, <3>2
    <3>4. i # e.last - 1
      BY <3>1
    <3>5. e.last < c.last
      BY <1>1, <1>3, <3>1
    <3>6. e.last <= c.first
      BY <1>1, <1>3, <3>1, <3>3, <3>4, <3>5 DEF Joins
    <3> QED BY <1>1, <1>7, <3>1, <3>3, <3>5, <3>6 DEF AtEnd
  <2> QED BY <1>3, <1>6, <1>7, <2>1, <2>2, <2>3
<1>8. CASE q.exynos = Nothing /\ \A j \in Layer : q.type[j] # "exynos"
  BY <1>8 DEF Ranged, Nothing
<1>9. CASE /\ q.exynos.has /\ IsRange(q.exynos)
           /\ q.type[q.exynos.first] = "exynos" /\ q.type[q.exynos.last] = "exynos"
           /\ \A j \in Layer : q.type[j] = "exynos" => Within(j, q.exynos)
  <2>1. q.exynos.first \in Layer
    BY <1>9, TopIsNat, PlanFields DEF IsRange, Layer
  <2>2. e.first <= q.exynos.first
    BY <1>4, <1>5, <1>9, <2>1
  <2> QED BY <1>9, <2>2 DEF Ranged
<1> QED BY <1>2, <1>7, <1>8, <1>9 DEF BlenderRest

\* A layer in the range of the blender goes to the client,
LEMMA TakeOutGood ==
  ASSUME Assignable, NEW i \in Layer, TakeOut(i)
  PROVE  Good(plan', step')
<1> DEFINE q == ToClient(plan, i)
           s == [step EXCEPT !.seen = i, !.invalid = TRUE,
                   !.changed = @ \/ Changes(plan, q)]
<1>1. /\ plan \in Plan /\ BlocksOK(plan) /\ step \in Step
      /\ ~plan.failed /\ Sound(plan) /\ Composed(plan)
      /\ Ranged(plan) /\ Scaled(plan) /\ step.at = "sandwich"
      /\ Waited(plan, step.turn, step.layer)
  BY InSandwich DEF TakeOut, IsSandwiched, At
<1>2. /\ ~High(i) /\ plan.type[i] # "exynos"
      /\ plan.exynos.has /\ IsRange(plan.exynos) /\ i <= plan.exynos.last
      /\ step.from <= i /\ step.seen < i /\ 0 <= step.from
      /\ step.from <= plan.exynos.first
      /\ plan.type[plan.exynos.first] = "exynos"
      /\ plan.type[plan.exynos.last] = "exynos" \/ AtEnd(plan)
      /\ \A j \in Layer : step.from <= j /\ j < i /\ ~High(j) =>
           plan.type[j] = "exynos" \/ (step.invalid /\ plan.type[j] = "client")
  BY SandwichedIs DEF TakeOut
<1>3. /\ plan' = q
      /\ step' = IF q.failed THEN [step EXCEPT !.at = "forced"] ELSE s
  BY DEF TakeOut
<1>4. q = ToClient(plan, i)
  OBVIOUS
<1>5. Changes(plan, q) \in BOOLEAN /\ step.changed \in BOOLEAN /\ i \in Int /\ step.from \in Int
  BY <1>1, LayerIsInt, StepFields DEF Changes
<1>6. s \in Step
  <2> HIDE DEF q
  <2>1. (step.changed \/ Changes(plan, q)) \in BOOLEAN
    BY <1>5
  <2>2. s = [step EXCEPT !.seen = i, !.invalid = TRUE,
                   !.changed = step.changed \/ Changes(plan, q)]
    BY <1>1 DEF Step
  <2> QED BY <1>1, <1>5, <2>1, <2>2 DEF Step
<1>7. /\ s.at = "sandwich" /\ s.seen = i /\ s.invalid = TRUE
      /\ s.from = step.from /\ s.turn = step.turn /\ s.layer = step.layer
  <2> HIDE DEF q
  <2> QED BY <1>1 DEF Step
<1> HIDE DEF q, s
<1>8. /\ q \in Plan /\ BlocksOK(q) /\ ClientTook(plan, q, i)
      /\ Sound(q) /\ Composed(q) /\ Scaled(q)
  BY <1>1, <1>4, ToClientTakes
<1>9. CASE q.failed
  <2>1. step' = [step EXCEPT !.at = "forced"]
    BY <1>3, <1>9
  <2>2. step' \in Step /\ step'.at = "forced"
    BY <1>1, <2>1 DEF Step
  <2>3. Stage(q, step')
    BY <2>2, Elsewhere
  <2> QED BY <1>3, <1>8, <2>2, <2>3 DEF Good
<1>10. CASE ~q.failed
  <2>1. /\ Ranged(q)
        /\ q.exynos.has => /\ plan.exynos.first <= q.exynos.first
                           /\ q.type[q.exynos.first] = "exynos"
                           /\ q.type[q.exynos.last] = "exynos" \/ AtEnd(q)
    BY <1>1, <1>2, <1>8, <1>10, TakenOut
  <2>2. Waited(q, s.turn, s.layer)
    <3>1. \A j \in Layer : q.m2m[j] \in {plan.m2m[j], NoBlock}
      BY <1>8 DEF ClientTook
    <3> QED BY <1>1, <1>7, <3>1, BlocksApart DEF Waited
  <2>3. Taken(q, s)
    <3>1. \A j \in Layer : q.type[j] \in {plan.type[j], "client"} /\ q.type[i] = "client"
      BY <1>8 DEF ClientTook
    <3>2. \A j \in Layer : step.from <= j /\ j <= i /\ ~High(j) =>
             q.type[j] = "exynos" \/ q.type[j] = "client"
      BY <1>2, <3>1 DEF Layer
    <3>3. q.exynos.has => step.from <= q.exynos.first
      BY <1>1, <1>2, <1>5, <1>8, <2>1, PlanFields
    <3>4. step.from - 1 <= i
      BY <1>2, <1>5
    <3> QED BY <1>2, <1>7, <2>1, <3>2, <3>3, <3>4 DEF Taken
  <2>4. Stage(q, s)
    BY <1>7, <1>8, <1>10, <2>1, <2>2, <2>3 DEF Stage, Live, Whole
  <2>5. step' = s
    BY <1>3, <1>10
  <2> QED BY <1>3, <1>6, <1>8, <2>4, <2>5 DEF Good
<1> QED BY <1>9, <1>10

\* Layer i has left its blocks for the blender, whose range is then e.
TakenOver(p, F, i, e) == [AssignM2M(Free(p, F), Blender, i) EXCEPT !.exynos = e]

\* A layer leaves its blocks and becomes a layer of the blender.
LEMMA BlenderTakesIn ==
  ASSUME NEW p \in Plan, BlocksOK(p), NEW i \in Layer, CanTakeMore(p),
         p.exynos.has, IsRange(p.exynos),
         NEW F, F = {i}, NEW e, e = Extended(p.exynos, F),
         NEW r, r = TakenOver(p, F, i, e),
         NEW u, u = Uncounted(r, F) \/ u = r,
         NEW q, q = WithType(u, F, "exynos")
  PROVE  /\ q \in Plan /\ BlocksOK(q) /\ BlenderTook(p, q, i, e)
         /\ r \in Plan
<1> DEFINE f == Free(p, F)
           a == AssignM2M(f, Blender, i)
<1>1. /\ Blender \in Single \union {Blender} /\ "exynos" \in LayerType
      /\ Blender \notin Single /\ Blender \in Block
      /\ F \in SUBSET Layer /\ F \in SUBSET Source
  BY BlocksApart DEF LayerType, Source, Block
<1>2. /\ f = Free(p, F) /\ a = AssignM2M(f, Blender, i) /\ r = [a EXCEPT !.exynos = e]
  BY DEF TakenOver
<1>3. e \in Composition
  BY ClientRange DEF Plan, Valid
<1> HIDE DEF f, a
<1>4. /\ f \in Plan /\ SameLayers(p, f)
      /\ f.m2m = [j \in Layer |-> IF j \in F THEN NoBlock ELSE p.m2m[j]]
      /\ \A b \in Block : f.users[b] \subseteq p.users[b]
      /\ BlocksOK(f)
  BY <1>1, <1>2, FreeIs
<1>5. f.m2m[i] = NoBlock
  BY <1>4
<1>6. Cardinality(f.users[Blender]) < MaxSources
  <2>1. Cardinality(p.users[Blender]) < MaxSources
    BY DEF CanTakeMore
  <2>2. p.users[Blender] \in SUBSET Source /\ f.users[Blender] \in SUBSET p.users[Blender]
    BY <1>1, <1>4, PlanFields
  <2>3. /\ Cardinality(f.users[Blender]) <= Cardinality(p.users[Blender])
        /\ Cardinality(f.users[Blender]) \in Nat
    BY <2>2, FewerUsers
  <2>4. Cardinality(p.users[Blender]) \in Nat
    BY <2>2, FewerUsers
  <2> QED BY <2>1, <2>3, <2>4, BlocksApart
<1>7. a \in Plan /\ BlocksOK(a) /\ SameLayers(f, a)
  BY <1>1, <1>2, <1>4, <1>5, <1>6, AssignM2MIs
<1>8. a.m2m = [f.m2m EXCEPT ![i] = Blender]
  BY <1>2, <1>4 DEF AssignM2M, Plan
<1>9. r \in Plan /\ BlocksOK(r)
  BY <1>2, <1>3, <1>7, ExynosSet
<1>10. /\ r.exynos = e /\ r.type = a.type /\ r.client = a.client /\ r.failed = a.failed
       /\ r.m2m = a.m2m
  BY <1>2, <1>7 DEF Plan
<1>11. /\ u \in Plan /\ BlocksOK(u)
       /\ u.exynos = r.exynos /\ u.type = r.type /\ u.client = r.client
       /\ u.failed = r.failed /\ u.m2m = r.m2m
  <2>1. CASE u = r
    BY <1>9, <2>1
  <2>2. CASE u = Uncounted(r, F)
    <3>1. u \in Plan /\ BlocksOK(u) /\ SameBlocks(r, u) /\ SameLayers(r, u)
      BY <1>1, <1>9, <2>2, UncountedIs
    <3> QED BY <3>1 DEF SameBlocks, SameLayers
  <2> QED BY <1>2, <2>1, <2>2
<1>12. /\ q \in Plan /\ BlocksOK(q) /\ SameBlocks(u, q)
       /\ q.type = [j \in Layer |-> IF j \in F THEN "exynos" ELSE u.type[j]]
       /\ q.client = u.client /\ q.exynos = u.exynos /\ q.failed = u.failed
  <2>1. q \in Plan /\ BlocksOK(q) /\ SameBlocks(u, q)
    BY <1>1, <1>2, <1>11, WithTypeIs
  <2>2. /\ q.type = [j \in Layer |-> IF j \in F THEN "exynos" ELSE u.type[j]]
        /\ q.client = u.client /\ q.exynos = u.exynos /\ q.failed = u.failed
    BY <1>2, <1>11 DEF WithType, Plan
  <2> QED BY <2>1, <2>2
<1>13. /\ q.exynos = e /\ q.client = p.client /\ q.failed = p.failed
       /\ u.type = p.type /\ q.m2m = a.m2m
  BY <1>4, <1>7, <1>10, <1>11, <1>12 DEF SameLayers, SameBlocks
<1>14. \A j \in Layer : q.type[j] = IF j = i THEN "exynos" ELSE p.type[j]
  BY <1>12, <1>13
<1>15. \A j \in Layer : q.m2m[j] = IF j = i THEN Blender ELSE p.m2m[j]
  BY <1>4, <1>8, <1>13
<1> QED BY <1>9, <1>12, <1>13, <1>14, <1>15 DEF BlenderTook

\* or to the blender.
LEMMA TakeInGood ==
  ASSUME Assignable, NEW i \in Layer, TakeIn(i)
  PROVE  Good(plan', step')
<1> DEFINE F == {i}
           o == plan.exynos
           e == Extended(o, F)
           r == [AssignM2M(Free(plan, F), Blender, i) EXCEPT !.exynos = e]
           u == IF plan.type[i] = "device" THEN Uncounted(r, F) ELSE r
           q == WithType(u, F, "exynos")
           s == [step EXCEPT !.seen = i]
<1>1. /\ plan \in Plan /\ BlocksOK(plan) /\ step \in Step
      /\ ~plan.failed /\ Sound(plan) /\ Composed(plan)
      /\ Ranged(plan) /\ Scaled(plan) /\ step.at = "sandwich"
      /\ Waited(plan, step.turn, step.layer)
  BY InSandwich DEF TakeIn, IsSandwiched, At
<1>2. /\ ~High(i) /\ plan.type[i] # "exynos"
      /\ o.has /\ IsRange(o) /\ i <= o.last
      /\ step.from <= i /\ step.seen < i /\ 0 <= step.from
      /\ step.from <= o.first
      /\ plan.type[o.first] = "exynos"
      /\ plan.type[o.last] = "exynos" \/ AtEnd(plan)
      /\ ~step.invalid => o.first = step.from
      /\ \A j \in Layer : step.from <= j /\ j < i /\ ~High(j) =>
           plan.type[j] = "exynos" \/ (step.invalid /\ plan.type[j] = "client")
  BY SandwichedIs DEF TakeIn
<1>3. CanTakeMore(plan) /\ plan.type[i] # "client" /\ step' = s
  BY DEF TakeIn
<1>4. plan' = q
  <2>1. AssignM2M(Free(plan, F), Blender, i).exynos = o
    BY <1>1 DEF AssignM2M, Free, Release, Plan
  <2> QED BY <2>1 DEF TakeIn
<1>5. o \in Composition /\ o.first \in Int /\ o.last \in Int /\ i \in Int
      /\ step.from \in Int /\ step.invalid \in BOOLEAN
  BY <1>1, PlanFields, LayerIsInt, StepFields
<1>6. /\ e \in Composition /\ e.has /\ IsRange(e) /\ Within(i, e)
      /\ e.first <= o.first /\ o.last <= e.last
      /\ e.first = i \/ e.first = o.first
      /\ e.last = i \/ e.last = o.last
  BY <1>2, <1>5, ClientRange DEF Valid
<1>7. F = {i} /\ e = Extended(plan.exynos, F)
  OBVIOUS
<1>8. /\ r = TakenOver(plan, F, i, e)
      /\ q = WithType(u, F, "exynos") /\ (u = Uncounted(r, F) \/ u = r)
  BY DEF TakenOver
<1>9. /\ s \in Step /\ s.at = "sandwich" /\ s.seen = i /\ s.invalid = step.invalid
      /\ s.from = step.from /\ s.turn = step.turn /\ s.layer = step.layer
  BY <1>1, <1>5 DEF Step
<1> HIDE DEF F, e, r, u, q, s
<1>10. q \in Plan /\ BlocksOK(q) /\ BlenderTook(plan, q, i, e)
  <2>1. plan \in Plan /\ BlocksOK(plan) /\ CanTakeMore(plan)
    BY <1>1, <1>3
  <2>2. plan.exynos.has /\ IsRange(plan.exynos)
    BY <1>2
  <2> QED BY <1>7, <1>8, <2>1, <2>2, BlenderTakesIn
<1>11. /\ q.exynos = e /\ q.client = plan.client /\ q.failed = plan.failed
       /\ \A j \in Layer : q.type[j] = IF j = i THEN "exynos" ELSE plan.type[j]
       /\ \A j \in Layer : q.m2m[j] = IF j = i THEN Blender ELSE plan.m2m[j]
  BY <1>10 DEF BlenderTook
<1>12. e.first \in Int /\ e.last \in Int /\ e.first \in Layer /\ e.last \in Layer
  BY <1>6, TopIsNat DEF Composition, IsRange, Layer
<1>13. e.last = o.last /\ step.from <= e.first
  BY <1>2, <1>5, <1>6, <1>12
<1>14. Sound(q)
  <2>1. ~Within(i, plan.client)
    BY <1>1, <1>2, <1>3 DEF Sound
  <2>2. Valid(q.client)
    BY <1>1, <1>11 DEF Sound
  <2>3. \A j \in Layer : q.m2m[j] = Blender => q.type[j] = "exynos"
    BY <1>1, <1>11 DEF Sound
  <2> QED BY <1>1, <1>11, <2>1, <2>2, <2>3 DEF Sound
<1>15. Composed(q)
  <2>1. plan.client.has => plan.client.last \in Layer
    BY <1>1, TopIsNat, PlanFields DEF Sound, Valid, IsRange, Layer
  <2>2. plan.client.has => plan.client.last # i
    BY <1>1, <1>3 DEF Composed
  <2> QED BY <1>1, <1>2, <1>3, <1>11, <2>1, <2>2 DEF Composed
<1>16. Ranged(q)
  <2>1. ASSUME NEW j \in Layer, q.type[j] = "exynos"
        PROVE  Within(j, e)
    <3>1. CASE j = i
      BY <1>6, <3>1
    <3>2. CASE j # i
      <4>1. Within(j, o)
        BY <1>1, <1>11, <2>1, <3>2 DEF Ranged
      <4> QED BY <1>5, <1>6, <1>12, <4>1 DEF Within, Layer
    <3> QED BY <3>1, <3>2
  <2> QED BY <1>6, <1>11, <2>1 DEF Ranged
<1>17. Scaled(q)
  BY <1>1, <1>11, BlocksApart DEF Scaled
<1>18. Waited(q, s.turn, s.layer)
  BY <1>1, <1>9, <1>11, BlocksApart DEF Waited
<1>19. q.type[q.exynos.first] = "exynos"
  BY <1>2, <1>6, <1>11, <1>12
<1>20. q.type[q.exynos.last] = "exynos" \/ AtEnd(q)
  <2>1. CASE plan.type[o.last] = "exynos"
    BY <1>11, <1>12, <1>13, <2>1
  <2>2. CASE AtEnd(plan)
    <3>1. e.last - 1 \in Layer /\ e.first < e.last
      BY <1>2, <1>5, <1>6, <1>12, <1>13, <2>2, TopIsNat DEF AtEnd, Layer, IsRange
    <3>2. q.type[e.last - 1] = "exynos"
      BY <1>11, <1>13, <2>2, <3>1 DEF AtEnd
    <3> QED BY <1>11, <1>13, <2>2, <3>1, <3>2 DEF AtEnd
  <2> QED BY <1>2, <2>1, <2>2
<1>21. Taken(q, s)
  <2>1. \A j \in Layer : step.from <= j /\ j <= i /\ ~High(j) =>
          q.type[j] = "exynos" \/ (step.invalid /\ q.type[j] = "client")
    BY <1>2, <1>11 DEF Layer
  <2>2. step.from - 1 <= i
    BY <1>2, <1>5
  <2>3. ~step.invalid => e.first = step.from
    BY <1>2, <1>5, <1>6, <1>12, <1>13
  <2> QED BY <1>2, <1>6, <1>9, <1>11, <1>13, <1>19, <1>20, <2>1, <2>2, <2>3 DEF Taken
<1>22. Stage(q, s)
  BY <1>1, <1>9, <1>11, <1>14, <1>15, <1>16, <1>17, <1>18, <1>21 DEF Stage, Live, Whole
<1> QED BY <1>3, <1>4, <1>9, <1>10, <1>22 DEF Good

-----------------------------------------------------------------------------
(* The end of handleSandwitchedExynosCompositionLayer().                   *)

\* A range that takes in all but layers of high priority
Trimmable(p, high) ==
  /\ IF p.exynos.has THEN IsRange(p.exynos) ELSE p.exynos = Nothing
  /\ \A i \in Layer : p.type[i] = "exynos" => Within(i, p.exynos)
  /\ \A i \in Layer : Within(i, p.exynos) =>
       (High(i) <=> i \in high) /\ (~High(i) => p.type[i] = "exynos")
  /\ p.exynos.has =>
       LET last == p.exynos.last
       IN  \/ p.type[last] = "exynos"
           \/ p.exynos.first < last /\ p.type[last - 1] = "exynos"
           \/ p.client.has /\ p.client.first = last + 1 /\ last < p.client.last

\* The range that Trimmed() leaves, when the lowest layer to stay is first
TrimmedTo(e, high, first) ==
  [e EXCEPT !.first = first,
            !.last = IF first <= @ /\ @ \in high THEN @ - 1 ELSE @]

\* Only the range of the blender is another one when it is trimmed.
LEMMA TrimmedSame ==
  ASSUME NEW p \in Plan, BlocksOK(p), NEW high \in SUBSET Layer,
         NEW first \in Int, first = Lowest((p.exynos.first .. Top + 1) \ high),
         NEW q, q = Trimmed(p, high)
  PROVE  /\ q \in Plan /\ BlocksOK(q) /\ SameBlocks(p, q)
         /\ q.exynos = TrimmedTo(p.exynos, high, first)
         /\ q.type = p.type /\ q.client = p.client /\ q.failed = p.failed
<1> DEFINE old == p.exynos.last
           last == IF first <= old /\ old \in high THEN old - 1 ELSE old
           e == TrimmedTo(p.exynos, high, first)
<1>1. p.exynos \in Composition /\ old \in Int
  BY PlanFields
<1>2. last \in Int
  BY <1>1
<1>3. e = [p.exynos EXCEPT !.first = first, !.last = last]
  BY <1>1 DEF TrimmedTo, Composition
<1>4. e \in Composition
  BY <1>1, <1>2, <1>3 DEF Composition
<1>5. q = [p EXCEPT !.exynos = e]
  <2>1. CASE first > old
    <3>1. q = [p EXCEPT !.exynos.first = first]
      BY <2>1 DEF Trimmed
    <3>2. last = old
      BY <1>1, <2>1
    <3>3. e = [p.exynos EXCEPT !.first = first]
      BY <1>1, <1>3, <3>2 DEF Composition
    <3> QED BY <3>1, <3>3 DEF Plan
  <2>2. CASE ~(first > old)
    <3>1. q = [p EXCEPT !.exynos.first = first,
                        !.exynos.last = IF @ \in high THEN @ - 1 ELSE @]
      BY <2>2 DEF Trimmed
    <3>2. last = IF old \in high THEN old - 1 ELSE old
      BY <1>1, <2>2
    <3> QED BY <1>3, <3>1, <3>2 DEF Plan
  <2> QED BY <2>1, <2>2
<1> HIDE DEF e
<1>6. q \in Plan /\ BlocksOK(q) /\ SameBlocks(p, q)
  BY <1>4, <1>5, ExynosSet
<1>7. q.exynos = e /\ q.type = p.type /\ q.client = p.client /\ q.failed = p.failed
  BY <1>5 DEF Plan
<1> QED BY <1>6, <1>7 DEF e

\* The lowest layer that stays
LeftFrom(n, high, first) ==
  /\ first \in Int /\ n <= first /\ first \notin high
  /\ \A j \in Int : n <= j /\ j < first => j \in high

\* The first layer from n on that is not of high priority
LEMMA LowestLeft ==
  ASSUME NEW n \in Int, -1 <= n, n <= Top, NEW high \in SUBSET Layer,
         NEW first, first = Lowest((n .. Top + 1) \ high)
  PROVE  LeftFrom(n, high, first)
<1> DEFINE S == (n .. Top + 1) \ high
<1>1. \E i \in S : \A j \in S : i <= j
  <2> DEFINE T == {j + 1 : j \in S}
  <2>1. T \in SUBSET Nat /\ Top + 2 \in T
    BY TopIsNat DEF Layer
  <2>2. \A j \in S : j + 1 \in T
    OBVIOUS
  <2>3. \A k \in T : k - 1 \in S
    OBVIOUS
  <2> HIDE DEF T
  <2>4. PICK k \in T : \A j \in T : k <= j
    BY <2>1, LeastExists
  <2>5. \A j \in S : k - 1 <= j
    BY <2>1, <2>2, <2>4
  <2> QED BY <2>3, <2>4, <2>5
<1>2. first \in S /\ \A j \in S : first <= j
  <2>1. first = CHOOSE i \in S : \A j \in S : i <= j
    BY DEF Lowest
  <2> HIDE DEF S
  <2> QED BY <1>1, <2>1
<1>3. first \in Int /\ n <= first /\ first <= Top + 1 /\ first \notin high
  BY <1>2, TopIsNat
<1>4. \A j \in Int : n <= j /\ j < first => j \in high
  BY <1>2, <1>3, TopIsNat
<1> QED BY <1>3, <1>4 DEF LeftFrom

\* Trimmed() leaves a range of layers of the blender, or none.
TrimmedWell(p, r, high) ==
  /\ r.type = p.type /\ r.m2m = p.m2m /\ r.client = p.client /\ r.failed = p.failed
  /\ Ranged(r)
  /\ ~Pierced(r, high) => Solid(r)

\* What is left of the range without the high layers at its ends
LEMMA TrimmedIs ==
  ASSUME NEW p \in Plan, BlocksOK(p), NEW high \in SUBSET Layer,
         Trimmable(p, high), Composed(p),
         NEW q, q = Trimmed(p, high),
         NEW r, r = IF IsRange(q.exynos) THEN q ELSE NoExynos(q)
  PROVE  /\ r \in Plan /\ BlocksOK(r) /\ TrimmedWell(p, r, high)
         /\ q \in Plan /\ BlocksOK(q)
<1> DEFINE e == p.exynos
           first == Lowest((e.first .. Top + 1) \ high)
           last == IF first <= e.last /\ e.last \in high THEN e.last - 1 ELSE e.last
<1>1. /\ e \in Composition /\ e.has \in BOOLEAN /\ e.first \in Int /\ e.last \in Int
  BY PlanFields
<1>2. IF e.has THEN IsRange(e) ELSE e = Nothing
  BY DEF Trimmable
<1>3. -1 <= e.first /\ e.first <= Top
  BY <1>1, <1>2, TopIsNat DEF IsRange, Nothing
<1>4. first = Lowest((e.first .. Top + 1) \ high)
  OBVIOUS
<1> HIDE DEF first
<1>5. /\ first \in Int /\ e.first <= first /\ first \notin high
      /\ \A j \in Int : e.first <= j /\ j < first => j \in high
  <2>1. LeftFrom(e.first, high, first)
    BY <1>1, <1>3, <1>4, LowestLeft
  <2> QED BY <2>1 DEF LeftFrom
<1>6. /\ q \in Plan /\ BlocksOK(q) /\ SameBlocks(p, q)
      /\ q.exynos = TrimmedTo(e, high, first)
      /\ q.type = p.type /\ q.client = p.client /\ q.failed = p.failed
  BY <1>5, <1>4, TrimmedSame
<1>7. q.exynos.has = e.has /\ q.exynos.first = first /\ q.exynos.last = last
  BY <1>1, <1>6 DEF TrimmedTo, Composition
<1>8. last \in Int
  BY <1>1
<1>9. q.m2m = p.m2m
  BY <1>6 DEF SameBlocks
\* A layer of the blender stays within the range.
<1>10. ASSUME NEW j \in Layer, p.type[j] = "exynos"
       PROVE  e.has /\ IsRange(q.exynos) /\ Within(j, q.exynos)
  <2>1. Within(j, e) /\ e.has /\ IsRange(e)
    BY <1>2, <1>10 DEF Trimmable, Within
  <2>2. ~High(j)
    BY <1>10 DEF Composed
  <2>3. j \notin high
    BY <2>1, <2>2 DEF Trimmable
  <2>4. j \in Int /\ 0 <= j /\ j <= Top /\ e.first <= j /\ j <= e.last /\ 0 <= e.first /\ e.last <= Top
    BY <2>1, TopIsNat DEF Layer, Within, IsRange
  <2>5. first <= j
    BY <1>5, <2>3, <2>4
  <2>6. j <= last
    BY <1>1, <2>3, <2>4
  <2>7. 0 <= first /\ last <= Top
    BY <1>1, <1>5, <2>4, TopIsNat
  <2>8. first <= last
    BY <1>5, <1>8, <2>4, <2>5, <2>6
  <2> QED BY <1>7, <2>1, <2>5, <2>6, <2>7, <2>8 DEF IsRange, Within
<1>11. CASE ~IsRange(q.exynos)
  <2>1. r = NoExynos(q)
    BY <1>11
  <2>2. /\ r \in Plan /\ BlocksOK(r) /\ r.type = q.type /\ r.m2m = q.m2m
        /\ r.client = q.client /\ r.exynos = Nothing /\ r.failed = q.failed
    BY <1>6, <2>1, NoExynosIs
  <2>3. \A j \in Layer : r.type[j] # "exynos"
    BY <1>6, <1>10, <1>11, <2>2
  <2>4. Ranged(r) /\ Solid(r)
    BY <2>2, <2>3 DEF Ranged, Solid, Nothing
  <2> QED BY <1>6, <1>9, <2>2, <2>4 DEF TrimmedWell
<1>12. CASE IsRange(q.exynos)
  <2>1. r = q
    BY <1>12
  <2>2. e.has
    <3>1. CASE ~e.has
      <4>1. e.last = -1 /\ e.first = -1
        BY <1>2, <3>1 DEF Nothing
      <4> QED BY <1>5, <1>7, <1>8, <1>12, <4>1 DEF IsRange
    <3> QED BY <3>1
  <2>3. IsRange(e)
    BY <1>2, <2>2
  <2>4. 0 <= first /\ first <= last /\ last <= Top
    BY <1>7, <1>12 DEF IsRange
  <2>5. Ranged(r)
    BY <1>6, <1>7, <1>10, <1>12, <2>1, <2>2 DEF Ranged
  <2>6. ASSUME ~Pierced(r, high)
        PROVE  Solid(r)
    <3>1. \A j \in Layer : first <= j /\ j < last => j \notin high
      BY <1>5, <1>7, <2>1, <2>6 DEF Pierced, Layer
    <3>2. \A j \in Layer : first <= j /\ j <= last => Within(j, e)
      BY <1>1, <1>5, <1>8, <2>2 DEF Within, Layer
    <3>3. \A j \in Layer : first <= j /\ j < last => p.type[j] = "exynos"
      BY <3>1, <3>2, <1>8 DEF Trimmable, Layer
    <3>4. last \in Layer
      BY <1>5, <1>8, <2>4, TopIsNat DEF Layer
    <3>5. CASE ~High(last)
      <4>1. p.type[last] = "exynos"
        BY <1>8, <2>4, <3>2, <3>4, <3>5 DEF Trimmable
      <4> QED BY <1>6, <1>7, <2>1, <3>3, <4>1 DEF Solid
    <3>6. CASE High(last)
      <4>1. last \in high
        BY <1>8, <2>4, <3>2, <3>4, <3>6 DEF Trimmable
      <4>2. first < last
        BY <1>5, <1>8, <2>4, <4>1
      <4>3. e.last \in high /\ last = e.last - 1
        BY <1>1, <1>5, <4>1, <4>2
      <4>4. e.last \in Layer /\ Within(e.last, e)
        BY <1>1, <2>2, <2>3, <4>3 DEF Within, IsRange
      <4>5. High(e.last)
        BY <4>3, <4>4 DEF Trimmable
      <4>6. last - 1 \in Layer /\ first <= last - 1 /\ last - 1 < last
        BY <1>5, <1>8, <2>4, <4>2, TopIsNat DEF Layer
      <4>7. p.type[last - 1] = "exynos"
        BY <3>3, <4>6
      <4>8. p.client.has /\ p.client.first = e.last + 1 /\ e.last < p.client.last
        <5>1. p.type[e.last] # "exynos"
          <6>1. ASSUME p.type[e.last] = "exynos"
                PROVE  FALSE
            BY <1>1, <1>7, <1>10, <4>3, <4>4, <6>1 DEF Within
          <6> QED BY <6>1
        <5>2. p.type[last] # "exynos"
          BY <3>4, <3>6 DEF Composed
        <5> QED BY <2>2, <4>3, <5>1, <5>2 DEF Trimmable
      <4>9. AtEnd(r)
        <5>1. p.client.first \in Int /\ p.client.last \in Int
          BY PlanFields
        <5>2. last < Top /\ last + 1 = e.last
          BY <1>1, <2>3, <4>3, TopIsNat DEF IsRange
        <5> QED
          BY <1>1, <1>6, <1>7, <1>8, <2>1, <3>6, <4>2, <4>3, <4>5, <4>7, <4>8, <5>1, <5>2 DEF AtEnd
      <4> QED BY <1>6, <1>7, <2>1, <3>3, <4>9 DEF Solid
    <3> QED BY <3>5, <3>6
  <2> QED BY <1>6, <1>9, <2>1, <2>5, <2>6 DEF TrimmedWell
<1> QED BY <1>6, <1>11, <1>12

\* The range of the client lies inside that of the blender.
IsNested(p) ==
  /\ p.client.has
  /\ p.exynos.first < p.client.first /\ p.client.first < p.exynos.last
  /\ p.exynos.first < p.client.last /\ p.client.last < p.exynos.last

\* What the loop leaves in the range of the blender
Swept(p, high) ==
  p.exynos.has =>
    /\ p.type[p.exynos.first] = "exynos"
    /\ p.type[p.exynos.last] = "exynos" \/ AtEnd(p)
    /\ \A i \in Layer : Within(i, p.exynos) =>
         (High(i) <=> i \in high) /\ (~High(i) => p.type[i] \in {"exynos", "client"})

\* A range that was looked through can be trimmed.
LEMMA SweptTrimmable ==
  ASSUME NEW p \in Plan, Ranged(p), NEW high, Swept(p, high),
         \A i \in Layer : Within(i, p.exynos) /\ ~High(i) => p.type[i] # "client"
  PROVE  Trimmable(p, high)
<1>1. p.exynos.has => p.type[p.exynos.last] = "exynos" \/ AtEnd(p)
  BY DEF Swept
<1>2. AtEnd(p) => p.exynos.first < p.exynos.last /\ p.type[p.exynos.last - 1] = "exynos"
  BY DEF AtEnd
<1>3. \A i \in Layer : Within(i, p.exynos) =>
        (High(i) <=> i \in high) /\ (~High(i) => p.type[i] = "exynos")
  BY DEF Swept, Within
<1>4. IF p.exynos.has THEN IsRange(p.exynos) ELSE p.exynos = Nothing
  BY DEF Ranged
<1>5. \A i \in Layer : p.type[i] = "exynos" => Within(i, p.exynos)
  BY DEF Ranged
<1> QED BY <1>1, <1>2, <1>3, <1>4, <1>5 DEF Trimmable

\* A layer of the client in the range of the blender: its range is nested.
LEMMA NotNested ==
  ASSUME NEW p \in Plan, Sound(p), Composed(p), Ranged(p), NEW high, Swept(p, high),
         ~IsNested(p)
  PROVE  Trimmable(p, high)
<1> DEFINE e == p.exynos
           c == p.client
<1>1. SUFFICES ASSUME NEW j \in Layer, Within(j, e), ~High(j), p.type[j] = "client"
               PROVE  FALSE
  BY SweptTrimmable
<1>2. /\ e.has /\ e.first <= j /\ j <= e.last /\ IsRange(e)
      /\ e.first \in Int /\ e.last \in Int /\ j \in Int
  BY <1>1, PlanFields DEF Within, Ranged, Layer
<1>3. c.has /\ c.first <= j /\ j <= c.last /\ c.first \in Int /\ c.last \in Int /\ IsRange(c)
  BY <1>1, PlanFields DEF Composed, Within, Sound, Valid
<1>4. e.first \in Layer /\ e.last \in Layer
  BY <1>2, TopIsNat DEF IsRange, Layer
<1>5. p.type[e.first] = "exynos" /\ (p.type[e.last] = "exynos" \/ AtEnd(p))
  BY <1>2 DEF Swept
<1>6. e.first < c.first
  <2>1. ~Within(e.first, c)
    BY <1>4, <1>5 DEF Sound
  <2> QED BY <1>2, <1>3, <2>1 DEF Within
<1>7. CASE p.type[e.last] = "exynos"
  <2>1. ~Within(e.last, c)
    BY <1>4, <1>7 DEF Sound
  <2>2. c.last < e.last
    BY <1>2, <1>3, <2>1 DEF Within
  <2> QED BY <1>2, <1>3, <1>6, <2>2 DEF IsNested, IsRange
<1>8. CASE AtEnd(p)
  <2>1. e.last <= c.first /\ High(e.last)
    BY <1>8 DEF AtEnd
  <2>2. j = e.last
    BY <1>2, <1>3, <2>1
  <2> QED BY <1>1, <2>1, <2>2
<1> QED BY <1>5, <1>7, <1>8

\* One side of the range goes to the client: layers of the blender stay where
\* the range of the client does not reach.
LEMMA OneSide ==
  ASSUME NEW p \in Plan, Sound(p), Composed(p), Ranged(p), NEW high, Swept(p, high),
         IsNested(p), p.exynos.has,
         NEW end \in {p.exynos.first, p.exynos.last},
         NEW q \in Plan, ClientTook(p, q, end)
  PROVE  /\ p.type[p.exynos.last] = "exynos"
         /\ p.exynos.first \in Layer /\ p.exynos.last \in Layer
         /\ \A j \in Layer : q.type[j] = "exynos" =>
              /\ p.type[j] = "exynos" /\ Within(j, p.exynos)
              /\ j < q.client.first \/ q.client.last < j
         /\ \A j \in Layer : /\ Within(j, p.exynos) /\ ~High(j)
                             /\ j < q.client.first \/ q.client.last < j
                             => q.type[j] = "exynos"
         /\ q.client.has
         /\ end = p.exynos.first => q.client.first = end /\ q.client.last = p.client.last
         /\ end = p.exynos.last => q.client.first = p.client.first /\ q.client.last = end
<1> DEFINE e == p.exynos
           c == p.client
           d == q.client
<1>1. /\ e.first \in Int /\ e.last \in Int /\ c.first \in Int /\ c.last \in Int
      /\ d.first \in Int /\ d.last \in Int
  BY PlanFields
<1>2. e.first \in Layer /\ e.last \in Layer /\ e.first <= e.last
  BY <1>1, TopIsNat DEF Ranged, IsRange, Layer
<1>3. /\ c.has /\ e.first < c.first /\ c.first < e.last
      /\ e.first < c.last /\ c.last < e.last
  BY DEF IsNested
<1>4. p.type[e.last] = "exynos"
  BY <1>1, <1>3 DEF Swept, AtEnd
<1>5. /\ \A j \in Layer :
           q.type[j] = IF j = end \/ Joins(d, j) THEN "client" ELSE p.type[j]
      /\ d.has /\ IsRange(d) /\ Within(end, d)
      /\ d.first <= c.first /\ c.last <= d.last
      /\ d.first = end \/ d.first = c.first
      /\ d.last = end \/ d.last = c.last
  BY <1>3 DEF ClientTook, ClientGrown
<1>6. end \in Int /\ d.first <= end /\ end <= d.last
  BY <1>1, <1>5 DEF Within
<1>7. c.first <= c.last
  BY <1>3 DEF Sound, Valid, IsRange
<1>8. /\ end = e.first => d.first = end /\ d.last = c.last
      /\ end = e.last => d.first = c.first /\ d.last = end
  BY <1>1, <1>3, <1>5, <1>6, <1>7
<1>9. ASSUME NEW j \in Layer, q.type[j] = "exynos"
      PROVE  /\ p.type[j] = "exynos" /\ Within(j, e)
             /\ j < d.first \/ d.last < j
  <2>1. p.type[j] = "exynos" /\ j # end /\ ~Joins(d, j)
    BY <1>5, <1>9
  <2>2. Within(j, e)
    BY <2>1 DEF Ranged
  <2>3. ~ShowsThrough(j)
    BY <2>1 DEF Composed, ShowsThrough
  <2>4. ~Within(j, c)
    BY <2>1 DEF Sound
  <2>5. j \in Int
    BY DEF Layer
  <2>6. ~(d.first < j /\ j < d.last)
    BY <2>1, <2>3 DEF Joins
  <2>7. ~(c.first <= j /\ j <= c.last)
    BY <1>3, <2>4 DEF Within
  <2>8. j # d.first /\ j # d.last
    BY <1>1, <1>5, <1>7, <2>1, <2>5, <2>7
  <2> QED BY <1>1, <2>1, <2>2, <2>5, <2>6, <2>8
<1>10. ASSUME NEW j \in Layer, Within(j, e), ~High(j), j < d.first \/ d.last < j
       PROVE  q.type[j] = "exynos"
  <2>1. p.type[j] = "exynos" \/ p.type[j] = "client"
    BY <1>10 DEF Swept
  <2>2. j \in Int
    BY DEF Layer
  <2>3. p.type[j] # "client"
    <3>1. ~Within(j, c)
      BY <1>1, <1>5, <1>10, <2>2 DEF Within
    <3> QED BY <3>1 DEF Composed
  <2>4. j # end /\ ~Joins(d, j)
    BY <1>1, <1>5, <1>6, <1>10, <2>2 DEF Joins, IsRange
  <2> QED BY <1>5, <2>1, <2>3, <2>4
<1> QED BY <1>2, <1>4, <1>5, <1>8, <1>9, <1>10

\* The range of the blender starts at another layer
LEMMA FirstSet ==
  ASSUME NEW p \in Plan, BlocksOK(p), NEW n \in Int,
         NEW q, q = [p EXCEPT !.exynos.first = n]
  PROVE  /\ q \in Plan /\ BlocksOK(q)
         /\ q.exynos.has = p.exynos.has /\ q.exynos.first = n
         /\ q.exynos.last = p.exynos.last
         /\ q.type = p.type /\ q.client = p.client /\ q.m2m = p.m2m
         /\ q.failed = p.failed
<1> DEFINE e == [p.exynos EXCEPT !.first = n]
<1>1. p.exynos \in Composition
  BY PlanFields
<1>2. /\ e \in Composition
      /\ e.has = p.exynos.has /\ e.first = n /\ e.last = p.exynos.last
  BY <1>1 DEF Composition
<1>3. q = [p EXCEPT !.exynos = e]
  BY DEF Plan
<1> HIDE DEF e
<1>4. q \in Plan /\ BlocksOK(q)
  BY <1>2, <1>3, ExynosSet
<1>5. /\ q.exynos = e /\ q.type = p.type /\ q.client = p.client /\ q.m2m = p.m2m
      /\ q.failed = p.failed
  BY <1>3 DEF Plan
<1> QED BY <1>2, <1>4, <1>5

\* or ends at another one.
LEMMA LastSet ==
  ASSUME NEW p \in Plan, BlocksOK(p), NEW n \in Int,
         NEW q, q = [p EXCEPT !.exynos.last = n]
  PROVE  /\ q \in Plan /\ BlocksOK(q)
         /\ q.exynos.has = p.exynos.has /\ q.exynos.first = p.exynos.first
         /\ q.exynos.last = n
         /\ q.type = p.type /\ q.client = p.client /\ q.m2m = p.m2m
         /\ q.failed = p.failed
<1> DEFINE e == [p.exynos EXCEPT !.last = n]
<1>1. p.exynos \in Composition
  BY PlanFields
<1>2. /\ e \in Composition
      /\ e.has = p.exynos.has /\ e.first = p.exynos.first /\ e.last = n
  BY <1>1 DEF Composition
<1>3. q = [p EXCEPT !.exynos = e]
  BY DEF Plan
<1> HIDE DEF e
<1>4. q \in Plan /\ BlocksOK(q)
  BY <1>2, <1>3, ExynosSet
<1>5. /\ q.exynos = e /\ q.type = p.type /\ q.client = p.client /\ q.m2m = p.m2m
      /\ q.failed = p.failed
  BY <1>3 DEF Plan
<1> QED BY <1>2, <1>4, <1>5

\* When the blender loses some of the layers between, its range ends with what
\* is left of it.
LEMMA SideCut ==
  ASSUME NEW p \in Plan, Sound(p), Composed(p), Ranged(p), NEW high, Swept(p, high),
         IsNested(p), p.exynos.has,
         NEW end \in {p.exynos.first, p.exynos.last},
         NEW q \in Plan, ClientTook(p, q, end),
         q.exynos.has, IsRange(q.exynos),
         q.type[q.exynos.first] = "exynos", q.type[q.exynos.last] = "exynos",
         \A j \in Layer : q.type[j] = "exynos" => Within(j, q.exynos)
  PROVE  Trimmable(q, high)
<1> DEFINE e == p.exynos
           f == q.exynos
           d == q.client
<1>1. /\ e.first \in Int /\ e.last \in Int /\ d.first \in Int /\ d.last \in Int
      /\ f.first \in Int /\ f.last \in Int
  BY PlanFields
<1>2. /\ e.first \in Layer /\ e.last \in Layer
      /\ \A j \in Layer : q.type[j] = "exynos" =>
           Within(j, e) /\ (j < d.first \/ d.last < j)
      /\ \A j \in Layer : Within(j, e) /\ ~High(j) /\ (j < d.first \/ d.last < j)
                          => q.type[j] = "exynos"
      /\ end = e.first => d.first = end
      /\ end = e.last => d.last = end
  BY OneSide
<1>3. f.first \in Layer /\ f.last \in Layer
  BY <1>1, TopIsNat DEF IsRange, Layer
<1>4. Within(f.first, e) /\ Within(f.last, e)
  BY <1>2, <1>3
<1>5. /\ f.first < d.first \/ d.last < f.first
      /\ f.last < d.first \/ d.last < f.last
      /\ e.first <= f.first /\ f.last <= e.last
  BY <1>2, <1>3, <1>4 DEF Within
<1>6. f.last < d.first \/ d.last < f.first
  BY <1>1, <1>2, <1>5
<1>7. ASSUME NEW j \in Layer, Within(j, f)
      PROVE  (High(j) <=> j \in high) /\ (~High(j) => q.type[j] = "exynos")
  <2>1. j \in Int /\ f.first <= j /\ j <= f.last
    BY <1>7 DEF Within, Layer
  <2>2. Within(j, e)
    BY <1>1, <1>5, <2>1 DEF Within
  <2>3. j < d.first \/ d.last < j
    BY <1>1, <1>6, <2>1
  <2>4. High(j) <=> j \in high
    BY <2>2 DEF Swept
  <2> QED BY <1>2, <2>2, <2>3, <2>4
<1> QED BY <1>7 DEF Trimmable

\* When it loses only the side, its range ends where that of the client does.
LEMMA LowerCut ==
  ASSUME NEW p \in Plan, Sound(p), Composed(p), Ranged(p), NEW high, Swept(p, high),
         IsNested(p), p.exynos.has,
         NEW end, end = p.exynos.first,
         NEW q \in Plan, ClientTook(p, q, end), q.exynos = p.exynos,
         NEW u \in Plan, u.type = q.type,
         u.exynos.has = q.exynos.has, u.exynos.first = q.client.last + 1,
         u.exynos.last = q.exynos.last
  PROVE  Trimmable(u, high)
<1> DEFINE e == p.exynos
           d == q.client
           f == u.exynos
<1>1. /\ e.first \in Int /\ e.last \in Int /\ d.first \in Int /\ d.last \in Int
      /\ p.client.last \in Int
  BY PlanFields
<1>2. end \in {e.first, e.last}
  OBVIOUS
<1>3. /\ e.first \in Layer /\ e.last \in Layer /\ p.type[e.last] = "exynos"
      /\ \A j \in Layer : q.type[j] = "exynos" =>
           Within(j, e) /\ (j < d.first \/ d.last < j)
      /\ \A j \in Layer : Within(j, e) /\ ~High(j) /\ (j < d.first \/ d.last < j)
                          => q.type[j] = "exynos"
      /\ d.first = e.first /\ d.last = p.client.last
  BY <1>2, OneSide
<1>4. e.first < d.last /\ d.last < e.last
  BY <1>3 DEF IsNested
<1>5. f.has /\ IsRange(f)
  BY <1>1, <1>3, <1>4, TopIsNat DEF IsRange, Layer
<1>6. \A j \in Layer : u.type[j] = "exynos" => Within(j, f)
  BY <1>1, <1>3, <1>4 DEF Within, Layer
<1>7. \A j \in Layer : Within(j, f) => Within(j, e) /\ d.last < j
  BY <1>1, <1>3, <1>4 DEF Within, Layer
<1>8. \A j \in Layer : Within(j, f) =>
        (High(j) <=> j \in high) /\ (~High(j) => u.type[j] = "exynos")
  BY <1>3, <1>7 DEF Swept
<1>9. u.type[f.last] = "exynos"
  <2>1. ~High(e.last) /\ Within(e.last, e)
    BY <1>3 DEF Composed, Ranged
  <2> QED BY <1>3, <1>4, <2>1
<1> QED BY <1>5, <1>6, <1>8, <1>9 DEF Trimmable

\* The layers of the blender above the client go there,
\* its range ends below the client.
LEMMA UpperCut ==
  ASSUME NEW p \in Plan, Sound(p), Composed(p), Ranged(p), NEW high, Swept(p, high),
         IsNested(p), p.exynos.has,
         NEW end, end = p.exynos.last,
         NEW q \in Plan, ClientTook(p, q, end), q.exynos = p.exynos,
         NEW u \in Plan, u.type = q.type, u.client = q.client,
         u.exynos.has = q.exynos.has, u.exynos.last = q.client.first - 1,
         u.exynos.first = q.exynos.first
  PROVE  Trimmable(u, high)
<1> DEFINE e == p.exynos
           d == q.client
           f == u.exynos
<1>1. /\ e.first \in Int /\ e.last \in Int /\ d.first \in Int /\ d.last \in Int
      /\ p.client.first \in Int
  BY PlanFields
<1>2. end \in {e.first, e.last}
  OBVIOUS
<1>3. /\ e.first \in Layer /\ e.last \in Layer
      /\ \A j \in Layer : q.type[j] = "exynos" =>
           Within(j, e) /\ (j < d.first \/ d.last < j)
      /\ \A j \in Layer : Within(j, e) /\ ~High(j) /\ (j < d.first \/ d.last < j)
                          => q.type[j] = "exynos"
      /\ d.has /\ d.last = e.last /\ d.first = p.client.first
  BY <1>2, OneSide
<1>4. e.first < d.first /\ d.first < e.last
  BY <1>3 DEF IsNested
<1>5. f.has /\ IsRange(f)
  BY <1>1, <1>3, <1>4, TopIsNat DEF IsRange, Layer
<1>6. \A j \in Layer : u.type[j] = "exynos" => Within(j, f)
  BY <1>1, <1>3, <1>4 DEF Within, Layer
<1>7. \A j \in Layer : Within(j, f) => Within(j, e) /\ j < d.first
  BY <1>1, <1>3, <1>4 DEF Within, Layer
<1>8. \A j \in Layer : Within(j, f) =>
        (High(j) <=> j \in high) /\ (~High(j) => u.type[j] = "exynos")
  BY <1>3, <1>7 DEF Swept
<1>9. u.client.has /\ u.client.first = f.last + 1 /\ f.last < u.client.last
  BY <1>1, <1>3, <1>4
<1> QED BY <1>5, <1>6, <1>8, <1>9 DEF Trimmable

\* Unnested() leaves a range that can be trimmed.
UnnestedWell(p, u, high) ==
  /\ Sound(u) /\ Composed(u) /\ (Scaled(p) => Scaled(u))
  /\ \A j \in Layer : u.m2m[j] \in {p.m2m[j], NoBlock}
  /\ ~u.failed => Trimmable(u, high)

\* One side of a range around the client's goes to the client.
LEMMA NestedIs ==
  ASSUME NEW p \in Plan, BlocksOK(p), Sound(p), Composed(p), Ranged(p),
         NEW high, Swept(p, high), IsNested(p),
         NEW lower \in BOOLEAN,
         NEW end, end = IF lower THEN p.exynos.first ELSE p.exynos.last,
         NEW q, q = ToClient(p, end),
         NEW u, u = IF OfType(p, "exynos") \ {end} # OfType(q, "exynos") THEN q
                    ELSE IF lower THEN [q EXCEPT !.exynos.first = q.client.last + 1]
                    ELSE [q EXCEPT !.exynos.last = q.client.first - 1]
  PROVE  u \in Plan /\ BlocksOK(u) /\ UnnestedWell(p, u, high)
<1> DEFINE e == p.exynos
           d == q.client
<1>1. e.has
  BY PlanFields DEF Ranged, IsNested, Nothing
<1>2. end \in {e.first, e.last} /\ (lower => end = e.first) /\ (~lower => end = e.last)
  OBVIOUS
<1>3. end \in Layer
  BY <1>1, <1>2, TopIsNat, PlanFields DEF Ranged, IsRange, Layer
<1>4. /\ q \in Plan /\ BlocksOK(q) /\ ClientTook(p, q, end)
      /\ Sound(q) /\ Composed(q) /\ (Scaled(p) => Scaled(q))
  BY <1>3, ToClientTakes
<1>5. \A j \in Layer : q.m2m[j] \in {p.m2m[j], NoBlock}
  BY <1>4 DEF ClientTook
<1>6. e.first \in Int /\ e.last \in Int /\ d.first \in Int /\ d.last \in Int
  BY <1>4, PlanFields
<1>7. /\ e.first \in Layer /\ e.last \in Layer /\ p.type[e.last] = "exynos"
      /\ \A j \in Layer : Within(j, e) /\ ~High(j) /\ (j < d.first \/ d.last < j)
                          => q.type[j] = "exynos"
      /\ end = e.first => d.first = end /\ d.last = p.client.last
      /\ end = e.last => d.first = p.client.first /\ d.last = end
  BY <1>1, <1>2, <1>4, OneSide
\* The other end is still a layer of the blender.
<1>8. \E j \in Layer : q.type[j] = "exynos"
  <2>1. p.type[e.first] = "exynos"
    BY <1>1 DEF Swept
  <2>2. /\ ~High(e.first) /\ ~High(e.last) /\ Within(e.first, e) /\ Within(e.last, e)
    BY <1>7, <2>1 DEF Composed, Ranged
  <2>3. end = e.first => d.last < e.last
    BY <1>7 DEF IsNested
  <2>4. end = e.last => e.first < d.first
    BY <1>7 DEF IsNested
  <2> QED BY <1>2, <1>7, <2>2, <2>3, <2>4
<1>9. u = q \/ u = [q EXCEPT !.exynos.first = d.last + 1]
            \/ u = [q EXCEPT !.exynos.last = d.first - 1]
  BY Zenon
<1>10. /\ u \in Plan /\ BlocksOK(u) /\ u.type = q.type /\ u.m2m = q.m2m
       /\ u.client = q.client /\ u.failed = q.failed
  <2>1. CASE u = q
    BY <1>4, <2>1
  <2>2. CASE u = [q EXCEPT !.exynos.first = d.last + 1]
    <3>1. PICK n \in Int : n = d.last + 1
      BY <1>6
    <3>2. u = [q EXCEPT !.exynos.first = n]
      BY <2>2, <3>1
    <3> QED BY <1>4, <3>2, FirstSet
  <2>3. CASE u = [q EXCEPT !.exynos.last = d.first - 1]
    <3>1. PICK n \in Int : n = d.first - 1
      BY <1>6
    <3>2. u = [q EXCEPT !.exynos.last = n]
      BY <2>3, <3>1
    <3> QED BY <1>4, <3>2, LastSet
  <2> QED BY <1>9, <2>1, <2>2, <2>3
<1>11. Sound(u) /\ Composed(u) /\ (Scaled(p) => Scaled(u))
  <2>1. Sound(u)
    BY <1>4, <1>10 DEF Sound
  <2>2. Composed(u)
    BY <1>4, <1>10 DEF Composed
  <2>3. Scaled(q) => Scaled(u)
    BY <1>10 DEF Scaled
  <2> QED BY <1>4, <2>1, <2>2, <2>3
<1>12. ASSUME ~q.failed
       PROVE  Trimmable(u, high)
  <2>1. BlenderRest(p, q, end)
    BY <1>4 DEF ClientTook
  <2>2. \A j \in Layer : q.type[j] = IF j = end \/ Joins(d, j) THEN "client" ELSE p.type[j]
    BY <1>4 DEF ClientTook
  <2>3. CASE /\ \A j \in Layer : j # end /\ p.type[j] = "exynos" => ~Joins(d, j)
             /\ q.exynos = e
    <3>1. OfType(p, "exynos") \ {end} = OfType(q, "exynos")
      BY <2>2, <2>3 DEF OfType
    <3>2. CASE lower
      <4>1. u = [q EXCEPT !.exynos.first = d.last + 1] /\ end = e.first
        BY <3>1, <3>2
      <4>2. PICK n \in Int : n = d.last + 1
        BY <1>6
      <4>3. u = [q EXCEPT !.exynos.first = n]
        BY <4>1, <4>2
      <4>4. /\ u.exynos.has = q.exynos.has /\ u.exynos.first = n
            /\ u.exynos.last = q.exynos.last
        <5>1. u.exynos = [q.exynos EXCEPT !.first = n]
          BY <1>4, <4>3 DEF Plan
        <5>2. q.exynos \in Composition
          BY <1>4, PlanFields
        <5> QED BY <5>1, <5>2 DEF Composition
      <4> QED BY <1>1, <1>4, <1>10, <2>3, <4>1, <4>2, <4>4, LowerCut
    <3>3. CASE ~lower
      <4>1. u = [q EXCEPT !.exynos.last = d.first - 1] /\ end = e.last
        BY <3>1, <3>3
      <4>2. PICK n \in Int : n = d.first - 1
        BY <1>6
      <4>3. u = [q EXCEPT !.exynos.last = n]
        BY <4>1, <4>2
      <4>4. /\ u.exynos.has = q.exynos.has /\ u.exynos.last = n
            /\ u.exynos.first = q.exynos.first
        <5>1. u.exynos = [q.exynos EXCEPT !.last = n]
          BY <1>4, <4>3 DEF Plan
        <5>2. q.exynos \in Composition
          BY <1>4, PlanFields
        <5> QED BY <5>1, <5>2 DEF Composition
      <4> QED BY <1>1, <1>4, <1>10, <2>3, <4>1, <4>2, <4>4, UpperCut
    <3> QED BY <3>2, <3>3
  <2>4. CASE /\ q.exynos.has
             /\ \E j \in Layer : j # end /\ Joins(d, j) /\ p.type[j] = "exynos"
             /\ IsRange(q.exynos)
             /\ q.type[q.exynos.first] = "exynos" /\ q.type[q.exynos.last] = "exynos"
             /\ \A j \in Layer : q.type[j] = "exynos" => Within(j, q.exynos)
    <3>1. PICK j \in Layer : j # end /\ Joins(d, j) /\ p.type[j] = "exynos"
      BY <2>4
    <3>2. j \in OfType(p, "exynos") \ {end} /\ j \notin OfType(q, "exynos")
      BY <2>2, <3>1 DEF OfType
    <3>3. u = q
      BY <3>2
    <3>4. Trimmable(q, high)
      BY <1>1, <1>2, <1>4, <2>4, SideCut
    <3> QED BY <3>3, <3>4
  <2> QED BY <1>8, <1>12, <2>1, <2>3, <2>4 DEF BlenderRest
<1> QED BY <1>5, <1>10, <1>11, <1>12 DEF UnnestedWell

\* handleNestedClientCompositionLayer() leaves a range that can be trimmed.
LEMMA UnnestedIs ==
  ASSUME NEW p \in Plan, BlocksOK(p), Sound(p), Composed(p), Ranged(p),
         NEW high, Swept(p, high),
         NEW u, u = Unnested(p)
  PROVE  u \in Plan /\ BlocksOK(u) /\ UnnestedWell(p, u, high)
<1>1. CASE ~IsNested(p)
  <2>1. u = p
    BY <1>1 DEF Unnested, IsNested
  <2>2. Trimmable(p, high)
    BY <1>1, NotNested
  <2> QED BY <2>1, <2>2 DEF UnnestedWell
<1>2. CASE IsNested(p)
  <2> DEFINE lower == p.client.first - p.exynos.first < p.exynos.last - p.client.last
             end == IF lower THEN p.exynos.first ELSE p.exynos.last
             q == ToClient(p, end)
  <2>1. u = IF OfType(p, "exynos") \ {end} # OfType(q, "exynos") THEN q
            ELSE IF lower THEN [q EXCEPT !.exynos.first = q.client.last + 1]
            ELSE [q EXCEPT !.exynos.last = q.client.first - 1]
    BY <1>2, Zenon DEF Unnested, IsNested
  <2>2. lower \in BOOLEAN
    OBVIOUS
  <2>3. end = IF lower THEN p.exynos.first ELSE p.exynos.last
    OBVIOUS
  <2>4. q = ToClient(p, end)
    OBVIOUS
  <2> HIDE DEF lower, end, q
  <2> QED BY <1>2, <2>1, <2>2, <2>3, <2>4, NestedIs
<1> QED BY <1>1, <1>2

\* The layers of the blender are about to go to the client.
LEMMA GiveUpGood ==
  ASSUME step \in Step,
         NEW p \in Plan, BlocksOK(p), NEW reason \in {"pierced", "untargeted"},
         GiveUp(p, reason),
         ~p.failed, Sound(p), Composed(p), Ranged(p), Scaled(p)
  PROVE  Good(plan', step')
<1>1. /\ plan' = p
      /\ step' = [step EXCEPT !.at = reason, !.layer = p.exynos.first, !.from = p.exynos.last]
  BY DEF GiveUp
<1>2. p.exynos.first \in Int /\ p.exynos.last \in Int
  BY PlanFields
<1>3. step' \in Step
  BY <1>1, <1>2 DEF Step
<1>4. /\ step'.at = reason /\ step'.layer = p.exynos.first /\ step'.from = p.exynos.last
  BY <1>1 DEF Step
<1>5. GivingUp(p, step')
  BY <1>4 DEF GivingUp, Ranged, Within
<1>6. Stage(p, step')
  BY <1>4, <1>5 DEF Stage, Live, Whole
<1> QED BY <1>1, <1>3, <1>6 DEF Good

\* The layers of high priority that the loop has met, and the others
LEMMA SweptIs ==
  ASSUME Assignable, At("sandwich"), Sandwiched = {},
         NEW high, high = {i \in Layer : /\ High(i) /\ step.from <= i
                                         /\ (i <= step.seen \/ i <= plan.exynos.last)}
  PROVE  Swept(plan, high) /\ (~step.invalid => Trimmable(plan, high))
<1>1. /\ plan \in Plan /\ step \in Step /\ Ranged(plan) /\ Taken(plan, step)
  BY InSandwich
<1>2. /\ step.from \in Int /\ step.seen \in Int
      /\ plan.exynos.first \in Int /\ plan.exynos.last \in Int
  BY <1>1, StepFields, PlanFields
<1>3. ASSUME NEW i \in Layer, Within(i, plan.exynos)
      PROVE  /\ High(i) <=> i \in high
             /\ ~High(i) => plan.type[i] = "exynos" \/ (step.invalid /\ plan.type[i] = "client")
  <2>1. i \in Int /\ step.from <= i /\ i <= plan.exynos.last
    BY <1>1, <1>2, <1>3 DEF Within, Taken, Layer
  <2>2. High(i) <=> i \in high
    BY <2>1
  <2>3. CASE i <= step.seen
    BY <1>1, <2>1, <2>2, <2>3 DEF Taken
  <2>4. CASE step.seen < i
    BY <2>1, <2>2, <2>4 DEF Sandwiched
  <2> QED BY <1>2, <2>1, <2>3, <2>4
<1>4. Swept(plan, high)
  <2>1. plan.exynos.has => /\ plan.type[plan.exynos.first] = "exynos"
                           /\ plan.type[plan.exynos.last] = "exynos" \/ AtEnd(plan)
    BY <1>1 DEF Taken
  <2> QED BY <1>3, <2>1 DEF Swept
<1>5. ASSUME ~step.invalid
      PROVE  Trimmable(plan, high)
  <2>1. \A i \in Layer : Within(i, plan.exynos) /\ ~High(i) => plan.type[i] # "client"
    BY <1>3, <1>5
  <2> QED BY <1>1, <1>4, <2>1, SweptTrimmable
<1> QED BY <1>4, <1>5

\* The range of the blender has been looked through.
LEMMA EndSandwichGood ==
  ASSUME Assignable, EndSandwich
  PROVE  Good(plan', step')
<1> DEFINE high == {i \in Layer : /\ High(i) /\ step.from <= i
                                  /\ (i <= step.seen \/ i <= plan.exynos.last)}
           p == IF step.invalid THEN Unnested(plan) ELSE plan
           q == Trimmed(p, high)
           r == IF IsRange(q.exynos) THEN q ELSE NoExynos(q)
           s == [step EXCEPT !.at = "layers", !.layer = step.layer + 1]
<1>1. /\ plan \in Plan /\ BlocksOK(plan) /\ step \in Step /\ At("sandwich")
      /\ ~plan.failed /\ Sound(plan) /\ Composed(plan)
      /\ Ranged(plan) /\ Scaled(plan)
      /\ Waited(plan, step.turn, step.layer)
  BY InSandwich DEF EndSandwich
<1>2. Swept(plan, high) /\ (~step.invalid => Trimmable(plan, high))
  BY SweptIs DEF EndSandwich
<1>3. IF p.failed THEN Then(p, "forced", 0)
      ELSE IF Pierced(r, high) THEN GiveUp(r, "pierced")
      ELSE IF \/ step.changed \/ Changes(plan, p) \/ ~IsRange(q.exynos)
           THEN Retry(r)
      ELSE Then(r, "layers", step.layer + 1)
  BY DEF EndSandwich
<1>4. high \in SUBSET Layer
  OBVIOUS
<1>5. /\ p = IF step.invalid THEN Unnested(plan) ELSE plan
      /\ q = Trimmed(p, high)
      /\ r = IF IsRange(q.exynos) THEN q ELSE NoExynos(q)
  OBVIOUS
<1>6. /\ s.at = "layers" /\ s.layer = step.layer + 1 /\ s.turn = step.turn
      /\ "layers" \in Places /\ "forced" \in Places /\ step.layer + 1 \in Int /\ 0 \in Int
      /\ step.layer \in Int /\ step.turn \in Int
  BY <1>1, StepFields DEF Step, Places
<1> HIDE DEF high, p, q, r, s
<1>7. p \in Plan /\ BlocksOK(p) /\ UnnestedWell(plan, p, high)
  <2>1. CASE step.invalid
    <3>1. p = Unnested(plan)
      BY <1>5, <2>1
    <3> QED BY <1>1, <1>2, <3>1, UnnestedIs
  <2>2. CASE ~step.invalid
    <3>1. p = plan
      BY <1>5, <2>2
    <3> QED BY <1>1, <1>2, <2>2, <3>1 DEF UnnestedWell
  <2> QED BY <2>1, <2>2
<1>8. /\ Sound(p) /\ Composed(p) /\ Scaled(p)
      /\ \A j \in Layer : p.m2m[j] \in {plan.m2m[j], NoBlock}
      /\ ~p.failed => Trimmable(p, high)
  BY <1>1, <1>7 DEF UnnestedWell
<1>9. CASE p.failed
  <2>1. Then(p, "forced", 0)
    BY <1>3, <1>9
  <2> QED BY <1>1, <1>6, <1>7, <1>9, <2>1, ThenGood
<1>10. CASE ~p.failed
  <2>1. r \in Plan /\ BlocksOK(r) /\ TrimmedWell(p, r, high)
    BY <1>4, <1>5, <1>7, <1>8, <1>10, TrimmedIs
  <2>2. /\ r.type = p.type /\ r.m2m = p.m2m /\ r.client = p.client /\ ~r.failed
        /\ Ranged(r) /\ (~Pierced(r, high) => Solid(r))
    BY <1>10, <2>1 DEF TrimmedWell
  <2>3. Sound(r) /\ Composed(r) /\ Scaled(r)
    <3>1. Sound(r)
      BY <1>8, <2>2 DEF Sound
    <3>2. Composed(r)
      BY <1>8, <2>2 DEF Composed
    <3>3. Scaled(r)
      BY <1>8, <2>2 DEF Scaled
    <3> QED BY <3>1, <3>2, <3>3
  <2>4. CASE Pierced(r, high)
    <3>1. GiveUp(r, "pierced")
      BY <1>3, <1>10, <2>4
    <3> QED BY <1>1, <2>1, <2>2, <2>3, <3>1, GiveUpGood
  <2>5. CASE ~Pierced(r, high) /\ Retry(r)
    BY <1>1, <2>1, <2>2, <2>3, <2>5, RetryGood
  <2>6. CASE ~Pierced(r, high) /\ Then(r, "layers", step.layer + 1)
    <3>1. Waited(r, s.turn, s.layer)
      <4>1. \A j \in Layer : r.m2m[j] \in {plan.m2m[j], NoBlock}
        BY <1>8, <2>2
      <4> QED BY <1>1, <1>6, <4>1, BlocksApart DEF Waited, Layer
    <3>2. Stage(r, s)
      BY <1>6, <2>2, <2>3, <2>6, <3>1 DEF Stage, Live, Whole
    <3> QED BY <1>1, <1>6, <2>1, <2>6, <3>2, ThenGood DEF s
  <2> QED BY <1>3, <1>10, <2>4, <2>5, <2>6
<1> QED BY <1>9, <1>10

\* Whoever still has to leave the blender is in Leaving.
LEMMA LeavingIs ==
  ASSUME Assignable, step.at \in {"pierced", "untargeted"}
  PROVE  \A j \in Layer : plan.type[j] = "exynos" => j \in Leaving
<1>1. /\ plan \in Plan /\ step \in Step /\ Composed(plan) /\ GivingUp(plan, step)
  BY InGivingUp
<1>2. step.layer \in Int /\ step.from \in Int
  BY <1>1, StepFields
<1> SUFFICES ASSUME NEW j \in Layer, plan.type[j] = "exynos"
             PROVE  j \in Leaving
  OBVIOUS
<1>3. ~High(j) /\ step.layer <= j /\ j <= step.from /\ j \in Int
  BY <1>1 DEF Composed, GivingUp, Layer
<1> QED BY <1>2, <1>3 DEF Leaving

\* One layer of the blender goes to the client.
LEMMA LeaveBlenderGood ==
  ASSUME Assignable, NEW i \in Layer, LeaveBlender(i)
  PROVE  Good(plan', step')
<1> DEFINE p == ToClient(plan, i)
           r == [p EXCEPT !.failed = FALSE]
<1>1. step.at \in {"pierced", "untargeted"} /\ i \in Leaving /\ \A j \in Leaving : i <= j
  BY DEF LeaveBlender
<1>2. /\ plan \in Plan /\ BlocksOK(plan) /\ step \in Step
      /\ ~plan.failed /\ Sound(plan) /\ Composed(plan)
      /\ Scaled(plan) /\ GivingUp(plan, step)
  BY <1>1, InGivingUp
<1>3. /\ step.at = "pierced" => Then(r, "pierced", i + 1)
      /\ step.at # "pierced" => Then(p, "untargeted", i + 1)
  BY DEF LeaveBlender, At
<1>4. p = ToClient(plan, i) /\ r = [p EXCEPT !.failed = FALSE]
  OBVIOUS
<1>5. "pierced" \in Places /\ "untargeted" \in Places /\ i + 1 \in Int /\ i \in Int /\ FALSE \in BOOLEAN
  BY LayerIsInt DEF Places
<1> HIDE DEF p, r
<1>6. /\ p \in Plan /\ BlocksOK(p) /\ ClientTook(plan, p, i)
      /\ Sound(p) /\ Composed(p) /\ Scaled(p)
  BY <1>2, <1>4, ToClientTakes
<1>7. r \in Plan /\ BlocksOK(r)
  BY <1>4, <1>5, <1>6, FailedSet
<1>8. r.type = p.type /\ r.m2m = p.m2m /\ r.client = p.client
  BY <1>4, <1>6 DEF Plan
<1>9. Sound(r) /\ Composed(r) /\ Scaled(r)
  <2>1. Sound(r)
    BY <1>6, <1>8 DEF Sound
  <2>2. Composed(r)
    BY <1>6, <1>8 DEF Composed
  <2>3. Scaled(r)
    BY <1>6, <1>8 DEF Scaled
  <2> QED BY <2>1, <2>2, <2>3
<1>10. \A j \in Layer : p.type[j] = "exynos" => i + 1 <= j /\ j <= step.from
  <2> SUFFICES ASSUME NEW j \in Layer, p.type[j] = "exynos"
               PROVE  i + 1 <= j /\ j <= step.from
    OBVIOUS
  <2>1. plan.type[j] = "exynos" /\ j # i
    BY <1>6 DEF ClientTook
  <2>2. i <= j
    BY <1>1, <2>1, LeavingIs
  <2>3. j <= step.from
    BY <1>2, <2>1 DEF GivingUp
  <2>4. j \in Int
    BY LayerIsInt
  <2> QED BY <1>5, <2>1, <2>2, <2>3, <2>4
<1>11. ASSUME NEW place \in {"pierced", "untargeted"}, NEW q \in Plan, BlocksOK(q),
              q.type = p.type, Sound(q), Composed(q), Scaled(q),
              Then(q, place, i + 1)
       PROVE  Good(plan', step')
  <2> DEFINE s == [step EXCEPT !.at = place, !.layer = i + 1]
  <2>1. s.at = place /\ s.layer = i + 1 /\ s.from = step.from
    BY <1>2 DEF Step
  <2>2. place \in Places
    BY <1>5
  <2> HIDE DEF s
  <2>3. GivingUp(q, s)
    BY <1>10, <1>11, <2>1 DEF GivingUp
  <2>4. ~q.failed => Stage(q, s)
    BY <1>11, <2>1, <2>3 DEF Stage, Live, Whole
  <2> QED BY <1>2, <1>5, <1>11, <2>2, <2>4, ThenGood DEF s
<1>12. CASE step.at = "pierced"
  BY <1>3, <1>7, <1>8, <1>9, <1>11, <1>12
<1>13. CASE step.at # "pierced"
  BY <1>3, <1>6, <1>11, <1>13
<1> QED BY <1>12, <1>13

\* They have all gone, and the pass is repeated.
LEMMA GivenUpGood ==
  ASSUME Assignable, GivenUp
  PROVE  Good(plan', step')
<1> DEFINE q == NoExynos(plan)
<1>1. step.at \in {"pierced", "untargeted"} /\ Leaving = {} /\ Retry(q)
  BY DEF GivenUp
<1>2. /\ plan \in Plan /\ BlocksOK(plan) /\ step \in Step
      /\ Sound(plan) /\ Composed(plan)
  BY <1>1, InGivingUp
<1>3. q = NoExynos(plan)
  OBVIOUS
<1> HIDE DEF q
<1>4. q \in Plan /\ BlocksOK(q)
  BY <1>2, <1>3, NoExynosIs
<1>5. /\ q.type = plan.type /\ q.m2m = plan.m2m /\ q.client = plan.client
      /\ q.exynos = Nothing
  BY <1>2, <1>3 DEF NoExynos, Plan
<1>6. \A j \in Layer : q.type[j] # "exynos"
  BY <1>1, <1>5, LeavingIs
<1>7. Sound(q)
  BY <1>2, <1>5 DEF Sound
<1>8. Composed(q)
  BY <1>2, <1>5 DEF Composed
<1>9. Ranged(q) /\ Solid(q)
  BY <1>5, <1>6 DEF Ranged, Solid, Nothing
<1> QED BY <1>1, <1>2, <1>4, <1>7, <1>8, <1>9, RetryGood

\* The block of the blender's result, or none
LEMMA AssignExynosTargetGood ==
  ASSUME Assignable, AssignExynosTarget
  PROVE  Good(plan', step')
<1> DEFINE lower == [step EXCEPT !.at = "layers", !.layer = 0, !.turn = 2]
<1>1. /\ plan \in Plan /\ BlocksOK(plan) /\ step \in Step /\ kind \in [Layer -> Kind]
      /\ ~plan.failed /\ Sound(plan) /\ Composed(plan)
      /\ Ranged(plan) /\ Solid(plan) /\ Scaled(plan)
      /\ Waited(plan, 3, Top + 1)
  BY AssignableFacts DEF AssignExynosTarget, At, Stage, Live, Whole
<1>2. lower = [step EXCEPT !.at = "layers", !.turn = 2, !.layer = 0]
  BY <1>1 DEF Step
<1>3. "layers" \in Places /\ 0 \in Int /\ 2 \in Turn
  BY DEF Places, Turn
<1>4. lower \in Step
  BY <1>1, <1>3, StepTurned
<1>5. lower.at = "layers" /\ lower.layer = 0 /\ lower.turn = 2
  BY <1>1 DEF Step
<1>6. \/ step' = lower /\ plan' = plan
      \/ \E b \in TargetBlocks(plan) :
           \/ b # Unsupported /\ step' = lower /\ plan' = WithTarget(plan, ExynosTarget, b)
           \/ GiveUp(plan, "untargeted")
  BY <1>2, Zenon DEF AssignExynosTarget
<1> HIDE DEF lower
<1>7. Waited(plan, 2, 0)
  <2>1. \A i \in Layer : Priority[kind[i]] \in Int
    BY <1>1, PriorityIs
  <2> QED BY <1>1, <2>1 DEF Waited
<1>8. ASSUME NEW q \in Plan, BlocksOK(q), SameLayers(plan, q), q.m2m = plan.m2m,
             plan' = q, step' = lower
      PROVE  Good(plan', step')
  <2>1. q.type = plan.type /\ q.client = plan.client /\ q.exynos = plan.exynos /\ ~q.failed
    BY <1>1, <1>8 DEF SameLayers
  <2>2. \A i \in Layer : q.m2m[i] \in {plan.m2m[i], NoBlock}
    BY <1>8
  <2>3. Sound(q) /\ Composed(q) /\ Ranged(q) /\ Solid(q) /\ Scaled(q)
    BY <1>1, <2>1, <2>2, ShapeKept
  <2>4. Waited(q, 2, 0)
    BY <1>7, <1>8 DEF Waited
  <2>5. Stage(q, lower)
    BY <1>5, <2>1, <2>3, <2>4 DEF Stage, Live, Whole
  <2> QED BY <1>4, <1>8, <2>5 DEF Good
<1>9. CASE step' = lower /\ plan' = plan
  BY <1>1, <1>8, <1>9 DEF SameLayers
<1>10. ASSUME NEW b \in TargetBlocks(plan), b # Unsupported, step' = lower,
              plan' = WithTarget(plan, ExynosTarget, b)
       PROVE  Good(plan', step')
  <2> DEFINE q == WithTarget(plan, ExynosTarget, b)
  <2>1. q = WithTarget(plan, ExynosTarget, b) /\ plan' = q
    BY <1>10
  <2>2. ExynosTarget \in {ClientTarget, ExynosTarget}
    OBVIOUS
  <2> HIDE DEF q
  <2>3. q \in Plan /\ BlocksOK(q) /\ SameLayers(plan, q) /\ q.m2m = plan.m2m
    BY <1>1, <1>10, <2>1, <2>2, WithTargetIs
  <2> QED BY <1>8, <1>10, <2>1, <2>3
<1>11. CASE GiveUp(plan, "untargeted")
  <2>1. "untargeted" \in {"pierced", "untargeted"}
    OBVIOUS
  <2> QED BY <1>1, <1>11, <2>1, GiveUpGood
<1> QED BY <1>6, <1>9, <1>10, <1>11

\* Blocks of the G2D that are busy are not used.
LEMMA DisabledSet ==
  ASSUME NEW p \in Plan, BlocksOK(p), NEW D \in SUBSET Block,
         NEW q, q = [p EXCEPT !.disabled = D]
  PROVE  /\ q \in Plan /\ BlocksOK(q)
         /\ SameBlocks(p, q) /\ SameCounts(p, q)
         /\ q.type = p.type /\ q.client = p.client /\ q.exynos = p.exynos
         /\ q.failed = p.failed
<1>1. /\ q \in Plan
      /\ SameBlocks(p, q) /\ SameCounts(p, q)
      /\ q.type = p.type /\ q.client = p.client /\ q.exynos = p.exynos
      /\ q.failed = p.failed
  BY DEF Plan, SameBlocks, SameCounts
<1> QED BY <1>1, SameBlocksOK

\* The blender is busy: the layers in its range are anybody's.
BusyLeft(o, q, F) ==
  /\ q.client = o.client /\ q.exynos = Nothing
  /\ \A j \in Layer : q.type[j] = IF j \in F THEN "device" ELSE o.type[j]
  /\ \A j \in Layer : j \notin F => q.m2m[j] \in {o.m2m[j], NoBlock}
  /\ \A j \in Layer : j \in F => q.m2m[j] = NoBlock

\* The plan then has a shape a pass can start with.
LEMMA BusyGood ==
  ASSUME NEW o \in Plan, Sound(o), Composed(o), Ranged(o), Solid(o), o.exynos.has,
         NEW F, F = o.exynos.first .. o.exynos.last,
         NEW q \in Plan, BusyLeft(o, q, F)
  PROVE  Sound(q) /\ Composed(q) /\ Ranged(q) /\ Solid(q)
<1> DEFINE e == o.exynos
           c == o.client
<1>1. e.first \in Int /\ e.last \in Int /\ c.first \in Int /\ c.last \in Int
  BY PlanFields
<1> USE DEF BusyLeft
<1>2. \A j \in Layer : j \in F <=> Within(j, e)
  BY <1>1 DEF Within, Layer
<1>3. \A j \in Layer : o.type[j] = "exynos" => j \in F
  BY <1>2 DEF Ranged
<1>4. ASSUME NEW j \in Layer, j \in F, o.type[j] # "exynos"
      PROVE  j = e.last /\ AtEnd(o)
  <2>1. e.first <= j /\ j <= e.last /\ j \in Int
    BY <1>2, <1>4, LayerIsInt DEF Within
  <2>2. ~(j < e.last)
    BY <1>4, <2>1 DEF Solid
  <2>3. j = e.last
    BY <1>1, <2>1, <2>2
  <2> QED BY <1>4, <2>3 DEF Solid
<1>5. Sound(q)
  <2>1. Valid(q.client)
    BY DEF Sound
  <2>2. \A j \in Layer : q.m2m[j] = Blender => q.type[j] = "exynos"
    BY <1>3, BlocksApart DEF Sound
  <2>3. ASSUME NEW j \in Layer, Within(j, q.client)
        PROVE  q.type[j] = "client" \/ (High(j) /\ q.type[j] # "exynos")
    <3>1. o.type[j] = "client" \/ (High(j) /\ o.type[j] # "exynos")
      BY <2>3 DEF Sound
    <3>2. CASE j \in F
      <4>1. j = e.last /\ AtEnd(o)
        BY <1>4, <3>1, <3>2
      <4> QED BY <3>2, <4>1 DEF AtEnd
    <3>3. CASE j \notin F
      BY <3>1, <3>3
    <3> QED BY <3>2, <3>3
  <2> QED BY <2>1, <2>2, <2>3 DEF Sound
<1>6. Composed(q)
  <2>1. \A j \in Layer : q.type[j] = "client" => Within(j, q.client)
    BY DEF Composed
  <2>2. ASSUME c.has
        PROVE  q.type[c.last] = "client"
    <3>1. c.last \in Layer /\ o.type[c.last] = "client"
      BY <1>1, <2>2, TopIsNat DEF Sound, Valid, IsRange, Layer, Composed
    <3>2. c.last \notin F
      <4>1. ASSUME c.last \in F
            PROVE  FALSE
        <5>1. c.last = e.last /\ AtEnd(o)
          BY <1>4, <3>1, <4>1
        <5> QED BY <1>1, <5>1 DEF AtEnd
      <4> QED BY <4>1
    <3> QED BY <3>1, <3>2
  <2>3. \A j \in Layer : q.type[j] = "exynos" => ~High(j)
    BY DEF Composed
  <2> QED BY <2>1, <2>2, <2>3 DEF Composed
<1>7. \A j \in Layer : q.type[j] # "exynos"
  BY <1>3
<1>8. Ranged(q) /\ Solid(q)
  BY <1>7 DEF Ranged, Solid, Nothing
<1> QED BY <1>5, <1>6, <1>8

\* Layers that wait for a block of the G2D lose it, and keep their type.
G2DLeft(o, p) ==
  /\ p.type = o.type /\ p.client = o.client /\ p.exynos = o.exynos
  /\ \A i \in Layer :
       p.m2m[i] = o.m2m[i] \/ (o.type[i] = "device" /\ p.m2m[i] = NoBlock)

\* What setResourcePriority() makes of the plan, after the last priority
LEMMA PrioritizeIs ==
  ASSUME Assignable, Prioritize
  PROVE  \/ \E p \in Plan : BlocksOK(p) /\ G2DLeft(plan, p) /\ Retry(p)
         \/ /\ plan.exynos.has
            /\ \E q \in Plan : /\ BlocksOK(q) /\ Retry(q)
                              /\ BusyLeft(plan, q, plan.exynos.first .. plan.exynos.last)
         \/ \E place \in {"forced", "alone"} : Then(plan, place, 0)
<1>1. /\ plan \in Plan /\ BlocksOK(plan) /\ step \in Step
      /\ Ranged(plan)
  BY AssignableFacts DEF Prioritize, At, Stage, Live, Whole
<1>2. PICK R \in SUBSET {i \in OfType(plan, "device") : plan.m2m[i] \in Graphics},
           busy \in IF plan.exynos.has THEN BOOLEAN ELSE {FALSE} :
        LET p == [Free(plan, R) EXCEPT !.disabled = @ \union {plan.m2m[i] : i \in R}]
            F == p.exynos.first .. p.exynos.last
            q == [NoExynos(WithType(Free(p, F), F, "device")) EXCEPT
                    !.disabled = @ \union {Blender}]
        IN  IF busy THEN Retry(q)
            ELSE IF R # {} THEN Retry(p)
            ELSE IF step.tries + 1 = MaxTries THEN Then(plan, "forced", 0)
            ELSE Then(plan, "alone", 0)
  BY Zenon DEF Prioritize
<1> DEFINE f == Free(plan, R)
           p == [f EXCEPT !.disabled = @ \union {plan.m2m[i] : i \in R}]
           F == p.exynos.first .. p.exynos.last
           g == Free(p, F)
           t == WithType(g, F, "device")
           n == NoExynos(t)
           q == [n EXCEPT !.disabled = @ \union {Blender}]
<1>3. \/ busy /\ Retry(q)
      \/ Retry(p)
      \/ Then(plan, "forced", 0)
      \/ Then(plan, "alone", 0)
  BY <1>2
<1>4. R \in SUBSET Layer /\ {plan.m2m[i] : i \in R} \in SUBSET Block /\ {Blender} \in SUBSET Block
  BY BlocksApart DEF OfType, Block
<1>5. /\ f = Free(plan, R)
      /\ p = [f EXCEPT !.disabled = @ \union {plan.m2m[i] : i \in R}]
      /\ F = p.exynos.first .. p.exynos.last
      /\ q = [n EXCEPT !.disabled = @ \union {Blender}]
  OBVIOUS
<1>6. g = Free(p, F) /\ t = WithType(g, F, "device") /\ n = NoExynos(t)
  OBVIOUS
<1> HIDE DEF f, p, F, g, t, n, q
<1>7. /\ f \in Plan /\ BlocksOK(f) /\ SameLayers(plan, f)
      /\ f.m2m = [i \in Layer |-> IF i \in R THEN NoBlock ELSE plan.m2m[i]]
  BY <1>1, <1>4, <1>5, FreeIs
<1>8. p \in Plan /\ BlocksOK(p)
  <2>1. PICK D \in SUBSET Block : D = f.disabled \union {plan.m2m[i] : i \in R}
    BY <1>4, <1>7, PlanFields
  <2>2. p = [f EXCEPT !.disabled = D]
    BY <1>5, <1>7, <2>1 DEF Plan
  <2> QED BY <1>7, <2>2, DisabledSet
<1>9. /\ p.type = plan.type /\ p.client = plan.client /\ p.exynos = plan.exynos
      /\ p.m2m = f.m2m
  <2>1. /\ p.type = f.type /\ p.client = f.client /\ p.exynos = f.exynos /\ p.m2m = f.m2m
    BY <1>5, <1>7 DEF Plan
  <2> QED BY <1>7, <2>1 DEF SameLayers
<1>10. \A i \in R : plan.type[i] = "device"
  BY DEF OfType
<1>11. CASE Retry(p)
  <2>1. G2DLeft(plan, p)
    BY <1>7, <1>9, <1>10 DEF G2DLeft
  <2> QED BY <1>8, <1>11, <2>1
<1>12. CASE busy /\ Retry(q)
  <2>1. plan.exynos.has
    BY <1>2, <1>12
  <2>2. F \in SUBSET Layer /\ "device" \in LayerType
    <3>1. plan.exynos.first \in Int /\ plan.exynos.last \in Int /\ IsRange(plan.exynos)
      BY <1>1, <2>1, PlanFields DEF Ranged
    <3> QED BY <1>5, <1>9, <3>1, TopIsNat DEF Layer, IsRange, LayerType
  <2>3. /\ g \in Plan /\ BlocksOK(g) /\ SameLayers(p, g)
        /\ g.m2m = [i \in Layer |-> IF i \in F THEN NoBlock ELSE p.m2m[i]]
    BY <1>8, <1>6, <2>2, FreeIs
  <2>4. /\ t \in Plan /\ BlocksOK(t) /\ SameBlocks(g, t)
        /\ t.type = [j \in Layer |-> IF j \in F THEN "device" ELSE g.type[j]]
        /\ t.client = g.client
    BY <1>6, <2>2, <2>3, WithTypeIs
  <2>5. /\ n \in Plan /\ BlocksOK(n) /\ n.type = t.type /\ n.m2m = t.m2m
        /\ n.client = t.client /\ n.exynos = Nothing
    BY <1>6, <2>4, NoExynosIs
  <2>6. q \in Plan /\ BlocksOK(q)
    <3>1. PICK D \in SUBSET Block : D = n.disabled \union {Blender}
      BY <1>4, <2>5, PlanFields
    <3>2. q = [n EXCEPT !.disabled = D]
      BY <1>5, <2>5, <3>1 DEF Plan
    <3> QED BY <2>5, <3>2, DisabledSet
  <2>7. q.type = n.type /\ q.client = n.client /\ q.exynos = n.exynos /\ q.m2m = n.m2m
    BY <1>5, <2>5 DEF Plan
  <2>8. q.client = plan.client /\ q.exynos = Nothing /\ g.type = plan.type /\ q.m2m = g.m2m
    BY <1>9, <2>3, <2>4, <2>5, <2>7 DEF SameLayers, SameBlocks
  <2>9. \A j \in Layer : q.type[j] = IF j \in F THEN "device" ELSE plan.type[j]
    BY <2>4, <2>5, <2>7, <2>8
  <2>10. /\ \A j \in Layer : j \notin F => q.m2m[j] \in {plan.m2m[j], NoBlock}
         /\ \A j \in Layer : j \in F => q.m2m[j] = NoBlock
    BY <1>7, <1>9, <2>3, <2>8
  <2>11. F = plan.exynos.first .. plan.exynos.last
    BY <1>5, <1>9
  <2>12. BusyLeft(plan, q, F)
    BY <2>8, <2>9, <2>10 DEF BusyLeft
  <2> QED BY <1>12, <2>1, <2>6, <2>11, <2>12
<1> QED BY <1>3, <1>11, <1>12

\* setResourcePriority() after the last priority
LEMMA PrioritizeGood ==
  ASSUME Assignable, Prioritize
  PROVE  Good(plan', step')
<1>1. /\ plan \in Plan /\ BlocksOK(plan) /\ step \in Step
      /\ ~plan.failed /\ Sound(plan) /\ Composed(plan)
      /\ Ranged(plan) /\ Solid(plan) /\ Scaled(plan)
  BY AssignableFacts DEF Prioritize, At, Stage, Live, Whole
<1>2. ASSUME NEW p \in Plan, BlocksOK(p), G2DLeft(plan, p), Retry(p)
      PROVE  Good(plan', step')
  <2>1. /\ p.type = plan.type /\ p.client = plan.client /\ p.exynos = plan.exynos
        /\ \A i \in Layer : p.m2m[i] \in {plan.m2m[i], NoBlock}
    BY <1>2 DEF G2DLeft
  <2>2. Sound(p) /\ Composed(p) /\ Ranged(p) /\ Solid(p)
    BY <1>1, <1>2, <2>1, ShapeKept
  <2> QED BY <1>1, <1>2, <2>2, RetryGood
<1>3. ASSUME plan.exynos.has, NEW F, F = plan.exynos.first .. plan.exynos.last,
             NEW q \in Plan, BlocksOK(q), BusyLeft(plan, q, F), Retry(q)
      PROVE  Good(plan', step')
  <2>1. Sound(q) /\ Composed(q) /\ Ranged(q) /\ Solid(q)
    BY <1>1, <1>3, BusyGood
  <2> QED BY <1>1, <1>3, <2>1, RetryGood
<1>4. ASSUME NEW place \in {"forced", "alone"}, Then(plan, place, 0)
      PROVE  Good(plan', step')
  <2> DEFINE s == [step EXCEPT !.at = place, !.layer = 0]
  <2>1. s.at = place
    BY <1>1 DEF Step
  <2>2. place \in Places /\ 0 \in Int
    BY DEF Places
  <2> HIDE DEF s
  <2>3. Stage(plan, s)
    BY <1>1, <2>1 DEF Stage, Live, Whole
  <2> QED BY <1>1, <1>4, <2>2, <2>3, ThenGood DEF s
<1> QED BY <1>2, <1>3, <1>4, PrioritizeIs

\* The layers of the client are looked at from the lowest.
LEMMA LowerStarts ==
  ASSUME NEW p \in Plan, ~p.failed, Sound(p), Scaled(p),
         p.client.has => p.type[p.client.last] = "client",
         NEW s, s.at = (IF p.client.has THEN "lower" ELSE "windows"),
         s.layer = p.client.first, s.from = p.client.last
  PROVE  Stage(p, s)
<1>1. CASE p.client.has
  <2>1. Lower(p, s)
    BY <1>1 DEF Lower
  <2>2. s.at = "lower"
    BY <1>1
  <2> QED BY <2>1, <2>2 DEF Stage, Live, Whole
<1>2. CASE ~p.client.has
  <2>1. s.at = "windows"
    BY <1>2
  <2> QED BY <2>1, Elsewhere
<1> QED BY <1>1, <1>2

\* The blender has one layer, and its target has a block.
Solo(p, i, b) ==
  i = p.exynos.first /\ i = p.exynos.last /\ b = p.otf[ExynosTarget]

MadeAlone(p, i, b) ==
  AssignOverlay(Release(NoExynos(WithType(Free(p, {i}), {i}, "device")), {b}), b, i)

\* The one layer of the blender has got the block of its target.
Alone(p, q, i) ==
  /\ q.client = p.client /\ q.failed = p.failed
  /\ \A j \in Layer : q.type[j] = IF j = i THEN "device" ELSE p.type[j]
  /\ \A j \in Layer : q.m2m[j] \in {p.m2m[j], NoBlock}
  /\ q.m2m[i] = NoBlock
  /\ q.exynos = Nothing /\ SameCounts(p, q) /\ q.otf[i] # NoBlock
  /\ \A s \in Source : s \notin {i, ExynosTarget} => q.otf[s] = p.otf[s]

\* What updateExynosComposition() does, step by step
LEMMA AloneIs ==
  ASSUME NEW p \in Plan, BlocksOK(p), NEW i \in Layer, NEW b \in Overlay,
         Solo(p, i, b),
         NEW q, q = MadeAlone(p, i, b)
  PROVE  q \in Plan /\ BlocksOK(q) /\ Alone(p, q, i)
<1> DEFINE F == {i}
           a == Free(p, F)
           w == WithType(a, F, "device")
           n == NoExynos(w)
           B == {b}
           r == Release(n, B)
<1>1. a = Free(p, F) /\ w = WithType(a, F, "device") /\ n = NoExynos(w)
  OBVIOUS
<1>2. r = Release(n, B) /\ q = AssignOverlay(r, b, i)
  BY DEF MadeAlone
<1>3. /\ F \in SUBSET Layer /\ "device" \in LayerType /\ \A j : j \in F <=> j = i
      /\ B \in SUBSET Block /\ b \in B /\ i \in Source /\ b \in Block
  BY DEF LayerType, Block, Source
<1> HIDE DEF F, a, w, n, B, r
<1>4. /\ a \in Plan /\ BlocksOK(a) /\ SameLayers(p, a) /\ SameCounts(p, a)
      /\ a.m2m = [j \in Layer |-> IF j \in F THEN NoBlock ELSE p.m2m[j]]
  BY <1>1, <1>3, FreeIs
<1>5. /\ w \in Plan /\ BlocksOK(w) /\ SameBlocks(a, w) /\ SameCounts(a, w)
      /\ w.type = [j \in Layer |-> IF j \in F THEN "device" ELSE a.type[j]]
      /\ w.client = a.client /\ w.failed = a.failed
  BY <1>1, <1>3, <1>4, WithTypeIs
<1>6. /\ n \in Plan /\ BlocksOK(n) /\ n.type = w.type /\ n.m2m = w.m2m
      /\ n.client = w.client /\ n.failed = w.failed
      /\ n.exynos = Nothing /\ SameCounts(w, n)
  BY <1>1, <1>5, NoExynosIs
<1>7. /\ r \in Plan /\ SameLayers(n, r) /\ SameCounts(n, r)
      /\ r.window = n.window
      /\ r.otf = [s \in Source |-> IF n.otf[s] \in B THEN NoBlock ELSE n.otf[s]]
      /\ r.m2m = [j \in Layer |-> IF n.m2m[j] \in B THEN NoBlock ELSE n.m2m[j]]
      /\ r.users = [c \in Block |-> IF c \in B THEN {} ELSE n.users[c]]
      /\ BlocksOK(r) /\ Rid(n, r, B)
  <2>1. r = Release(n, B)
    BY <1>2
  <2> QED BY <1>3, <1>6, <2>1, ReleaseIs
<1>8. r.users[b] = {}
  <2>1. n \in Plan /\ b \in Block /\ b \in B
    BY <1>3, <1>6
  <2> QED BY <1>2, <2>1 DEF Release, Plan
<1>9. /\ q \in Plan /\ SameLayers(r, q) /\ SameCounts(r, q)
      /\ q.m2m = r.m2m
      /\ q.otf = [r.otf EXCEPT ![i] = b]
      /\ q.users = [r.users EXCEPT ![b] = {i}]
      /\ BlocksOK(q)
  <2>1. q = AssignOverlay(r, b, i)
    BY <1>2
  <2>2. r \in Plan /\ BlocksOK(r)
    BY <1>7
  <2>3. i \in Source
    BY <1>3
  <2> QED BY <1>8, <2>1, <2>2, <2>3, AssignOverlayIs
<1>11. /\ q.client = p.client /\ q.failed = p.failed /\ q.type = w.type
       /\ w.m2m = a.m2m /\ a.type = p.type
  BY <1>4, <1>5, <1>6, <1>7, <1>9 DEF SameLayers, SameBlocks
<1>12. \A j \in Layer : q.type[j] = IF j = i THEN "device" ELSE p.type[j]
  BY <1>3, <1>5, <1>11
<1>13. \A j \in Layer : q.m2m[j] \in {a.m2m[j], NoBlock}
  BY <1>6, <1>7, <1>9, <1>11 DEF Rid
<1>14. \A j \in Layer : q.m2m[j] \in {p.m2m[j], NoBlock} /\ (j = i => q.m2m[j] = NoBlock)
  BY <1>3, <1>4, <1>13
<1>15. q.exynos = Nothing /\ SameCounts(p, q)
  BY <1>4, <1>5, <1>6, <1>7, <1>9 DEF SameCounts, SameLayers
<1>16. /\ q.otf[i] = b
       /\ \A s \in Source : s # i => q.otf[s] = r.otf[s]
  <2>1. r.otf \in [Source -> Overlay \union {NoBlock}]
    BY <1>7, PlanFields
  <2> QED BY <1>3, <1>9, <2>1
<1>17. ASSUME NEW s \in Source, s # i, s # ExynosTarget
       PROVE  q.otf[s] = p.otf[s]
  <2>1. a.otf[s] = p.otf[s]
    BY <1>1, <1>3, <1>17, FreeKeeps
  <2>2. n.otf[s] = w.otf[s]
    <3>1. n.otf = [w.otf EXCEPT ![ExynosTarget] = NoBlock]
      BY <1>1, <1>5 DEF NoExynos, Plan
    <3>2. w.otf \in [Source -> Overlay \union {NoBlock}]
      BY <1>5, PlanFields
    <3> QED BY <1>17, <3>1, <3>2
  <2>3. n.otf[s] = p.otf[s]
    BY <1>5, <2>1, <2>2 DEF SameBlocks
  <2>4. p.otf[s] # b
    <3>1. b # NoBlock /\ ExynosTarget \in Source
      BY BlocksApart DEF Source
    <3>2. p.otf[s] = b => s \in p.users[b] /\ ExynosTarget \in p.users[b]
      BY <3>1 DEF BlocksOK, OtfUsed, Solo
    <3>3. \A t, u \in p.users[b] : t = u
      BY DEF BlocksOK, OneUser
    <3> QED BY <1>17, <3>2, <3>3
  <2>5. n.otf[s] \notin B
    BY <2>3, <2>4 DEF B
  <2>6. r.otf[s] = n.otf[s]
    BY <1>7, <2>5
  <2> QED BY <1>16, <1>17, <2>3, <2>6
<1>18. q.otf[i] # NoBlock
  BY <1>16, BlocksApart
<1> QED BY <1>9, <1>11, <1>12, <1>14, <1>15, <1>17, <1>18 DEF Alone

\* The blender has no layer then, and the client the range it had.
LEMMA AloneSound ==
  ASSUME NEW p \in Plan, BlocksOK(p), Sound(p), Composed(p), Ranged(p), Solid(p), Scaled(p),
         NEW i \in Layer, NEW b \in Overlay,
         Solo(p, i, b),
         NEW q, q = MadeAlone(p, i, b)
  PROVE  /\ q \in Plan /\ BlocksOK(q) /\ Alone(p, q, i)
         /\ p.exynos.has /\ p.type[i] = "exynos"
         /\ Sound(q) /\ Scaled(q)
         /\ q.client.has => q.type[q.client.last] = "client"
<1>1. q \in Plan /\ BlocksOK(q) /\ Alone(p, q, i)
  BY AloneIs
<1>2. /\ q.client = p.client /\ q.failed = p.failed
      /\ \A j \in Layer : q.type[j] = IF j = i THEN "device" ELSE p.type[j]
      /\ \A j \in Layer : q.m2m[j] \in {p.m2m[j], NoBlock}
      /\ q.m2m[i] = NoBlock
  BY <1>1 DEF Alone
<1>3. p.exynos.has /\ p.type[i] = "exynos"
  <2>1. p.exynos.has
    BY TopIsNat DEF Ranged, Nothing, Layer, Solo
  <2>2. ~AtEnd(p)
    BY LayerIsInt DEF AtEnd, Solo
  <2> QED BY <2>1, <2>2 DEF Solid, Solo
<1>4. Sound(q)
  <2>1. Valid(q.client)
    BY <1>2 DEF Sound
  <2>2. \A j \in Layer : q.m2m[j] = Blender => q.type[j] = "exynos"
    BY <1>2, BlocksApart DEF Sound
  <2>3. \A j \in Layer : Within(j, q.client) =>
          q.type[j] = "client" \/ (High(j) /\ q.type[j] # "exynos")
    BY <1>2, <1>3 DEF Sound
  <2> QED BY <2>1, <2>2, <2>3 DEF Sound
<1>5. Scaled(q)
  BY <1>2, BlocksApart DEF Scaled
<1>6. q.client.has => q.type[q.client.last] = "client"
  <2>1. p.client.has => p.client.last \in Layer
    BY TopIsNat, PlanFields DEF Sound, Valid, IsRange, Layer
  <2> QED BY <1>2, <1>3, <2>1 DEF Composed
<1> QED BY <1>1, <1>3, <1>4, <1>5, <1>6

\* A blender with one layer gives its block to it, or stays.
LEMMA UpdateExynosGood ==
  ASSUME Assignable, UpdateExynos
  PROVE  Good(plan', step')
<1>1. /\ plan \in Plan /\ BlocksOK(plan) /\ step \in Step
      /\ ~plan.failed /\ Sound(plan) /\ Composed(plan)
      /\ Ranged(plan) /\ Solid(plan) /\ Scaled(plan)
  BY AssignableFacts DEF UpdateExynos, At, Stage, Live, Whole
<1> DEFINE place == IF plan.client.has THEN "lower" ELSE "windows"
<1>2. /\ step' = [step EXCEPT !.at = place, !.layer = plan.client.first,
                     !.from = plan.client.last]
      /\ place \in Places
      /\ plan.client.first \in Int /\ plan.client.last \in Int
  BY <1>1, PlanFields DEF UpdateExynos, Places
<1>3. place = (IF plan.client.has THEN "lower" ELSE "windows")
  OBVIOUS
<1> HIDE DEF place
<1>4. step' \in Step
  BY <1>1, <1>2 DEF Step, Places
<1>5. step'.at = place /\ step'.layer = plan.client.first /\ step'.from = plan.client.last
  BY <1>1, <1>2 DEF Step
<1>6. plan.client.has => plan.type[plan.client.last] = "client"
  BY <1>1 DEF Composed
<1>7. CASE plan' = plan
  <2>1. Stage(plan, step')
    BY <1>1, <1>3, <1>5, <1>6, LowerStarts
  <2> QED BY <1>1, <1>4, <1>7, <2>1 DEF Good
<1>8. ASSUME NEW i, NEW b, i = plan.exynos.first, b = plan.otf[ExynosTarget],
             i \in Layer, i = plan.exynos.last, b # NoBlock,
             plan' = MadeAlone(plan, i, b)
      PROVE  Good(plan', step')
  <2>1. b \in Overlay
    BY <1>1, <1>8, PlanFields DEF Source
  <2>2. /\ plan' \in Plan /\ BlocksOK(plan') /\ Alone(plan, plan', i)
        /\ Sound(plan') /\ Scaled(plan')
        /\ plan'.client.has => plan'.type[plan'.client.last] = "client"
    <3>1. Solo(plan, i, b)
      BY <1>8 DEF Solo
    <3>2. PICK q : q = plan'
      OBVIOUS
    <3>3. q = MadeAlone(plan, i, b)
      BY <1>8, <3>2
    <3> QED BY <1>1, <1>8, <2>1, <3>1, <3>2, <3>3, AloneSound
  <2>3. plan'.client = plan.client /\ plan'.failed = plan.failed
    BY <2>2 DEF Alone
  <2>4. Stage(plan', step')
    BY <1>1, <1>3, <1>5, <2>2, <2>3, LowerStarts
  <2> QED BY <1>4, <2>2, <2>4 DEF Good
<1> QED BY <1>7, <1>8, Zenon DEF UpdateExynos, MadeAlone

-----------------------------------------------------------------------------
(* The ends of the range of the client.                                    *)

\* The range of the client ends one layer earlier, or starts one later.
ClientCut(p, q, i) ==
  \/ q.client = Nothing /\ p.client.first = i /\ p.client.last = i
  \/ /\ q.client.has /\ p.client.first = i /\ i # p.client.last
     /\ q.client.first = i + 1 /\ q.client.last = p.client.last
  \/ /\ q.client.has /\ p.client.last = i /\ i # p.client.first
     /\ q.client.first = p.client.first /\ q.client.last = i - 1

\* What removeClientCompositionLayer() makes of the plan
ClientLeft(p, q, i) ==
  /\ q.type = p.type
  /\ \A j \in Layer : q.m2m[j] \in {p.m2m[j], NoBlock}
  /\ \A b \in Block : q.users[b] \subseteq p.users[b]
  /\ q.failed \/ (~p.failed /\ p.client.has /\ ClientCut(p, q, i))

\* The last layer of the client leaves: its target has no block any more.
LEMMA ClientNone ==
  ASSUME NEW p \in Plan, BlocksOK(p), p.otf[ClientTarget] # NoBlock,
         NEW q, q = NoClient(Uncounted(Release(p, {p.otf[ClientTarget]}), {ClientTarget}))
  PROVE  /\ q \in Plan /\ BlocksOK(q)
         /\ q.type = p.type /\ q.client = Nothing /\ q.failed = p.failed
         /\ \A j \in Layer : q.m2m[j] \in {p.m2m[j], NoBlock}
         /\ \A b \in Block : q.users[b] \subseteq p.users[b]
<1> DEFINE B == {p.otf[ClientTarget]}
           S == {ClientTarget}
           r == Release(p, B)
           u == Uncounted(r, S)
<1>1. r = Release(p, B)
  OBVIOUS
<1>2. u = Uncounted(r, S) /\ q = NoClient(u)
  OBVIOUS
<1>3. B \in SUBSET Block /\ S \in SUBSET Source
  BY PlanFields DEF Block, Source
<1> HIDE DEF B, S, r, u
<1>4. r \in Plan /\ BlocksOK(r) /\ SameLayers(p, r) /\ Rid(p, r, B)
  BY <1>1, <1>3, ReleaseIs
<1>5. \A b \in Block : r.users[b] \subseteq p.users[b]
  BY <1>1 DEF Release, Plan
<1>6. u \in Plan /\ BlocksOK(u) /\ SameBlocks(r, u) /\ SameLayers(r, u)
  BY <1>2, <1>3, <1>4, UncountedIs
<1>7. /\ q \in Plan /\ BlocksOK(q) /\ q.type = u.type /\ q.m2m = u.m2m
      /\ q.users = u.users /\ q.client = Nothing /\ q.failed = u.failed
  BY <1>2, <1>6, NoClientIs
<1>8. /\ q.type = p.type /\ q.failed = p.failed /\ q.m2m = r.m2m /\ q.users = r.users
  BY <1>4, <1>6, <1>7 DEF SameLayers, SameBlocks
<1>9. \A j \in Layer : q.m2m[j] \in {p.m2m[j], NoBlock}
  BY <1>4, <1>8 DEF Rid
<1> QED BY <1>5, <1>7, <1>8, <1>9

FirstMoved(p, n) == [p EXCEPT !.client.first = n]
LastMoved(p, n) == [p EXCEPT !.client.last = n]

\* The first layer of the client leaves,
LEMMA ClientFirstMoved ==
  ASSUME NEW p \in Plan, BlocksOK(p), NEW n \in Int,
         NEW q, q = FirstMoved(p, n)
  PROVE  /\ q \in Plan /\ BlocksOK(q)
         /\ SameBlocks(p, q) /\ q.type = p.type /\ q.failed = p.failed
         /\ q.client.has = p.client.has /\ q.client.first = n
         /\ q.client.last = p.client.last
<1> DEFINE comp == [p.client EXCEPT !.first = n]
<1>1. comp \in Composition /\ q = [p EXCEPT !.client = comp]
  BY DEF Composition, Plan, FirstMoved
<1>2. comp.has = p.client.has /\ comp.first = n /\ comp.last = p.client.last
  BY PlanFields DEF Composition
<1> HIDE DEF comp
<1>3. /\ q \in Plan /\ BlocksOK(q) /\ SameBlocks(p, q)
      /\ q.client = comp /\ q.type = p.type /\ q.failed = p.failed
  BY <1>1, ClientSet
<1> QED BY <1>2, <1>3

\* or the last one.
LEMMA ClientLastMoved ==
  ASSUME NEW p \in Plan, BlocksOK(p), NEW n \in Int,
         NEW q, q = LastMoved(p, n)
  PROVE  /\ q \in Plan /\ BlocksOK(q)
         /\ SameBlocks(p, q) /\ q.type = p.type /\ q.failed = p.failed
         /\ q.client.has = p.client.has /\ q.client.first = p.client.first
         /\ q.client.last = n
<1> DEFINE comp == [p.client EXCEPT !.last = n]
<1>1. comp \in Composition /\ q = [p EXCEPT !.client = comp]
  BY DEF Composition, Plan, LastMoved
<1>2. comp.has = p.client.has /\ comp.first = p.client.first /\ comp.last = n
  BY PlanFields DEF Composition
<1> HIDE DEF comp
<1>3. /\ q \in Plan /\ BlocksOK(q) /\ SameBlocks(p, q)
      /\ q.client = comp /\ q.type = p.type /\ q.failed = p.failed
  BY <1>1, ClientSet
<1> QED BY <1>2, <1>3

\* What removeClientCompositionLayer() does, step by step
LEMMA RemoveClientIs ==
  ASSUME NEW p \in Plan, BlocksOK(p), ~p.failed, NEW i \in Int,
         NEW q, q = RemoveClient(p, i)
  PROVE  q \in Plan /\ BlocksOK(q) /\ ClientLeft(p, q, i)
<1> DEFINE none == NoClient(Uncounted(Release(p, {p.otf[ClientTarget]}), {ClientTarget}))
           e == [p EXCEPT !.failed = TRUE]
           f == p.client.first + 1
           l == p.client.last - 1
           first == FirstMoved(p, f)
           last == LastMoved(p, l)
<1>1. f \in Int /\ l \in Int
  BY PlanFields
<1>2. \/ q = e
      \/ /\ p.client.has /\ i \in {p.client.first, p.client.last}
         /\ \/ p.client.first = p.client.last /\ p.otf[ClientTarget] # NoBlock /\ q = none
            \/ p.client.first # p.client.last /\ i = p.client.first /\ q = first
            \/ p.client.first # p.client.last /\ i # p.client.first /\ q = last
  BY Zenon DEF RemoveClient, FirstMoved, LastMoved
<1>3. CASE q = e
  <2>1. TRUE \in BOOLEAN
    OBVIOUS
  <2>2. q \in Plan /\ BlocksOK(q) /\ SameBlocks(p, q) /\ q.failed = TRUE /\ q.type = p.type
    BY <1>3, <2>1, FailedSet
  <2> QED BY <2>2 DEF ClientLeft, SameBlocks
<1>4. CASE /\ p.client.has /\ i \in {p.client.first, p.client.last}
           /\ p.client.first = p.client.last /\ p.otf[ClientTarget] # NoBlock /\ q = none
  BY <1>4, ClientNone DEF ClientLeft, ClientCut
<1>5. CASE /\ p.client.has
           /\ p.client.first # p.client.last /\ i = p.client.first /\ q = first
  <2>1. PICK n \in Int : n = f
    BY <1>1
  <2>2. q = FirstMoved(p, n)
    BY <1>5, <2>1
  <2>3. /\ q \in Plan /\ BlocksOK(q) /\ SameBlocks(p, q) /\ q.type = p.type
        /\ q.client.has = p.client.has /\ q.client.first = n
        /\ q.client.last = p.client.last
    BY <2>1, <2>2, ClientFirstMoved
  <2> QED BY <1>5, <2>1, <2>3 DEF ClientLeft, ClientCut, SameBlocks
<1>6. CASE /\ p.client.has /\ i = p.client.last
           /\ p.client.first # p.client.last /\ i # p.client.first /\ q = last
  <2>1. PICK n \in Int : n = l
    BY <1>1
  <2>2. q = LastMoved(p, n)
    BY <1>6, <2>1
  <2>3. /\ q \in Plan /\ BlocksOK(q) /\ SameBlocks(p, q) /\ q.type = p.type
        /\ q.client.has = p.client.has /\ q.client.first = p.client.first
        /\ q.client.last = n
    BY <2>1, <2>2, ClientLastMoved
  <2> QED BY <1>6, <2>1, <2>3 DEF ClientLeft, ClientCut, SameBlocks
<1> QED BY <1>2, <1>3, <1>4, <1>5, <1>6

\* A layer at an end of the range of the client has got blocks of its own.
Spared(p, q, i) ==
  /\ p.client.has /\ i \in Layer /\ ClientCut(p, q, i)
  /\ \A j \in Layer : q.type[j] = IF j = i THEN "device" ELSE p.type[j]
  /\ Sound(q) /\ Scaled(q)

\* The layer at an end of the client's range has no block, and one for it is free.
LEMMA RemovedIs ==
  ASSUME plan \in Plan, BlocksOK(plan), ~plan.failed, Sound(plan), Scaled(plan),
         NEW i \in Int, ~IsHole(i), NEW o \in Spare(i),
         NEW r, r = RemoveClient(plan, i), ~r.failed
  PROVE  /\ r \in Plan /\ BlocksOK(r) /\ ClientLeft(plan, r, i) /\ ClientCut(plan, r, i)
         /\ i \in Layer /\ Within(i, plan.client)
         /\ plan.type[i] # "exynos" /\ plan.type[i] # "device"
         /\ r.m2m[i] = NoBlock /\ Offered(r, o)
<1>1. r \in Plan /\ BlocksOK(r) /\ ClientLeft(plan, r, i)
  BY RemoveClientIs
<1>2. /\ \A j \in Layer : r.m2m[j] \in {plan.m2m[j], NoBlock}
      /\ \A b \in Block : r.users[b] \subseteq plan.users[b]
      /\ plan.client.has /\ ClientCut(plan, r, i)
  BY <1>1 DEF ClientLeft
<1>3. i \in Layer /\ Within(i, plan.client)
  BY <1>2, TopIsNat, PlanFields DEF ClientCut, Sound, Valid, IsRange, Layer, Within
<1>4. plan.type[i] # "exynos" /\ plan.type[i] # "device"
  BY <1>3 DEF Sound, IsHole
<1>5. plan.m2m[i] = NoBlock
  <2>1. plan.m2m[i] \in Single \union {Blender, NoBlock}
    BY <1>3, PlanFields
  <2> QED BY <1>3, <1>4, <2>1 DEF Sound, Scaled
<1>6. Offered(r, o)
  <2>1. Offered(plan, o)
    BY OutcomeOffered DEF Spare
  <2>2. o.otf \in Block /\ (o.m2m # NoBlock => o.m2m \in Block)
    BY <2>1 DEF Offered, Block
  <2>3. r.users[o.otf] = {} /\ (o.m2m # NoBlock => r.users[o.m2m] = {})
    BY <1>2, <2>1, <2>2 DEF Offered
  <2> QED BY <2>1, <2>3 DEF Offered
<1> QED BY <1>1, <1>2, <1>3, <1>4, <1>5, <1>6

\* assignLayer() has found blocks for a layer at an end of the client's range.
LEMMA LeavesIs ==
  ASSUME plan \in Plan, BlocksOK(plan), ~plan.failed, Sound(plan), Scaled(plan),
         NEW i \in Int, ~IsHole(i), NEW o \in Spare(i),
         NEW q, q = Leaves(i, o)
  PROVE  q \in Plan /\ BlocksOK(q) /\ (q.failed \/ Spared(plan, q, i))
<1> DEFINE r == RemoveClient(plan, i)
<1>1. r = RemoveClient(plan, i)
  OBVIOUS
<1>2. q = IF r.failed THEN r ELSE ByDevice(r, i, o)
  BY DEF Leaves
<1> HIDE DEF r
<1>3. r \in Plan /\ BlocksOK(r) /\ ClientLeft(plan, r, i)
  BY <1>1, RemoveClientIs
<1>4. /\ r.type = plan.type
      /\ \A j \in Layer : r.m2m[j] \in {plan.m2m[j], NoBlock}
  BY <1>3 DEF ClientLeft
<1>5. CASE r.failed
  BY <1>2, <1>3, <1>5
<1>6. CASE ~r.failed
  <2>1. /\ ClientCut(plan, r, i) /\ i \in Layer /\ Within(i, plan.client)
        /\ r.m2m[i] = NoBlock /\ Offered(r, o)
    BY <1>1, <1>6, RemovedIs
  <2>2. plan.client.first \in Int /\ plan.client.last \in Int /\ plan.client.has
    BY <2>1, PlanFields DEF Within
  <2>3. q = ByDevice(r, i, o)
    BY <1>2, <1>6
  <2>4. q \in Plan /\ BlocksOK(q) /\ DeviceGiven(r, q, i)
    BY <1>3, <2>1, <2>3, ByDeviceIs
  <2>5. /\ q.client = r.client
        /\ \A j \in Layer : q.type[j] = IF j = i THEN "device" ELSE plan.type[j]
        /\ \A j \in Layer : j # i => q.m2m[j] \in {plan.m2m[j], NoBlock}
        /\ q.m2m[i] \in Single \union {NoBlock}
    BY <1>4, <2>4 DEF DeviceGiven
  <2>6. ClientCut(plan, q, i)
    BY <2>1, <2>5 DEF ClientCut
  <2>7. Sound(q)
    <3>1. Valid(q.client)
      BY <2>1, <2>2, <2>6, TopIsNat DEF ClientCut, Sound, Valid, IsRange, Nothing
    <3>2. \A j \in Layer : q.m2m[j] = Blender => q.type[j] = "exynos"
      BY <2>5, BlocksApart DEF Sound
    <3>3. ASSUME NEW j \in Layer, Within(j, q.client)
          PROVE  q.type[j] = "client" \/ (High(j) /\ q.type[j] # "exynos")
      <4>1. Within(j, plan.client) /\ j # i
        BY <2>1, <2>2, <2>6, <3>3, LayerIsInt DEF ClientCut, Within, Nothing
      <4> QED BY <2>5, <4>1 DEF Sound
    <3> QED BY <3>1, <3>2, <3>3 DEF Sound
  <2>8. Scaled(q)
    BY <2>5, BlocksApart DEF Scaled
  <2> QED BY <2>1, <2>2, <2>4, <2>5, <2>6, <2>7, <2>8 DEF Spared
<1>7. r.failed \in BOOLEAN
  BY <1>3, PlanFields
<1> QED BY <1>5, <1>6, <1>7

\* What the invariant says where the client loses its first layers
LEMMA InLower ==
  ASSUME Assignable, At("lower")
  PROVE  /\ plan \in Plan /\ BlocksOK(plan) /\ step \in Step
         /\ ~plan.failed /\ Sound(plan) /\ Scaled(plan)
         /\ Lower(plan, step)
BY AssignableFacts DEF Stage, Live, Whole, At

\* and where it loses its last ones
LEMMA InUpper ==
  ASSUME Assignable, At("upper")
  PROVE  /\ plan \in Plan /\ BlocksOK(plan) /\ step \in Step
         /\ ~plan.failed /\ Sound(plan) /\ Scaled(plan)
         /\ Upper(plan, step)
BY AssignableFacts DEF Stage, Live, Whole, At

\* The first layer of the client leaves it.
LEMMA LowerLeavesGood ==
  ASSUME Assignable, LowerLeaves
  PROVE  Good(plan', step')
<1> DEFINE i == step.layer
           s == [step EXCEPT !.at = "lower", !.layer = i + 1]
           c == plan.client
<1>1. /\ plan \in Plan /\ BlocksOK(plan) /\ step \in Step
      /\ ~plan.failed /\ Sound(plan) /\ Scaled(plan)
      /\ Lower(plan, step)
  BY InLower DEF LowerLeaves
<1>2. i <= step.from /\ i \in Int /\ step.from \in Int
  BY <1>1, StepFields DEF LowerLeaves
<1>3. c.has /\ i = c.first /\ step.from = c.last /\ plan.type[c.last] = "client"
  BY <1>1, <1>2 DEF Lower
<1>4. c.first \in Layer /\ c.last \in Layer /\ c.first <= c.last /\ c.first \in Int /\ c.last \in Int
  BY <1>1, <1>3, TopIsNat, PlanFields DEF Sound, Valid, IsRange, Layer
<1>5. /\ s.at = "lower" /\ s.layer = i + 1 /\ s.from = step.from
      /\ "lower" \in Places /\ i + 1 \in Int
  BY <1>1, <1>2 DEF Step, Places
<1>6. \/ IsHole(i) /\ Then(FirstMoved(plan, c.first + 1), "lower", i + 1)
      \/ ~IsHole(i) /\ \E o \in Spare(i) : Then(Leaves(i, o), "lower", i + 1)
  BY Zenon DEF LowerLeaves, FirstMoved
<1> HIDE DEF s
<1>7. CASE IsHole(i) /\ Then(FirstMoved(plan, c.first + 1), "lower", i + 1)
  <2>1. PICK n \in Int : n = c.first + 1
    BY <1>4
  <2> DEFINE q == FirstMoved(plan, n)
  <2>2. q = FirstMoved(plan, n) /\ Then(q, "lower", i + 1)
    BY <1>7, <2>1
  <2> HIDE DEF q
  <2>3. /\ q \in Plan /\ BlocksOK(q)
        /\ SameBlocks(plan, q) /\ q.type = plan.type /\ q.failed = plan.failed
        /\ q.client.has = c.has /\ q.client.first = n /\ q.client.last = c.last
    BY <1>1, <2>2, ClientFirstMoved
  <2>4. c.first < c.last
    BY <1>3, <1>4, <1>7 DEF IsHole
  <2>5. Sound(q)
    <3>1. Valid(q.client)
      BY <1>4, <2>1, <2>3, <2>4, TopIsNat DEF Valid, IsRange, Layer
    <3>2. \A j \in Layer : q.m2m[j] = Blender => q.type[j] = "exynos"
      BY <1>1, <2>3 DEF Sound, SameBlocks
    <3>3. \A j \in Layer : Within(j, q.client) => Within(j, c)
      BY <1>4, <2>1, <2>3, LayerIsInt DEF Within
    <3> QED BY <1>1, <2>3, <3>1, <3>2, <3>3 DEF Sound
  <2>6. Scaled(q)
    BY <1>1, <2>3 DEF Scaled, SameBlocks
  <2>7. Lower(q, s)
    BY <1>3, <1>5, <2>1, <2>3 DEF Lower
  <2>8. Stage(q, s)
    BY <1>1, <1>5, <2>3, <2>5, <2>6, <2>7 DEF Stage, Live, Whole
  <2> QED BY <1>1, <1>5, <2>2, <2>3, <2>8, ThenGood DEF s
<1>8. ASSUME ~IsHole(i), NEW o \in Spare(i), Then(Leaves(i, o), "lower", i + 1)
      PROVE  Good(plan', step')
  <2> DEFINE q == Leaves(i, o)
  <2>1. q = Leaves(i, o) /\ Then(q, "lower", i + 1)
    BY <1>8
  <2> HIDE DEF q
  <2>2. q \in Plan /\ BlocksOK(q) /\ (q.failed \/ Spared(plan, q, i))
    BY <1>1, <1>2, <1>8, <2>1, LeavesIs
  <2>3. ASSUME ~q.failed
        PROVE  Stage(q, s)
    <3>1. /\ i \in Layer /\ ClientCut(plan, q, i)
          /\ \A j \in Layer : q.type[j] = IF j = i THEN "device" ELSE plan.type[j]
          /\ Sound(q) /\ Scaled(q)
      BY <2>2, <2>3 DEF Spared
    <3>2. Lower(q, s)
      BY <1>2, <1>3, <1>4, <1>5, <3>1 DEF Lower, ClientCut, Nothing
    <3> QED BY <1>5, <2>3, <3>1, <3>2 DEF Stage, Live, Whole
  <2> QED BY <1>1, <1>5, <2>1, <2>2, <2>3, ThenGood DEF s
<1> QED BY <1>6, <1>7, <1>8

\* A layer may lose its metadata, and nothing else is different.
LEMMA StaysIs ==
  ASSUME plan \in Plan, BlocksOK(plan), Sound(plan), Scaled(plan), ~plan.failed,
         NEW i, plan' = plan \/ Stays(i)
  PROVE  /\ plan' \in Plan /\ BlocksOK(plan') /\ ~plan'.failed
         /\ plan'.client = plan.client /\ plan'.type = plan.type
         /\ Sound(plan') /\ Scaled(plan')
<1>1. CASE plan' = plan
  BY <1>1
<1>2. CASE plan' = WithoutMetadata(plan, i)
  <2>1. /\ plan' \in Plan /\ BlocksOK(plan') /\ SameBlocks(plan, plan')
        /\ plan'.type = plan.type /\ plan'.client = plan.client /\ plan'.exynos = plan.exynos
        /\ plan'.failed = plan.failed
    BY <1>2, WithoutMetadataIs
  <2>2. \A j \in Layer : plan'.m2m[j] \in {plan.m2m[j], NoBlock}
    BY <2>1 DEF SameBlocks
  <2>3. Sound(plan') /\ Scaled(plan')
    BY <2>1, <2>2, ShapeKept
  <2> QED BY <2>1, <2>3
<1> QED BY <1>1, <1>2 DEF Stays

\* It stays: the last one is looked at.
LEMMA LowerStaysGood ==
  ASSUME Assignable, LowerStays
  PROVE  Good(plan', step')
<1> DEFINE c == plan.client
<1>1. /\ plan \in Plan /\ BlocksOK(plan) /\ step \in Step
      /\ ~plan.failed /\ Sound(plan) /\ Scaled(plan)
      /\ Lower(plan, step)
  BY InLower DEF LowerStays
<1>2. step.layer \in Int /\ step.from \in Int /\ c.last \in Int /\ "upper" \in Places
  BY <1>1, StepFields, PlanFields DEF Places
<1>3. /\ plan' = plan \/ Stays(step.layer)
      /\ step.layer > step.from \/ ~IsHole(step.layer)
      /\ step' = [step EXCEPT !.at = "upper", !.layer = c.last]
  BY DEF LowerStays, GoUp
<1>4. step' \in Step /\ step'.at = "upper" /\ step'.layer = c.last
  BY <1>1, <1>2, <1>3 DEF Step, Places
<1>5. /\ plan' \in Plan /\ BlocksOK(plan') /\ ~plan'.failed
      /\ plan'.client = c /\ plan'.type = plan.type
      /\ Sound(plan') /\ Scaled(plan')
  BY <1>1, <1>3, StaysIs
<1>6. ASSUME c.has
      PROVE  ~(High(c.first) /\ plan.type[c.first] = "device")
  <2>1. step.layer = c.first /\ step.from = c.last /\ c.first <= c.last
    BY <1>1, <1>6 DEF Lower, Sound, Valid, IsRange
  <2>2. ~IsHole(c.first)
    BY <1>2, <1>3, <2>1
  <2> QED BY <2>2 DEF IsHole
<1>7. Upper(plan', step')
  BY <1>4, <1>5, <1>6 DEF Upper
<1>8. Stage(plan', step')
  BY <1>4, <1>5, <1>7 DEF Stage, Live, Whole
<1> QED BY <1>4, <1>5, <1>8 DEF Good

\* The last layer of the client leaves it.
LEMMA UpperLeavesGood ==
  ASSUME Assignable, UpperLeaves
  PROVE  Good(plan', step')
<1> DEFINE i == step.layer
           s == [step EXCEPT !.at = "upper", !.layer = i - 1]
           c == plan.client
<1>1. /\ plan \in Plan /\ BlocksOK(plan) /\ step \in Step
      /\ ~plan.failed /\ Sound(plan) /\ Scaled(plan)
      /\ Upper(plan, step)
  BY InUpper DEF UpperLeaves
<1>2. i \in Int /\ c.first \in Int /\ c.last \in Int
  BY <1>1, StepFields, PlanFields
<1>3. ASSUME c.has
      PROVE  /\ i = c.last /\ ~(High(c.first) /\ plan.type[c.first] = "device")
             /\ c.first \in Layer /\ c.last \in Layer /\ c.first <= c.last
  BY <1>1, <1>2, <1>3, TopIsNat DEF Upper, Sound, Valid, IsRange, Layer
<1>4. /\ s.at = "upper" /\ s.layer = i - 1
      /\ "upper" \in Places /\ i - 1 \in Int
  BY <1>1, <1>2 DEF Step, Places
<1>5. \/ IsHole(i) /\ Then(LastMoved(plan, c.last - 1), "upper", i - 1)
      \/ ~IsHole(i) /\ \E o \in Spare(i) : Then(Leaves(i, o), "upper", i - 1)
  BY Zenon DEF UpperLeaves, LastMoved
<1> HIDE DEF s
<1>6. CASE IsHole(i) /\ Then(LastMoved(plan, c.last - 1), "upper", i - 1)
  <2>1. PICK n \in Int : n = c.last - 1
    BY <1>2
  <2> DEFINE q == LastMoved(plan, n)
  <2>2. q = LastMoved(plan, n) /\ Then(q, "upper", i - 1)
    BY <1>6, <2>1
  <2> HIDE DEF q
  <2>3. /\ q \in Plan /\ BlocksOK(q)
        /\ SameBlocks(plan, q) /\ q.type = plan.type /\ q.failed = plan.failed
        /\ q.client.has = c.has /\ q.client.first = c.first /\ q.client.last = n
    BY <1>1, <2>2, ClientLastMoved
  <2>4. c.has => c.first < c.last
    BY <1>2, <1>3, <1>6 DEF IsHole
  <2>5. Sound(q)
    <3>1. Valid(q.client)
      BY <1>2, <1>3, <2>1, <2>3, <2>4, TopIsNat DEF Valid, IsRange, Layer
    <3>2. \A j \in Layer : q.m2m[j] = Blender => q.type[j] = "exynos"
      BY <1>1, <2>3 DEF Sound, SameBlocks
    <3>3. \A j \in Layer : Within(j, q.client) => Within(j, c)
      BY <1>2, <2>1, <2>3, LayerIsInt DEF Within
    <3> QED BY <1>1, <2>3, <3>1, <3>2, <3>3 DEF Sound
  <2>6. Scaled(q)
    BY <1>1, <2>3 DEF Scaled, SameBlocks
  <2>7. Upper(q, s)
    BY <1>3, <1>4, <2>1, <2>3 DEF Upper
  <2>8. Stage(q, s)
    BY <1>1, <1>4, <2>3, <2>5, <2>6, <2>7 DEF Stage, Live, Whole
  <2> QED BY <1>1, <1>4, <2>2, <2>3, <2>8, ThenGood DEF s
<1>7. ASSUME ~IsHole(i), NEW o \in Spare(i), Then(Leaves(i, o), "upper", i - 1)
      PROVE  Good(plan', step')
  <2> DEFINE q == Leaves(i, o)
  <2>1. q = Leaves(i, o) /\ Then(q, "upper", i - 1)
    BY <1>7
  <2> HIDE DEF q
  <2>2. q \in Plan /\ BlocksOK(q) /\ (q.failed \/ Spared(plan, q, i))
    BY <1>1, <1>2, <1>7, <2>1, LeavesIs
  <2>3. ASSUME ~q.failed
        PROVE  Stage(q, s)
    <3>1. /\ c.has /\ i \in Layer /\ ClientCut(plan, q, i)
          /\ \A j \in Layer : q.type[j] = IF j = i THEN "device" ELSE plan.type[j]
          /\ Sound(q) /\ Scaled(q)
      BY <2>2, <2>3 DEF Spared
    <3>2. \/ ~q.client.has
          \/ i # c.first /\ q.client.first = c.first /\ q.client.last = i - 1
      BY <1>3, <3>1 DEF ClientCut, Nothing
    <3>3. Upper(q, s)
      BY <1>3, <1>4, <3>1, <3>2 DEF Upper
    <3> QED BY <1>4, <2>3, <3>1, <3>3 DEF Stage, Live, Whole
  <2> QED BY <1>1, <1>4, <2>1, <2>2, <2>3, ThenGood DEF s
<1> QED BY <1>5, <1>6, <1>7

\* It stays: the layers are assigned.
LEMMA UpperStaysGood ==
  ASSUME Assignable, UpperStays
  PROVE  Good(plan', step')
<1>1. /\ plan \in Plan /\ BlocksOK(plan) /\ step \in Step
      /\ ~plan.failed /\ Sound(plan) /\ Scaled(plan)
  BY InUpper DEF UpperStays
<1>2. plan' = plan \/ Stays(step.layer)
  BY DEF UpperStays
<1>3. step' = [step EXCEPT !.at = "windows", !.layer = 0]
  BY DEF UpperStays, Goto
<1>4. "windows" \in Places /\ 0 \in Int
  BY DEF Places
<1>5. step' \in Step /\ step'.at = "windows"
  BY <1>1, <1>3, <1>4 DEF Step, Places
<1>6. plan' \in Plan /\ BlocksOK(plan')
  BY <1>1, <1>2, StaysIs
<1>7. Stage(plan', step')
  BY <1>5, Elsewhere
<1> QED BY <1>5, <1>6, <1>7 DEF Good

-----------------------------------------------------------------------------
(* Where no layer is assigned.                                             *)

\* assignWindow() counts sources.
LEMMA WindowsGiven ==
  ASSUME NEW p \in Plan, BlocksOK(p), NEW place, place = Place(p),
         NEW w, w = [s \in Source |->
                  IF place[s] = -1 THEN -1
                  ELSE Cardinality({t \in Source : 0 <= place[t] /\ place[t] < place[s]})],
         NEW q, q = [p EXCEPT !.window = w]
  PROVE  q \in Plan /\ BlocksOK(q)
<1>1. \A s \in Source :
        Cardinality({t \in Source : 0 <= place[t] /\ place[t] < place[s]}) \in Int
  <2> TAKE s \in Source
  <2> DEFINE T == {t \in Source : 0 <= place[t] /\ place[t] < place[s]}
  <2>1. T \in SUBSET Source /\ Source \in SUBSET Source
    OBVIOUS
  <2> HIDE DEF T
  <2>2. Cardinality(T) \in Nat
    BY <2>1, FewerUsers
  <2>3. Cardinality(T) \in Int
    BY <2>2
  <2> QED BY <2>3 DEF T
<1>2. w \in [Source -> Int]
  BY <1>1
<1>3. q \in Plan
  BY <1>2 DEF Plan
<1>4. SameBlocks(p, q)
  BY DEF Plan, SameBlocks
<1> QED BY <1>3, <1>4, SameBlocksOK

\* Every source gets its window.
LEMMA AssignWindowGood ==
  ASSUME Assignable, AssignWindow
  PROVE  Good(plan', step')
<1>1. plan \in Plan /\ BlocksOK(plan) /\ step \in Step
  BY AssignableFacts
<1> DEFINE place == Place(plan)
           w == [s \in Source |->
                  IF place[s] = -1 THEN -1
                  ELSE Cardinality({t \in Source : 0 <= place[t] /\ place[t] < place[s]})]
<1>2. plan' = [plan EXCEPT !.window = w]
  BY Zenon DEF AssignWindow
<1>3. plan' \in Plan /\ BlocksOK(plan')
  BY <1>1, <1>2, WindowsGiven
<1>4. step' \in Step /\ step'.at = "assigned"
  <2>1. step' = [step EXCEPT !.at = "assigned", !.layer = 0]
    BY Zenon DEF AssignWindow, Goto
  <2>2. "assigned" \in Places /\ 0 \in Int /\ step \in Step
    BY <1>1 DEF Places
  <2> QED BY <2>1, <2>2 DEF Step, Places
<1> QED BY <1>3, <1>4, Elsewhere DEF Good

\* setForceClient(), after every block has been released
ForcedTo(p, comp, otf) ==
  [p EXCEPT !.windows = 0, !.counted = {}, !.miscounted = FALSE,
            !.client = comp, !.otf = otf, !.failed = TRUE]

\* The client then has every layer.
LEMMA ForcedIs ==
  ASSUME NEW p \in Plan, BlocksOK(p), NEW comp \in Composition,
         NEW otf \in [Source -> Overlay \union {NoBlock}],
         \A s \in Source : otf[s] # NoBlock => otf[s] = p.otf[s],
         NEW q, q = ForcedTo(p, comp, otf)
  PROVE  q \in Plan /\ BlocksOK(q)
<1>1. 0 \in 0 .. Word - 1 /\ {} \in SUBSET Source
  BY WordIs
<1>2. q \in Plan
  BY <1>1 DEF Plan, ForcedTo
<1>3. q.otf = otf /\ q.m2m = p.m2m /\ q.users = p.users
  BY DEF Plan, ForcedTo
<1>4. BlocksOK(q)
  BY <1>3 DEF BlocksOK, OtfUsed, M2mUsed, OneUser, BlenderFits
<1> QED BY <1>2, <1>4

\* The client composes all of the layers.
AllClient(p) ==
  /\ \A i \in Layer : p.type[i] = "client"
  /\ p.client = [has |-> TRUE, first |-> 0, last |-> Top]
  /\ p.exynos = Nothing

\* So it does after an error.
LEMMA ForceClientIs ==
  ASSUME Assignable, ForceClient
  PROVE  plan' \in Plan /\ BlocksOK(plan') /\ plan'.failed /\ AllClient(plan')
<1> DEFINE t == WithType(plan, Layer, "client")
           p == Release(t, Block)
           comp == [has |-> TRUE, first |-> 0, last |-> Top]
           otf == [p.otf EXCEPT ![ClientTarget] = NoBlock]
           q == ForcedTo(p, comp, otf)
           n == NoExynos(q)
<1>1. plan \in Plan /\ BlocksOK(plan) /\ step \in Step
  BY AssignableFacts
<1>2. t = WithType(plan, Layer, "client") /\ "client" \in LayerType
  BY DEF LayerType
<1>3. p = Release(t, Block)
  OBVIOUS
<1>4. comp \in Composition
  BY TopIsNat DEF Composition
<1>5. otf = [p.otf EXCEPT ![ClientTarget] = NoBlock]
  OBVIOUS
<1>6. q = ForcedTo(p, comp, otf)
  OBVIOUS
<1>7. n = NoExynos(q)
  OBVIOUS
<1>8. q = [p EXCEPT !.windows = 0, !.counted = {}, !.miscounted = FALSE,
                    !.client = comp, !.otf[ClientTarget] = NoBlock, !.failed = TRUE]
  <2>1. q = [p EXCEPT !.windows = 0, !.counted = {}, !.miscounted = FALSE,
                      !.client = comp, !.otf = otf, !.failed = TRUE]
    BY DEF ForcedTo
  <2> QED BY <2>1
<1>9. PICK b \in TargetBlocks(q) :
        plan' = IF b = Unsupported THEN n ELSE WithTarget(n, ClientTarget, b)
  BY <1>8, Zenon DEF ForceClient
<1> HIDE DEF t, p, comp, otf, q, n
<1>10. /\ t \in Plan /\ BlocksOK(t)
       /\ t.type = [i \in Layer |-> IF i \in Layer THEN "client" ELSE plan.type[i]]
  BY <1>1, <1>2, WithTypeIs
<1>11. p \in Plan /\ BlocksOK(p) /\ SameLayers(t, p)
  <2>1. Block \in SUBSET Block
    OBVIOUS
  <2> QED BY <1>3, <1>10, <2>1, ReleaseIs
<1>12. q \in Plan /\ BlocksOK(q)
  <2>1. /\ otf \in [Source -> Overlay \union {NoBlock}]
        /\ \A s \in Source : otf[s] # NoBlock => otf[s] = p.otf[s]
    BY <1>5, <1>11, PlanFields
  <2> QED BY <1>4, <1>6, <1>11, <2>1, ForcedIs
<1>13. /\ n \in Plan /\ BlocksOK(n) /\ n.users = q.users
       /\ n.disabled = q.disabled /\ SameCounts(q, n)
       /\ n.type = q.type /\ n.client = q.client /\ n.exynos = Nothing /\ n.failed = q.failed
  BY <1>7, <1>12, NoExynosIs
<1>14. b \in TargetBlocks(n)
  BY <1>9, <1>13 DEF TargetBlocks, IsFree, NoWindow, SameCounts
<1>15. n.failed /\ AllClient(n)
  <2>1. q.failed = TRUE /\ q.client = comp /\ q.type = p.type
    BY <1>6, <1>11 DEF ForcedTo, Plan
  <2>2. comp = [has |-> TRUE, first |-> 0, last |-> Top]
    BY DEF comp
  <2> QED BY <1>10, <1>11, <1>13, <2>1, <2>2 DEF AllClient, SameLayers
<1>16. plan' \in Plan /\ BlocksOK(plan') /\ SameLayers(n, plan')
  <2>1. CASE b = Unsupported
    BY <1>9, <1>13, <2>1 DEF SameLayers
  <2>2. CASE b # Unsupported
    <3>1. plan' = WithTarget(n, ClientTarget, b) /\ ClientTarget \in {ClientTarget, ExynosTarget}
      BY <1>9, <2>2
    <3>2. n \in Plan /\ BlocksOK(n)
      BY <1>13
    <3> QED BY <1>14, <2>2, <3>1, <3>2, WithTargetIs
  <2> QED BY <2>1, <2>2
<1> QED BY <1>15, <1>16 DEF AllClient, SameLayers

\* Only the windows are left to be assigned.
LEMMA ForceClientGood ==
  ASSUME Assignable, ForceClient
  PROVE  Good(plan', step') /\ step'.at = "windows"
<1>1. plan' \in Plan /\ BlocksOK(plan')
  BY ForceClientIs
<1>2. step' \in Step /\ step'.at = "windows"
  <2>1. step' = [step EXCEPT !.at = "windows", !.layer = 0]
    BY Zenon DEF ForceClient, Goto
  <2>2. "windows" \in Places /\ 0 \in Int /\ step \in Step
    BY AssignableFacts DEF Places
  <2> QED BY <2>1, <2>2 DEF Step, Places
<1> QED BY <1>1, <1>2, Elsewhere DEF Good

First(s) ==
  s = [at |-> "asked", layer |-> 0, turn |-> 4, from |-> 0, seen |-> -1,
       invalid |-> FALSE, changed |-> FALSE, tries |-> 0]

\* A frame starts with no block given
LEMMA FreshFields ==
  ASSUME NEW k, NEW p, p = Fresh(k)
  PROVE  /\ \A i \in Layer : p.type[i] = "invalid" /\ p.m2m[i] = NoBlock
         /\ \A s \in Source : p.otf[s] = NoBlock
         /\ \A b \in Block : p.users[b] = {}
         /\ p.client = Nothing /\ p.exynos = Nothing /\ ~p.failed
BY DEF Fresh

\* and no layer assigned,
LEMMA FreshIs ==
  ASSUME NEW k, NEW p, p = Fresh(k)
  PROVE  p \in Plan /\ BlocksOK(p)
<1>1. MetadataKept(k) \in SUBSET Layer
  BY DEF MetadataKept
<1>2. Nothing \in Composition /\ 0 \in 0 .. Word - 1
  BY WordIs DEF Nothing, Composition
<1>3. /\ [i \in Layer |-> "invalid"] \in [Layer -> {"invalid", "device", "exynos", "client"}]
      /\ [s \in Source |-> NoBlock] \in [Source -> Overlay \union {NoBlock}]
      /\ [i \in Layer |-> NoBlock] \in [Layer -> Single \union {Blender, NoBlock}]
      /\ [b \in Block |-> {}] \in [Block -> SUBSET Source]
      /\ [s \in Source |-> -1] \in [Source -> Int]
  OBVIOUS
<1>4. p \in Plan
  BY <1>1, <1>2, <1>3 DEF Fresh, Plan
<1>5. /\ \A i \in Layer : p.m2m[i] = NoBlock
      /\ \A s \in Source : p.otf[s] = NoBlock
      /\ \A b \in Block : p.users[b] = {}
  BY FreshFields
<1>6. OtfUsed(p) /\ M2mUsed(p) /\ OneUser(p)
  BY <1>5, BlocksApart DEF OtfUsed, M2mUsed, OneUser, Block
<1>7. BlenderFits(p)
  <2>1. p.users[Blender] = {}
    BY <1>5 DEF Block
  <2> QED BY <2>1, FS_EmptySet, BlocksApart DEF BlenderFits
<1> QED BY <1>4, <1>6, <1>7 DEF BlocksOK

\* as the invariant wants it.
LEMMA FreshGood ==
  ASSUME NEW k, NEW p, p = Fresh(k), NEW s, First(s)
  PROVE  Good(p, s)
<1>1. p \in Plan /\ BlocksOK(p)
  BY FreshIs
<1>2. s \in Step /\ s.at = "asked"
  BY DEF First, Step, Turn
<1>3. /\ \A i \in Layer : p.type[i] = "invalid" /\ p.m2m[i] = NoBlock
      /\ p.client = Nothing /\ p.exynos = Nothing /\ ~p.failed
  BY FreshFields
<1>4. ~Nothing.has /\ NoBlock # Blender
  BY BlocksApart DEF Nothing
<1>5. Sound(p) /\ Composed(p)
  BY <1>3, <1>4 DEF Sound, Composed, Valid, Within
<1>6. Ranged(p) /\ Solid(p)
  BY <1>3, <1>4 DEF Ranged, Solid, Within
<1>7. Stage(p, s)
  BY <1>2, <1>3, <1>4, <1>5, <1>6 DEF Stage, Live, Whole
<1> QED BY <1>1, <1>2, <1>7 DEF Good

\* The next validate that assigns resources
LEMMA NextFrameGood ==
  ASSUME NextFrame
  PROVE  Good(plan', step')
<1>1. plan' = Fresh(kind) /\ First(step')
  BY DEF NextFrame, First
<1> QED BY <1>1, FreshGood

\* The invariant holds at first.
LEMMA AssignableAtFirst ==
  ASSUME AssignmentInit
  PROVE  Assignable
<1>1. kind \in [Layer -> Kind]
  BY AssignmentAssumption DEF AssignmentInit
<1>2. plan = Fresh(kind) /\ First(step)
  BY DEF AssignmentInit, First
<1>3. Good(plan, step)
  BY <1>2, FreshGood
<1> QED BY <1>1, <1>3 DEF Assignable, AssignmentTypeOK, Good

-----------------------------------------------------------------------------
(* The theorems.                                                           *)

\* Every step of assignResource() keeps the invariant.
LEMMA AssignableKept ==
  ASSUME Assignable, [AssignmentNext]_assignmentVars
  PROVE  Assignable'
<1>1. CASE UNCHANGED assignmentVars
  <2>1. plan' = plan /\ step' = step /\ kind' = kind /\ kind \in [Layer -> Kind]
    BY <1>1, AssignableFacts DEF assignmentVars
  <2>2. Good(plan, step)
    BY AssignableFacts DEF Good
  <2> QED BY <2>1, <2>2, Carried
<1>2. CASE AssignmentNext
  <2>1. kind' = kind
    BY <1>2 DEF AssignmentNext, NextFrame, AskedAdded, BeginPass, NextTurn, AddAsked,
         LeaveBlender, LayerToDevice, LayerToClient, LayerFlattens, LayerToBlender,
         MeetClient, TakeOut, TakeIn, EndSandwich, GivenUp, AssignExynosTarget,
         Prioritize, UpdateExynos, LowerLeaves, LowerStays, UpperLeaves, UpperStays,
         AssignWindow, ForceClient
  <2>2. kind \in [Layer -> Kind]
    BY AssignableFacts
  <2>3. ASSUME \/ NextFrame \/ AskedAdded \/ BeginPass \/ NextTurn
               \/ EndSandwich \/ GivenUp \/ AssignExynosTarget \/ Prioritize
        PROVE  Good(plan', step')
    BY <2>3, NextFrameGood, AskedAddedGood, BeginPassGood, NextTurnGood,
       EndSandwichGood, GivenUpGood, AssignExynosTargetGood, PrioritizeGood
  <2>4. ASSUME \/ UpdateExynos \/ LowerLeaves \/ LowerStays \/ UpperLeaves
               \/ UpperStays \/ AssignWindow \/ ForceClient
        PROVE  Good(plan', step')
    BY <2>4, UpdateExynosGood, LowerLeavesGood, LowerStaysGood, UpperLeavesGood,
       UpperStaysGood, AssignWindowGood, ForceClientGood
  <2>5. ASSUME NEW i \in Layer,
               \/ AddAsked(i) \/ LeaveBlender(i) \/ LayerToDevice(i)
               \/ LayerToClient(i) \/ LayerFlattens(i) \/ LayerToBlender(i)
               \/ MeetClient(i) \/ TakeOut(i) \/ TakeIn(i)
        PROVE  Good(plan', step')
    BY <2>5, AddAskedGood, LeaveBlenderGood, LayerToDeviceGood, LayerToClientGood,
       LayerFlattensGood, LayerToBlenderGood, MeetClientGood, TakeOutGood, TakeInGood
  <2>6. Good(plan', step')
    BY <1>2, <2>3, <2>4, <2>5 DEF AssignmentNext
  <2> QED BY <2>1, <2>2, <2>6, Carried
<1> QED BY <1>1, <1>2

\* The invariant holds in every state that assignResource() reaches.
LEMMA AlwaysAssignable == AssignmentSpec => []Assignable
<1>1. AssignmentInit => Assignable
  BY AssignableAtFirst
<1>2. Assignable /\ [AssignmentNext]_assignmentVars => Assignable'
  BY AssignableKept
<1> QED BY <1>1, <1>2, PTL DEF AssignmentSpec

\* In all the passes of assignResourceInternal() mWindowNumUsed keeps its
\* width, though it goes down for layers it was not raised for; a layer or a
\* target has an overlay block where it may have one, a layer no
\* post-processor but a single-source one or the blender; and the layer that
\* assignLayers() or updateClientComposition() goes on with is a number.
THEOREM AssignmentTypeHolds == AssignmentSpec => []AssignmentTypeOK
<1>1. Assignable => AssignmentTypeOK
  BY DEF Assignable
<1> QED BY <1>1, AlwaysAssignable, PTL

\* A set without two different elements has one at most.
LEMMA OneCounted ==
  ASSUME NEW S, \A s, t \in S : s = t
  PROVE  Cardinality(S) <= 1
<1>1. CASE S = {}
  BY <1>1, FS_EmptySet
<1>2. CASE S # {}
  <2>1. PICK s \in S : S = {s}
    BY <1>2
  <2>2. Cardinality({s}) = 1
    BY FS_Singleton
  <2>3. Cardinality(S) = 1
    BY <2>1, <2>2
  <2> QED BY <2>3
<1> QED BY <1>1, <1>2

\* A block never serves two sources, the blender never more than it can take,
\* and what mAssignedSources of a block says is what the layers say, through
\* resetAssignedResource(), resetAssignedState(), initializeInfos() and all
\* the orders in which the layers join, leave and give up the compositions.
THEOREM BlocksStayExclusive == AssignmentSpec => []BlocksExclusive
<1>1. ASSUME Assignable
      PROVE  BlocksExclusive
  <2>1. OtfUsed(plan) /\ M2mUsed(plan) /\ OneUser(plan) /\ BlenderFits(plan)
    BY <1>1 DEF Assignable, BlocksOK
  <2>2. \A b \in Overlay \union Single : Cardinality(plan.users[b]) <= 1
    BY <2>1, OneCounted DEF OneUser
  <2> QED BY <2>1, <2>2 DEF OtfUsed, M2mUsed, BlenderFits, BlocksExclusive
<1> QED BY <1>1, AlwaysAssignable, PTL

-----------------------------------------------------------------------------
(* The second invariant: what the sources have.  No layer the loops have    *)
(* looked at is without a block, a composition has the block of its target, *)
(* and what has a block has been counted.                                   *)

\* The blender has its layers.
Blended(p) == \A i \in Layer : p.type[i] = "exynos" => p.m2m[i] = Blender

\* Only layers of high priority that are opaque have their own window above the
\* first layer of the client.
Clear(p) ==
  p.client.has => \A i \in Layer : p.client.first < i /\ i <= p.client.last =>
                    p.type[i] = "client" \/ ShowsThrough(i)

\* A source has a block, and a window for it.
Served(p, s) == p.otf[s] # NoBlock /\ (p.miscounted \/ s \in p.counted)

\* The layers that assignLayers() has looked at
Looked(p, turn, layer) ==
  \A i \in Layer : Priority[kind[i]] > turn \/ (Priority[kind[i]] = turn /\ i < layer) =>
    p.type[i] # "invalid" /\ (p.type[i] = "device" => Served(p, i))

Targeted(p) == p.client.has => Served(p, ClientTarget)
Resulted(p) == p.exynos.has => Served(p, ExynosTarget)

\* mWindowNumUsed may count a layer that has gone to a composition, but not
\* more than the display has.
Enough(p) ==
  p.miscounted \/ (Cardinality(p.counted) <= p.windows /\ p.windows <= MaxWindow)

\* The layers of the blender when its range may be cut short, and the client's
Held(p) ==
  /\ Ranged(p)
  /\ p.exynos.has =>
       LET last == p.exynos.last
       IN  /\ \A i \in Layer : p.exynos.first <= i /\ i < last => p.type[i] = "exynos"
           /\ p.type[last] = "exynos" \/ (last < Top /\ High(last) /\ High(last + 1))
  /\ \A i \in Layer : p.type[i] = "client" => Within(i, p.client)

\* The sources that have a window, as long as it is not known which of them
\* assignWindow() leaves out
Used(p) == OfType(p, "device") \union {s \in {ClientTarget} : p.client.has}
                               \union {s \in {ExynosTarget} : p.exynos.has}

\* updateExynosComposition() gives the window of the blender to a layer: from
\* there on it is their number that counts.
Fits(p) ==
  p.miscounted \/ (Cardinality(Used(p)) <= p.windows /\ p.windows <= MaxWindow)

Backed(p) == /\ \A i \in Layer : p.type[i] # "invalid"
             /\ \A s \in Used(p) : p.otf[s] # NoBlock

\* What is left when the windows are assigned
Final(p) ==
  IF p.failed
  THEN AllClient(p)
  ELSE /\ Sound(p) /\ Blended(p) /\ Clear(p) /\ Backed(p) /\ Fits(p) /\ Held(p)
       /\ p.client.has => p.type[p.client.last] = "client"

\* The number of sources below that one has its window
Below(p, s) == {t \in Source : 0 <= Place(p)[t] /\ Place(p)[t] < Place(p)[s]}
Windowed(p) ==
  p.window = [s \in Source |-> IF Place(p)[s] = -1 THEN -1 ELSE Cardinality(Below(p, s))]

Filled(p, s) ==
  /\ s.at \in Live => Blended(p) /\ Clear(p)
  /\ s.at \in {"layers", "sandwich", "target", "priority", "alone"} => Enough(p)
  /\ s.at \in {"layers", "sandwich"} => Looked(p, s.turn, s.layer)
  /\ s.at = "layers" => Targeted(p) /\ (s.turn <= 2 => Resulted(p))
  /\ s.at = "sandwich" => /\ s.turn <= 2
                          /\ s.layer \in Layer /\ p.type[s.layer] \in {"exynos", "client"}
                          /\ ~s.changed => Targeted(p) /\ Resulted(p)
  /\ s.at = "target" => Looked(p, 3, Top + 1) /\ Targeted(p)
  /\ s.at \in {"priority", "alone"} =>
       Looked(p, 1, Top + 1) /\ Targeted(p) /\ Resulted(p)
  /\ s.at \in {"lower", "upper"} => Backed(p) /\ Fits(p) /\ Held(p)
  /\ s.at \in {"windows", "assigned"} => Final(p)
  /\ s.at = "assigned" => Windowed(p)

Complete == Filled(plan, step)

\* The client does not change its layers while they are assigned.
LEMMA FilledCarried ==
  ASSUME kind' = kind, Filled(plan', step')
  PROVE  Complete'
<1>1. /\ \A i : High(i)' <=> High(i)
      /\ \A i : ShowsThrough(i)' <=> ShowsThrough(i)
  BY DEF High, ShowsThrough
<1>2. (Blended(plan)' <=> Blended(plan')) /\ (Clear(plan)' <=> Clear(plan'))
  BY <1>1 DEF Blended, Clear
<1>3. /\ Looked(plan, step.turn, step.layer)' <=> Looked(plan', step'.turn, step'.layer)
      /\ Looked(plan, 3, Top + 1)' <=> Looked(plan', 3, Top + 1)
      /\ Looked(plan, 1, Top + 1)' <=> Looked(plan', 1, Top + 1)
  BY DEF Looked, Served
<1>4. /\ Targeted(plan)' <=> Targeted(plan')
      /\ Resulted(plan)' <=> Resulted(plan')
      /\ Enough(plan)' <=> Enough(plan')
  BY DEF Targeted, Resulted, Served, Enough
<1>5. /\ Fits(plan)' <=> Fits(plan')
      /\ Backed(plan)' <=> Backed(plan')
  BY DEF Fits, Backed, Used, OfType
<1>6. Held(plan)' <=> Held(plan')
  BY <1>1 DEF Held, Ranged, Within, IsRange
<1>7. Sound(plan)' <=> Sound(plan')
  BY <1>1 DEF Sound, Valid, Within, IsRange
<1>8. Final(plan)' <=> Final(plan')
  BY <1>2, <1>5, <1>6, <1>7 DEF Final, AllClient
<1>9. Windowed(plan)' <=> Windowed(plan')
  BY DEF Windowed, Below, Place
<1>10. Filled(plan, step)'
  BY <1>2, <1>3, <1>4, <1>5, <1>6, <1>8, <1>9 DEF Filled
<1> QED BY <1>10 DEF Complete

-----------------------------------------------------------------------------
(* What the operators on plans keep of it.                                  *)

\* Sources that are no longer counted
LEMMA UncountedKeeps ==
  ASSUME NEW p \in Plan, NEW S \in SUBSET Source,
         NEW q, q = Uncounted(p, S)
  PROVE  /\ p.miscounted => q.miscounted
         /\ \A s \in Source : s \notin S /\ s \in p.counted => s \in q.counted
         /\ q.otf = p.otf
         /\ Enough(p) => Enough(q)
<1> DEFINE n == (p.windows - Cardinality(S)) % Word
           lost == p.miscounted \/ ~(S \subseteq p.counted)
<1>1. /\ Cardinality(S) \in Nat /\ IsFiniteSet(S)
      /\ p.counted \in SUBSET Source
      /\ Cardinality(p.counted) \in Nat /\ IsFiniteSet(p.counted)
      /\ p.windows \in 0 .. Word - 1
  <2>1. p.counted \in SUBSET Source /\ p.windows \in 0 .. Word - 1
    BY DEF Plan
  <2> QED BY <2>1, FewerUsers
<1>2. q = [p EXCEPT !.windows = n, !.counted = p.counted \ S, !.miscounted = lost]
  BY DEF Uncounted, Plan
<1>3. q.windows = n /\ q.counted = p.counted \ S /\ q.miscounted = lost /\ q.otf = p.otf
  BY <1>2 DEF Plan
<1>4. ASSUME Enough(p), ~lost
      PROVE  Cardinality(q.counted) <= q.windows /\ q.windows <= MaxWindow
  <2>1. S \subseteq p.counted /\ Cardinality(p.counted) <= p.windows /\ p.windows <= MaxWindow
    BY <1>4 DEF Enough
  <2>2. S \intersect p.counted = S
    BY <2>1
  <2>3. Cardinality(p.counted \ S) = Cardinality(p.counted) - Cardinality(p.counted \intersect S)
    BY <1>1, FS_Difference
  <2>4. Cardinality(p.counted \ S) = Cardinality(p.counted) - Cardinality(S)
    BY <2>2, <2>3
  <2>5. Cardinality(S) <= Cardinality(p.counted)
    BY <1>1, <2>1, FS_Subset
  <2>6. PICK k \in Nat : k = p.windows - Cardinality(S)
    BY <1>1, <2>1, <2>5
  <2>7. 0 <= k /\ k < Word
    BY <1>1, <2>6, WordIs
  <2>8. k % Word = k
    BY <2>7, WordIs
  <2> QED BY <1>1, <1>3, <2>1, <2>4, <2>6, <2>8, WordIs
<1> HIDE DEF n
<1>5. Enough(p) => Enough(q)
  BY <1>3, <1>4 DEF Enough
<1> QED BY <1>3, <1>5

\* Source s has the block it had, and is counted if it was.
KeptFor(p, q, s) == q.otf[s] = p.otf[s] /\ (s \in p.counted => s \in q.counted)

\* The sources that are not part of the client's composition keep what they have.
Keeps(p, q) ==
  /\ \A j \in Layer : q.type[j] # "client" =>
       q.type[j] = p.type[j] /\ q.m2m[j] = p.m2m[j] /\ KeptFor(p, q, j)
  /\ KeptFor(p, q, ClientTarget)
  /\ q.exynos.has => p.exynos.has /\ KeptFor(p, q, ExynosTarget)
  /\ p.miscounted => q.miscounted
  /\ Enough(p) => Enough(q)

\* It can be said of one operator after the other,
LEMMA KeepsOn ==
  ASSUME NEW p, NEW q, NEW r, Keeps(p, r), Keeps(r, q)
  PROVE  Keeps(p, q)
BY DEF Keeps, KeptFor

\* and it keeps the parts of the second invariant.
LEMMA KeepsParts ==
  ASSUME NEW p \in Plan, NEW q \in Plan, Keeps(p, q)
  PROVE  /\ Blended(p) => Blended(q)
         /\ \A turn, layer : Looked(p, turn, layer) => Looked(q, turn, layer)
         /\ Targeted(p) /\ p.client.has = q.client.has => Targeted(q)
         /\ Resulted(p) => Resulted(q)
         /\ Enough(p) => Enough(q)
<1>1. Layer \subseteq Source /\ ClientTarget \in Source /\ ExynosTarget \in Source
  BY DEF Source
<1>2. ASSUME NEW s \in Source, KeptFor(p, q, s), Served(p, s)
      PROVE  Served(q, s)
  BY <1>2 DEF KeptFor, Served, Keeps
<1>3. Blended(p) => Blended(q)
  BY DEF Keeps, Blended
<1>4. ASSUME NEW turn, NEW layer, Looked(p, turn, layer)
      PROVE  Looked(q, turn, layer)
  BY <1>1, <1>2, <1>4 DEF Keeps, Looked
<1>5. Targeted(p) /\ p.client.has = q.client.has => Targeted(q)
  BY <1>1, <1>2 DEF Keeps, Targeted
<1>6. Resulted(p) => Resulted(q)
  BY <1>1, <1>2 DEF Keeps, Resulted
<1> QED BY <1>3, <1>4, <1>5, <1>6 DEF Keeps

\* No target is a layer.
LEMMA TargetsApart ==
  /\ ClientTarget \notin Layer /\ ExynosTarget \notin Layer /\ ClientTarget # ExynosTarget
  /\ ClientTarget \in Source /\ ExynosTarget \in Source /\ Layer \subseteq Source
BY DEF Layer, Source, ClientTarget, ExynosTarget

\* Layers that go to the client
LEMMA AddClientKeeps ==
  ASSUME NEW p \in Plan, BlocksOK(p), Valid(p.client), NEW i \in Layer,
         NEW q, q = AddClient(p, i)
  PROVE  Keeps(p, q)
<1> DEFINE comp == Extended(p.client, {i})
           between == {j \in comp.first + 1 .. comp.last - 1 :
                          ~ShowsThrough(j) /\ p.type[j] # "client"}
           device == {j \in between : p.type[j] = "device"}
           a == [p EXCEPT !.client = comp]
           b == Uncounted(a, device)
           c == Free(b, between)
           r == WithType(c, between, "client")
           gone == \A j \in between : p.type[j] # "exynos"
<1>1. comp \in Composition /\ comp.has /\ IsRange(comp)
  BY ClientRange DEF Plan
<1>2. between \in SUBSET Layer /\ device \in SUBSET Source /\ device \subseteq between
  <2>1. \A j \in comp.first + 1 .. comp.last - 1 : j \in Layer
    BY <1>1, TopIsNat DEF IsRange, Layer, Composition
  <2>2. between \in SUBSET Layer
    BY <2>1
  <2> QED BY <2>2 DEF Source
<1>3. q = IF gone THEN r
          ELSE IF ~p.exynos.has THEN [r EXCEPT !.failed = TRUE]
          ELSE IF OfType(r, "exynos") = {} THEN NoExynos(r)
          ELSE [r EXCEPT !.exynos = Extended(Nothing, OfType(r, "exynos"))]
  BY Zenon DEF AddClient
<1>4. /\ a = [p EXCEPT !.client = comp]
      /\ b = Uncounted(a, device)
      /\ c = Free(b, between)
      /\ r = WithType(c, between, "client")
  OBVIOUS
<1> HIDE DEF between, device, a, b, c, r, comp
<1>5. /\ a \in Plan /\ BlocksOK(a) /\ SameBlocks(p, a) /\ SameCounts(p, a)
      /\ a.type = p.type /\ a.exynos = p.exynos
  BY <1>1, <1>4, ClientSet
<1>6. b \in Plan /\ BlocksOK(b) /\ SameBlocks(a, b) /\ SameLayers(a, b)
  BY <1>2, <1>4, <1>5, UncountedIs
<1>7. /\ a.miscounted => b.miscounted
      /\ \A s \in Source : s \notin device /\ s \in a.counted => s \in b.counted
      /\ Enough(a) => Enough(b)
  BY <1>2, <1>4, <1>5, UncountedKeeps
<1>8. /\ c \in Plan /\ SameLayers(b, c) /\ SameCounts(b, c) /\ BlocksOK(c)
      /\ c.m2m = [j \in Layer |-> IF j \in between THEN NoBlock ELSE b.m2m[j]]
  BY <1>2, <1>4, <1>6, FreeIs
<1>9. \A s \in Source : s \notin between => c.otf[s] = b.otf[s]
  BY <1>2, <1>4, <1>6, FreeKeeps
<1>10. /\ r \in Plan /\ BlocksOK(r) /\ SameBlocks(c, r) /\ SameCounts(c, r)
       /\ r.type = [j \in Layer |-> IF j \in between THEN "client" ELSE c.type[j]]
       /\ r.exynos = c.exynos
  <2>1. "client" \in LayerType
    BY DEF LayerType
  <2> QED BY <1>4, <1>8, <2>1, WithTypeIs
<1>11. r.exynos = p.exynos
  BY <1>5, <1>6, <1>8, <1>10 DEF SameLayers
<1>12. \A s \in Source : s \notin between => KeptFor(p, r, s)
  <2> SUFFICES ASSUME NEW s \in Source, s \notin between
               PROVE  KeptFor(p, r, s)
    OBVIOUS
  <2>1. r.otf[s] = p.otf[s]
    BY <1>5, <1>6, <1>9, <1>10 DEF SameBlocks
  <2>2. s \in p.counted => s \in r.counted
    BY <1>2, <1>5, <1>7, <1>8, <1>10 DEF SameCounts
  <2> QED BY <2>1, <2>2 DEF KeptFor
<1>13. \A j \in Layer : r.type[j] # "client" =>
         r.type[j] = p.type[j] /\ r.m2m[j] = p.m2m[j] /\ KeptFor(p, r, j)
  <2> SUFFICES ASSUME NEW j \in Layer, r.type[j] # "client"
               PROVE  r.type[j] = p.type[j] /\ r.m2m[j] = p.m2m[j] /\ KeptFor(p, r, j)
    OBVIOUS
  <2>1. j \notin between
    BY <1>10
  <2>2. r.type[j] = p.type[j]
    BY <1>5, <1>6, <1>8, <1>10, <2>1 DEF SameLayers
  <2>3. r.m2m[j] = p.m2m[j]
    BY <1>5, <1>6, <1>8, <1>10, <2>1 DEF SameBlocks
  <2> QED BY <1>12, <2>1, <2>2, <2>3, TargetsApart
<1>14. p.miscounted => r.miscounted
  BY <1>5, <1>7, <1>8, <1>10 DEF SameCounts
<1>15. Enough(p) => Enough(r)
  BY <1>5, <1>7, <1>8, <1>10 DEF SameCounts, Enough
<1>16. KeptFor(p, r, ClientTarget) /\ KeptFor(p, r, ExynosTarget)
  BY <1>2, <1>12, TargetsApart
<1>17. Keeps(p, r)
  BY <1>11, <1>13, <1>14, <1>15, <1>16 DEF Keeps
<1>18. Keeps(r, q)
  <2>1. CASE q = r
    BY <2>1 DEF Keeps, KeptFor
  <2>2. CASE q = [r EXCEPT !.failed = TRUE]
    <3>1. /\ SameBlocks(r, q) /\ SameCounts(r, q) /\ q.type = r.type /\ q.exynos = r.exynos
      <4>1. r \in Plan /\ BlocksOK(r) /\ TRUE \in BOOLEAN
        BY <1>10
      <4> QED BY <2>2, <4>1, FailedSet
    <3> QED BY <3>1 DEF Keeps, KeptFor, SameBlocks, SameCounts, Enough
  <2>3. CASE q = NoExynos(r)
    <3>1. /\ q.type = r.type /\ q.m2m = r.m2m /\ q.exynos = Nothing /\ SameCounts(r, q)
      BY <1>10, <2>3, NoExynosIs
    <3>2. q.otf = [r.otf EXCEPT ![ExynosTarget] = NoBlock]
      BY <1>10, <2>3 DEF NoExynos, Plan
    <3>3. \A s \in Source : s # ExynosTarget => q.otf[s] = r.otf[s]
      BY <1>10, <3>2 DEF Plan
    <3> QED
      BY <3>1, <3>3, TargetsApart DEF Keeps, KeptFor, SameCounts, Enough, Nothing
  <2>4. CASE p.exynos.has /\ q = [r EXCEPT !.exynos = Extended(Nothing, OfType(r, "exynos"))]
    <3>1. /\ q.type = r.type /\ q.m2m = r.m2m /\ q.otf = r.otf
          /\ q.windows = r.windows /\ q.counted = r.counted /\ q.miscounted = r.miscounted
      BY <1>10, <2>4 DEF Plan
    <3> QED BY <1>11, <2>4, <3>1 DEF Keeps, KeptFor, Enough
  <2> QED BY <1>3, <2>1, <2>2, <2>3, <2>4, Zenon
<1> QED BY <1>17, <1>18, KeepsOn

\* The blender is given up.
LEMMA NoExynosKeeps ==
  ASSUME NEW p \in Plan, BlocksOK(p),
         NEW q, q = NoExynos(p)
  PROVE  /\ \A s \in Source : s # ExynosTarget => q.otf[s] = p.otf[s]
         /\ Keeps(p, q)
<1>1. /\ q.type = p.type /\ q.m2m = p.m2m /\ q.exynos = Nothing /\ SameCounts(p, q)
  BY NoExynosIs
<1>2. q.otf = [p.otf EXCEPT ![ExynosTarget] = NoBlock]
  BY DEF NoExynos, Plan
<1>3. \A s \in Source : s # ExynosTarget => q.otf[s] = p.otf[s]
  BY <1>2 DEF Plan
<1> QED
  BY <1>1, <1>3, TargetsApart DEF Keeps, KeptFor, SameCounts, Enough, Nothing

\* A layer goes to the client, and others with it.
LEMMA ToClientKeeps ==
  ASSUME NEW p \in Plan, BlocksOK(p), Valid(p.client), NEW i \in Layer,
         NEW q, q = ToClient(p, i)
  PROVE  Keeps(p, q)
<1> DEFINE F == {i}
           a == Free(p, F)
           r == WithType(a, F, "client")
<1>1. F \in SUBSET Layer /\ "client" \in LayerType /\ \A j : j \in F <=> j = i
  BY DEF LayerType
<1>2. a = Free(p, F) /\ r = WithType(a, F, "client") /\ q = AddClient(r, i)
  BY DEF ToClient
<1> HIDE DEF a, r, F
<1>3. /\ a \in Plan /\ BlocksOK(a) /\ SameLayers(p, a) /\ SameCounts(p, a)
      /\ a.m2m = [j \in Layer |-> IF j \in F THEN NoBlock ELSE p.m2m[j]]
  BY <1>1, <1>2, FreeIs
<1>4. \A s \in Source : s \notin F => a.otf[s] = p.otf[s]
  BY <1>1, <1>2, FreeKeeps
<1>5. /\ r \in Plan /\ BlocksOK(r) /\ SameBlocks(a, r) /\ SameCounts(a, r)
      /\ r.type = [j \in Layer |-> IF j \in F THEN "client" ELSE a.type[j]]
      /\ r.client = a.client /\ r.exynos = a.exynos
  BY <1>1, <1>2, <1>3, WithTypeIs
<1>6. \A s \in Source : s # i => KeptFor(p, r, s)
  BY <1>1, <1>3, <1>4, <1>5 DEF KeptFor, SameCounts, SameBlocks
<1>7. \A j \in Layer : r.type[j] # "client" =>
        r.type[j] = p.type[j] /\ r.m2m[j] = p.m2m[j] /\ j # i
  BY <1>1, <1>3, <1>5 DEF SameLayers, SameBlocks
<1>8. (p.miscounted => r.miscounted) /\ (Enough(p) => Enough(r)) /\ r.exynos = p.exynos
  BY <1>3, <1>5 DEF SameCounts, SameLayers, Enough
<1>9. Keeps(p, r)
  BY <1>6, <1>7, <1>8, TargetsApart DEF Keeps
<1>10. Valid(r.client)
  BY <1>3, <1>5 DEF SameLayers
<1>11. Keeps(r, q)
  BY <1>2, <1>5, <1>10, AddClientKeeps
<1> QED BY <1>9, <1>11, KeepsOn

\* The range of the client is clear when it has taken in what lies inside.
LEMMA ClearTook ==
  ASSUME NEW p \in Plan, NEW q \in Plan, NEW i \in Layer, ClientTook(p, q, i), Composed(q)
  PROVE  Clear(q)
<1> SUFFICES ASSUME NEW j \in Layer, q.client.has, q.client.first < j, j <= q.client.last
             PROVE  q.type[j] = "client" \/ ShowsThrough(j)
  BY DEF Clear
<1>1. q.client.first \in Int /\ q.client.last \in Int /\ j \in Int
  BY PlanFields, LayerIsInt
<1>2. CASE j = q.client.last
  BY <1>2 DEF Composed
<1>3. CASE j < q.client.last
  BY <1>3 DEF ClientTook, Joins
<1> QED BY <1>1, <1>2, <1>3

\* The range of the client stays clear as long as it does not lose its layers.
LEMMA ClearKept ==
  ASSUME NEW p, NEW q, Clear(p), q.client = p.client,
         \A i \in Layer : p.client.first < i /\ p.type[i] = "client" => q.type[i] = "client"
  PROVE  Clear(q)
BY DEF Clear

\* Both hold when a layer goes to the client.
LEMMA ToClientFills ==
  ASSUME NEW p \in Plan, BlocksOK(p), Sound(p), Composed(p), Blended(p), NEW i \in Layer,
         NEW q, q = ToClient(p, i)
  PROVE  q \in Plan /\ BlocksOK(q) /\ Keeps(p, q) /\ Blended(q) /\ Clear(q)
<1>1. q \in Plan /\ BlocksOK(q) /\ ClientTook(p, q, i) /\ Composed(q)
  BY ToClientTakes
<1>2. Valid(p.client)
  BY DEF Sound
<1>3. Keeps(p, q)
  BY <1>2, ToClientKeeps
<1>4. Blended(q)
  BY <1>1, <1>3, KeepsParts
<1>5. Clear(q)
  BY <1>1, ClearTook
<1> QED BY <1>1, <1>3, <1>4, <1>5

-----------------------------------------------------------------------------
(* What each action makes of the second invariant.                          *)

\* Nothing is said of a plan that is given up.
LEMMA Forced ==
  ASSUME NEW p, NEW s, s.at = "forced"
  PROVE  Filled(p, s)
BY DEF Filled, Live

\* A pass needs the blender to have its layers and the client its range.
LEMMA PassFilled ==
  ASSUME NEW p, NEW s, s.at \in {"asked", "pass", "pierced", "untargeted"}, Blended(p), Clear(p)
  PROVE  Filled(p, s)
BY DEF Filled, Live

\* A handler is done.
LEMMA ThenFilled ==
  ASSUME step \in Step,
         NEW p \in Plan, NEW place \in Places, NEW i \in Int,
         Then(p, place, i),
         ~p.failed => \A s \in Step :
           /\ s.at = place /\ s.layer = i
           /\ s.turn = step.turn /\ s.from = step.from /\ s.changed = step.changed
           => Filled(p, s)
  PROVE  Filled(plan', step')
<1>1. plan' = p /\ p.failed \in BOOLEAN
  BY PlanFields DEF Then
<1>2. CASE p.failed
  <2>1. step' = [step EXCEPT !.at = "forced", !.layer = 0]
    BY <1>2 DEF Then, Goto
  <2>2. step'.at = "forced"
    BY <2>1 DEF Step
  <2> QED BY <1>1, <2>2, Forced
<1>3. CASE ~p.failed
  <2>1. step' = [step EXCEPT !.at = place, !.layer = i]
    BY <1>3 DEF Then, Goto
  <2>2. step' \in Step
    BY <2>1, StepMoved
  <2>3. /\ step'.at = place /\ step'.layer = i
        /\ step'.turn = step.turn /\ step'.from = step.from /\ step'.changed = step.changed
    BY <2>1 DEF Step
  <2> QED BY <1>1, <1>3, <2>2, <2>3
<1> QED BY <1>1, <1>2, <1>3

\* All over again
LEMMA RetryFilled ==
  ASSUME step \in Step, NEW p \in Plan, Retry(p),
         ~p.failed => Blended(p) /\ Clear(p)
  PROVE  Filled(plan', step')
<1> DEFINE place == IF p.failed \/ step.tries + 1 = MaxTries THEN "forced" ELSE "pass"
<1>1. plan' = p
  BY DEF Retry
<1>2. step' = [step EXCEPT !.tries = step.tries + 1, !.layer = 0, !.at = place]
  BY DEF Retry, Step
<1>3. place \in {"forced", "pass"} /\ (place = "pass" => ~p.failed)
  OBVIOUS
<1> HIDE DEF place
<1>4. step'.at = place
  BY <1>2 DEF Step
<1> QED BY <1>1, <1>3, <1>4, Forced, PassFilled

\* What both invariants say at the places of assignLayers(),
LEMMA FilledLayers ==
  ASSUME Assignable, Complete, At("layers")
  PROVE  /\ Blended(plan) /\ Clear(plan) /\ Enough(plan)
         /\ Looked(plan, step.turn, step.layer)
         /\ Targeted(plan) /\ (step.turn <= 2 => Resulted(plan))
BY DEF Complete, Filled, Live, At

\* of handleSandwitchedExynosCompositionLayer()
LEMMA FilledSandwich ==
  ASSUME Assignable, Complete, At("sandwich")
  PROVE  /\ Blended(plan) /\ Clear(plan) /\ Enough(plan)
         /\ Looked(plan, step.turn, step.layer)
         /\ step.turn <= 2
         /\ step.layer \in Layer /\ plan.type[step.layer] \in {"exynos", "client"}
         /\ ~step.changed => Targeted(plan) /\ Resulted(plan)
BY DEF Complete, Filled, Live, At

\* and after the layers.
LEMMA FilledAfter ==
  ASSUME Assignable, Complete, step.at \in {"priority", "alone"}
  PROVE  /\ Blended(plan) /\ Clear(plan) /\ Enough(plan)
         /\ Looked(plan, 1, Top + 1) /\ Targeted(plan) /\ Resulted(plan)
BY DEF Complete, Filled, Live

\* Everywhere the layers are assigned
LEMMA FilledLive ==
  ASSUME Complete, step.at \in Live
  PROVE  Blended(plan) /\ Clear(plan)
BY DEF Complete, Filled

\* A layer the client asked to compose goes to it before the first pass.
LEMMA AddAskedFilled ==
  ASSUME Assignable, Complete, NEW i \in Layer, AddAsked(i)
  PROVE  Filled(plan', step')
<1> DEFINE p == ToClient(plan, i)
<1>1. /\ plan \in Plan /\ BlocksOK(plan) /\ step \in Step
      /\ Sound(plan) /\ Composed(plan) /\ Blended(plan)
  BY AssignableFacts, FilledLive DEF AddAsked, At, Stage, Live
<1>2. p = ToClient(plan, i) /\ Then(p, "asked", i + 1)
  BY DEF AddAsked
<1>3. "asked" \in Places /\ i + 1 \in Int
  BY LayerIsInt DEF Places
<1> HIDE DEF p
<1>4. p \in Plan /\ Blended(p) /\ Clear(p)
  BY <1>1, <1>2, ToClientFills
<1>5. \A s \in Step : s.at = "asked" => Filled(p, s)
  BY <1>4, PassFilled
<1> QED BY <1>1, <1>2, <1>3, <1>4, <1>5, ThenFilled

\* All such layers have gone to it.
LEMMA AskedAddedFilled ==
  ASSUME Assignable, Complete, AskedAdded
  PROVE  Filled(plan', step')
<1>1. plan' = plan /\ step' = [step EXCEPT !.at = "pass", !.layer = 0] /\ step.at = "asked"
  BY DEF AskedAdded, Goto, At
<1>2. step'.at = "pass"
  BY <1>1, AssignableFacts DEF Step
<1>3. Blended(plan) /\ Clear(plan)
  BY <1>1, FilledLive DEF Live
<1>4. step'.at \in {"asked", "pass", "pierced", "untargeted"}
  BY <1>2
<1>5. Filled(plan, step')
  BY <1>3, <1>4, PassFilled
<1> QED BY <1>1, <1>5

\* A source is counted while there is a window for it.
LEMMA CountedKeeps ==
  ASSUME NEW p \in Plan, NEW s \in Source,
         NEW q, q = Counted(p, s)
  PROVE  /\ q.otf = p.otf /\ q.miscounted = p.miscounted
         /\ \A t \in Source : t \in p.counted => t \in q.counted
         /\ s \in q.counted
         /\ ~NoWindow(p) => /\ q.windows = p.windows + 1 /\ q.windows <= MaxWindow
                            /\ Enough(p) => Enough(q)
<1> DEFINE n == (p.windows + 1) % Word
           counted == p.counted \union {s}
<1>1. /\ p.counted \in SUBSET Source
      /\ p.windows \in 0 .. Word - 1 /\ (~NoWindow(p) => p.windows < MaxWindow)
      /\ MaxWindow < Word
  BY WordIs, AssignmentAssumption DEF Plan, NoWindow
<1>2. /\ p.windows + 1 \in Nat
      /\ ~NoWindow(p) => p.windows + 1 <= MaxWindow /\ p.windows + 1 < Word
  BY <1>1, WordIs
<1>3. ~NoWindow(p) => n = p.windows + 1
  BY <1>2, WordIs
<1>4. q = [p EXCEPT !.windows = n, !.counted = counted]
  BY DEF Counted, Plan
<1> HIDE DEF n, counted
<1>5. /\ q.windows = n /\ q.counted = counted
      /\ q.miscounted = p.miscounted /\ q.otf = p.otf
  BY <1>4 DEF Plan
<1>6. ASSUME ~NoWindow(p), Enough(p)
      PROVE  Enough(q)
  <2>1. IsFiniteSet(p.counted) /\ Cardinality(p.counted) \in Nat
    BY <1>1, FewerUsers
  <2>2. Cardinality(p.counted \union {s}) \in {Cardinality(p.counted), Cardinality(p.counted) + 1}
    BY <2>1, FS_AddElement
  <2>3. CASE p.miscounted
    BY <1>5, <2>3 DEF Enough
  <2>4. CASE ~p.miscounted
    <3>1. Cardinality(p.counted) <= p.windows
      BY <1>6, <2>4 DEF Enough
    <3>2. Cardinality(counted) <= p.windows + 1
      BY <1>1, <2>1, <2>2, <3>1 DEF counted
    <3> QED BY <1>2, <1>3, <1>5, <1>6, <3>2 DEF Enough
  <2> QED BY <2>3, <2>4
<1> QED BY <1>2, <1>3, <1>5, <1>6 DEF counted

\* A target gets its block.
LEMMA WithTargetKeeps ==
  ASSUME NEW p \in Plan, BlocksOK(p), NEW target \in {ClientTarget, ExynosTarget},
         NEW b \in TargetBlocks(p), b # Unsupported,
         NEW q, q = WithTarget(p, target, b)
  PROVE  /\ \A s \in Source : s # target => KeptFor(p, q, s)
         /\ Served(q, target)
         /\ q.miscounted = p.miscounted
         /\ Enough(p) => Enough(q)
<1> DEFINE r == AssignOverlay(p, b, target)
<1>1. r = AssignOverlay(p, b, target) /\ q = Counted(r, target)
  BY DEF WithTarget
<1> HIDE DEF r
<1>2. b \in Overlay /\ p.users[b] = {} /\ target \in Source /\ ~NoWindow(p) /\ b # NoBlock
  BY DEF TargetBlocks, IsFree, Source, Unsupported
<1>3. r \in Plan /\ SameCounts(p, r)
  BY <1>1, <1>2, AssignOverlayIs
<1>4. r.otf = [p.otf EXCEPT ![target] = b]
  BY <1>1 DEF AssignOverlay, Plan
<1>5. p.otf \in [Source -> Overlay \union {NoBlock}]
  BY PlanFields
<1>6. ~NoWindow(r)
  BY <1>2, <1>3 DEF NoWindow, SameCounts
<1>7. /\ q.otf = r.otf /\ q.miscounted = r.miscounted
      /\ \A t \in Source : t \in r.counted => t \in q.counted
      /\ target \in q.counted
      /\ Enough(r) => Enough(q)
  BY <1>1, <1>2, <1>3, <1>6, CountedKeeps
<1>8. Enough(p) => Enough(r)
  BY <1>3 DEF SameCounts, Enough
<1>9. Served(q, target)
  BY <1>2, <1>4, <1>5, <1>7 DEF Served
<1>10. \A s \in Source : s # target => KeptFor(p, q, s)
  BY <1>3, <1>4, <1>5, <1>7 DEF KeptFor, SameCounts
<1> QED BY <1>3, <1>7, <1>8, <1>9, <1>10 DEF SameCounts

\* What is said of a plan when assignLayers() goes on
LEMMA LayersFilled ==
  ASSUME NEW p, NEW s, s.at = "layers",
         Blended(p), Clear(p), Enough(p), Looked(p, s.turn, s.layer),
         Targeted(p), s.turn <= 2 => Resulted(p)
  PROVE  Filled(p, s)
BY DEF Filled, Live

\* A pass starts with the blender as it was and no window counted.
LEMMA StartPassKeeps ==
  ASSUME NEW p \in Plan, BlocksOK(p), NEW q, q = StartPass(p)
  PROVE  /\ \A i \in Layer : p.m2m[i] = Blender => q.m2m[i] = Blender
         /\ Enough(q)
<1> DEFINE B == Overlay \union Single
           r == Release(p, B)
<1>1. B \in SUBSET Block
  BY DEF Block
<1>2. r = Release(p, B)
  OBVIOUS
<1>3. q = [r EXCEPT !.windows = 0, !.counted = {}, !.miscounted = FALSE]
  BY DEF StartPass
<1> HIDE DEF r, B
<1>4. r \in Plan /\ SameLayers(p, r) /\ BlocksOK(r) /\ Rid(p, r, B)
  BY <1>1, <1>2, ReleaseIs
<1>5. q.windows = 0 /\ q.counted = {} /\ q.m2m = r.m2m
  BY <1>3, <1>4 DEF Plan
<1>6. \A i \in Layer : p.m2m[i] = Blender => q.m2m[i] = Blender
  BY <1>4, <1>5, BlocksApart DEF B, Rid
<1>7. Cardinality({}) = 0
  BY FS_EmptySet
<1> QED BY <1>5, <1>6, <1>7, WordIs DEF Enough

\* No layer has more than the highest priority.
LEMMA HighestTurn ==
  ASSUME kind \in [Layer -> Kind], NEW p
  PROVE  Looked(p, 4, 0)
BY PriorityIs, LayerIsInt DEF Looked, Turn, Layer

\* resetAssignedResources() and the block of the client target
LEMMA BeginPassFilled ==
  ASSUME Assignable, Complete, BeginPass
  PROVE  Filled(plan', step')
<1> DEFINE p == StartPass(plan)
<1>1. /\ plan \in Plan /\ BlocksOK(plan) /\ step \in Step /\ kind \in [Layer -> Kind]
      /\ Blended(plan) /\ Clear(plan)
  BY AssignableFacts, FilledLive DEF BeginPass, At, Live
<1>2. p = StartPass(plan)
  OBVIOUS
<1>3. \/ /\ plan' = p /\ ~p.client.has
         /\ step' = [step EXCEPT !.at = "layers", !.layer = 0, !.turn = 4]
      \/ \E b \in TargetBlocks(p) :
           IF b = Unsupported
           THEN plan' = [p EXCEPT !.failed = TRUE] /\ Goto("forced", 0)
           ELSE /\ plan' = WithTarget(p, ClientTarget, b)
                /\ step' = [step EXCEPT !.at = "layers", !.layer = 0, !.turn = 4]
  BY DEF BeginPass
<1> HIDE DEF p
<1>4. /\ p \in Plan /\ BlocksOK(p)
      /\ p.type = plan.type /\ p.client = plan.client
      /\ \A i \in Layer : plan.m2m[i] = Blender => p.m2m[i] = Blender
      /\ Enough(p)
  BY <1>1, <1>2, StartPassIs, StartPassKeeps DEF SameLayers
<1>5. Blended(p) /\ Clear(p)
  BY <1>1, <1>4 DEF Blended, Clear
<1>6. ASSUME NEW q, plan' = q, Blended(q), Clear(q), Enough(q), Targeted(q),
             step' = [step EXCEPT !.at = "layers", !.layer = 0, !.turn = 4]
      PROVE  Filled(plan', step')
  <2>1. step'.at = "layers" /\ step'.turn = 4 /\ step'.layer = 0
    BY <1>1, <1>6 DEF Step
  <2>2. Looked(q, 4, 0)
    BY <1>1, HighestTurn
  <2>3. Looked(q, step'.turn, step'.layer)
    BY <2>1, <2>2
  <2>4. step'.turn <= 2 => Resulted(q)
    BY <2>1
  <2>5. Filled(q, step')
    BY <1>6, <2>1, <2>3, <2>4, LayersFilled
  <2> QED BY <1>6, <2>5
<1>7. CASE /\ plan' = p /\ ~p.client.has
           /\ step' = [step EXCEPT !.at = "layers", !.layer = 0, !.turn = 4]
  BY <1>4, <1>5, <1>6, <1>7 DEF Targeted
<1>8. ASSUME NEW b \in TargetBlocks(p), b # Unsupported,
             plan' = WithTarget(p, ClientTarget, b),
             step' = [step EXCEPT !.at = "layers", !.layer = 0, !.turn = 4]
      PROVE  Filled(plan', step')
  <2> DEFINE q == WithTarget(p, ClientTarget, b)
  <2>1. q = WithTarget(p, ClientTarget, b) /\ plan' = q
    BY <1>8
  <2>2. ClientTarget \in {ClientTarget, ExynosTarget}
    OBVIOUS
  <2> HIDE DEF q
  <2>3. q \in Plan /\ SameLayers(p, q) /\ q.m2m = p.m2m
    BY <1>4, <1>8, <2>1, <2>2, WithTargetIs
  <2>4. Served(q, ClientTarget) /\ Enough(q)
    BY <1>4, <1>8, <2>1, <2>2, WithTargetKeeps
  <2>5. Blended(q) /\ Clear(q) /\ Targeted(q)
    BY <1>5, <2>3, <2>4 DEF Blended, Clear, Targeted, SameLayers
  <2> QED BY <1>6, <1>8, <2>1, <2>4, <2>5
<1>9. CASE plan' = [p EXCEPT !.failed = TRUE] /\ Goto("forced", 0)
  <2>1. step' = [step EXCEPT !.at = "forced", !.layer = 0]
    BY <1>9 DEF Goto
  <2>2. step'.at = "forced"
    BY <1>1, <2>1 DEF Step
  <2> QED BY <2>2, Forced
<1> QED BY <1>3, <1>7, <1>8, <1>9

\* assignLayers() is done with a priority.
LEMMA NextTurnFilled ==
  ASSUME Assignable, Complete, NextTurn
  PROVE  Filled(plan', step')
<1>1. plan' = plan /\ At("layers") /\ Waiting = {}
  BY DEF NextTurn
<1>2. plan \in Plan /\ step \in Step /\ kind \in [Layer -> Kind]
  BY <1>1, InLayers
<1>3. /\ Blended(plan) /\ Clear(plan) /\ Enough(plan)
      /\ Looked(plan, step.turn, step.layer)
      /\ Targeted(plan) /\ (step.turn <= 2 => Resulted(plan))
  BY <1>1, FilledLayers
<1>4. step.turn \in 1 .. 4 /\ step.layer \in Int
  BY <1>2, StepFields DEF Turn
<1>5. \A i \in Layer : /\ Priority[kind[i]] \in 1 .. 4
                       /\ i \in Int /\ i < Top + 1 /\ 0 <= i
  BY <1>2, PriorityIs, LayerIsInt, TopIsNat DEF Turn, Layer
<1>6. \A i \in Layer : Priority[kind[i]] >= step.turn =>
        plan.type[i] # "invalid" /\ (plan.type[i] = "device" => Served(plan, i))
  <2> SUFFICES ASSUME NEW i \in Layer, Priority[kind[i]] >= step.turn
               PROVE  plan.type[i] # "invalid" /\ (plan.type[i] = "device" => Served(plan, i))
    OBVIOUS
  <2>1. CASE Priority[kind[i]] = step.turn /\ step.layer <= i
    <3>1. plan.type[i] \in {"client", "exynos"}
      BY <1>1, <1>4, <1>5, <2>1 DEF Waiting
    <3> QED BY <3>1
  <2>2. CASE ~(Priority[kind[i]] = step.turn /\ step.layer <= i)
    BY <1>3, <1>4, <1>5, <2>2 DEF Looked
  <2> QED BY <2>1, <2>2
<1>7. CASE step.turn = 3
  <2>1. step' = [step EXCEPT !.at = "target"]
    BY <1>7 DEF NextTurn
  <2>2. step'.at = "target"
    BY <1>2, <2>1 DEF Step
  <2>3. Looked(plan, 3, Top + 1)
    BY <1>5, <1>6, <1>7 DEF Looked
  <2> QED BY <1>1, <1>3, <2>2, <2>3 DEF Filled, Live
<1>8. CASE step.turn = 1
  <2>1. step' = [step EXCEPT !.at = "priority"]
    BY <1>8 DEF NextTurn
  <2>2. step'.at = "priority"
    BY <1>2, <2>1 DEF Step
  <2>3. Looked(plan, 1, Top + 1)
    BY <1>5, <1>6, <1>8 DEF Looked
  <2> QED BY <1>1, <1>3, <1>8, <2>2, <2>3 DEF Filled, Live
<1>9. CASE step.turn \in {2, 4}
  <2>1. step' = [step EXCEPT !.turn = step.turn - 1, !.layer = 0]
    BY <1>2, <1>9 DEF NextTurn, Step
  <2>2. step'.at = "layers" /\ step'.turn = step.turn - 1 /\ step'.layer = 0
    BY <1>1, <1>2, <2>1 DEF Step, At
  <2>3. Looked(plan, step.turn - 1, 0)
    BY <1>4, <1>5, <1>6 DEF Looked
  <2>4. step.turn - 1 <= 2 => Resulted(plan)
    BY <1>3, <1>9
  <2> QED BY <1>1, <1>3, <2>2, <2>3, <2>4, LayersFilled
<1> QED BY <1>4, <1>7, <1>8, <1>9

\* The layer gets an overlay block and a window.
LEMMA ByDeviceKeeps ==
  ASSUME NEW p \in Plan, BlocksOK(p), NEW i \in Layer, p.m2m[i] = NoBlock,
         NEW o, Offered(p, o),
         NEW q, q = ByDevice(p, i, o)
  PROVE  /\ \A s \in Source : s # i => KeptFor(p, q, s)
         /\ Served(q, i)
         /\ q.miscounted = p.miscounted
         /\ ~NoWindow(p) => /\ q.windows = p.windows + 1 /\ q.windows <= MaxWindow
                            /\ Enough(p) => Enough(q)
<1> DEFINE a == AssignOverlay(p, o.otf, i)
           b == AssignM2M(a, o.m2m, i)
           g == Given(p, i, o)
           F == {i}
           r == WithType(g, F, "device")
<1>1. /\ o.otf \in Overlay /\ p.users[o.otf] = {}
      /\ o.m2m \in Single \union {NoBlock}
      /\ o.m2m # NoBlock => p.users[o.m2m] = {}
  BY DEF Offered
<1>2. /\ a = AssignOverlay(p, o.otf, i) /\ b = AssignM2M(a, o.m2m, i)
      /\ g = IF o.m2m = NoBlock THEN a ELSE b
      /\ r = WithType(g, F, "device") /\ q = Counted(r, i)
  BY <1>1, BlocksApart DEF Given, ByDevice
<1>3. i \in Source /\ "device" \in LayerType
  BY DEF Source, LayerType
<1>4. /\ a.m2m = p.m2m /\ a.users = [p.users EXCEPT ![o.otf] = p.users[o.otf] \union {i}]
      /\ a.otf = [p.otf EXCEPT ![i] = o.otf]
  BY DEF AssignOverlay, Plan
<1> HIDE DEF a, b, g, r, F
<1>5. a \in Plan /\ BlocksOK(a) /\ SameLayers(p, a) /\ SameCounts(p, a)
  BY <1>1, <1>2, <1>3, AssignOverlayIs
<1>6. g \in Plan /\ BlocksOK(g) /\ SameCounts(p, g) /\ g.otf = a.otf
  <2>1. CASE o.m2m = NoBlock
    BY <1>2, <1>5, <2>1
  <2>2. CASE o.m2m # NoBlock
    <3>1. o.m2m \in Single /\ o.m2m # Blender /\ o.m2m # o.otf /\ o.m2m \in Block
      BY <1>1, <2>2, BlocksApart DEF Block
    <3>2. a.users[o.m2m] = {}
      BY <1>1, <1>4, <2>2, <3>1, PlanFields
    <3>3. a.m2m[i] = NoBlock /\ o.m2m \in Single \union {Blender}
      BY <1>4, <3>1
    <3>4. PICK m \in Single \union {Blender} : m = o.m2m
      BY <3>3
    <3>5. a.m2m[i] = NoBlock /\ (m \in Single => a.users[m] = {}) /\ m # Blender /\ b = AssignM2M(a, m, i)
      BY <1>2, <3>1, <3>2, <3>3, <3>4
    <3>6. /\ b \in Plan
          /\ SameLayers(a, b) /\ SameCounts(a, b)
          /\ b.otf = a.otf
          /\ b.m2m = [a.m2m EXCEPT ![i] = m]
          /\ BlocksOK(b)
      BY <1>5, <3>5, AssignM2MIs
    <3>7. g = b
      BY <1>2, <2>2
    <3>8. SameCounts(p, b)
      BY <1>5, <3>6 DEF SameCounts
    <3> QED BY <3>6, <3>7, <3>8
  <2> QED BY <2>1, <2>2
<1>7. r \in Plan /\ SameBlocks(g, r) /\ SameCounts(g, r)
  BY <1>2, <1>3, <1>6, WithTypeIs
<1>8. r.otf = a.otf /\ SameCounts(p, r)
  BY <1>6, <1>7 DEF SameBlocks, SameCounts
<1>9. ~NoWindow(p) => ~NoWindow(r)
  BY <1>8 DEF NoWindow, SameCounts
<1>10. /\ q.otf = r.otf /\ q.miscounted = r.miscounted
       /\ \A t \in Source : t \in r.counted => t \in q.counted
       /\ i \in q.counted
       /\ ~NoWindow(p) => /\ q.windows = r.windows + 1 /\ q.windows <= MaxWindow
                          /\ Enough(r) => Enough(q)
  BY <1>2, <1>3, <1>7, <1>9, CountedKeeps
<1>11. Enough(p) => Enough(r)
  BY <1>8 DEF SameCounts, Enough
<1>12. \A s \in Source : s # i => KeptFor(p, q, s)
  BY <1>4, <1>8, <1>10, PlanFields DEF KeptFor, SameCounts
<1>13. Served(q, i)
  BY <1>1, <1>3, <1>4, <1>8, <1>10, BlocksApart, PlanFields DEF Served
<1> QED BY <1>8, <1>10, <1>11, <1>12, <1>13 DEF SameCounts

\* Once layer i has been looked at, so have all those before it.
LEMMA NextLooked ==
  ASSUME Assignable, Complete, NEW i \in Layer, IsNext(i),
         NEW q \in Plan,
         \A j \in Layer : j # i => \/ q.type[j] = "client"
                                   \/ /\ q.type[j] = plan.type[j]
                                      /\ Served(plan, j) => Served(q, j),
         q.type[i] # "invalid", q.type[i] = "device" => Served(q, i)
  PROVE  Looked(q, step.turn, i + 1) /\ Looked(q, step.turn, i)
<1>1. /\ At("layers") /\ plan \in Plan /\ step \in Step /\ kind \in [Layer -> Kind]
      /\ Looked(plan, step.turn, step.layer)
  BY InLayers, FilledLayers DEF IsNext
<1>2. step.turn \in Int /\ step.layer \in Int
  BY <1>1, StepFields
<1>3. \A j \in Layer : Priority[kind[j]] \in Int /\ j \in Int
  BY <1>1, PriorityIs, LayerIsInt
<1>4. \A j \in Layer : Priority[kind[j]] = step.turn /\ step.layer <= j /\ j < i =>
        plan.type[j] \in {"client", "exynos"}
  BY <1>2, <1>3 DEF IsNext, Waiting
<1>5. \A j \in Layer : Priority[kind[j]] > step.turn \/ (Priority[kind[j]] = step.turn /\ j < i) =>
        plan.type[j] # "invalid" /\ (plan.type[j] = "device" => Served(plan, j))
  BY <1>1, <1>2, <1>3, <1>4 DEF Looked
<1>6. \A j \in Layer : Priority[kind[j]] > step.turn \/ (Priority[kind[j]] = step.turn /\ j < i) =>
        q.type[j] # "invalid" /\ (q.type[j] = "device" => Served(q, j))
  <2> SUFFICES ASSUME NEW j \in Layer,
                      Priority[kind[j]] > step.turn \/ (Priority[kind[j]] = step.turn /\ j < i)
               PROVE  q.type[j] # "invalid" /\ (q.type[j] = "device" => Served(q, j))
    OBVIOUS
  <2>1. plan.type[j] # "invalid" /\ (plan.type[j] = "device" => Served(plan, j))
    BY <1>5
  <2>2. CASE j = i
    BY <2>2
  <2>3. CASE j # i
    BY <2>1, <2>3
  <2> QED BY <2>2, <2>3
<1>7. Looked(q, step.turn, i)
  BY <1>6 DEF Looked
<1>8. Looked(q, step.turn, i + 1)
  BY <1>3, <1>6 DEF Looked
<1> QED BY <1>7, <1>8

\* A source that is kept stays served.
LEMMA ServedKept ==
  ASSUME NEW p, NEW q, NEW s, KeptFor(p, q, s), p.miscounted => q.miscounted, Served(p, s)
  PROVE  Served(q, s)
BY DEF KeptFor, Served

\* assignLayer() finds an overlay block.
LEMMA LayerToDeviceFilled ==
  ASSUME Assignable, Complete, NEW i \in Layer, LayerToDevice(i)
  PROVE  Filled(plan', step')
<1>1. /\ At("layers") /\ IsNext(i)
      /\ plan \in Plan /\ BlocksOK(plan) /\ step \in Step /\ kind \in [Layer -> Kind]
  BY InLayers DEF LayerToDevice, IsNext
<1>2. plan.m2m[i] = NoBlock /\ plan.type[i] # "client" /\ plan.type[i] # "exynos"
  BY <1>1, NextIsFree
<1>3. /\ Blended(plan) /\ Clear(plan) /\ Enough(plan)
      /\ Looked(plan, step.turn, step.layer)
      /\ Targeted(plan) /\ (step.turn <= 2 => Resulted(plan))
  BY <1>1, FilledLayers
<1>4. PICK o \in Outcomes(plan, i) :
        o.type = "device" /\ Then(ByDevice(plan, i, o), "layers", i + 1)
  BY DEF LayerToDevice
<1> DEFINE q == ByDevice(plan, i, o)
<1>5. q = ByDevice(plan, i, o) /\ Then(q, "layers", i + 1)
  BY <1>4
<1>6. "layers" \in Places /\ i + 1 \in Int
  BY LayerIsInt DEF Places
<1> HIDE DEF q
<1>7. Offered(plan, o)
  BY <1>1, <1>4, OutcomeOffered
<1>8. ~NoWindow(plan)
  BY <1>4 DEF Outcomes, ByClient, ByBlender
<1>9. q \in Plan /\ DeviceGiven(plan, q, i)
  BY <1>1, <1>2, <1>5, <1>7, ByDeviceIs
<1>10. /\ q.client = plan.client /\ q.exynos = plan.exynos
       /\ \A j \in Layer : q.type[j] = IF j = i THEN "device" ELSE plan.type[j]
       /\ \A j \in Layer : j # i => q.m2m[j] = plan.m2m[j]
  BY <1>9 DEF DeviceGiven
<1>11. /\ \A s \in Source : s # i => KeptFor(plan, q, s)
       /\ Served(q, i) /\ q.miscounted = plan.miscounted
       /\ Enough(plan) => Enough(q)
  BY <1>1, <1>2, <1>5, <1>7, <1>8, ByDeviceKeeps
<1>12. \A s \in Source : s # i /\ Served(plan, s) => Served(q, s)
  BY <1>11, ServedKept
<1>13. Blended(q) /\ Clear(q)
  BY <1>2, <1>3, <1>10 DEF Blended, Clear
<1>14. Looked(q, step.turn, i + 1)
  <2>1. \A j \in Layer : j # i => q.type[j] = plan.type[j] /\ (Served(plan, j) => Served(q, j))
    BY <1>10, <1>12, TargetsApart
  <2>2. q.type[i] = "device"
    BY <1>10
  <2> QED BY <1>1, <1>9, <1>11, <2>1, <2>2, NextLooked
<1>15. Targeted(q) /\ (step.turn <= 2 => Resulted(q))
  BY <1>3, <1>10, <1>12, TargetsApart DEF Targeted, Resulted
<1>16. \A s \in Step : s.at = "layers" /\ s.layer = i + 1 /\ s.turn = step.turn => Filled(q, s)
  BY <1>3, <1>11, <1>13, <1>14, <1>15, LayersFilled
<1> QED BY <1>1, <1>5, <1>6, <1>9, <1>16, ThenFilled

\* It finds nothing: the layer goes to the client.
LEMMA LayerToClientFilled ==
  ASSUME Assignable, Complete, NEW i \in Layer, LayerToClient(i)
  PROVE  Filled(plan', step')
<1> DEFINE F == {i}
           r == WithType(plan, F, "client")
           q == AddClient(r, i)
<1>1. /\ At("layers") /\ IsNext(i)
      /\ plan \in Plan /\ BlocksOK(plan) /\ step \in Step /\ kind \in [Layer -> Kind]
      /\ Sound(plan) /\ Composed(plan)
  BY InLayers DEF LayerToClient, IsNext
<1>2. plan.m2m[i] = NoBlock
  BY <1>1, NextIsFree
<1>3. /\ Blended(plan) /\ Clear(plan) /\ Enough(plan)
      /\ Looked(plan, step.turn, step.layer)
      /\ Targeted(plan) /\ (step.turn <= 2 => Resulted(plan))
  BY <1>1, FilledLayers
<1>4. IF Changes(plan, q) THEN Retry(q) ELSE Then(q, "layers", i + 1)
  BY DEF LayerToClient
<1>5. /\ r = WithType(plan, F, "client") /\ q = AddClient(r, i)
      /\ \A j : j \in F <=> j = i
  OBVIOUS
<1>6. "layers" \in Places /\ i + 1 \in Int /\ "client" \in LayerType
  BY LayerIsInt DEF Places, LayerType
<1> HIDE DEF F, r, q
<1>7. /\ r \in Plan /\ BlocksOK(r) /\ SameBlocks(plan, r) /\ SameCounts(plan, r)
      /\ r.type = [j \in Layer |-> IF j \in F THEN "client" ELSE plan.type[j]]
      /\ r.client = plan.client /\ r.exynos = plan.exynos
      /\ r.disabled = plan.disabled /\ r.dynamic = plan.dynamic /\ r.failed = plan.failed
  BY <1>1, <1>5, <1>6, WithTypeIs
<1>8. ClientGiven(plan, r, i)
  <2>1. \A j \in Layer : r.type[j] = IF j = i THEN "client" ELSE plan.type[j]
    BY <1>5, <1>7
  <2>2. \A j \in Layer : r.m2m[j] = IF j = i THEN NoBlock ELSE plan.m2m[j]
    BY <1>2, <1>7 DEF SameBlocks
  <2> QED BY <1>7, <2>1, <2>2 DEF ClientGiven
<1>9. q \in Plan /\ BlocksOK(q) /\ ClientTook(plan, q, i) /\ Composed(q)
  BY <1>1, <1>5, <1>7, <1>8, AddClientTakes
<1>10. Keeps(plan, q)
  <2>1. Keeps(plan, r)
    BY <1>7 DEF Keeps, KeptFor, SameBlocks, SameCounts, Enough
  <2>2. Valid(r.client)
    BY <1>1, <1>7 DEF Sound
  <2>3. Keeps(r, q)
    BY <1>5, <1>7, <2>2, AddClientKeeps
  <2> QED BY <2>1, <2>3, KeepsOn
<1>11. Blended(q) /\ Clear(q) /\ Enough(q)
  BY <1>1, <1>3, <1>9, <1>10, ClearTook, KeepsParts
<1>12. CASE Changes(plan, q)
  <2>1. Retry(q)
    BY <1>4, <1>12
  <2> QED BY <1>1, <1>9, <1>11, <2>1, RetryFilled
<1>13. CASE ~Changes(plan, q)
  <2>1. Then(q, "layers", i + 1)
    BY <1>4, <1>13
  <2>2. plan.client.has = q.client.has
    BY <1>13 DEF Changes
  <2>3. Targeted(q) /\ (step.turn <= 2 => Resulted(q))
    BY <1>1, <1>3, <1>9, <1>10, <2>2, KeepsParts
  <2>4. Looked(q, step.turn, i + 1)
    <3>1. \A j \in Layer : q.type[j] # "client" => q.type[j] = plan.type[j] /\ KeptFor(plan, q, j)
      BY <1>10 DEF Keeps
    <3>2. plan.miscounted => q.miscounted
      BY <1>10 DEF Keeps
    <3>3. \A j \in Layer : j # i => \/ q.type[j] = "client"
                                    \/ /\ q.type[j] = plan.type[j]
                                       /\ Served(plan, j) => Served(q, j)
      BY <3>1, <3>2, ServedKept
    <3>4. q.type[i] = "client"
      BY <1>9 DEF ClientTook
    <3> QED BY <1>1, <1>9, <3>3, <3>4, NextLooked
  <2>5. \A s \in Step : s.at = "layers" /\ s.layer = i + 1 /\ s.turn = step.turn => Filled(q, s)
    BY <1>11, <2>3, <2>4, LayersFilled
  <2> QED BY <1>1, <1>6, <1>9, <2>1, <2>5, ThenFilled
<1> QED BY <1>12, <1>13

\* It finds nothing for a layer with dynamic metadata: all types are reset.
LEMMA LayerFlattensFilled ==
  ASSUME Assignable, NEW i \in Layer, LayerFlattens(i)
  PROVE  Filled(plan', step')
<1> DEFINE targets == ({plan.otf[ClientTarget], plan.otf[ExynosTarget]} \ {NoBlock})
                         \union (IF plan.exynos.has THEN {Blender} ELSE {})
           a == Release(plan, targets)
           b == NoClient(a)
           c == NoExynos(b)
           r == WithType(c, Layer, "invalid")
           q == WithoutMetadata(r, i)
<1>1. plan \in Plan /\ BlocksOK(plan) /\ step \in Step
  BY InLayers DEF LayerFlattens, IsNext
<1>2. Retry(q)
  BY DEF LayerFlattens
<1>3. targets \in SUBSET Block
  BY <1>1, PlanFields DEF Block, Source
<1>4. /\ a = Release(plan, targets) /\ b = NoClient(a) /\ c = NoExynos(b)
      /\ r = WithType(c, Layer, "invalid") /\ q = WithoutMetadata(r, i)
      /\ "invalid" \in LayerType
  BY DEF LayerType
<1> HIDE DEF targets, a, b, c, r, q
<1>5. a \in Plan /\ BlocksOK(a) /\ SameLayers(plan, a) /\ Rid(plan, a, targets)
  BY <1>1, <1>3, <1>4, ReleaseIs
<1>6. b \in Plan /\ BlocksOK(b) /\ b.client = Nothing
  BY <1>4, <1>5, NoClientIs
<1>7. c \in Plan /\ BlocksOK(c) /\ c.client = b.client
  BY <1>4, <1>6, NoExynosIs
<1>8. /\ r \in Plan /\ BlocksOK(r) /\ SameBlocks(c, r)
      /\ r.type = [j \in Layer |-> IF j \in Layer THEN "invalid" ELSE c.type[j]]
      /\ r.client = c.client
  BY <1>4, <1>7, WithTypeIs
<1>9. q \in Plan /\ BlocksOK(q) /\ SameBlocks(r, q) /\ q.type = r.type /\ q.client = r.client
  BY <1>4, <1>8, WithoutMetadataIs
<1>10. Blended(q)
  BY <1>8, <1>9 DEF Blended
<1>11. Clear(q)
  BY <1>6, <1>7, <1>8, <1>9 DEF Clear, Nothing
<1> QED BY <1>1, <1>2, <1>9, <1>10, <1>11, RetryFilled

\* It finds room in the blender, whose range grows to the layer.
LEMMA LayerToBlenderFilled ==
  ASSUME Assignable, Complete, NEW i \in Layer, LayerToBlender(i)
  PROVE  Filled(plan', step')
<1> DEFINE F == {i}
           e == Extended(plan.exynos, F)
           q == [WithType(AssignM2M(plan, Blender, i), F, "exynos") EXCEPT !.exynos = e]
<1>1. /\ At("layers") /\ IsNext(i)
      /\ plan \in Plan /\ BlocksOK(plan) /\ step \in Step /\ kind \in [Layer -> Kind]
      /\ Ranged(plan)
  BY InLayers DEF LayerToBlender, IsNext
<1>2. /\ plan.m2m[i] = NoBlock /\ Priority[kind[i]] = step.turn
      /\ plan.type[i] # "client" /\ plan.type[i] # "exynos"
  BY <1>1, NextIsFree
<1>3. kind[i] \in Blendable /\ CanTakeMore(plan)
  BY BlocksApart DEF LayerToBlender, Outcomes, ByBlender, ByClient
<1>4. Valid(plan.exynos)
  BY <1>1 DEF Ranged, Valid
<1>5. /\ Blended(plan) /\ Clear(plan) /\ Enough(plan)
      /\ Looked(plan, step.turn, step.layer)
      /\ Targeted(plan) /\ (step.turn <= 2 => Resulted(plan))
  BY <1>1, FilledLayers
<1>6. step.turn <= 2
  BY <1>2, <1>3, AssignmentAssumption
<1>7. /\ q = [WithType(AssignM2M(plan, Blender, i), F, "exynos") EXCEPT !.exynos = e]
      /\ F = {i} /\ e = Extended(plan.exynos, F)
  OBVIOUS
<1>8. q = [WithType(AssignM2M(plan, Blender, i), F, "exynos") EXCEPT !.exynos = Extended(@, F)]
  <2>1. WithType(AssignM2M(plan, Blender, i), F, "exynos").exynos = plan.exynos
    BY <1>1 DEF WithType, AssignM2M, Plan
  <2> QED BY <2>1
<1>9. /\ ~plan.exynos.has => Retry(q)
      /\ plan.exynos.has => plan' = q /\ step' = [step EXCEPT !.at = "sandwich", !.layer = i,
                            !.from = q.exynos.first, !.seen = q.exynos.first - 1,
                            !.invalid = FALSE, !.changed = FALSE]
  BY <1>8, Zenon DEF LayerToBlender
<1> HIDE DEF F, e, q
<1>10. q \in Plan /\ BlocksOK(q) /\ BlenderTook(plan, q, i, e)
  BY <1>1, <1>2, <1>3, <1>4, <1>7, BlenderTakes DEF Valid
<1>11. /\ q.client = plan.client
       /\ \A j \in Layer : q.type[j] = IF j = i THEN "exynos" ELSE plan.type[j]
       /\ \A j \in Layer : q.m2m[j] = IF j = i THEN Blender ELSE plan.m2m[j]
  BY <1>10 DEF BlenderTook
<1>12. (\A s \in Source : Served(plan, s) => Served(q, s)) /\ Enough(q)
  <2>1. q.otf = plan.otf /\ SameCounts(plan, q)
    BY <1>1, <1>7 DEF WithType, AssignM2M, Plan, SameCounts
  <2> QED BY <1>5, <2>1 DEF SameCounts, Served, Enough
<1>13. Blended(q) /\ Clear(q)
  BY <1>2, <1>5, <1>11 DEF Blended, Clear
<1>14. CASE ~plan.exynos.has
  BY <1>1, <1>9, <1>10, <1>13, <1>14, RetryFilled
<1>15. CASE plan.exynos.has
  <2>1. /\ plan' = q
        /\ step' = [step EXCEPT !.at = "sandwich", !.layer = i,
                      !.from = q.exynos.first, !.seen = q.exynos.first - 1,
                      !.invalid = FALSE, !.changed = FALSE]
    BY <1>9, <1>15
  <2>2. step'.at = "sandwich" /\ step'.layer = i /\ step'.turn = step.turn
    BY <1>1, <2>1 DEF Step
  <2>3. Targeted(q) /\ Resulted(q)
    BY <1>5, <1>6, <1>11, <1>12, <1>15, TargetsApart DEF Targeted, Resulted
  <2>4. Looked(q, step.turn, i)
    <3>1. \A j \in Layer : j # i => q.type[j] = plan.type[j] /\ (Served(plan, j) => Served(q, j))
      BY <1>11, <1>12, TargetsApart
    <3>2. q.type[i] = "exynos"
      BY <1>11
    <3> QED BY <1>1, <1>10, <3>1, <3>2, NextLooked
  <2>5. Looked(q, step'.turn, step'.layer)
    BY <2>2, <2>4
  <2>6. step'.layer \in Layer /\ q.type[step'.layer] \in {"exynos", "client"} /\ step'.turn <= 2
    BY <1>6, <1>11, <2>2
  <2>7. Filled(q, step')
    BY <1>12, <1>13, <2>2, <2>3, <2>5, <2>6 DEF Filled
  <2> QED BY <2>1, <2>7
<1> QED BY <1>14, <1>15

\* The range of the blender meets a layer of the client.
LEMMA MeetClientFilled ==
  ASSUME Assignable, Complete, NEW i \in Layer, MeetClient(i)
  PROVE  Filled(plan', step')
<1>1. At("sandwich") /\ step \in Step /\ plan' = plan
  BY InSandwich DEF MeetClient, IsSandwiched
<1>2. step' = [step EXCEPT !.seen = i, !.invalid = TRUE]
  BY DEF MeetClient
<1>3. /\ step'.at = step.at /\ step'.layer = step.layer /\ step'.turn = step.turn
      /\ step'.changed = step.changed
  BY <1>1, <1>2 DEF Step
<1>4. Filled(plan, step')
  BY <1>1, <1>3, Zenon DEF Complete, Filled
<1> QED BY <1>1, <1>4

\* A layer leaves the range of the blender for the client.
LEMMA TakeOutFilled ==
  ASSUME Assignable, Complete, NEW i \in Layer, TakeOut(i)
  PROVE  Filled(plan', step')
<1> DEFINE q == ToClient(plan, i)
           changed == step.changed \/ Changes(plan, q)
<1>1. /\ At("sandwich") /\ plan \in Plan /\ BlocksOK(plan) /\ step \in Step
      /\ Sound(plan) /\ Composed(plan)
  BY InSandwich DEF TakeOut, IsSandwiched
<1>2. /\ Blended(plan) /\ Clear(plan) /\ Enough(plan)
      /\ Looked(plan, step.turn, step.layer)
      /\ step.turn <= 2
      /\ step.layer \in Layer /\ plan.type[step.layer] \in {"exynos", "client"}
      /\ ~step.changed => Targeted(plan) /\ Resulted(plan)
  BY <1>1, FilledSandwich
<1>3. /\ plan' = q /\ q = ToClient(plan, i)
      /\ step' = IF q.failed THEN [step EXCEPT !.at = "forced"]
                 ELSE [step EXCEPT !.seen = i, !.invalid = TRUE, !.changed = changed]
  BY <1>1 DEF TakeOut, Step
<1>4. changed <=> step.changed \/ Changes(plan, q)
  OBVIOUS
<1> HIDE DEF q, changed
<1>5. q \in Plan /\ BlocksOK(q) /\ Keeps(plan, q) /\ Blended(q) /\ Clear(q)
  BY <1>1, <1>2, <1>3, ToClientFills
<1>6. CASE q.failed
  <2>1. step'.at = "forced"
    BY <1>1, <1>3, <1>6 DEF Step
  <2> QED BY <2>1, Forced
<1>7. CASE ~q.failed
  <2>1. /\ step'.at = "sandwich" /\ step'.layer = step.layer /\ step'.turn = step.turn
        /\ step'.changed = changed
    BY <1>1, <1>3, <1>7 DEF Step, At
  <2>2. Enough(q) /\ Looked(q, step.turn, step.layer)
    BY <1>1, <1>2, <1>5, KeepsParts
  <2>3. ~step'.changed => Targeted(q) /\ Resulted(q)
    <3> SUFFICES ASSUME ~step'.changed
                 PROVE  Targeted(q) /\ Resulted(q)
      OBVIOUS
    <3>1. ~step.changed /\ ~Changes(plan, q)
      BY <1>4, <2>1
    <3>2. plan.client.has = q.client.has
      BY <3>1 DEF Changes
    <3> QED BY <1>1, <1>2, <1>5, <3>1, <3>2, KeepsParts
  <2>4. q.type[step'.layer] \in {"exynos", "client"} /\ step'.layer \in Layer
    BY <1>2, <1>5, <2>1 DEF Keeps
  <2>5. Looked(q, step'.turn, step'.layer) /\ step'.turn <= 2
    BY <1>2, <2>1, <2>2
  <2>6. Filled(q, step')
    BY <1>5, <2>1, <2>2, <2>3, <2>4, <2>5 DEF Filled
  <2> QED BY <1>3, <2>6
<1> QED BY <1>6, <1>7

\* Sources that may no longer be counted
LEMMA UncountedOrNot ==
  ASSUME NEW p \in Plan, NEW S \in SUBSET Source,
         NEW q, q = Uncounted(p, S) \/ q = p
  PROVE  /\ p.miscounted => q.miscounted
         /\ \A s \in Source : s \notin S /\ s \in p.counted => s \in q.counted
         /\ q.otf = p.otf
         /\ Enough(p) => Enough(q)
         /\ q \in Plan
<1>1. CASE q = p
  BY <1>1
<1>2. CASE q = Uncounted(p, S)
  <2>1. /\ p.miscounted => q.miscounted
        /\ \A s \in Source : s \notin S /\ s \in p.counted => s \in q.counted
        /\ q.otf = p.otf
        /\ Enough(p) => Enough(q)
    BY <1>2, UncountedKeeps
  <2> DEFINE n == (p.windows - Cardinality(S)) % Word
             lost == p.miscounted \/ ~(S \subseteq p.counted)
  <2>2. n \in 0 .. Word - 1 /\ lost \in BOOLEAN /\ p.counted \ S \in SUBSET Source
    BY FewerUsers, WordIs DEF Plan
  <2>3. q = [p EXCEPT !.windows = n, !.counted = p.counted \ S, !.miscounted = lost]
    BY <1>2 DEF Uncounted, Plan
  <2> HIDE DEF n, lost
  <2>4. q \in Plan
    BY <2>2, <2>3 DEF Plan
  <2> QED BY <2>1, <2>4
<1> QED BY <1>1, <1>2

\* The other sources keep what they have when the blender takes in a layer.
LEMMA BlenderKeeps ==
  ASSUME NEW p \in Plan, BlocksOK(p), NEW i \in Layer,
         NEW F \in SUBSET Layer, \A j \in F : j = i, NEW e,
         NEW r \in Plan, r = TakenOver(p, F, i, e),
         NEW u, u = Uncounted(r, F) \/ u = r,
         NEW q, q = WithType(u, F, "exynos")
  PROVE  /\ \A s \in Source : s # i => KeptFor(p, q, s)
         /\ p.miscounted => q.miscounted
         /\ Enough(p) => Enough(q)
<1> DEFINE f == Free(p, F)
<1>1. F \in SUBSET Source
  BY DEF Source
<1>2. f = Free(p, F) /\ r = [AssignM2M(f, Blender, i) EXCEPT !.exynos = e]
  BY DEF TakenOver
<1> HIDE DEF f
<1>3. f \in Plan /\ SameCounts(p, f)
  BY <1>1, <1>2, FreeIs
<1>4. \A s \in Source : s \notin F => f.otf[s] = p.otf[s]
  BY <1>1, <1>2, FreeKeeps
<1>5. r.otf = f.otf /\ SameCounts(f, r)
  BY <1>2, <1>3 DEF AssignM2M, Plan, SameCounts
<1>6. /\ r.miscounted => u.miscounted
      /\ \A s \in Source : s \notin F /\ s \in r.counted => s \in u.counted
      /\ u.otf = r.otf
      /\ Enough(r) => Enough(u)
      /\ u \in Plan
  BY <1>1, UncountedOrNot
<1>7. q.otf = u.otf /\ SameCounts(u, q)
  BY <1>6 DEF WithType, Plan, SameCounts
<1>8. \A s \in Source : s # i => KeptFor(p, q, s)
  BY <1>3, <1>4, <1>5, <1>6, <1>7 DEF KeptFor, SameCounts
<1>9. (p.miscounted => q.miscounted) /\ (Enough(p) => Enough(q))
  BY <1>3, <1>5, <1>6, <1>7 DEF SameCounts, Enough
<1> QED BY <1>8, <1>9

\* or it is taken in.
LEMMA TakeInFilled ==
  ASSUME Assignable, Complete, NEW i \in Layer, TakeIn(i)
  PROVE  Filled(plan', step')
<1> DEFINE F == {i}
           e == Extended(plan.exynos, F)
           r == [AssignM2M(Free(plan, F), Blender, i) EXCEPT !.exynos = e]
           u == IF plan.type[i] = "device" THEN Uncounted(r, F) ELSE r
           q == WithType(u, F, "exynos")
<1>1. /\ At("sandwich") /\ plan \in Plan /\ BlocksOK(plan) /\ step \in Step
  BY InSandwich DEF TakeIn, IsSandwiched
<1>2. /\ Blended(plan) /\ Clear(plan) /\ Enough(plan)
      /\ Looked(plan, step.turn, step.layer)
      /\ step.turn <= 2
      /\ step.layer \in Layer /\ plan.type[step.layer] \in {"exynos", "client"}
      /\ ~step.changed => Targeted(plan) /\ Resulted(plan)
  BY <1>1, FilledSandwich
<1>3. plan.exynos.has /\ IsRange(plan.exynos) /\ plan.type[i] # "exynos"
  BY SandwichedIs DEF TakeIn
<1>4. CanTakeMore(plan) /\ plan.type[i] # "client" /\ step' = [step EXCEPT !.seen = i]
  BY DEF TakeIn
<1>5. plan' = q
  <2>1. AssignM2M(Free(plan, F), Blender, i).exynos = plan.exynos
    BY <1>1 DEF AssignM2M, Free, Release, Plan
  <2> QED BY <2>1 DEF TakeIn
<1>6. /\ F = {i} /\ e = Extended(plan.exynos, F)
      /\ r = TakenOver(plan, F, i, e)
      /\ q = WithType(u, F, "exynos") /\ (u = Uncounted(r, F) \/ u = r)
  BY DEF TakenOver
<1>7. /\ step'.at = "sandwich" /\ step'.layer = step.layer /\ step'.turn = step.turn
      /\ step'.changed = step.changed
  BY <1>1, <1>4 DEF Step, At
<1> HIDE DEF F, e, r, u, q
<1>8. q \in Plan /\ BlocksOK(q) /\ BlenderTook(plan, q, i, e) /\ r \in Plan
  <2>1. plan \in Plan /\ BlocksOK(plan) /\ CanTakeMore(plan)
    BY <1>1, <1>4
  <2>2. plan.exynos.has /\ IsRange(plan.exynos)
    BY <1>3
  <2>3. F = {i} /\ e = Extended(plan.exynos, F)
    BY <1>6
  <2>4. r = TakenOver(plan, F, i, e)
    BY <1>6
  <2>5. u = Uncounted(r, F) \/ u = r
    BY <1>6
  <2>6. q = WithType(u, F, "exynos")
    BY <1>6
  <2> QED BY <2>1, <2>2, <2>3, <2>4, <2>5, <2>6, BlenderTakesIn
<1>9. /\ \A s \in Source : s # i => KeptFor(plan, q, s)
      /\ plan.miscounted => q.miscounted
      /\ Enough(plan) => Enough(q)
  <2>1. r = TakenOver(plan, F, i, e) /\ F \in SUBSET Layer /\ \A j \in F : j = i
    BY <1>6
  <2> QED BY <1>1, <1>6, <1>8, <2>1, BlenderKeeps
<1>10. /\ q.client = plan.client /\ q.exynos = e
       /\ \A j \in Layer : q.type[j] = IF j = i THEN "exynos" ELSE plan.type[j]
       /\ \A j \in Layer : q.m2m[j] = IF j = i THEN Blender ELSE plan.m2m[j]
  BY <1>8 DEF BlenderTook
<1>11. \A s \in Source : s # i /\ Served(plan, s) => Served(q, s)
  BY <1>9, ServedKept
<1>12. Blended(q) /\ Clear(q)
  BY <1>2, <1>4, <1>10 DEF Blended, Clear
<1>13. Looked(q, step.turn, step.layer)
  BY <1>2, <1>10, <1>11, TargetsApart DEF Looked
<1>14. ~step.changed => Targeted(q) /\ Resulted(q)
  BY <1>2, <1>3, <1>10, <1>11, TargetsApart DEF Targeted, Resulted
<1>15. q.type[step'.layer] \in {"exynos", "client"} /\ step'.layer \in Layer
  BY <1>2, <1>7, <1>10
<1>16. Looked(q, step'.turn, step'.layer) /\ step'.turn <= 2
  BY <1>2, <1>7, <1>13
<1>17. Filled(q, step')
  BY <1>2, <1>7, <1>9, <1>12, <1>14, <1>15, <1>16 DEF Filled
<1> QED BY <1>5, <1>17

\* Another range of the blender takes nothing from a source.
LEMMA RangeKeeps ==
  ASSUME NEW p, NEW q,
         SameBlocks(p, q), SameCounts(p, q), q.type = p.type, q.client = p.client,
         q.exynos.has => p.exynos.has
  PROVE  Keeps(p, q) /\ (Clear(p) => Clear(q))
<1>1. Keeps(p, q)
  BY DEF Keeps, KeptFor, SameBlocks, SameCounts, Enough
<1>2. Clear(p) => Clear(q)
  BY DEF Clear
<1> QED BY <1>1, <1>2

\* handleNestedClientCompositionLayer() takes nothing from the others.
LEMMA UnnestedKeeps ==
  ASSUME NEW p \in Plan, BlocksOK(p), Sound(p), Composed(p), Ranged(p),
         Blended(p), Clear(p),
         NEW u, u = Unnested(p)
  PROVE  Keeps(p, u) /\ Clear(u)
<1>1. CASE ~IsNested(p)
  <2>1. u = p
    BY <1>1 DEF Unnested, IsNested
  <2> QED BY <2>1, RangeKeeps DEF SameBlocks, SameCounts
<1>2. CASE IsNested(p)
  <2> DEFINE lower == p.client.first - p.exynos.first < p.exynos.last - p.client.last
             end == IF lower THEN p.exynos.first ELSE p.exynos.last
             q == ToClient(p, end)
  <2>1. u = IF OfType(p, "exynos") \ {end} # OfType(q, "exynos") THEN q
            ELSE IF lower THEN [q EXCEPT !.exynos.first = q.client.last + 1]
            ELSE [q EXCEPT !.exynos.last = q.client.first - 1]
    BY <1>2, Zenon DEF Unnested, IsNested
  <2>2. end \in {p.exynos.first, p.exynos.last} /\ q = ToClient(p, end)
    OBVIOUS
  <2>3. p.exynos.has
    BY <1>2, PlanFields DEF Ranged, IsNested, Nothing
  <2> HIDE DEF lower, end, q
  <2>4. end \in Layer
    BY <2>2, <2>3, TopIsNat, PlanFields DEF Ranged, IsRange, Layer
  <2>5. q \in Plan /\ BlocksOK(q) /\ Keeps(p, q) /\ Blended(q) /\ Clear(q)
    BY <2>2, <2>4, ToClientFills
  <2>6. /\ SameBlocks(q, u) /\ SameCounts(q, u) /\ u.type = q.type /\ u.client = q.client
        /\ u.exynos.has => q.exynos.has
    <3>1. CASE u = q
      BY <3>1 DEF SameBlocks, SameCounts
    <3>2. CASE u = [q EXCEPT !.exynos.first = q.client.last + 1]
      BY <2>5, <3>2 DEF Plan, Composition, SameBlocks, SameCounts
    <3>3. CASE u = [q EXCEPT !.exynos.last = q.client.first - 1]
      BY <2>5, <3>3 DEF Plan, Composition, SameBlocks, SameCounts
    <3> QED BY <2>1, <3>1, <3>2, <3>3, Zenon
  <2>7. Keeps(q, u) /\ (Clear(q) => Clear(u))
    BY <2>6, RangeKeeps
  <2> QED BY <2>5, <2>7, KeepsOn
<1> QED BY <1>1, <1>2

\* Nor does it take anything when the high layers at the ends are left out.
LEMMA TrimmedKeeps ==
  ASSUME NEW p \in Plan, NEW high,
         NEW q \in Plan, BlocksOK(q), q = Trimmed(p, high),
         NEW r, r = IF IsRange(q.exynos) THEN q ELSE NoExynos(q)
  PROVE  Keeps(p, r) /\ (Clear(p) => Clear(r)) /\ r.client = p.client
<1>1. /\ SameBlocks(p, q) /\ SameCounts(p, q) /\ q.type = p.type /\ q.client = p.client
      /\ q.exynos.has => p.exynos.has
  <2>1. PICK first : first = Lowest((p.exynos.first .. Top + 1) \ high)
    OBVIOUS
  <2>2. q = IF first > p.exynos.last THEN [p EXCEPT !.exynos.first = first]
            ELSE [p EXCEPT !.exynos.first = first,
                           !.exynos.last = IF @ \in high THEN @ - 1 ELSE @]
    BY <2>1 DEF Trimmed
  <2>3. CASE q = [p EXCEPT !.exynos.first = first]
    BY <2>3 DEF Plan, Composition, SameBlocks, SameCounts
  <2>4. CASE q = [p EXCEPT !.exynos.first = first,
                           !.exynos.last = IF @ \in high THEN @ - 1 ELSE @]
    <3>1. PICK last : last = IF p.exynos.last \in high THEN p.exynos.last - 1 ELSE p.exynos.last
      OBVIOUS
    <3>2. PICK comp : comp = [p.exynos EXCEPT !.first = first, !.last = last]
      OBVIOUS
    <3>3. q = [p EXCEPT !.exynos = comp]
      <4>1. q = [p EXCEPT !.exynos.first = first, !.exynos.last = last]
        BY <2>4, <3>1, Zenon
      <4> QED BY <3>2, <4>1 DEF Plan
    <3>4. SameBlocks(p, q) /\ SameCounts(p, q) /\ q.type = p.type /\ q.client = p.client
      BY <3>3 DEF Plan, SameBlocks, SameCounts
    <3>5. q.exynos.has = p.exynos.has
      <4>1. q.exynos = comp
        BY <3>3 DEF Plan
      <4> QED BY <3>2, <4>1 DEF Plan, Composition
    <3> QED BY <3>4, <3>5
  <2> QED BY <2>2, <2>3, <2>4, Zenon
<1>2. Keeps(p, q) /\ (Clear(p) => Clear(q))
  BY <1>1, RangeKeeps
<1>3. CASE IsRange(q.exynos)
  BY <1>1, <1>2, <1>3
<1>4. CASE ~IsRange(q.exynos)
  <2>1. r = NoExynos(q)
    BY <1>4
  <2>2. Keeps(q, r)
    BY <2>1, NoExynosKeeps
  <2>3. r.type = q.type /\ r.client = q.client
    BY <2>1, NoExynosIs
  <2>4. Clear(q) => Clear(r)
    BY <2>3 DEF Clear
  <2> QED BY <1>1, <1>2, <2>2, <2>3, <2>4, KeepsOn
<1> QED BY <1>3, <1>4

\* The layers of the blender are about to go to the client.
LEMMA GiveUpFilled ==
  ASSUME step \in Step, NEW p \in Plan, NEW reason \in {"pierced", "untargeted"},
         GiveUp(p, reason), Blended(p), Clear(p)
  PROVE  Filled(plan', step')
<1>1. /\ plan' = p
      /\ step' = [step EXCEPT !.at = reason, !.layer = p.exynos.first, !.from = p.exynos.last]
  BY DEF GiveUp
<1>2. step'.at = reason
  BY <1>1 DEF Step
<1>3. step'.at \in {"asked", "pass", "pierced", "untargeted"}
  BY <1>2
<1>4. Filled(p, step')
  BY <1>3, PassFilled
<1> QED BY <1>1, <1>4

\* The range of the blender has been looked through.
LEMMA EndSandwichFilled ==
  ASSUME Assignable, Complete, EndSandwich
  PROVE  Filled(plan', step')
<1> DEFINE high == {i \in Layer : /\ High(i) /\ step.from <= i
                                  /\ (i <= step.seen \/ i <= plan.exynos.last)}
           p == IF step.invalid THEN Unnested(plan) ELSE plan
           q == Trimmed(p, high)
           r == IF IsRange(q.exynos) THEN q ELSE NoExynos(q)
<1>1. /\ At("sandwich") /\ plan \in Plan /\ BlocksOK(plan) /\ step \in Step
      /\ kind \in [Layer -> Kind]
      /\ Sound(plan) /\ Composed(plan) /\ Ranged(plan)
  BY InSandwich DEF EndSandwich
<1>2. /\ Blended(plan) /\ Clear(plan) /\ Enough(plan)
      /\ Looked(plan, step.turn, step.layer)
      /\ step.turn <= 2
      /\ step.layer \in Layer /\ plan.type[step.layer] \in {"exynos", "client"}
      /\ ~step.changed => Targeted(plan) /\ Resulted(plan)
  BY <1>1, FilledSandwich
<1>3. Swept(plan, high) /\ (~step.invalid => Trimmable(plan, high))
  BY SweptIs DEF EndSandwich
<1>4. IF p.failed THEN Then(p, "forced", 0)
      ELSE IF Pierced(r, high) THEN GiveUp(r, "pierced")
      ELSE IF \/ step.changed \/ Changes(plan, p) \/ ~IsRange(q.exynos)
           THEN Retry(r)
      ELSE Then(r, "layers", step.layer + 1)
  BY DEF EndSandwich
<1>5. high \in SUBSET Layer
  OBVIOUS
<1>6. /\ p = IF step.invalid THEN Unnested(plan) ELSE plan
      /\ q = Trimmed(p, high)
      /\ r = IF IsRange(q.exynos) THEN q ELSE NoExynos(q)
  OBVIOUS
<1>7. /\ "layers" \in Places /\ "forced" \in Places /\ step.layer + 1 \in Int /\ 0 \in Int
  BY <1>1, StepFields DEF Places
<1> HIDE DEF high, p, q, r
<1>8. /\ p \in Plan /\ BlocksOK(p) /\ UnnestedWell(plan, p, high)
      /\ Keeps(plan, p) /\ Clear(p)
  <2>1. CASE step.invalid
    <3>1. p = Unnested(plan)
      BY <1>6, <2>1
    <3>2. p \in Plan /\ BlocksOK(p) /\ UnnestedWell(plan, p, high)
      BY <1>1, <1>3, <3>1, UnnestedIs
    <3>3. Keeps(plan, p) /\ Clear(p)
      BY <1>1, <1>2, <3>1, UnnestedKeeps
    <3> QED BY <3>2, <3>3
  <2>2. CASE ~step.invalid
    <3>1. p = plan
      BY <1>6, <2>2
    <3>2. \A j \in Layer : p.m2m[j] \in {plan.m2m[j], NoBlock}
      BY <3>1
    <3>3. UnnestedWell(plan, p, high)
      BY <1>1, <1>3, <2>2, <3>1, <3>2 DEF UnnestedWell
    <3>4. Keeps(plan, p)
      BY <3>1, RangeKeeps DEF SameBlocks, SameCounts
    <3> QED BY <1>1, <1>2, <3>1, <3>3, <3>4
  <2> QED BY <2>1, <2>2
<1>9. Composed(p) /\ (~p.failed => Trimmable(p, high))
  BY <1>8 DEF UnnestedWell
<1>10. CASE p.failed
  <2>1. step' = [step EXCEPT !.at = "forced", !.layer = 0]
    BY <1>4, <1>10 DEF Then, Goto
  <2>2. step'.at = "forced"
    BY <1>1, <2>1 DEF Step
  <2> QED BY <2>2, Forced
<1>11. CASE ~p.failed
  <2>1. r \in Plan /\ BlocksOK(r) /\ TrimmedWell(p, r, high) /\ q \in Plan /\ BlocksOK(q)
    BY <1>5, <1>6, <1>8, <1>9, <1>11, TrimmedIs
  <2>2. Keeps(p, r) /\ (Clear(p) => Clear(r)) /\ r.client = p.client
    BY <1>6, <1>8, <2>1, TrimmedKeeps
  <2>3. Keeps(plan, r) /\ Clear(r)
    BY <1>8, <2>2, KeepsOn
  <2>4. Blended(r) /\ Enough(r)
    BY <1>1, <1>2, <2>1, <2>3, KeepsParts
  <2>5. CASE Pierced(r, high)
    <3>1. GiveUp(r, "pierced") /\ "pierced" \in {"pierced", "untargeted"}
      BY <1>4, <1>11, <2>5
    <3> QED BY <1>1, <2>1, <2>3, <2>4, <3>1, GiveUpFilled
  <2>6. CASE Retry(r)
    BY <1>1, <2>1, <2>3, <2>4, <2>6, RetryFilled
  <2>7. CASE ~step.changed /\ ~Changes(plan, p) /\ Then(r, "layers", step.layer + 1)
    <3>1. plan.client.has = r.client.has
      BY <2>2, <2>7 DEF Changes
    <3>2. Targeted(r) /\ Resulted(r) /\ Looked(r, step.turn, step.layer)
      BY <1>1, <1>2, <2>1, <2>3, <2>7, <3>1, KeepsParts
    <3>3. Looked(r, step.turn, step.layer + 1)
      <4>1. r.type[step.layer] \in {"exynos", "client"}
        BY <1>2, <2>3 DEF Keeps
      <4> QED BY <1>2, <3>2, <4>1, LayerIsInt DEF Looked
    <3>4. \A s \in Step : s.at = "layers" /\ s.layer = step.layer + 1 /\ s.turn = step.turn =>
            Filled(r, s)
      BY <2>3, <2>4, <3>2, <3>3, LayersFilled
    <3> QED BY <1>1, <1>7, <2>1, <2>7, <3>4, ThenFilled
  <2> QED BY <1>4, <1>11, <2>5, <2>6, <2>7
<1> QED BY <1>10, <1>11

\* One layer of the blender goes to the client.
LEMMA LeaveBlenderFilled ==
  ASSUME Assignable, Complete, NEW i \in Layer, LeaveBlender(i)
  PROVE  Filled(plan', step')
<1> DEFINE p == ToClient(plan, i)
           r == [p EXCEPT !.failed = FALSE]
<1>1. step.at \in {"pierced", "untargeted"}
  BY DEF LeaveBlender
<1>2. /\ plan \in Plan /\ BlocksOK(plan) /\ step \in Step
      /\ Sound(plan) /\ Composed(plan) /\ Blended(plan)
  BY <1>1, InGivingUp, FilledLive DEF Live
<1>3. /\ step.at = "pierced" => Then(r, "pierced", i + 1)
      /\ step.at # "pierced" => Then(p, "untargeted", i + 1)
  BY DEF LeaveBlender, At
<1>4. p = ToClient(plan, i) /\ r = [p EXCEPT !.failed = FALSE]
  OBVIOUS
<1>5. "pierced" \in Places /\ "untargeted" \in Places /\ i + 1 \in Int
  BY LayerIsInt DEF Places
<1> HIDE DEF p, r
<1>6. p \in Plan /\ BlocksOK(p) /\ Blended(p) /\ Clear(p)
  BY <1>2, <1>4, ToClientFills
<1>7. r \in Plan /\ r.type = p.type /\ r.m2m = p.m2m /\ r.client = p.client
  BY <1>4, <1>6 DEF Plan
<1>8. Blended(r) /\ Clear(r)
  BY <1>6, <1>7 DEF Blended, Clear
<1>9. CASE step.at = "pierced"
  <2>1. \A s \in Step : s.at = "pierced" => Filled(r, s)
    BY <1>8, PassFilled
  <2> QED BY <1>2, <1>3, <1>5, <1>7, <1>9, <2>1, ThenFilled
<1>10. CASE step.at # "pierced"
  <2>1. \A s \in Step : s.at = "untargeted" => Filled(p, s)
    BY <1>6, PassFilled
  <2> QED BY <1>2, <1>3, <1>5, <1>6, <1>10, <2>1, ThenFilled
<1> QED BY <1>9, <1>10

\* They have all gone, and the pass is repeated.
LEMMA GivenUpFilled ==
  ASSUME Assignable, Complete, GivenUp
  PROVE  Filled(plan', step')
<1> DEFINE q == NoExynos(plan)
<1>1. step.at \in {"pierced", "untargeted"} /\ Retry(q) /\ q = NoExynos(plan)
  BY DEF GivenUp
<1>2. /\ plan \in Plan /\ BlocksOK(plan) /\ step \in Step
      /\ Blended(plan) /\ Clear(plan)
  BY <1>1, InGivingUp, FilledLive DEF Live
<1> HIDE DEF q
<1>3. /\ q \in Plan /\ BlocksOK(q)
      /\ q.type = plan.type /\ q.m2m = plan.m2m
      /\ q.users = plan.users
      /\ q.client = plan.client /\ q.exynos = Nothing
  BY <1>1, <1>2, NoExynosIs
<1>4. Blended(q) /\ Clear(q)
  BY <1>2, <1>3 DEF Blended, Clear
<1> QED BY <1>1, <1>2, <1>3, <1>4, RetryFilled

\* The block of the blender's result, or none
LEMMA AssignExynosTargetFilled ==
  ASSUME Assignable, Complete, AssignExynosTarget
  PROVE  Filled(plan', step')
<1> DEFINE lower == [step EXCEPT !.at = "layers", !.turn = 2, !.layer = 0]
<1>1. /\ plan \in Plan /\ BlocksOK(plan) /\ step \in Step /\ kind \in [Layer -> Kind]
      /\ At("target")
  BY AssignableFacts DEF AssignExynosTarget
<1>2. /\ Blended(plan) /\ Clear(plan) /\ Enough(plan)
      /\ Looked(plan, 3, Top + 1) /\ Targeted(plan)
  BY <1>1 DEF Complete, Filled, Live, At
<1>3. lower.at = "layers" /\ lower.layer = 0 /\ lower.turn = 2
  BY <1>1 DEF Step
<1>4. \/ step' = lower /\ plan' = plan /\ ~plan.exynos.has
      \/ \E b \in TargetBlocks(plan) :
           \/ b # Unsupported /\ step' = lower /\ plan' = WithTarget(plan, ExynosTarget, b)
           \/ GiveUp(plan, "untargeted")
  BY Zenon DEF AssignExynosTarget
<1> HIDE DEF lower
<1>5. Looked(plan, 2, 0)
  <2>1. \A i \in Layer : Priority[kind[i]] \in Int
    BY <1>1, PriorityIs
  <2>2. \A i \in Layer : i \in Int /\ i < Top + 1 /\ 0 <= i
    BY TopIsNat DEF Layer
  <2>3. \A i \in Layer : Priority[kind[i]] > 2 \/ (Priority[kind[i]] = 2 /\ i < 0) =>
          Priority[kind[i]] > 3 \/ (Priority[kind[i]] = 3 /\ i < Top + 1)
    BY <2>1, <2>2, TopIsNat
  <2> QED BY <1>2, <2>3 DEF Looked
<1>6. ASSUME NEW q, plan' = q, step' = lower, Blended(q), Clear(q), Enough(q),
             Looked(q, 2, 0), Targeted(q), Resulted(q)
      PROVE  Filled(plan', step')
  <2>1. Looked(q, lower.turn, lower.layer)
    BY <1>3, <1>6
  <2>2. Filled(q, lower)
    BY <1>3, <1>6, <2>1, LayersFilled
  <2> QED BY <1>6, <2>2
<1>7. CASE step' = lower /\ plan' = plan /\ ~plan.exynos.has
  <2>1. Resulted(plan)
    BY <1>7 DEF Resulted
  <2> QED BY <1>2, <1>5, <1>6, <1>7, <2>1
<1>8. ASSUME NEW b \in TargetBlocks(plan), b # Unsupported, step' = lower,
             plan' = WithTarget(plan, ExynosTarget, b)
      PROVE  Filled(plan', step')
  <2> DEFINE q == WithTarget(plan, ExynosTarget, b)
  <2>1. q = WithTarget(plan, ExynosTarget, b) /\ plan' = q
    BY <1>8
  <2>2. ExynosTarget \in {ClientTarget, ExynosTarget}
    OBVIOUS
  <2> HIDE DEF q
  <2>3. q \in Plan /\ BlocksOK(q) /\ SameLayers(plan, q) /\ q.m2m = plan.m2m
    BY <1>1, <1>8, <2>1, <2>2, WithTargetIs
  <2>4. /\ \A s \in Source : s # ExynosTarget => KeptFor(plan, q, s)
        /\ Served(q, ExynosTarget)
        /\ q.miscounted = plan.miscounted
        /\ Enough(plan) => Enough(q)
    BY <1>1, <1>8, <2>1, <2>2, WithTargetKeeps
  <2>5. \A s \in Source : s # ExynosTarget /\ Served(plan, s) => Served(q, s)
    BY <2>4, ServedKept
  <2>6. Blended(q) /\ Clear(q) /\ Enough(q)
    BY <1>2, <2>3, <2>4 DEF Blended, Clear, SameLayers
  <2>7. Looked(q, 2, 0)
    BY <1>5, <2>3, <2>5, TargetsApart DEF Looked, SameLayers
  <2>8. Targeted(q) /\ Resulted(q)
    BY <1>2, <2>3, <2>4, <2>5, TargetsApart DEF Targeted, Resulted, SameLayers
  <2> QED BY <1>6, <1>8, <2>1, <2>6, <2>7, <2>8
<1>9. CASE GiveUp(plan, "untargeted")
  <2>1. "untargeted" \in {"pierced", "untargeted"}
    OBVIOUS
  <2> QED BY <1>1, <1>2, <1>9, <2>1, GiveUpFilled
<1> QED BY <1>4, <1>7, <1>8, <1>9

\* The blender is busy: what was its range is anybody's.
LEMMA BusyFilled ==
  ASSUME NEW o \in Plan, Ranged(o), Solid(o), Clear(o), o.exynos.has,
         NEW F, F = o.exynos.first .. o.exynos.last,
         NEW q \in Plan, BusyLeft(o, q, F)
  PROVE  Blended(q) /\ Clear(q)
<1> DEFINE e == o.exynos
           c == o.client
<1>1. e.first \in Int /\ e.last \in Int /\ c.first \in Int /\ c.last \in Int
  BY PlanFields
<1> USE DEF BusyLeft
<1>2. \A j \in Layer : j \in F <=> Within(j, e)
  BY <1>1 DEF Within, Layer
<1>3. Blended(q)
  BY <1>2 DEF Ranged, Blended
<1>4. ASSUME NEW j \in Layer, c.first < j, o.type[j] = "client"
      PROVE  j \notin F
  <2> SUFFICES ASSUME j \in F
               PROVE  FALSE
    OBVIOUS
  <2>1. e.first <= j /\ j <= e.last /\ j \in Int
    BY <1>2, LayerIsInt DEF Within
  <2>2. ~(j < e.last)
    BY <1>4, <2>1 DEF Solid
  <2>3. j = e.last
    BY <1>1, <2>1, <2>2
  <2>4. e.last <= c.first
    BY <1>4, <2>3 DEF Solid, AtEnd
  <2> QED BY <1>1, <1>4, <2>1, <2>3, <2>4
<1>5. \A i \in Layer : c.first < i /\ o.type[i] = "client" => q.type[i] = "client"
  BY <1>4
<1>6. Clear(q)
  BY <1>5, ClearKept
<1> QED BY <1>3, <1>6

\* setResourcePriority() is the end of the passes, or all starts over.
LEMMA PrioritizeFilled ==
  ASSUME Assignable, Complete, Prioritize
  PROVE  Filled(plan', step')
<1>1. /\ plan \in Plan /\ BlocksOK(plan) /\ step \in Step
      /\ ~plan.failed /\ Sound(plan) /\ Ranged(plan) /\ Solid(plan)
  BY AssignableFacts DEF Prioritize, At, Stage, Live, Whole
<1>2. step.at \in {"priority", "alone"}
  BY DEF Prioritize, At
<1>3. /\ Blended(plan) /\ Clear(plan) /\ Enough(plan)
      /\ Looked(plan, 1, Top + 1) /\ Targeted(plan) /\ Resulted(plan)
  BY <1>2, FilledAfter
<1>4. ASSUME NEW p \in Plan, BlocksOK(p), G2DLeft(plan, p), Retry(p)
      PROVE  Filled(plan', step')
  <2>1. Blended(p)
    BY <1>3, <1>4 DEF Blended, G2DLeft
  <2>2. Clear(p)
    BY <1>3, <1>4 DEF Clear, G2DLeft
  <2> QED BY <1>1, <1>4, <2>1, <2>2, RetryFilled
<1>5. ASSUME plan.exynos.has, NEW F, F = plan.exynos.first .. plan.exynos.last,
             NEW q \in Plan, BlocksOK(q), BusyLeft(plan, q, F), Retry(q)
      PROVE  Filled(plan', step')
  <2>1. Blended(q) /\ Clear(q)
    BY <1>1, <1>3, <1>5, BusyFilled
  <2> QED BY <1>1, <1>5, <2>1, RetryFilled
<1>6. ASSUME NEW place \in {"forced", "alone"}, Then(plan, place, 0)
      PROVE  Filled(plan', step')
  <2>1. place \in Places /\ 0 \in Int
    BY DEF Places
  <2>2. ASSUME NEW s \in Step, s.at = place
        PROVE  Filled(plan, s)
    <3>1. CASE place = "forced"
      BY <2>2, <3>1, Forced
    <3>2. CASE place = "alone"
      BY <1>3, <2>2, <3>2 DEF Filled, Live
    <3> QED BY <3>1, <3>2
  <2> QED BY <1>1, <1>6, <2>1, <2>2, ThenFilled
<1> QED BY <1>4, <1>5, <1>6, PrioritizeIs

\* When all the layers have been looked at, every source has a block.
LEMMA SettledIs ==
  ASSUME kind \in [Layer -> Kind],
         NEW p \in Plan, Ranged(p), Solid(p), Composed(p), Enough(p),
         Looked(p, 1, Top + 1), Targeted(p), Resulted(p)
  PROVE  Backed(p) /\ Fits(p) /\ Held(p)
<1>1. \A i \in Layer : p.type[i] # "invalid" /\ (p.type[i] = "device" => Served(p, i))
  <2>1. ASSUME NEW i \in Layer
        PROVE  Priority[kind[i]] > 1 \/ (Priority[kind[i]] = 1 /\ i < Top + 1)
    <3>1. Priority[kind[i]] \in Turn
      BY PriorityIs
    <3> QED BY <3>1, TopIsNat DEF Layer, Turn
  <2> QED BY <2>1 DEF Looked
<1>2. \A s \in Used(p) : Served(p, s)
  BY <1>1 DEF Used, OfType, Targeted, Resulted
<1>3. Backed(p)
  BY <1>1, <1>2 DEF Backed, Served
<1>4. Fits(p)
  <2>1. CASE p.miscounted
    BY <2>1 DEF Fits
  <2>2. CASE ~p.miscounted
    <3>1. Used(p) \in SUBSET p.counted /\ p.counted \in SUBSET Source
      BY <1>2, <2>2 DEF Served, Plan
    <3>2. /\ Cardinality(Used(p)) \in Nat /\ Cardinality(p.counted) \in Nat
          /\ Cardinality(Used(p)) <= Cardinality(p.counted)
      BY <3>1, FewerUsers
    <3>3. p.windows \in Int
      BY WordIs DEF Plan
    <3>4. Cardinality(p.counted) <= p.windows /\ p.windows <= MaxWindow
      BY <2>2 DEF Enough
    <3> QED BY <3>2, <3>3, <3>4, WordIs DEF Fits
  <2> QED BY <2>1, <2>2
<1>5. Held(p)
  BY DEF Held, Solid, AtEnd, Composed
<1> QED BY <1>3, <1>4, <1>5

\* The same when the one layer of the blender has got its block.
LEMMA AloneFilled ==
  ASSUME NEW p \in Plan, Ranged(p), Composed(p), Clear(p), Backed(p), Fits(p), Held(p),
         p.exynos.has,
         NEW i \in Layer, NEW b \in Overlay, Solo(p, i, b), p.type[i] = "exynos",
         NEW q \in Plan, Alone(p, q, i)
  PROVE  Blended(q) /\ Clear(q) /\ Backed(q) /\ Fits(q) /\ Held(q)
<1>1. /\ q.client = p.client /\ q.failed = p.failed
      /\ \A j \in Layer : q.type[j] = IF j = i THEN "device" ELSE p.type[j]
      /\ q.exynos = Nothing /\ SameCounts(p, q) /\ q.otf[i] # NoBlock
      /\ \A s \in Source : s \notin {i, ExynosTarget} => q.otf[s] = p.otf[s]
  BY DEF Alone
<1>2. \A j \in Layer : q.type[j] # "exynos"
  <2>1. \A j \in Layer : p.type[j] = "exynos" => i <= j /\ j <= i
    BY DEF Ranged, Within, Solo
  <2>2. \A j \in Layer : p.type[j] = "exynos" => j = i
    BY <2>1, LayerIsInt
  <2> QED BY <1>1, <2>2
<1>3. Blended(q)
  BY <1>2 DEF Blended
<1>4. Clear(q)
  BY <1>1, ClearKept
<1>5. Used(q) = (Used(p) \ {ExynosTarget}) \union {i}
  <2>1. OfType(q, "device") = OfType(p, "device") \union {i}
    BY <1>1 DEF OfType
  <2> QED BY <1>1, <2>1, TargetsApart DEF Used, Nothing, OfType
<1>6. ExynosTarget \in Used(p) /\ i \notin Used(p) /\ Used(p) \in SUBSET Source
  BY TargetsApart DEF Used, OfType
<1>7. Fits(q)
  <2>1. IsFiniteSet(Used(p))
    BY <1>6, FewerUsers
  <2>2. PICK U : U = Used(p) \ {ExynosTarget}
    OBVIOUS
  <2>3. IsFiniteSet(U) /\ Cardinality(U) = Cardinality(Used(p)) - 1
    BY <1>6, <2>1, <2>2, FS_RemoveElement
  <2>4. Cardinality(U \union {i}) = Cardinality(U) + 1
    BY <1>6, <2>2, <2>3, FS_AddElement
  <2>5. Cardinality(Used(p)) \in Nat
    BY <2>1, FS_CardinalityType
  <2>6. Cardinality(Used(q)) = Cardinality(Used(p))
    BY <1>5, <2>2, <2>3, <2>4, <2>5
  <2> QED BY <1>1, <2>6 DEF Fits, SameCounts
<1>8. Backed(q)
  <2>1. \A s \in Used(q) : s = i \/ (s \in Used(p) /\ s \in Source /\ s # ExynosTarget)
    BY <1>5, <1>6
  <2>2. \A s \in Used(q) : q.otf[s] # NoBlock
    BY <1>1, <2>1 DEF Backed
  <2> QED BY <1>1, <2>2 DEF Backed
<1>9. Held(q)
  <2>1. Ranged(q)
    BY <1>1, <1>2 DEF Ranged, Nothing
  <2>2. \A j \in Layer : q.type[j] = "client" => Within(j, q.client)
    BY <1>1 DEF Composed
  <2> QED BY <1>1, <2>1, <2>2 DEF Held, Nothing
<1> QED BY <1>3, <1>4, <1>7, <1>8, <1>9

\* What updateClientComposition() or assignWindow() starts with
LEMMA LowerFilled ==
  ASSUME NEW p \in Plan, ~p.failed, Sound(p), Blended(p), Clear(p),
         Backed(p), Fits(p), Held(p),
         NEW s, s.at = IF p.client.has THEN "lower" ELSE "windows"
  PROVE  Filled(p, s)
<1>1. CASE p.client.has
  BY <1>1 DEF Filled, Live
<1>2. CASE ~p.client.has
  <2>1. Final(p)
    BY <1>2 DEF Final
  <2> QED BY <1>2, <2>1 DEF Filled, Live
<1> QED BY <1>1, <1>2

\* updateExynosComposition()
LEMMA UpdateExynosFilled ==
  ASSUME Assignable, Complete, UpdateExynos
  PROVE  Filled(plan', step')
<1>1. /\ plan \in Plan /\ BlocksOK(plan) /\ step \in Step /\ kind \in [Layer -> Kind]
      /\ ~plan.failed /\ Sound(plan) /\ Composed(plan)
      /\ Ranged(plan) /\ Solid(plan) /\ Scaled(plan)
  BY AssignableFacts DEF UpdateExynos, At, Stage, Live, Whole
<1>2. step.at \in {"priority", "alone"}
  BY DEF UpdateExynos, At
<1>3. /\ Blended(plan) /\ Clear(plan) /\ Enough(plan)
      /\ Looked(plan, 1, Top + 1) /\ Targeted(plan) /\ Resulted(plan)
  BY <1>2, FilledAfter
<1>4. Backed(plan) /\ Fits(plan) /\ Held(plan)
  BY <1>1, <1>3, SettledIs
<1> DEFINE place == IF plan.client.has THEN "lower" ELSE "windows"
<1>5. step' = [step EXCEPT !.at = place, !.layer = plan.client.first, !.from = plan.client.last]
  BY DEF UpdateExynos
<1>6. step'.at = IF plan.client.has THEN "lower" ELSE "windows"
  BY <1>1, <1>5 DEF Step
<1>7. CASE plan' = plan
  <2>1. Filled(plan, step')
    BY <1>1, <1>3, <1>4, <1>6, LowerFilled
  <2> QED BY <1>7, <2>1
<1>8. ASSUME NEW i, NEW b, i = plan.exynos.first, b = plan.otf[ExynosTarget],
             i \in Layer, i = plan.exynos.last, b # NoBlock,
             plan' = MadeAlone(plan, i, b)
      PROVE  Filled(plan', step')
  <2>1. b \in Overlay
    BY <1>1, <1>8, PlanFields DEF Source
  <2>2. Solo(plan, i, b)
    BY <1>8 DEF Solo
  <2>3. PICK q : q = plan'
    OBVIOUS
  <2>4. q = MadeAlone(plan, i, b)
    BY <1>8, <2>3
  <2>5. /\ q \in Plan /\ Alone(plan, q, i) /\ Sound(q)
        /\ plan.exynos.has /\ plan.type[i] = "exynos"
    BY <1>1, <1>8, <2>1, <2>2, <2>4, AloneSound
  <2>6. Blended(q) /\ Clear(q) /\ Backed(q) /\ Fits(q) /\ Held(q)
    BY <1>1, <1>3, <1>4, <1>8, <2>1, <2>2, <2>5, AloneFilled
  <2>7. q.client = plan.client /\ q.failed = plan.failed
    BY <2>5 DEF Alone
  <2>8. step'.at = IF q.client.has THEN "lower" ELSE "windows"
    BY <1>6, <2>7
  <2>9. Filled(q, step')
    BY <1>1, <2>5, <2>6, <2>7, <2>8, LowerFilled
  <2> QED BY <2>3, <2>9
<1> QED BY <1>7, <1>8, Zenon DEF UpdateExynos, MadeAlone

\* What holds of the plan when all the layers have been looked at
Settled(p) == Blended(p) /\ Clear(p) /\ Backed(p) /\ Fits(p) /\ Held(p)

\* The client, or its target, leaves: the other sources keep what they have,
\* and the number of windows is still that of the sources.
Removed(p, q) ==
  /\ q.exynos = p.exynos
  /\ \A j \in Layer : q.m2m[j] = p.m2m[j]
  /\ \A s \in Source : s # ClientTarget => q.otf[s] = p.otf[s]
  /\ q.client.has => q.otf[ClientTarget] = p.otf[ClientTarget]
  /\ q.miscounted \/ (Cardinality(Used(q)) <= q.windows /\ q.windows <= p.windows)

\* Its last layer leaves.
LEMMA ClientNoneKeeps ==
  ASSUME NEW p \in Plan, BlocksOK(p), p.client.has, p.otf[ClientTarget] # NoBlock, Fits(p),
         NEW q, q = NoClient(Uncounted(Release(p, {p.otf[ClientTarget]}), {ClientTarget}))
  PROVE  Removed(p, q)
<1> DEFINE B == {p.otf[ClientTarget]}
           S == {ClientTarget}
           r == Release(p, B)
           u == Uncounted(r, S)
<1>1. r = Release(p, B)
  OBVIOUS
<1>2. u = Uncounted(r, S) /\ q = NoClient(u)
  OBVIOUS
<1>3. /\ B \in SUBSET Block /\ S \in SUBSET Source /\ B \subseteq Overlay
      /\ \A b : b \in B <=> b = p.otf[ClientTarget]
  BY PlanFields DEF Block, Source
<1>4. S = {ClientTarget}
  OBVIOUS
<1> HIDE DEF B, S, r, u
<1>5. /\ r \in Plan /\ SameLayers(p, r) /\ SameCounts(p, r)
      /\ r.window = p.window
      /\ r.otf = [s \in Source |-> IF p.otf[s] \in B THEN NoBlock ELSE p.otf[s]]
      /\ r.m2m = [i \in Layer |-> IF p.m2m[i] \in B THEN NoBlock ELSE p.m2m[i]]
      /\ r.users = [b \in Block |-> IF b \in B THEN {} ELSE p.users[b]]
      /\ BlocksOK(r) /\ Rid(p, r, B)
  BY <1>1, <1>3, ReleaseIs
<1>6. u \in Plan /\ BlocksOK(u) /\ SameBlocks(r, u) /\ SameLayers(r, u)
  BY <1>2, <1>3, <1>5, UncountedIs
<1>7. /\ q \in Plan /\ q.type = u.type /\ q.m2m = u.m2m
      /\ q.client = Nothing /\ q.exynos = u.exynos /\ SameCounts(u, q)
  BY <1>2, <1>6, NoClientIs
<1>8. \A s \in Source : s # ClientTarget => q.otf[s] = u.otf[s]
  <2>1. q.otf = [u.otf EXCEPT ![ClientTarget] = NoBlock]
    BY <1>2, <1>6 DEF NoClient, Plan
  <2> QED BY <1>6, <2>1, PlanFields
<1>9. q.exynos = p.exynos /\ q.type = p.type
  BY <1>5, <1>6, <1>7 DEF SameLayers
<1>10. ASSUME NEW j \in Layer
       PROVE  q.m2m[j] = p.m2m[j]
  <2>1. p.m2m[j] \in Single \union {Blender, NoBlock}
    BY PlanFields
  <2>2. p.m2m[j] \notin Overlay
    BY <2>1, BlocksApart
  <2> QED BY <1>3, <1>5, <1>6, <1>7, <2>2 DEF SameBlocks
<1>11. ASSUME NEW s \in Source, s # ClientTarget
       PROVE  q.otf[s] = p.otf[s]
  <2>1. ASSUME p.otf[s] \in B
        PROVE  FALSE
    <3>1. PICK b : b = p.otf[s] /\ b = p.otf[ClientTarget] /\ b \in Overlay /\ b # NoBlock
      BY <1>3, <2>1
    <3>2. s \in p.users[b] /\ ClientTarget \in p.users[b]
      BY <3>1, TargetsApart DEF BlocksOK, OtfUsed
    <3> QED BY <1>11, <3>1, <3>2 DEF BlocksOK, OneUser
  <2>2. p.otf[s] \notin B
    BY <2>1
  <2>3. r.otf[s] = p.otf[s]
    BY <1>5, <2>2
  <2>4. u.otf = r.otf
    BY <1>6 DEF SameBlocks
  <2> QED BY <1>8, <1>11, <2>3, <2>4
<1>12. ASSUME ~q.miscounted
       PROVE  Cardinality(Used(q)) <= q.windows /\ q.windows <= p.windows
  <2> DEFINE n == (r.windows - Cardinality(S)) % Word
             lost == r.miscounted \/ ~(S \subseteq r.counted)
  <2>1. u = [r EXCEPT !.windows = n, !.counted = r.counted \ S, !.miscounted = lost]
    BY <1>2, <1>5 DEF Uncounted, Plan
  <2>2. u.windows = n /\ u.miscounted = lost
    BY <1>5, <2>1 DEF Plan
  <2>3. Cardinality(S) = 1
    BY <1>4, FS_Singleton
  <2>4. q.windows = (p.windows - 1) % Word /\ ~p.miscounted
    BY <1>5, <1>7, <1>12, <2>2, <2>3 DEF SameCounts
  <2>5. Cardinality(Used(p)) <= p.windows
    BY <2>4 DEF Fits
  <2>6. Used(q) = Used(p) \ {ClientTarget} /\ ClientTarget \in Used(p) /\ Used(p) \in SUBSET Source
    BY <1>7, <1>9, TargetsApart DEF Used, OfType, Nothing
  <2>7. IsFiniteSet(Used(p)) /\ Cardinality(Used(p)) \in Nat
    BY <2>6, FewerUsers
  <2>8. Cardinality(Used(q)) = Cardinality(Used(p)) - 1 /\ Cardinality(Used(q)) \in Nat
    <3>1. PICK U : U = Used(p)
      OBVIOUS
    <3>2. /\ Cardinality(U \ {ClientTarget}) = Cardinality(U) - 1
          /\ IsFiniteSet(U \ {ClientTarget})
      BY <2>6, <2>7, <3>1, FS_RemoveElement
    <3>3. Cardinality(U \ {ClientTarget}) \in Nat
      BY <3>2, FS_CardinalityType
    <3> QED BY <2>6, <3>1, <3>2, <3>3
  <2>9. p.windows \in 0 .. Word - 1
    BY DEF Plan
  <2>10. p.windows - 1 \in 0 .. Word - 1
    BY <2>5, <2>7, <2>8, <2>9, WordIs
  <2>11. (p.windows - 1) % Word = p.windows - 1
    BY <2>10, WordIs
  <2> QED BY <2>4, <2>5, <2>7, <2>8, <2>9, <2>11
<1>13. q.miscounted \/ (Cardinality(Used(q)) <= q.windows /\ q.windows <= p.windows)
  BY <1>12
<1>14. \A s \in Source : s # ClientTarget => q.otf[s] = p.otf[s]
  BY <1>11
<1>15. ~q.client.has
  BY <1>7 DEF Nothing
<1>16. \A j \in Layer : q.m2m[j] = p.m2m[j]
  BY <1>10
<1> QED BY <1>9, <1>13, <1>14, <1>15, <1>16 DEF Removed

\* Another end of the range: what each source has stays.
LEMMA RangeRemoved ==
  ASSUME NEW p \in Plan, NEW q, SameBlocks(p, q), SameCounts(p, q), q.type = p.type,
         q.exynos = p.exynos, q.client.has = p.client.has, Fits(p)
  PROVE  Removed(p, q) /\ Fits(q)
<1>1. Used(q) = Used(p)
  BY DEF Used, OfType
<1>2. p.windows \in Int
  BY WordIs DEF Plan
<1>3. Fits(q)
  BY <1>1 DEF Fits, SameCounts
<1>4. Removed(p, q)
  BY <1>1, <1>2 DEF Removed, SameBlocks, SameCounts, Fits
<1> QED BY <1>3, <1>4

\* What moves an end of the range leaves the counts as they are.
LEMMA MovedCounts ==
  ASSUME NEW p \in Plan, NEW n \in Int,
         NEW q, q = FirstMoved(p, n) \/ q = LastMoved(p, n)
  PROVE  SameCounts(p, q) /\ q.exynos = p.exynos
<1>1. CASE q = FirstMoved(p, n)
  BY <1>1 DEF FirstMoved, Plan, SameCounts
<1>2. CASE q = LastMoved(p, n)
  BY <1>2 DEF LastMoved, Plan, SameCounts
<1> QED BY <1>1, <1>2

\* What removeClientCompositionLayer() keeps
LEMMA RemoveClientKeeps ==
  ASSUME NEW p \in Plan, BlocksOK(p), ~p.failed, Fits(p), NEW i \in Int,
         NEW q, q = RemoveClient(p, i), ~q.failed
  PROVE  Removed(p, q)
<1> DEFINE none == NoClient(Uncounted(Release(p, {p.otf[ClientTarget]}), {ClientTarget}))
           e == [p EXCEPT !.failed = TRUE]
           f == p.client.first + 1
           l == p.client.last - 1
           first == FirstMoved(p, f)
           last == LastMoved(p, l)
<1>1. f \in Int /\ l \in Int
  BY PlanFields
<1>2. \/ q = e
      \/ /\ p.client.has
         /\ \/ p.otf[ClientTarget] # NoBlock /\ q = none
            \/ q = first
            \/ q = last
  BY Zenon DEF RemoveClient, FirstMoved, LastMoved
<1>3. e.failed
  BY DEF Plan
<1>4. CASE p.client.has /\ p.otf[ClientTarget] # NoBlock /\ q = none
  BY <1>4, ClientNoneKeeps
<1>5. CASE q = first
  <2>1. PICK n \in Int : n = f
    BY <1>1
  <2>2. q = FirstMoved(p, n)
    BY <1>5, <2>1
  <2>3. SameBlocks(p, q) /\ q.type = p.type /\ q.client.has = p.client.has
    BY <2>2, ClientFirstMoved
  <2>4. SameCounts(p, q) /\ q.exynos = p.exynos
    BY <2>2, MovedCounts
  <2> QED BY <2>3, <2>4, RangeRemoved
<1>6. CASE q = last
  <2>1. PICK n \in Int : n = l
    BY <1>1
  <2>2. q = LastMoved(p, n)
    BY <1>6, <2>1
  <2>3. SameBlocks(p, q) /\ q.type = p.type /\ q.client.has = p.client.has
    BY <2>2, ClientLastMoved
  <2>4. SameCounts(p, q) /\ q.exynos = p.exynos
    BY <2>2, MovedCounts
  <2> QED BY <2>3, <2>4, RangeRemoved
<1> QED BY <1>2, <1>3, <1>4, <1>5, <1>6

\* A range that ends one layer earlier, or starts one later, has the other layers.
LEMMA CutRange ==
  ASSUME NEW p \in Plan, NEW q \in Plan, Valid(p.client), p.client.has,
         NEW i \in Layer, ClientCut(p, q, i)
  PROVE  /\ \A j \in Layer : j # i /\ Within(j, p.client) => Within(j, q.client)
         /\ \A j \in Layer : q.client.has /\ q.client.first < j /\ j <= q.client.last =>
              p.client.first < j /\ j <= p.client.last /\ j # i
<1>1. /\ p.client.first \in Int /\ p.client.last \in Int /\ i \in Int
      /\ q.client.first \in Int /\ q.client.last \in Int
      /\ p.client.first <= p.client.last
  BY PlanFields, LayerIsInt DEF Valid, IsRange
<1>2. CASE q.client = Nothing /\ p.client.first = i /\ p.client.last = i
  BY <1>1, <1>2, LayerIsInt DEF Within, Nothing
<1>3. CASE /\ q.client.has /\ p.client.first = i /\ i # p.client.last
           /\ q.client.first = i + 1 /\ q.client.last = p.client.last
  BY <1>1, <1>3, LayerIsInt DEF Within
<1>4. CASE /\ q.client.has /\ p.client.last = i /\ i # p.client.first
           /\ q.client.first = p.client.first /\ q.client.last = i - 1
  BY <1>1, <1>4, LayerIsInt DEF Within
<1> QED BY <1>2, <1>3, <1>4 DEF ClientCut

\* A layer at an end of the client's range has left it for blocks of its own.
LEMMA LeavesSettled ==
  ASSUME plan \in Plan, BlocksOK(plan), ~plan.failed, Sound(plan), Scaled(plan), Settled(plan),
         NEW i \in Int, ~IsHole(i), NEW o \in Spare(i),
         NEW q, q = Leaves(i, o), ~q.failed
  PROVE  Settled(q)
<1> DEFINE r == RemoveClient(plan, i)
<1>1. r = RemoveClient(plan, i)
  OBVIOUS
<1>2. q = IF r.failed THEN r ELSE ByDevice(r, i, o)
  BY DEF Leaves
<1> HIDE DEF r
<1>3. r.failed \in BOOLEAN
  BY <1>1, RemoveClientIs, PlanFields
<1>4. ~r.failed /\ q = ByDevice(r, i, o)
  BY <1>2, <1>3
<1>5. /\ r \in Plan /\ BlocksOK(r) /\ ClientLeft(plan, r, i) /\ ClientCut(plan, r, i)
      /\ i \in Layer /\ Within(i, plan.client)
      /\ plan.type[i] # "exynos" /\ plan.type[i] # "device"
      /\ r.m2m[i] = NoBlock /\ Offered(r, o)
  BY <1>1, <1>4, RemovedIs
<1>6. Blended(plan) /\ Clear(plan) /\ Backed(plan) /\ Fits(plan) /\ Held(plan)
  BY DEF Settled
<1>7. Removed(plan, r)
  BY <1>1, <1>4, <1>6, RemoveClientKeeps
<1>8. q \in Plan /\ DeviceGiven(r, q, i)
  BY <1>4, <1>5, ByDeviceIs
<1>9. /\ \A s \in Source : s # i => KeptFor(r, q, s)
      /\ Served(q, i) /\ q.miscounted = r.miscounted
      /\ ~NoWindow(r) => q.windows = r.windows + 1 /\ q.windows <= MaxWindow
  BY <1>4, <1>5, ByDeviceKeeps
<1>10. r.type = plan.type
  BY <1>5 DEF ClientLeft
<1>11. /\ q.client = r.client /\ q.exynos = plan.exynos
       /\ \A j \in Layer : q.type[j] = IF j = i THEN "device" ELSE plan.type[j]
       /\ \A j \in Layer : j # i => q.m2m[j] = plan.m2m[j]
  BY <1>7, <1>8, <1>10 DEF DeviceGiven, Removed
<1>12. /\ \A s \in Source : s # i /\ s # ClientTarget => q.otf[s] = plan.otf[s]
       /\ q.client.has => q.otf[ClientTarget] = plan.otf[ClientTarget]
       /\ q.otf[i] # NoBlock
  BY <1>5, <1>7, <1>9, <1>11, TargetsApart DEF KeptFor, Removed, Served
<1>13. /\ \A j \in Layer : j # i /\ Within(j, plan.client) => Within(j, q.client)
       /\ \A j \in Layer : q.client.has /\ q.client.first < j /\ j <= q.client.last =>
            plan.client.first < j /\ j <= plan.client.last /\ j # i
  <2>1. ClientCut(plan, q, i)
    BY <1>5, <1>11 DEF ClientCut
  <2>2. Valid(plan.client) /\ plan.client.has
    BY <1>5 DEF Sound, Within
  <2> QED BY <1>5, <1>8, <2>1, <2>2, CutRange
<1>14. Blended(q)
  BY <1>6, <1>11 DEF Blended
<1>15. Clear(q)
  <2>1. plan.client.has
    BY <1>5 DEF Within
  <2> QED BY <1>6, <1>11, <1>13, <2>1 DEF Clear
<1>16. q.client.has => plan.client.has
  BY <1>5 DEF Within
<1>17. Backed(q)
  <2>1. \A j \in Layer : q.type[j] # "invalid"
    BY <1>6, <1>11 DEF Backed
  <2>2. ASSUME NEW s \in Used(q)
        PROVE  q.otf[s] # NoBlock
    <3>1. CASE s = i
      BY <1>12, <3>1
    <3>2. CASE s # i
      <4>1. s \in Used(plan) /\ s \in Source
        BY <1>11, <1>16, <2>2, <3>2, TargetsApart DEF Used, OfType
      <4>2. s = ClientTarget => q.client.has
        BY <2>2, TargetsApart DEF Used, OfType
      <4> QED BY <1>6, <1>12, <3>2, <4>1, <4>2 DEF Backed
    <3> QED BY <3>1, <3>2
  <2> QED BY <2>1, <2>2 DEF Backed
<1>18. Fits(q)
  <2>1. CASE q.miscounted
    BY <2>1 DEF Fits
  <2>2. CASE ~q.miscounted
    <3>1. /\ Cardinality(Used(r)) <= r.windows /\ r.windows <= plan.windows
          /\ plan.windows \in Int /\ r.windows \in Int
      BY <1>5, <1>7, <1>9, <2>2, WordIs DEF Removed, Plan
    <3>2. ~NoWindow(plan)
      BY DEF Spare, Outcomes, ByClient, ByBlender
    <3>3. ~NoWindow(r)
      BY <3>1, <3>2, WordIs DEF NoWindow
    <3>4. Used(q) = Used(r) \union {i}
      BY <1>5, <1>8, <1>10, <1>11, TargetsApart DEF Used, OfType, DeviceGiven
    <3>5. Used(r) \in SUBSET Source /\ i \notin Used(r)
      BY <1>5, <1>10, TargetsApart DEF Used, OfType
    <3>6. IsFiniteSet(Used(r)) /\ Cardinality(Used(r)) \in Nat
      BY <3>5, FewerUsers
    <3>7. Cardinality(Used(q)) = Cardinality(Used(r)) + 1
      BY <3>4, <3>5, <3>6, FS_AddElement
    <3> QED BY <1>9, <3>1, <3>3, <3>6, <3>7 DEF Fits
  <2> QED BY <2>1, <2>2
<1>19. Held(q)
  <2>1. Ranged(q)
    BY <1>6, <1>11 DEF Held, Ranged
  <2>2. \A j \in Layer : q.type[j] = "client" => Within(j, q.client)
    BY <1>6, <1>11, <1>13 DEF Held
  <2>3. ASSUME q.exynos.has
        PROVE  LET last == q.exynos.last
               IN  /\ \A j \in Layer : q.exynos.first <= j /\ j < last => q.type[j] = "exynos"
                   /\ q.type[last] = "exynos" \/ (last < Top /\ High(last) /\ High(last + 1))
    <3>1. q.exynos.last \in Layer
      BY <1>8, <2>1, <2>3, TopIsNat, PlanFields DEF Ranged, IsRange, Layer
    <3>2. \A j \in Layer : plan.type[j] = "exynos" => q.type[j] = "exynos"
      BY <1>5, <1>11
    <3>3. /\ \A j \in Layer : plan.exynos.first <= j /\ j < plan.exynos.last =>
               plan.type[j] = "exynos"
          /\ \/ plan.type[plan.exynos.last] = "exynos"
             \/ /\ plan.exynos.last < Top /\ High(plan.exynos.last)
                /\ High(plan.exynos.last + 1)
      BY <1>6, <1>11, <2>3 DEF Held
    <3>4. q.exynos = plan.exynos
      BY <1>11
    <3> QED BY <3>1, <3>2, <3>3, <3>4
  <2> QED BY <2>1, <2>2, <2>3 DEF Held
<1> QED BY <1>14, <1>15, <1>17, <1>18, <1>19 DEF Settled

\* A layer that shows through is at an end of the range: the range is one shorter.
LEMMA MovedSettled ==
  ASSUME NEW p \in Plan, NEW q \in Plan, Settled(p),
         SameBlocks(p, q), SameCounts(p, q),
         q.type = p.type, q.exynos = p.exynos, q.client.has = p.client.has,
         \A j \in Layer : q.client.has /\ q.client.first < j /\ j <= q.client.last =>
           p.client.first < j /\ j <= p.client.last,
         \A j \in Layer : p.type[j] = "client" /\ Within(j, p.client) => Within(j, q.client)
  PROVE  Settled(q)
<1>1. Blended(p) /\ Clear(p) /\ Backed(p) /\ Fits(p) /\ Held(p)
  BY DEF Settled
<1>2. Blended(q) /\ Clear(q)
  BY <1>1 DEF Blended, Clear, SameBlocks
<1>3. Used(q) = Used(p)
  BY DEF Used, OfType
<1>4. Backed(q)
  BY <1>1, <1>3 DEF Backed, SameBlocks
<1>5. Fits(q)
  BY <1>1, RangeRemoved
<1>6. Held(q)
  BY <1>1 DEF Held, Ranged
<1> QED BY <1>2, <1>4, <1>5, <1>6 DEF Settled

\* At these places a settled plan is all there is to it.
LEMMA SettledFilled ==
  ASSUME NEW p, NEW s, s.at \in {"lower", "upper"}, Settled(p)
  PROVE  Filled(p, s)
BY DEF Filled, Live, Settled

\* That is what the invariant says there.
LEMMA FilledSettled ==
  ASSUME Complete, step.at \in {"lower", "upper"}
  PROVE  Settled(plan)
BY DEF Complete, Filled, Live, Settled

\* The first layer of the client leaves it.
LEMMA LowerLeavesFilled ==
  ASSUME Assignable, Complete, LowerLeaves
  PROVE  Filled(plan', step')
<1> DEFINE i == step.layer
           c == plan.client
<1>1. /\ plan \in Plan /\ BlocksOK(plan) /\ step \in Step
      /\ ~plan.failed /\ Sound(plan) /\ Scaled(plan)
      /\ Lower(plan, step)
  BY InLower DEF LowerLeaves
<1>2. i <= step.from /\ i \in Int /\ step.from \in Int
  BY <1>1, StepFields DEF LowerLeaves
<1>3. c.has /\ i = c.first
  BY <1>1, <1>2 DEF Lower
<1>4. /\ "lower" \in Places /\ i + 1 \in Int
      /\ c.first \in Int /\ c.last \in Int
  BY <1>1, <1>2, PlanFields DEF Places
<1>5. Settled(plan)
  BY FilledSettled DEF LowerLeaves, At
<1>6. \/ IsHole(i) /\ Then(FirstMoved(plan, c.first + 1), "lower", i + 1)
      \/ ~IsHole(i) /\ \E o \in Spare(i) : Then(Leaves(i, o), "lower", i + 1)
  BY Zenon DEF LowerLeaves, FirstMoved
<1>7. CASE IsHole(i) /\ Then(FirstMoved(plan, c.first + 1), "lower", i + 1)
  <2>1. PICK n \in Int : n = c.first + 1
    BY <1>4
  <2>2. PICK q : q = FirstMoved(plan, n) /\ Then(q, "lower", i + 1)
    BY <1>7, <2>1
  <2>3. /\ q \in Plan
        /\ SameBlocks(plan, q) /\ q.type = plan.type
        /\ q.client.has = c.has /\ q.client.first = n /\ q.client.last = c.last
    BY <1>1, <2>2, ClientFirstMoved
  <2>4. SameCounts(plan, q) /\ q.exynos = plan.exynos
    BY <1>1, <2>2, MovedCounts
  <2>5. \A j \in Layer : q.client.has /\ q.client.first < j /\ j <= q.client.last =>
          c.first < j /\ j <= c.last
    BY <1>4, <2>1, <2>3, LayerIsInt
  <2>6. \A j \in Layer : plan.type[j] = "client" /\ Within(j, c) => Within(j, q.client)
    BY <1>3, <1>4, <1>7, <2>1, <2>3, LayerIsInt DEF IsHole, Within
  <2>7. Settled(q)
    BY <1>1, <1>5, <2>3, <2>4, <2>5, <2>6, MovedSettled
  <2>8. \A s \in Step : s.at = "lower" => Filled(q, s)
    BY <2>7, SettledFilled
  <2> QED BY <1>1, <1>4, <2>2, <2>3, <2>8, ThenFilled
<1>8. ASSUME ~IsHole(i), NEW o \in Spare(i), Then(Leaves(i, o), "lower", i + 1)
      PROVE  Filled(plan', step')
  <2>1. PICK q : q = Leaves(i, o) /\ Then(q, "lower", i + 1)
    BY <1>8
  <2>2. q \in Plan
    BY <1>1, <1>2, <1>8, <2>1, LeavesIs
  <2>3. ASSUME ~q.failed
        PROVE  \A s \in Step : s.at = "lower" => Filled(q, s)
    <3>1. Settled(q)
      BY <1>1, <1>2, <1>5, <1>8, <2>1, <2>3, LeavesSettled
    <3> QED BY <3>1, SettledFilled
  <2> QED BY <1>1, <1>4, <2>1, <2>2, <2>3, ThenFilled
<1> QED BY <1>6, <1>7, <1>8

\* The last layer of the client leaves it.
LEMMA UpperLeavesFilled ==
  ASSUME Assignable, Complete, UpperLeaves
  PROVE  Filled(plan', step')
<1> DEFINE i == step.layer
           c == plan.client
<1>1. /\ plan \in Plan /\ BlocksOK(plan) /\ step \in Step
      /\ ~plan.failed /\ Sound(plan) /\ Scaled(plan)
      /\ Upper(plan, step)
  BY InUpper DEF UpperLeaves
<1>2. i \in Int /\ c.first \in Int /\ c.last \in Int
  BY <1>1, StepFields, PlanFields
<1>3. c.has => i = c.last
  BY <1>1 DEF Upper
<1>4. "upper" \in Places /\ i - 1 \in Int
  BY <1>2 DEF Places
<1>5. Settled(plan)
  BY FilledSettled DEF UpperLeaves, At
<1>6. \/ IsHole(i) /\ Then(LastMoved(plan, c.last - 1), "upper", i - 1)
      \/ ~IsHole(i) /\ \E o \in Spare(i) : Then(Leaves(i, o), "upper", i - 1)
  BY Zenon DEF UpperLeaves, LastMoved
<1>7. CASE IsHole(i) /\ Then(LastMoved(plan, c.last - 1), "upper", i - 1)
  <2>1. PICK n \in Int : n = c.last - 1
    BY <1>2
  <2>2. PICK q : q = LastMoved(plan, n) /\ Then(q, "upper", i - 1)
    BY <1>7, <2>1
  <2>3. /\ q \in Plan
        /\ SameBlocks(plan, q) /\ q.type = plan.type
        /\ q.client.has = c.has /\ q.client.first = c.first /\ q.client.last = n
    BY <1>1, <2>2, ClientLastMoved
  <2>4. SameCounts(plan, q) /\ q.exynos = plan.exynos
    BY <1>1, <2>2, MovedCounts
  <2>5. \A j \in Layer : q.client.has /\ q.client.first < j /\ j <= q.client.last =>
          c.first < j /\ j <= c.last
    BY <1>2, <2>1, <2>3, LayerIsInt
  <2>6. \A j \in Layer : plan.type[j] = "client" /\ Within(j, c) => Within(j, q.client)
    BY <1>2, <1>3, <1>7, <2>1, <2>3, LayerIsInt DEF IsHole, Within
  <2>7. Settled(q)
    BY <1>1, <1>5, <2>3, <2>4, <2>5, <2>6, MovedSettled
  <2>8. \A s \in Step : s.at = "upper" => Filled(q, s)
    BY <2>7, SettledFilled
  <2> QED BY <1>1, <1>4, <2>2, <2>3, <2>8, ThenFilled
<1>8. ASSUME ~IsHole(i), NEW o \in Spare(i), Then(Leaves(i, o), "upper", i - 1)
      PROVE  Filled(plan', step')
  <2>1. PICK q : q = Leaves(i, o) /\ Then(q, "upper", i - 1)
    BY <1>8
  <2>2. q \in Plan
    BY <1>1, <1>2, <1>8, <2>1, LeavesIs
  <2>3. ASSUME ~q.failed
        PROVE  \A s \in Step : s.at = "upper" => Filled(q, s)
    <3>1. Settled(q)
      BY <1>1, <1>2, <1>5, <1>8, <2>1, <2>3, LeavesSettled
    <3> QED BY <3>1, SettledFilled
  <2> QED BY <1>1, <1>4, <2>1, <2>2, <2>3, ThenFilled
<1> QED BY <1>6, <1>7, <1>8

\* A layer that stays may lose its metadata, which none of this is about.
LEMMA StaysSettled ==
  ASSUME NEW p \in Plan, Settled(p), NEW i,
         NEW q, q = p \/ q = WithoutMetadata(p, i)
  PROVE  Settled(q)
<1>1. CASE q = p
  BY <1>1
<1>2. CASE q = WithoutMetadata(p, i)
  <2>1. /\ q.type = p.type /\ q.otf = p.otf /\ q.m2m = p.m2m
        /\ q.client = p.client /\ q.exynos = p.exynos
        /\ q.windows = p.windows /\ q.counted = p.counted /\ q.miscounted = p.miscounted
    BY <1>2 DEF WithoutMetadata, Plan
  <2>2. Used(q) = Used(p)
    BY <2>1 DEF Used, OfType
  <2>3. Blended(q) /\ Clear(q)
    BY <2>1 DEF Settled, Blended, Clear
  <2>4. Backed(q) /\ Fits(q)
    BY <2>1, <2>2 DEF Settled, Backed, Fits
  <2>5. Held(q)
    BY <2>1 DEF Settled, Held, Ranged
  <2> QED BY <2>3, <2>4, <2>5 DEF Settled
<1> QED BY <1>1, <1>2

\* The first layer of the client stays,
LEMMA LowerStaysFilled ==
  ASSUME Assignable, Complete, LowerStays
  PROVE  Filled(plan', step')
<1>1. plan \in Plan /\ step \in Step
  BY InLower DEF LowerStays
<1>2. Settled(plan)
  BY FilledSettled DEF LowerStays, At
<1>3. PICK q : q = plan'
  OBVIOUS
<1>4. q = plan \/ q = WithoutMetadata(plan, step.layer)
  BY <1>3 DEF LowerStays, Stays
<1>5. Settled(q)
  BY <1>1, <1>2, <1>4, StaysSettled
<1>6. step'.at = "upper"
  BY <1>1 DEF LowerStays, GoUp, Step
<1>7. Filled(q, step')
  BY <1>5, <1>6, SettledFilled
<1> QED BY <1>3, <1>7

\* and the last one, which has no block: it is composed by the client.
LEMMA UpperStaysFilled ==
  ASSUME Assignable, Complete, UpperStays
  PROVE  Filled(plan', step')
<1>1. /\ plan \in Plan /\ BlocksOK(plan) /\ step \in Step
      /\ ~plan.failed /\ Sound(plan) /\ Scaled(plan) /\ Upper(plan, step)
  BY InUpper DEF UpperStays
<1>2. Settled(plan)
  BY FilledSettled DEF UpperStays, At
<1>3. PICK q : q = plan'
  OBVIOUS
<1>4. q = plan \/ q = WithoutMetadata(plan, step.layer)
  BY <1>3 DEF UpperStays, Stays
<1>5. Settled(q)
  BY <1>1, <1>2, <1>4, StaysSettled
<1>6. ~q.failed /\ q.client = plan.client /\ q.type = plan.type /\ Sound(q)
  <2>1. plan' = plan \/ Stays(step.layer)
    BY DEF UpperStays
  <2> QED BY <1>1, <1>3, <2>1, StaysIs
<1>7. ASSUME plan.client.has
      PROVE  plan.type[plan.client.last] = "client"
  <2>1. /\ step.layer = plan.client.last /\ plan.client.last \in Layer
        /\ Within(plan.client.last, plan.client) /\ 0 <= plan.client.last
    BY <1>1, <1>7, TopIsNat, PlanFields DEF Upper, Sound, Valid, IsRange, Layer, Within
  <2>2. ~IsHole(step.layer)
    BY <1>1, <2>1, StepFields DEF UpperStays
  <2>3. /\ plan.type[plan.client.last] # "invalid"
        /\ plan.type[plan.client.last] \in LayerType
    BY <1>1, <1>2, <2>1, PlanFields DEF Settled, Backed
  <2> QED BY <1>1, <2>1, <2>2, <2>3 DEF Sound, IsHole, LayerType
<1>8. Final(q)
  BY <1>5, <1>6, <1>7 DEF Final, Settled
<1>9. step'.at = "windows"
  BY <1>1 DEF UpperStays, Goto, Step
<1>10. Filled(q, step')
  BY <1>8, <1>9 DEF Filled, Live
<1> QED BY <1>3, <1>10

\* The windows are numbered from what the layers and the ranges are.
LEMMA AssignWindowFilled ==
  ASSUME Assignable, Complete, AssignWindow
  PROVE  Filled(plan', step')
<1>1. plan \in Plan /\ step \in Step
  BY AssignableFacts
<1>2. Final(plan)
  BY DEF AssignWindow, At, Complete, Filled
<1> DEFINE place == Place(plan)
           w == [s \in Source |->
                  IF place[s] = -1 THEN -1
                  ELSE Cardinality({t \in Source : 0 <= place[t] /\ place[t] < place[s]})]
<1>3. PICK q : q = [plan EXCEPT !.window = w] /\ q = plan'
  BY Zenon DEF AssignWindow
<1>4. w = [s \in Source |-> IF Place(plan)[s] = -1 THEN -1 ELSE Cardinality(Below(plan, s))]
  BY DEF Below
<1> HIDE DEF w, place
<1>5. /\ q.type = plan.type /\ q.otf = plan.otf /\ q.m2m = plan.m2m
      /\ q.client = plan.client /\ q.exynos = plan.exynos /\ q.failed = plan.failed
      /\ q.windows = plan.windows /\ q.miscounted = plan.miscounted
      /\ q.window = w
  BY <1>1, <1>3 DEF Plan
<1>6. Place(q) = Place(plan)
  BY <1>5 DEF Place
<1>7. Windowed(q)
  <2>1. \A s \in Source : Below(q, s) = Below(plan, s)
    BY <1>6 DEF Below
  <2> QED BY <1>4, <1>5, <1>6, <2>1 DEF Windowed
<1>8. Used(q) = Used(plan)
  BY <1>5 DEF Used, OfType
<1>9. Final(q)
  <2>1. CASE plan.failed
    BY <1>2, <1>5, <2>1 DEF Final, AllClient
  <2>2. CASE ~plan.failed
    <3>1. /\ Sound(plan) /\ Blended(plan) /\ Clear(plan) /\ Backed(plan) /\ Fits(plan)
          /\ Held(plan) /\ (plan.client.has => plan.type[plan.client.last] = "client")
      BY <1>2, <2>2 DEF Final
    <3>2. Sound(q) /\ Blended(q) /\ Clear(q)
      BY <1>5, <3>1 DEF Sound, Blended, Clear
    <3>3. Backed(q) /\ Fits(q)
      BY <1>5, <1>8, <3>1 DEF Backed, Fits
    <3>4. Held(q)
      BY <1>5, <3>1 DEF Held, Ranged
    <3> QED BY <1>5, <2>2, <3>1, <3>2, <3>3, <3>4 DEF Final
  <2> QED BY <2>1, <2>2
<1>10. step'.at = "assigned"
  <2>1. step' = [step EXCEPT !.at = "assigned", !.layer = 0]
    BY Zenon DEF AssignWindow, Goto
  <2> QED BY <1>1, <2>1 DEF Step
<1>11. Filled(q, step')
  BY <1>7, <1>9, <1>10 DEF Filled, Live
<1> QED BY <1>3, <1>11

\* After an error the client has all of the layers.
LEMMA ForceClientFilled ==
  ASSUME Assignable, Complete, ForceClient
  PROVE  Filled(plan', step')
<1>1. plan'.failed /\ AllClient(plan') /\ step'.at = "windows"
  BY ForceClientIs, ForceClientGood
<1>2. PICK q : q = plan'
  OBVIOUS
<1>3. Final(q)
  BY <1>1, <1>2 DEF Final
<1>4. Filled(q, step')
  BY <1>1, <1>3 DEF Filled, Live
<1> QED BY <1>2, <1>4

\* A frame starts with no layer looked at.
LEMMA FreshFilled ==
  ASSUME NEW k, NEW p, p = Fresh(k), NEW s, First(s)
  PROVE  Filled(p, s)
<1>1. s.at = "asked"
  BY DEF First
<1>2. (\A i \in Layer : p.type[i] = "invalid") /\ p.client = Nothing
  BY FreshFields
<1>3. Blended(p) /\ Clear(p)
  BY <1>2 DEF Blended, Clear, Nothing
<1> QED BY <1>1, <1>3, PassFilled

\* The next frame
LEMMA NextFrameFilled ==
  ASSUME NextFrame
  PROVE  Filled(plan', step')
<1>1. plan' = Fresh(kind) /\ First(step')
  BY DEF NextFrame, First
<1> QED BY <1>1, FreshFilled

\* and the first one.
LEMMA CompleteAtFirst ==
  ASSUME AssignmentInit
  PROVE  Complete
<1>1. plan = Fresh(kind) /\ First(step)
  BY DEF AssignmentInit, First
<1> QED BY <1>1, FreshFilled DEF Complete

\* Every step of assignResource() keeps the second invariant.
LEMMA CompleteKept ==
  ASSUME Assignable, Complete, [AssignmentNext]_assignmentVars
  PROVE  Complete'
<1>1. CASE UNCHANGED assignmentVars
  <2>1. plan' = plan /\ step' = step /\ kind' = kind
    BY <1>1 DEF assignmentVars
  <2>2. Filled(plan', step')
    BY <2>1 DEF Complete
  <2> QED BY <2>1, <2>2, FilledCarried
<1>2. CASE AssignmentNext
  <2>1. kind' = kind
    BY <1>2 DEF AssignmentNext, NextFrame, AskedAdded, BeginPass, NextTurn, AddAsked,
         LeaveBlender, LayerToDevice, LayerToClient, LayerFlattens, LayerToBlender,
         MeetClient, TakeOut, TakeIn, EndSandwich, GivenUp, AssignExynosTarget,
         Prioritize, UpdateExynos, LowerLeaves, LowerStays, UpperLeaves, UpperStays,
         AssignWindow, ForceClient
  <2>2. ASSUME \/ NextFrame \/ AskedAdded \/ BeginPass \/ NextTurn
               \/ EndSandwich \/ GivenUp \/ AssignExynosTarget \/ Prioritize
        PROVE  Filled(plan', step')
    BY <2>2, NextFrameFilled, AskedAddedFilled, BeginPassFilled, NextTurnFilled,
       EndSandwichFilled, GivenUpFilled, AssignExynosTargetFilled, PrioritizeFilled
  <2>3. ASSUME \/ UpdateExynos \/ LowerLeaves \/ LowerStays \/ UpperLeaves
               \/ UpperStays \/ AssignWindow \/ ForceClient
        PROVE  Filled(plan', step')
    BY <2>3, UpdateExynosFilled, LowerLeavesFilled, LowerStaysFilled, UpperLeavesFilled,
       UpperStaysFilled, AssignWindowFilled, ForceClientFilled
  <2>4. ASSUME NEW i \in Layer,
               \/ AddAsked(i) \/ LeaveBlender(i) \/ LayerToDevice(i)
               \/ LayerToClient(i) \/ LayerFlattens(i) \/ LayerToBlender(i)
               \/ MeetClient(i) \/ TakeOut(i) \/ TakeIn(i)
        PROVE  Filled(plan', step')
    BY <2>4, AddAskedFilled, LeaveBlenderFilled, LayerToDeviceFilled, LayerToClientFilled,
       LayerFlattensFilled, LayerToBlenderFilled, MeetClientFilled, TakeOutFilled, TakeInFilled
  <2>5. Filled(plan', step')
    BY <1>2, <2>2, <2>3, <2>4 DEF AssignmentNext
  <2> QED BY <2>1, <2>5, FilledCarried
<1> QED BY <1>1, <1>2

\* Both invariants hold in every state that assignResource() reaches.
LEMMA AlwaysComplete == AssignmentSpec => [](Assignable /\ Complete)
<1>1. AssignmentInit => Assignable /\ Complete
  BY AssignableAtFirst, CompleteAtFirst
<1>2. Assignable /\ Complete /\ [AssignmentNext]_assignmentVars => (Assignable /\ Complete)'
  BY AssignableKept, CompleteKept
<1> QED BY <1>1, <1>2, PTL DEF AssignmentSpec

-----------------------------------------------------------------------------
(* What the second invariant says of the windows.                           *)

\* The layer where a source has its window
LEMMA PlaceIs ==
  ASSUME NEW p \in Plan
  PROVE  /\ \A i \in Layer : Place(p)[i] = IF p.type[i] = "device" THEN i ELSE -1
         /\ Place(p)[ClientTarget] =
              IF /\ p.client.has /\ p.client.first >= 0 /\ p.client.last \in Layer
                 /\ p.type[p.client.last] = "client"
              THEN p.client.last ELSE -1
         /\ Place(p)[ExynosTarget] =
              IF /\ p.exynos.has /\ p.exynos.first >= 0 /\ p.exynos.last \in Layer
                 /\ p.type[p.exynos.last] = "exynos"
              THEN p.exynos.last ELSE -1
         /\ \A s \in Source : Place(p)[s] \in Int /\ -1 <= Place(p)[s]
<1>1. \A i \in Layer : Place(p)[i] = IF p.type[i] = "device" THEN i ELSE -1
  BY TargetsApart DEF Place
<1>2. Place(p)[ClientTarget] =
        IF /\ p.client.has /\ p.client.first >= 0 /\ p.client.last \in Layer
           /\ p.type[p.client.last] = "client"
        THEN p.client.last ELSE -1
  BY TargetsApart DEF Place
<1>3. Place(p)[ExynosTarget] =
        IF /\ p.exynos.has /\ p.exynos.first >= 0 /\ p.exynos.last \in Layer
           /\ p.type[p.exynos.last] = "exynos"
        THEN p.exynos.last ELSE -1
  BY TargetsApart DEF Place
<1>4. \A i \in Layer : i \in Int /\ -1 <= i
  BY TopIsNat DEF Layer
<1>5. ASSUME NEW s \in Source
      PROVE  Place(p)[s] \in Int /\ -1 <= Place(p)[s]
  <2>1. CASE s \in Layer
    BY <1>1, <1>4, <2>1
  <2>2. CASE s = ClientTarget
    BY <1>2, <1>4, <2>2
  <2>3. CASE s = ExynosTarget
    BY <1>3, <1>4, <2>3
  <2> QED BY <2>1, <2>2, <2>3 DEF Source
<1> QED BY <1>1, <1>2, <1>3, <1>5

\* Its number is that of the sources below it.
LEMMA WindowIs ==
  ASSUME NEW p \in Plan, Windowed(p), NEW s \in Source
  PROVE  /\ p.window[s] \in Int /\ -1 <= p.window[s]
         /\ p.window[s] >= 0 <=> Place(p)[s] # -1
         /\ \A t \in Source : Place(p)[s] <= Place(p)[t] => p.window[s] <= p.window[t]
<1>1. \A t \in Source :
        p.window[t] = IF Place(p)[t] = -1 THEN -1 ELSE Cardinality(Below(p, t))
  BY DEF Windowed
<1>2. \A t \in Source : Below(p, t) \in SUBSET Source /\ Cardinality(Below(p, t)) \in Nat
  <2>1. \A t \in Source : Below(p, t) \in SUBSET Source
    BY DEF Below
  <2> QED BY <2>1, FewerUsers
<1>3. \A t \in Source : p.window[t] \in Int /\ -1 <= p.window[t]
  BY <1>1, <1>2
<1>4. p.window[s] >= 0 <=> Place(p)[s] # -1
  BY <1>1, <1>2
<1>5. ASSUME NEW t \in Source, Place(p)[s] <= Place(p)[t]
      PROVE  p.window[s] <= p.window[t]
  <2>1. CASE Place(p)[s] = -1
    BY <1>1, <1>3, <2>1
  <2>2. CASE Place(p)[s] # -1
    <3>1. /\ Place(p)[s] \in Int /\ Place(p)[t] \in Int
          /\ -1 <= Place(p)[s] /\ \A u \in Source : Place(p)[u] \in Int
      BY PlaceIs
    <3>2. Place(p)[t] # -1
      BY <1>5, <2>2, <3>1
    <3>3. Below(p, s) \in SUBSET Below(p, t)
      BY <1>5, <3>1 DEF Below
    <3>4. Cardinality(Below(p, s)) <= Cardinality(Below(p, t))
      BY <1>2, <3>3, FewerUsers
    <3> QED BY <1>1, <2>2, <3>2, <3>4
  <2> QED BY <2>1, <2>2
<1> QED BY <1>3, <1>4, <1>5

\* What both invariants say when the windows are assigned
LEMMA FilledAssigned ==
  ASSUME Assignable, Complete, Assigned
  PROVE  /\ plan \in Plan /\ Windowed(plan)
         /\ plan.failed => AllClient(plan)
         /\ ~plan.failed =>
              /\ Sound(plan) /\ Blended(plan) /\ Clear(plan) /\ Backed(plan) /\ Fits(plan)
              /\ Held(plan) /\ (plan.client.has => plan.type[plan.client.last] = "client")
BY AssignableFacts DEF Complete, Filled, Final, Assigned

\* Where the windows of the compositions are
LEMMA CompositionPlaces ==
  ASSUME NEW p \in Plan, Sound(p), Held(p),
         p.client.has => p.type[p.client.last] = "client"
  PROVE  /\ p.client.has => /\ Place(p)[ClientTarget] = p.client.last
                            /\ p.client.last \in Layer
         /\ p.exynos.has => /\ p.exynos.last \in Layer /\ p.exynos.first >= 0
                            /\ IF p.type[p.exynos.last] = "exynos"
                               THEN Place(p)[ExynosTarget] = p.exynos.last
                               ELSE Place(p)[ExynosTarget] = -1
<1>1. p.client.has => p.client.last \in Layer /\ p.client.first >= 0
  BY TopIsNat, PlanFields DEF Sound, Valid, IsRange, Layer
<1>2. p.exynos.has => p.exynos.last \in Layer /\ p.exynos.first >= 0
  BY TopIsNat, PlanFields DEF Held, Ranged, IsRange, Layer
<1> QED BY <1>1, <1>2, PlaceIs

\* Nothing the client put on the display is lost, whatever the layers, the blocks
\* and the windows: when assignResource() is done, each layer has an overlay
\* block and a window of its own, or lies in the range of a composition that has
\* both, through all the times assignLayer(), addClientCompositionLayer() and
\* handleSandwitchedExynosCompositionLayer() took from a layer what it had.
THEOREM LayersAreShown == AssignmentSpec => []EveryLayerShown
<1>1. ASSUME Assignable, Complete
      PROVE  EveryLayerShown
  <2> SUFFICES ASSUME Assigned, plan.failed => plan.otf[ClientTarget] # NoBlock,
                      NEW i \in Layer, NEW s, s = SourceOf(i)
               PROVE  /\ plan.type[i] # "invalid"
                      /\ plan.otf[s] # NoBlock
                      /\ plan.window[s] >= 0 \/ (s = ExynosTarget /\ CutShort)
                      /\ s = ClientTarget => plan.client.first <= i /\ i <= plan.client.last
                      /\ s = ExynosTarget => /\ plan.exynos.first <= i /\ i <= plan.exynos.last
                                             /\ plan.m2m[i] = Blender
    BY Zenon DEF EveryLayerShown
  <2>1. /\ plan \in Plan /\ Windowed(plan)
        /\ plan.failed => AllClient(plan)
        /\ ~plan.failed =>
             /\ Sound(plan) /\ Blended(plan) /\ Clear(plan) /\ Backed(plan) /\ Fits(plan)
             /\ Held(plan) /\ (plan.client.has => plan.type[plan.client.last] = "client")
    BY <1>1, FilledAssigned
  <2>2. plan.failed \in BOOLEAN /\ plan.type[i] \in LayerType
    BY <2>1, PlanFields
  <2>3. \A t \in Source : plan.window[t] >= 0 <=> Place(plan)[t] # -1
    BY <2>1, WindowIs
  <2>4. \A j \in Layer : j \in Int /\ 0 <= j /\ j <= Top
    BY TopIsNat DEF Layer
  <2>5. CASE plan.failed
    <3>1. /\ \A j \in Layer : plan.type[j] = "client"
          /\ plan.client.has /\ plan.client.first = 0 /\ plan.client.last = Top
      BY <2>1, <2>5 DEF AllClient
    <3>2. s = ClientTarget
      BY <3>1 DEF SourceOf
    <3>3. Top \in Layer
      BY TopIsNat DEF Layer
    <3>4. Place(plan)[ClientTarget] = Top
      BY <2>1, <3>1, <3>3, PlaceIs
    <3>5. plan.window[ClientTarget] >= 0
      BY <2>3, <3>4, TopIsNat, TargetsApart
    <3> QED BY <2>4, <2>5, <3>1, <3>2, <3>5, TargetsApart
  <2>6. CASE ~plan.failed
    <3>1. /\ Sound(plan) /\ Blended(plan) /\ Backed(plan) /\ Held(plan)
          /\ plan.client.has => plan.type[plan.client.last] = "client"
      BY <2>1, <2>6
    <3>2. plan.type[i] # "invalid" /\ \A t \in Used(plan) : plan.otf[t] # NoBlock
      BY <3>1 DEF Backed
    <3>3. /\ plan.client.has => /\ Place(plan)[ClientTarget] = plan.client.last
                                /\ plan.client.last \in Layer
          /\ plan.exynos.has => /\ plan.exynos.last \in Layer /\ plan.exynos.first >= 0
                                /\ IF plan.type[plan.exynos.last] = "exynos"
                                   THEN Place(plan)[ExynosTarget] = plan.exynos.last
                                   ELSE Place(plan)[ExynosTarget] = -1
      BY <2>1, <3>1, CompositionPlaces
    <3>4. CASE plan.type[i] = "client"
      <4>1. s = ClientTarget
        BY <3>4 DEF SourceOf
      <4>2. Within(i, plan.client)
        BY <3>1, <3>4 DEF Held
      <4>3. plan.client.has /\ plan.client.first <= i /\ i <= plan.client.last
        BY <4>2 DEF Within
      <4>4. plan.otf[ClientTarget] # NoBlock
        BY <3>2, <4>3 DEF Used
      <4>5. plan.window[ClientTarget] >= 0
        BY <2>3, <2>4, <3>3, <4>3, TargetsApart
      <4> QED BY <3>2, <4>1, <4>3, <4>4, <4>5, TargetsApart
    <3>5. CASE plan.type[i] = "exynos"
      <4>1. s = ExynosTarget
        BY <3>5 DEF SourceOf
      <4>2. Within(i, plan.exynos) /\ plan.m2m[i] = Blender
        BY <3>1, <3>5 DEF Held, Ranged, Blended
      <4>3. plan.exynos.has /\ plan.exynos.first <= i /\ i <= plan.exynos.last
        BY <4>2 DEF Within
      <4>4. plan.otf[ExynosTarget] # NoBlock
        BY <3>2, <4>3 DEF Used
      <4>5. CASE plan.type[plan.exynos.last] = "exynos"
        <5>1. plan.window[ExynosTarget] >= 0
          BY <2>3, <2>4, <3>3, <4>3, <4>5, TargetsApart
        <5> QED BY <3>2, <4>1, <4>2, <4>3, <4>4, <5>1, TargetsApart
      <4>6. CASE plan.type[plan.exynos.last] # "exynos"
        <5>1. /\ plan.exynos.last < Top /\ High(plan.exynos.last) /\ High(plan.exynos.last + 1)
              /\ plan.exynos.last \in Layer
          BY <3>1, <3>3, <4>3, <4>6 DEF Held
        <5>2. CutShort
          BY <2>4, <5>1, TopIsNat DEF CutShort, Layer
        <5> QED BY <3>2, <4>1, <4>2, <4>3, <4>4, <5>2, TargetsApart
      <4> QED BY <4>5, <4>6
    <3>6. CASE plan.type[i] = "device"
      <4>1. s = i
        BY <3>6 DEF SourceOf
      <4>2. plan.otf[i] # NoBlock
        BY <3>2, <3>6 DEF Used, OfType
      <4>3. Place(plan)[i] = i
        BY <2>1, <3>6, PlaceIs
      <4>4. plan.window[i] >= 0
        BY <2>3, <2>4, <4>3, TargetsApart
      <4> QED BY <3>2, <4>1, <4>2, <4>4, TargetsApart
    <3> QED BY <2>2, <3>2, <3>4, <3>5, <3>6 DEF LayerType
  <2> QED BY <2>2, <2>5, <2>6
<1> QED BY <1>1, AlwaysComplete, PTL

\* No layer is shown above one that lies above it, except where the client
\* leaves a hole in its target or the range of the blender was cut short by the
\* loop of addExynosCompositionLayer(): the numbers that assignWindow() gives
\* follow the last layers of the ranges, and no layer of another source is
\* between the layers of a composition.
THEOREM WindowsKeepOrder == AssignmentSpec => []InOrder
<1>1. ASSUME Assignable, Complete
      PROVE  InOrder
  <2> SUFFICES ASSUME Assigned, NEW i \in Layer, NEW j \in Layer, i < j
               PROVE  \/ WindowOf(i) <= WindowOf(j)
                      \/ /\ plan.type[i] = "client" /\ plan.type[j] = "device"
                         /\ ShowsThrough(j)
                      \/ SourceOf(j) = ExynosTarget /\ CutShort
    BY DEF InOrder
  <2>1. /\ plan \in Plan /\ Windowed(plan)
        /\ plan.failed => AllClient(plan)
        /\ ~plan.failed =>
             /\ Sound(plan) /\ Blended(plan) /\ Clear(plan) /\ Backed(plan) /\ Fits(plan)
             /\ Held(plan) /\ (plan.client.has => plan.type[plan.client.last] = "client")
    BY <1>1, FilledAssigned
  <2>2. /\ plan.failed \in BOOLEAN /\ plan.type[i] \in LayerType /\ plan.type[j] \in LayerType
        /\ plan.client.first \in Int /\ plan.client.last \in Int
        /\ plan.exynos.first \in Int /\ plan.exynos.last \in Int
    BY <2>1, PlanFields
  <2>3. \A k \in Layer : k \in Int /\ 0 <= k /\ k <= Top
    BY TopIsNat DEF Layer
  <2>4. SourceOf(i) \in Source /\ SourceOf(j) \in Source
    BY TargetsApart DEF SourceOf
  <2>5. /\ \A s \in Source : plan.window[s] \in Int
        /\ \A s, t \in Source :
             Place(plan)[s] <= Place(plan)[t] => plan.window[s] <= plan.window[t]
    BY <2>1, WindowIs
  <2>6. CASE SourceOf(i) = SourceOf(j)
    BY <2>4, <2>5, <2>6 DEF WindowOf
  <2>7. CASE SourceOf(i) # SourceOf(j)
    <3>1. ~plan.failed
      BY <2>1, <2>7 DEF AllClient, SourceOf
    <3>2. /\ Sound(plan) /\ Clear(plan) /\ Backed(plan) /\ Held(plan)
          /\ plan.client.has => plan.type[plan.client.last] = "client"
      BY <2>1, <3>1
    <3>3. plan.type[i] # "invalid" /\ plan.type[j] # "invalid"
      BY <3>2 DEF Backed
    <3>4. /\ plan.client.has => /\ Place(plan)[ClientTarget] = plan.client.last
                                /\ plan.client.last \in Layer
          /\ plan.exynos.has => /\ plan.exynos.last \in Layer /\ plan.exynos.first >= 0
                                /\ IF plan.type[plan.exynos.last] = "exynos"
                                   THEN Place(plan)[ExynosTarget] = plan.exynos.last
                                   ELSE Place(plan)[ExynosTarget] = -1
      BY <2>1, <3>2, CompositionPlaces
    <3>5. \A k \in Layer :
            /\ plan.type[k] = "client" =>
                 /\ SourceOf(k) = ClientTarget /\ plan.client.has
                 /\ plan.client.first <= k /\ k <= plan.client.last
            /\ plan.type[k] = "exynos" =>
                 /\ SourceOf(k) = ExynosTarget /\ plan.exynos.has
                 /\ plan.exynos.first <= k /\ k <= plan.exynos.last
            /\ plan.type[k] = "device" => SourceOf(k) = k /\ Place(plan)[k] = k
      BY <2>1, <3>2, PlaceIs DEF SourceOf, Held, Ranged, Within
    <3>6. \A k \in Layer :
            plan.exynos.has /\ plan.exynos.first <= k /\ k < plan.exynos.last =>
              plan.type[k] = "exynos"
      BY <3>2 DEF Held
    <3>7. Place(plan)[SourceOf(i)] <= Place(plan)[SourceOf(j)] =>
            WindowOf(i) <= WindowOf(j)
      BY <2>4, <2>5 DEF WindowOf
    <3>8. CASE plan.type[j] = "client"
      <4>1. Place(plan)[SourceOf(j)] = plan.client.last /\ j <= plan.client.last
        BY <3>4, <3>5, <3>8
      <4>2. CASE plan.type[i] = "device"
        BY <2>3, <2>2, <3>5, <3>7, <4>1, <4>2
      <4>3. CASE plan.type[i] = "exynos"
        <5>1. plan.exynos.has /\ plan.exynos.first <= i /\ SourceOf(i) = ExynosTarget
          BY <3>5, <4>3
        <5>2. ~(j < plan.exynos.last)
          BY <2>2, <2>3, <3>6, <3>8, <5>1
        <5>3. Place(plan)[SourceOf(i)] <= plan.client.last
          BY <2>2, <2>3, <3>4, <4>1, <5>1, <5>2
        <5> QED BY <3>7, <4>1, <5>3
      <4> QED BY <2>2, <2>7, <3>3, <3>5, <3>8, <4>2, <4>3 DEF LayerType
    <3>9. CASE plan.type[j] = "exynos"
      <4>1. /\ plan.exynos.has /\ j <= plan.exynos.last /\ plan.exynos.last \in Layer
            /\ SourceOf(j) = ExynosTarget
        BY <3>4, <3>5, <3>9
      <4>2. CASE plan.type[plan.exynos.last] # "exynos"
        <5>1. /\ plan.exynos.last < Top /\ High(plan.exynos.last)
              /\ High(plan.exynos.last + 1)
          BY <3>2, <4>1, <4>2 DEF Held
        <5>2. CutShort
          BY <2>3, <4>1, <5>1, TopIsNat DEF CutShort, Layer
        <5> QED BY <4>1, <5>2
      <4>3. CASE plan.type[plan.exynos.last] = "exynos"
        <5>1. Place(plan)[SourceOf(j)] = plan.exynos.last
          BY <3>4, <4>1, <4>3
        <5>2. CASE plan.type[i] = "device"
          BY <2>3, <3>5, <3>7, <4>1, <5>1, <5>2
        <5>3. CASE plan.type[i] = "client"
          <6>1. /\ plan.client.has /\ plan.client.first <= i
                /\ SourceOf(i) = ClientTarget /\ Place(plan)[ClientTarget] = plan.client.last
                /\ plan.client.last \in Layer
            BY <3>4, <3>5, <5>3
          <6>2. ~Within(j, plan.client)
            BY <3>2, <3>9 DEF Sound
          <6>3. plan.client.last < j
            BY <2>2, <2>3, <6>1, <6>2 DEF Within
          <6> QED BY <2>3, <3>7, <4>1, <5>1, <6>1, <6>3
        <5> QED BY <2>2, <2>7, <3>3, <3>5, <3>9, <5>2, <5>3 DEF LayerType
      <4> QED BY <4>2, <4>3
    <3>10. CASE plan.type[j] = "device"
      <4>1. Place(plan)[SourceOf(j)] = j
        BY <3>5, <3>10
      <4>2. CASE plan.type[i] = "device"
        BY <2>3, <3>5, <3>7, <4>1, <4>2
      <4>3. CASE plan.type[i] = "exynos"
        <5>1. plan.exynos.has /\ plan.exynos.first <= i /\ SourceOf(i) = ExynosTarget
          BY <3>5, <4>3
        <5>2. ~(j < plan.exynos.last)
          BY <2>2, <2>3, <3>6, <3>10, <5>1
        <5>3. Place(plan)[SourceOf(i)] <= j
          BY <2>2, <2>3, <3>4, <5>1, <5>2
        <5> QED BY <3>7, <4>1, <5>3
      <4>4. CASE plan.type[i] = "client"
        <5>1. /\ plan.client.has /\ plan.client.first <= i
              /\ SourceOf(i) = ClientTarget /\ Place(plan)[ClientTarget] = plan.client.last
          BY <3>4, <3>5, <4>4
        <5>2. CASE j <= plan.client.last
          <6>1. plan.client.first < j
            BY <2>2, <2>3, <5>1
          <6>2. ShowsThrough(j)
            BY <3>2, <3>10, <5>1, <5>2, <6>1 DEF Clear
          <6> QED BY <3>10, <4>4, <6>2
        <5>3. CASE ~(j <= plan.client.last)
          BY <2>2, <2>3, <3>7, <4>1, <5>1, <5>3
        <5> QED BY <5>2, <5>3
      <4> QED BY <2>2, <3>3, <4>2, <4>3, <4>4 DEF LayerType
    <3> QED BY <2>2, <3>3, <3>8, <3>9, <3>10 DEF LayerType
  <2> QED BY <2>6, <2>7
<1> QED BY <1>1, AlwaysComplete, PTL

\* A display that has a window at all gets no more than preAssignWindows() gave
\* it, as long as no layer was taken off mWindowNumUsed that the pass had not
\* counted: though updateExynosComposition() gives the window of the blender
\* away and removeClientCompositionLayer() that of the client, there are never
\* more sources with a window than it counts.
THEOREM WindowsAreEnough ==
  ASSUME MaxWindow >= 1
  PROVE  AssignmentSpec => []WindowsFit
<1>1. ASSUME Assignable, Complete
      PROVE  WindowsFit
  <2> SUFFICES ASSUME Assigned, ~plan.miscounted
               PROVE  Cardinality({s \in Source : plan.window[s] >= 0}) <= MaxWindow
    BY DEF WindowsFit
  <2>1. /\ plan \in Plan /\ Windowed(plan)
        /\ plan.failed => AllClient(plan)
        /\ ~plan.failed =>
             /\ Sound(plan) /\ Blended(plan) /\ Clear(plan) /\ Backed(plan) /\ Fits(plan)
             /\ Held(plan) /\ (plan.client.has => plan.type[plan.client.last] = "client")
    BY <1>1, FilledAssigned
  <2>2. PICK W : W = {s \in Source : plan.window[s] >= 0}
    OBVIOUS
  <2>3. \A s \in W : s \in Source /\ Place(plan)[s] # -1
    BY <2>1, <2>2, WindowIs
  <2>4. MaxWindow \in Nat
    BY AssignmentAssumption
  <2>5. CASE plan.failed
    <3>1. /\ \A i \in Layer : plan.type[i] # "device"
          /\ plan.exynos.has = FALSE
      BY <2>1, <2>5 DEF AllClient, Nothing
    <3>2. /\ \A i \in Layer : Place(plan)[i] = -1
          /\ Place(plan)[ExynosTarget] = -1
      BY <2>1, <3>1, PlaceIs
    <3>3. W \in SUBSET {ClientTarget}
      BY <2>3, <3>2 DEF Source
    <3>4. Cardinality(W) <= Cardinality({ClientTarget}) /\ Cardinality(W) \in Nat
      BY <3>3, FewerUsers, TargetsApart
    <3>5. Cardinality({ClientTarget}) = 1
      BY FS_Singleton
    <3> QED BY <2>2, <2>4, <3>4, <3>5
  <2>6. CASE ~plan.failed
    <3>1. PICK U : U = Used(plan)
      OBVIOUS
    <3>2. U \in SUBSET Source
      BY <3>1, TargetsApart DEF Used, OfType
    <3>3. W \in SUBSET U
      <4>1. \A i \in Layer : Place(plan)[i] # -1 => plan.type[i] = "device"
        BY <2>1, PlaceIs
      <4>2. Place(plan)[ClientTarget] # -1 => plan.client.has
        BY <2>1, PlaceIs
      <4>3. Place(plan)[ExynosTarget] # -1 => plan.exynos.has
        BY <2>1, PlaceIs
      <4> QED BY <2>3, <3>1, <4>1, <4>2, <4>3 DEF Used, OfType, Source
    <3>4. Cardinality(W) <= Cardinality(U) /\ Cardinality(W) \in Nat /\ Cardinality(U) \in Nat
      BY <3>2, <3>3, FewerUsers
    <3>5. Cardinality(U) <= plan.windows /\ plan.windows <= MaxWindow
      BY <2>1, <2>6, <3>1 DEF Fits
    <3>6. plan.windows \in Int
      BY <2>1, WordIs DEF Plan
    <3> QED BY <2>2, <2>4, <3>4, <3>5, <3>6
  <2> QED BY <2>1, <2>5, <2>6, PlanFields
<1> QED BY <1>1, AlwaysComplete, PTL

====
