------------------------ MODULE DisplayConfig_proofs ------------------------
(* Proofs about DisplayConfig.  Entry points compose calls, so that what    *)
(* holds of a display is said of a record d and proved of each operator.    *)
EXTENDS DisplayConfig, FiniteSetTheorems, TLAPS

-----------------------------------------------------------------------------
(* The invariant                                                           *)

\* No two references own the same blob and no blob is without an owner but
\* those that are lost.
Owned(d) ==
  /\ \A b \in Blob :
       d.blobs[b] # None <=> b \in {d.actBlob, d.actOld, d.desBlob, d.desOld} \union d.lost
  /\ d.lost \intersect {d.actBlob, d.actOld, d.desBlob, d.desOld} = {}
  /\ d.actBlob \notin {d.actOld, d.desBlob, d.desOld}
  /\ d.actOld # 0 => d.actOld \notin {d.desBlob, d.desOld}
  /\ d.desBlob # 0 => d.desBlob # d.desOld
  /\ d.blobs[d.actBlob] = d.actMode
  /\ d.desBlob # 0 => d.blobs[d.desBlob] = d.desMode
  /\ d.desBlob = 0 <=> d.desMode = None
  /\ d.modeset => d.desMode # None

\* Only a test whose properties cannot be set has lost a blob, and the driver
\* has enough left.
Spare(d) == Plenty(Blob \ d.lost) /\ (d.lost # {} => "property" \in MayFail)

\* The panel may differ from the active mode, but not in its resolution
\* unless a switch of resolution was refused.
Interface(d) ==
  /\ d \in State /\ Owned(d) /\ Spare(d)
  /\ ~d.refused => SizeOf(d.panel) = SizeOf(d.actMode)
  /\ d.refused => "switch" \in MayFail

Sizes(d) ==
  /\ ~d.refused => SizeOf(d.actMode) = Group[d.active]
  /\ d.request # "none" => Group[d.desired] = Group[d.active]
  /\ d.modeset => Group[d.desMode] = Group[d.active]

Confirmable(d) ==
  d.request = "requested" =>
    d.hwVsync /\ d.period = Period[d.desired] /\ d.active = d.desired

\* A constrained request is postponed only if it is valid for the active
\* configuration.
Postponed(d) ==
  d.isPending =>
    /\ d.power # "on" /\ d.pendConfig \in Config
    /\ d.pendType = "constrained" /\ d.pendConstraint # {} =>
         Group[d.pendConfig] = Group[d.active]

\* What the interface leaves alone
SameRequest(d, e) ==
  /\ e.power = d.power /\ e.active = d.active /\ e.desired = d.desired
  /\ e.request = d.request /\ e.later = d.later /\ e.isPending = d.isPending
  /\ e.pendConfig = d.pendConfig /\ e.pendType = d.pendType
  /\ e.pendConstraint = d.pendConstraint /\ e.period = d.period
  /\ e.vsync = d.vsync /\ e.hwVsync = d.hwVsync

Requests(d) == Sizes(d) /\ Confirmable(d)
Good(d) == Interface(d) /\ Requests(d)
Inv == Good(dpy) /\ Postponed(dpy)

-----------------------------------------------------------------------------
(* Resolutions and blobs                                                   *)

(* A configuration has the resolution of its group. *)
LEMMA SizeOfConfig == \A c \in Config : SizeOf(c) = Group[c] /\ Group[c] \in Resolution
  BY DEF SizeOf, Resolution

(* The low power mode of a resolution has that resolution. *)
LEMMA SizeOfDoze ==
  ASSUME NEW g \in Resolution PROVE SizeOf(DozeMode[g]) = g /\ DozeMode[g] \in Mode
<1>1. DozeMode[g] \in Doze /\ DozeMode[g] \notin Config
  BY ModeAssumption DEF Doze
<1>2. \E h \in Resolution : DozeMode[h] = DozeMode[g]
  OBVIOUS
<1>3. (CHOOSE h \in Resolution : DozeMode[h] = DozeMode[g]) = g
  BY <1>2, ModeAssumption
<1> QED
  BY <1>1, <1>3 DEF SizeOf, Mode

(* Every mode has a resolution. *)
LEMMA SizeOfMode == ASSUME NEW m \in Mode PROVE SizeOf(m) \in Resolution
<1>1. CASE m \in Config
  BY <1>1, SizeOfConfig
<1>2. CASE m \in Doze
  <2>1. PICK g \in Resolution : m = DozeMode[g]
    BY <1>2 DEF Doze
  <2> QED
    BY <2>1, SizeOfDoze
<1> QED
  BY <1>1, <1>2 DEF Mode

(* Taking one element leaves all others. *)
LEMMA OneLess ==
  ASSUME NEW S, IsFiniteSet(S), NEW x
  PROVE  /\ IsFiniteSet(S \ {x}) /\ Cardinality(S) \in Nat
         /\ Cardinality(S \ {x}) \in Nat /\ Cardinality(S \ {x}) + 1 >= Cardinality(S)
<1> DEFINE T == S \ {x}
<1>1. /\ IsFiniteSet(T)
      /\ Cardinality(T) = IF x \in S THEN Cardinality(S) - 1 ELSE Cardinality(S)
  BY FS_RemoveElement
<1> HIDE DEF T
<1>2. Cardinality(S) \in Nat /\ Cardinality(T) \in Nat
  BY <1>1, FS_CardinalityType
<1>3. Cardinality(T) + 1 >= Cardinality(S)
  BY <1>1, <1>2
<1> QED
  BY <1>1, <1>2, <1>3 DEF T

(* Four blobs do not use up what is plenty. *)
LEMMA PlentyLeft ==
  ASSUME NEW S, IsFiniteSet(S), Plenty(S), NEW a, NEW b, NEW c, NEW d
  PROVE  S \ {a, b, c, d} # {}
<1> DEFINE T == S \ {a}
           U == T \ {b}
           V == U \ {c}
           W == V \ {d}
<1>1. /\ IsFiniteSet(T) /\ Cardinality(S) \in Nat /\ Cardinality(T) \in Nat
      /\ Cardinality(T) + 1 >= Cardinality(S)
  BY OneLess
<1> HIDE DEF T
<1>2. IsFiniteSet(U) /\ Cardinality(U) \in Nat /\ Cardinality(U) + 1 >= Cardinality(T)
  BY <1>1, OneLess
<1> HIDE DEF U
<1>3. IsFiniteSet(V) /\ Cardinality(V) \in Nat /\ Cardinality(V) + 1 >= Cardinality(U)
  BY <1>2, OneLess
<1> HIDE DEF V
<1>4. Cardinality(W) \in Nat /\ Cardinality(W) + 1 >= Cardinality(V)
  BY <1>3, OneLess
<1>5. W = S \ {a, b, c, d}
  BY DEF T, U, V
<1> HIDE DEF W
<1>6. Cardinality(W) > 0
  BY <1>1, <1>2, <1>3, <1>4 DEF Plenty
<1> QED
  BY <1>5, <1>6, FS_EmptySet

(* The driver has a blob that nobody owns. *)
LEMMA NewBlobFree ==
  ASSUME NEW d, d \in State, Owned(d), Spare(d)
  PROVE  /\ NewBlob(d) \in Blob /\ NewBlob(d) # 0
         /\ d.blobs[NewBlob(d)] = None
         /\ NewBlob(d) \notin {d.actBlob, d.actOld, d.desBlob, d.desOld}
         /\ NewBlob(d) \notin d.lost
<1>1. IsFiniteSet(Blob \ d.lost) /\ Plenty(Blob \ d.lost)
  BY BlobAssumption, FS_Difference DEF Spare
<1>2. (Blob \ d.lost) \ {d.actBlob, d.actOld, d.desBlob, d.desOld} # {}
  BY <1>1, PlentyLeft
<1>3. PICK b \in Blob : b \notin {d.actBlob, d.actOld, d.desBlob, d.desOld} \union d.lost
  BY <1>2
<1>4. d.blobs[b] = None
  BY <1>3 DEF Owned
<1>5. NewBlob(d) \in Blob /\ d.blobs[NewBlob(d)] = None
  BY <1>4 DEF NewBlob
<1> QED
  BY <1>5, BlobAssumption DEF Owned

(* What no mode or blob is. *)
LEMMA NoMode == None \notin Mode /\ Config \subseteq Mode /\ None \notin Config
  BY ModeAssumption DEF Mode

-----------------------------------------------------------------------------
(* The interface                                                           *)

(* A mode set that the driver takes passes the blobs on. *)
LEMMA ModeSetKeeps ==
  ASSUME NEW d, Interface(d), NEW mode \in Mode
  PROVE  LET e == ModeSet(d, mode)
         IN  /\ Interface(e)
             /\ e.actMode = mode /\ e.panel = mode /\ (e.refused <=> d.refused)
             /\ SameRequest(d, e) /\ e.modeset = d.modeset /\ e.desMode = d.desMode
<1> DEFINE e == ModeSet(d, mode)
           new == NewBlob(d)
<1> HIDE DEF new
<1>0. d \in State /\ Owned(d) /\ Spare(d)
  BY DEF Interface
<1>1. e = [d EXCEPT !.blobs = Destroy([@ EXCEPT ![new] = mode], {d.actOld}),
                    !.actMode = mode, !.actBlob = new, !.actOld = d.actBlob,
                    !.panel = mode]
  BY DEF ModeSet, new
<1> HIDE DEF e
<1>2. /\ new \in Blob /\ new # 0 /\ d.blobs[new] = None /\ new \notin d.lost
      /\ new \notin {d.actBlob, d.actOld, d.desBlob, d.desOld}
  BY <1>0, NewBlobFree DEF new
<1>3. e.blobs = [b \in Blob |-> IF b = d.actOld THEN None
                                ELSE IF b = new THEN mode ELSE d.blobs[b]]
  BY <1>0, <1>1, <1>2 DEF Destroy, State, Blobs
<1>4. /\ e.actMode = mode /\ e.actBlob = new /\ e.actOld = d.actBlob /\ e.panel = mode
      /\ e.desMode = d.desMode /\ e.desBlob = d.desBlob /\ e.desOld = d.desOld
      /\ e.modeset = d.modeset /\ e.lost = d.lost /\ (e.refused <=> d.refused)
  BY <1>0, <1>1 DEF State
<1>5. e.blobs \in Blobs
  BY <1>0, <1>3, NoMode DEF State, Blobs
<1> DEFINE blobs == e.blobs
<1> HIDE DEF blobs
<1>6. e = [d EXCEPT !.blobs = blobs, !.actMode = mode, !.actBlob = new,
                    !.actOld = d.actBlob, !.panel = mode]
  BY <1>0, <1>1 DEF State, blobs
<1>7. blobs \in Blobs
  BY <1>5 DEF blobs
<1>8. e \in State
  BY ZenonT(40), <1>0, <1>6, <1>2, <1>7 DEF State
<1>9. /\ d.actBlob \in Blob /\ d.actBlob # 0
      /\ d.desBlob \in Blob \union {0} /\ d.actOld \in Blob \union {0}
      /\ d.desOld \in Blob \union {0} /\ 0 \notin Blob
  BY <1>0, BlobAssumption DEF State
<1>10. Owned(e)
  <2>1. \A b \in Blob :
          e.blobs[b] # None
            <=> b \in {e.actBlob, e.actOld, e.desBlob, e.desOld} \union e.lost
    BY <1>0, <1>2, <1>3, <1>4, <1>9, NoMode DEF Owned
  <2>2. /\ e.blobs[e.actBlob] = e.actMode
        /\ e.desBlob # 0 => e.blobs[e.desBlob] = e.desMode
    BY <1>0, <1>2, <1>3, <1>4, <1>9 DEF Owned
  <2> QED
    BY <1>0, <1>2, <1>4, <1>9, <2>1, <2>2, NoMode DEF Owned
<1>11. SameRequest(d, e)
  BY <1>0, <1>1 DEF State, SameRequest
<1>12. Spare(e)
  BY <1>0, <1>4 DEF Spare
<1> QED
  BY <1>4, <1>8, <1>10, <1>11, <1>12 DEF Interface, e

(* setActiveDrmMode() sets the mode or leaves everything as it was. *)
LEMMA SetActiveDrmModeKeeps ==
  ASSUME NEW d, Interface(d), NEW mode \in Mode, NEW e \in SetActiveDrmMode(d, mode)
  PROVE  /\ Interface(e) /\ (e.refused <=> d.refused)
         /\ SameRequest(d, e) /\ e.modeset = d.modeset /\ e.desMode = d.desMode
         /\ \/ e = d /\ (SameMode(d, mode) \/ "switch" \in MayFail)
            \/ ~SameMode(d, mode) /\ e.actMode = mode /\ e.panel = mode
<1>1. CASE e = d /\ (SameMode(d, mode) \/ "switch" \in MayFail)
  BY <1>1 DEF SameRequest
<1>2. CASE ~SameMode(d, mode) /\ e = ModeSet(d, mode)
  BY <1>2, ModeSetKeeps
<1> QED
  BY <1>1, <1>2 DEF SetActiveDrmMode, Refused

(* setActiveConfig() of the interface gives up the desired mode. *)
LEMMA InterfaceSetConfigKeeps ==
  ASSUME NEW d, Interface(d), NEW c \in Config, NEW e \in InterfaceSetConfig(d, c)
  PROVE  /\ Interface(e) /\ SameRequest(d, e) /\ e.modeset = FALSE
         /\ ~e.refused => SizeOf(e.actMode) = Group[c]
<1>1. PICK s \in SetActiveDrmMode(d, c) :
        e = [s EXCEPT !.modeset = FALSE, !.refused = Missed(d, s, c)]
  BY DEF InterfaceSetConfig
<1> DEFINE missed == Missed(d, s, c)
<1>2. /\ Interface(s) /\ SameRequest(d, s)
      /\ \/ s = d /\ (SameMode(d, c) \/ "switch" \in MayFail)
         \/ ~SameMode(d, c) /\ s.actMode = c /\ s.panel = c
  BY NoMode, SetActiveDrmModeKeeps
<1>3. s \in State /\ Owned(s) /\ Spare(s) /\ d \in State
  BY <1>2 DEF Interface
<1>4. missed \in BOOLEAN
  BY <1>3 DEF Missed, State
<1>5. /\ missed => "switch" \in MayFail
      /\ ~missed => SizeOf(s.actMode) = Group[c] \/ SameMode(d, c)
      /\ ~missed => SizeOf(s.panel) = SizeOf(s.actMode)
  <2>1. CASE SameMode(d, c)
    BY <1>2, <2>1 DEF Missed, Interface
  <2>2. CASE ~SameMode(d, c) /\ s.actMode = c /\ s.panel = c
    BY <2>2, SizeOfConfig DEF Missed, SameMode
  <2>3. CASE ~SameMode(d, c) /\ s = d
    BY <1>2, <2>3 DEF Missed, SameMode, Interface
  <2> QED
    BY <1>2, <2>1, <2>2, <2>3
<1>6. ~missed => SizeOf(s.actMode) = Group[c]
  BY <1>2, <1>5, SizeOfConfig DEF SameMode
<1>7. e = [s EXCEPT !.modeset = FALSE, !.refused = missed]
  BY <1>1
<1> HIDE DEF missed
<1>8. e \in State
  BY ZenonT(40), <1>3, <1>4, <1>7 DEF State
<1>9. /\ e.modeset = FALSE /\ (e.refused <=> missed)
      /\ e.actMode = s.actMode /\ e.panel = s.panel /\ e.lost = s.lost
  BY <1>3, <1>4, <1>7 DEF State
<1>10. Owned(e)
  BY <1>3, <1>7 DEF State, Owned
<1>11. SameRequest(d, e)
  BY <1>2, <1>3, <1>7 DEF State, SameRequest
<1> QED
  BY <1>3, <1>5, <1>6, <1>8, <1>9, <1>10, <1>11 DEF Interface, Spare

(* The desired mode is passed on with its blobs like the active one. *)
LEMMA DesireModeKeeps ==
  ASSUME NEW d, Interface(d), NEW c \in Config
  PROVE  LET e == DesireMode(d, c)
         IN  /\ Interface(e)
             /\ e.desMode = c
             /\ SameRequest(d, e) /\ e.modeset = d.modeset
             /\ e.actMode = d.actMode /\ e.panel = d.panel /\ (e.refused <=> d.refused)
<1> DEFINE e == DesireMode(d, c)
           new == NewBlob(d)
<1> HIDE DEF new
<1>0. d \in State /\ Owned(d) /\ Spare(d)
  BY DEF Interface
<1>1. CASE d.desMode = c
  BY <1>0, <1>1 DEF DesireMode, Interface, SameRequest
<1>2. CASE d.desMode # c
  <2>1. e = [d EXCEPT !.blobs = Destroy([@ EXCEPT ![new] = c], {d.desOld}),
                      !.desMode = c, !.desBlob = new, !.desOld = d.desBlob]
    BY <1>2 DEF DesireMode, new
  <2> HIDE DEF e
  <2>2. /\ new \in Blob /\ new # 0 /\ d.blobs[new] = None /\ new \notin d.lost
        /\ new \notin {d.actBlob, d.actOld, d.desBlob, d.desOld}
    BY <1>0, NewBlobFree DEF new
  <2>3. e.blobs = [b \in Blob |-> IF b = d.desOld THEN None
                                  ELSE IF b = new THEN c ELSE d.blobs[b]]
    BY <1>0, <2>1, <2>2 DEF Destroy, State, Blobs
  <2>4. /\ e.desMode = c /\ e.desBlob = new /\ e.desOld = d.desBlob /\ e.panel = d.panel
        /\ e.actMode = d.actMode /\ e.actBlob = d.actBlob /\ e.actOld = d.actOld
        /\ e.modeset = d.modeset /\ e.lost = d.lost /\ (e.refused <=> d.refused)
    BY <1>0, <2>1 DEF State
  <2>5. e.blobs \in Blobs
    BY <1>0, <2>3, NoMode DEF State, Blobs
  <2> DEFINE blobs == e.blobs
  <2> HIDE DEF blobs
  <2>b. e = [d EXCEPT !.blobs = blobs, !.desMode = c, !.desBlob = new, !.desOld = d.desBlob]
    BY <1>0, <2>1 DEF State, blobs
  <2>c. blobs \in Blobs
    BY <2>5 DEF blobs
  <2>d. /\ c \in Config \union {None} /\ new \in Blob \union {0}
        /\ d.desBlob \in Blob \union {0} /\ d \in State
    BY <1>0, <2>2 DEF State
  <2>6. e \in State
    BY <2>b, <2>c, <2>d DEF State
  <2>7. /\ d.actBlob \in Blob /\ d.actBlob # 0
        /\ d.desBlob \in Blob \union {0} /\ d.actOld \in Blob \union {0}
        /\ d.desOld \in Blob \union {0} /\ 0 \notin Blob
    BY <1>0, BlobAssumption DEF State
  <2>8. Owned(e)
    <3>1. \A b \in Blob :
            e.blobs[b] # None
              <=> b \in {e.actBlob, e.actOld, e.desBlob, e.desOld} \union e.lost
      BY <1>0, <2>2, <2>3, <2>4, <2>7, NoMode DEF Owned
    <3>2. /\ e.blobs[e.actBlob] = e.actMode
          /\ e.desBlob # 0 => e.blobs[e.desBlob] = e.desMode
      BY <1>0, <2>2, <2>3, <2>4, <2>7 DEF Owned
    <3> QED
      BY <1>0, <2>2, <2>4, <2>7, <3>1, <3>2, NoMode DEF Owned
  <2>9. SameRequest(d, e)
    BY <1>0, <2>1 DEF State, SameRequest
  <2> QED
    BY <1>0, <2>4, <2>6, <2>8, <2>9 DEF Interface, Spare, e
<1> QED
  BY <1>1, <1>2

(* A blob that is lost is none that a reference owns. *)
LEMMA LoseBlobKeeps ==
  ASSUME NEW d, Interface(d), NEW c \in Config, "property" \in MayFail
  PROVE  LET e == LoseBlob(d, c)
         IN  /\ Interface(e)
             /\ SameRequest(d, e) /\ e.modeset = d.modeset /\ e.desMode = d.desMode
             /\ e.actMode = d.actMode /\ (e.refused <=> d.refused)
<1> DEFINE e == LoseBlob(d, c)
           new == NewBlob(d)
           lost == d.lost \union {new}
           blobs == [d.blobs EXCEPT ![new] = c]
<1> HIDE DEF new
<1>0. d \in State /\ Owned(d) /\ Spare(d)
  BY DEF Interface
<1>1. CASE e = d
  BY <1>1 DEF SameRequest
<1>2. CASE e # d
  <2>1. Plenty(Blob \ lost) /\ e = [d EXCEPT !.blobs[new] = c, !.lost = @ \union {new}]
    BY <1>2 DEF LoseBlob, new
  <2>2. /\ new \in Blob /\ new # 0 /\ d.blobs[new] = None /\ new \notin d.lost
        /\ new \notin {d.actBlob, d.actOld, d.desBlob, d.desOld}
    BY <1>0, NewBlobFree DEF new
  <2>3. e = [d EXCEPT !.blobs = blobs, !.lost = lost]
    BY <1>0, <2>1 DEF State
  <2> HIDE DEF e
  <2>4. blobs \in Blobs /\ lost \in SUBSET Blob
    BY <1>0, <2>2, NoMode DEF State, Blobs
  <2>5. blobs = [b \in Blob |-> IF b = new THEN c ELSE d.blobs[b]]
    BY <1>0 DEF State, Blobs
  <2> HIDE DEF blobs
  <2>6. e \in State
    BY <1>0, <2>3, <2>4 DEF State
  <2>7. /\ e.blobs = blobs /\ e.lost = lost /\ e.actMode = d.actMode
        /\ e.actBlob = d.actBlob /\ e.actOld = d.actOld /\ e.desMode = d.desMode
        /\ e.desBlob = d.desBlob /\ e.desOld = d.desOld /\ e.modeset = d.modeset
        /\ e.panel = d.panel /\ (e.refused <=> d.refused)
    BY <1>0, <2>3 DEF State
  <2>8. SameRequest(d, e)
    BY <1>0, <2>3 DEF State, SameRequest
  <2>9. d.actBlob \in Blob /\ d.desBlob \in Blob \union {0}
    BY <1>0 DEF State
  <2>10. Owned(e)
    BY <1>0, <2>2, <2>5, <2>7, <2>9, NoMode DEF Owned
  <2>11. Spare(e)
    BY <2>1, <2>7 DEF Spare
  <2> QED
    BY <2>6, <2>7, <2>8, <2>10, <2>11 DEF Interface, e
<1> QED
  BY <1>1, <1>2

-----------------------------------------------------------------------------
(* Requests                                                                *)

\* What requests leave of the interface
SameModes(d, e) ==
  /\ e.actMode = d.actMode /\ e.actBlob = d.actBlob /\ e.actOld = d.actOld
  /\ e.desMode = d.desMode /\ e.desBlob = d.desBlob /\ e.desOld = d.desOld
  /\ e.modeset = d.modeset /\ e.blobs = d.blobs /\ e.panel = d.panel
  /\ e.lost = d.lost /\ (e.refused <=> d.refused)

\* The display has, or has asked for, configuration c.
TakenUp(d, c) == d.active = c \/ (d.request = "pending" /\ d.desired = c)

\* What is postponed until the display is on
SamePostponed(d, e) ==
  /\ e.power = d.power /\ e.isPending = d.isPending /\ e.pendConfig = d.pendConfig
  /\ e.pendType = d.pendType /\ e.pendConstraint = d.pendConstraint

(* The interface does not depend on requests. *)
LEMMA SameModesKeep ==
  ASSUME NEW d, NEW e, Interface(d), e \in State, SameModes(d, e)
  PROVE  Interface(e)
  BY DEF Interface, Owned, Spare, SameModes

(* setActiveConfigInternal() leaves no request. *)
LEMMA SetActiveConfigInternalKeeps ==
  ASSUME NEW d, Interface(d), NEW c \in Config, NEW e \in SetActiveConfigInternal(d, c)
  PROVE  /\ Good(e)
         /\ e.active = c /\ e.desired = c /\ e.request = "none"
         /\ SamePostponed(d, e)
<1>1. PICK s \in InterfaceSetConfig(d, c) :
        e = [s EXCEPT !.active = c, !.desired = c, !.request = "none"]
  BY DEF SetActiveConfigInternal
<1>2. /\ Interface(s) /\ s.modeset = FALSE /\ SameRequest(d, s)
      /\ ~s.refused => SizeOf(s.actMode) = Group[c]
  BY InterfaceSetConfigKeeps
<1>3. s \in State
  BY <1>2 DEF Interface
<1>4. e \in State
  BY <1>1, <1>3 DEF State
<1>5. /\ SameModes(s, e) /\ SamePostponed(s, e)
      /\ e.active = c /\ e.desired = c /\ e.request = "none"
  BY <1>1, <1>3 DEF State, SameModes, SamePostponed
<1>6. Interface(e)
  BY <1>2, <1>4, <1>5, SameModesKeep
<1>7. Requests(e)
  BY <1>2, <1>5 DEF Requests, Sizes, Confirmable, SameModes
<1>8. SamePostponed(d, e)
  BY <1>2, <1>5 DEF SameRequest, SamePostponed
<1> QED
  BY <1>5, <1>6, <1>7, <1>8 DEF Good

(* A mode is tested or requested without a change to what is requested. *)
LEMMA DesiringKeeps ==
  ASSUME NEW d, Good(d), NEW c \in Config, Group[c] = Group[d.active]
  PROVE  /\ Good(TestMode(d, c)) /\ SameRequest(d, TestMode(d, c))
         /\ TestMode(d, c).actMode = d.actMode
         /\ Good(RequestMode(d, c)) /\ SameRequest(d, RequestMode(d, c))
<1> DEFINE s == DesireMode(d, c)
<1>1. /\ Interface(s) /\ s.desMode = c /\ SameRequest(d, s) /\ s.modeset = d.modeset
      /\ s.actMode = d.actMode /\ s.panel = d.panel /\ (s.refused <=> d.refused)
  BY DesireModeKeeps DEF Good
<1> HIDE DEF s
<1>2. Good(s)
  BY <1>1 DEF Good, Requests, Sizes, Confirmable, SameRequest
<1>3. SameRequest(d, d)
  BY DEF SameRequest
<1>4. Good(TestMode(d, c)) /\ SameRequest(d, TestMode(d, c)) /\ TestMode(d, c).actMode = d.actMode
  BY <1>1, <1>2, <1>3 DEF TestMode, s
<1>5. CASE SameMode(d, c)
  BY <1>3, <1>4, <1>5 DEF RequestMode
<1>6. CASE ~SameMode(d, c)
  <2> DEFINE r == RequestMode(d, c)
  <2>1. r = [s EXCEPT !.modeset = TRUE]
    BY <1>6 DEF RequestMode, s
  <2> HIDE DEF r
  <2>2. s \in State
    BY <1>1 DEF Interface
  <2>3. r \in State
    BY <2>1, <2>2 DEF State
  <2>4. SameRequest(s, r) /\ SameModes([s EXCEPT !.modeset = TRUE], r) /\ r.modeset = TRUE
        /\ r.actMode = s.actMode /\ r.desMode = c /\ r.panel = s.panel
        /\ r.lost = s.lost /\ (r.refused <=> s.refused)
    BY <1>1, <2>1, <2>2 DEF State, SameRequest, SameModes
  <2>5. Owned(r)
    BY <1>1, <2>1, <2>2, NoMode DEF Interface, Owned, State
  <2>6. Interface(r)
    BY <1>1, <2>3, <2>4, <2>5 DEF Interface, Spare
  <2>7. SameRequest(d, r)
    BY <1>1, <2>4 DEF SameRequest
  <2>8. Requests(r)
    BY <1>1, <1>2, <2>4 DEF Good, Requests, Sizes, Confirmable, SameRequest
  <2> QED
    BY <1>4, <2>6, <2>7, <2>8 DEF Good, r
<1> QED
  BY <1>5, <1>6

(* A test that fails may lose its blob. *)
LEMMA TestFailsKeeps ==
  ASSUME NEW d, Good(d), NEW c \in Config, NEW e \in TestFails(d, c)
  PROVE  Good(e) /\ SameRequest(d, e)
<1>1. CASE e = d
  BY <1>1 DEF SameRequest
<1>2. CASE e = LoseBlob(d, c) /\ "property" \in MayFail
  <2>1. /\ Interface(e) /\ SameRequest(d, e) /\ e.modeset = d.modeset
        /\ e.desMode = d.desMode /\ e.actMode = d.actMode /\ (e.refused <=> d.refused)
    BY <1>2, LoseBlobKeeps DEF Good
  <2> QED
    BY <2>1 DEF Good, Requests, Sizes, Confirmable, SameRequest
<1> QED
  BY <1>1, <1>2 DEF TestFails, Refused

(* What is asked for is no concern of the interface, nor of requests when   *)
(* it has the active resolution.                                            *)
LEMMA AskKeeps ==
  ASSUME NEW d, Good(d), NEW c \in Config, NEW constraint \in Constraint
  PROVE  LET e == Ask(d, c, constraint)
         IN  /\ Interface(e) /\ SamePostponed(d, e) /\ TakenUp(e, c)
             /\ Group[d.active] = Group[c] => Good(e)
<1> DEFINE e == Ask(d, c, constraint)
           later == "later" \in constraint
<1>1. e = [d EXCEPT !.request = "pending", !.desired = c, !.later = later] /\ later \in BOOLEAN
  BY DEF Ask
<1> HIDE DEF e, later
<1>2. d \in State
  BY DEF Good, Interface
<1>3. e \in State
  BY <1>1, <1>2 DEF State
<1>4. /\ SameModes(d, e) /\ SamePostponed(d, e) /\ e.active = d.active
      /\ e.request = "pending" /\ e.desired = c
  BY <1>1, <1>2 DEF State, SameModes, SamePostponed
<1>5. Interface(e)
  BY <1>3, <1>4, SameModesKeep DEF Good
<1>6. Group[d.active] = Group[c] => Requests(e)
  BY <1>4 DEF Good, Requests, Sizes, Confirmable, SameModes
<1> QED
  BY <1>4, <1>5, <1>6 DEF Good, TakenUp, e

(* A request that needs a change is active at once or waits for a frame,    *)
(* unless the time of the change cannot be told.                            *)
LEMMA ChangeKeeps ==
  ASSUME NEW d, Good(d), NEW c \in Config, NEW constraint \in Constraint,
         NEW e \in Change(d, c, constraint)
  PROVE  Good(e) /\ SamePostponed(d, e) /\ (TakenUp(e, c) \/ "time" \in MayFail)
<1> DEFINE a == Ask(d, c, constraint)
<1>1. /\ Interface(a) /\ SamePostponed(d, a) /\ TakenUp(a, c)
      /\ Group[d.active] = Group[c] => Good(a)
  BY AskKeeps
<1> HIDE DEF a
<1>2. CASE e \in SetActiveConfigInternal(a, c)
  <2>1. Good(e) /\ e.active = c /\ SamePostponed(a, e)
    BY <1>1, <1>2, SetActiveConfigInternalKeeps
  <2> QED
    BY <1>1, <2>1 DEF SamePostponed, TakenUp
<1>3. CASE e = a /\ Group[d.active] = Group[c]
  BY <1>1, <1>3
<1>4. CASE e = d /\ "time" \in MayFail
  BY <1>4 DEF SamePostponed
<1> QED
  BY <1>2, <1>3, <1>4 DEF Change, Refused, a

\* mPendConfigInfo takes a request.
Postpone(d, c, type, constraint) ==
  [d EXCEPT !.isPending = TRUE, !.pendConfig = c, !.pendType = type,
            !.pendConstraint = constraint]

(* A display that is not on postpones a request. *)
LEMMA PostponingKeeps ==
  ASSUME NEW d, Good(d), NEW c \in Config, NEW type \in {"free", "constrained"},
         NEW constraint \in Constraint
  PROVE  LET e == Postpone(d, c, type, constraint)
         IN  /\ Good(e) /\ e.power = d.power /\ e.isPending /\ e.pendConfig = c
             /\ e.pendType = type /\ e.pendConstraint = constraint /\ e.active = d.active
<1> DEFINE e == Postpone(d, c, type, constraint)
<1>0. e = [d EXCEPT !.isPending = TRUE, !.pendConfig = c, !.pendType = type,
                    !.pendConstraint = constraint]
  BY DEF Postpone
<1> HIDE DEF e
<1>1. d \in State /\ c \in Config \union {None}
  BY DEF Good, Interface
<1>2. e \in State
  BY <1>0, <1>1 DEF State
<1>3. /\ SameModes(d, e) /\ e.active = d.active /\ e.request = d.request
      /\ e.desired = d.desired /\ e.hwVsync = d.hwVsync /\ e.period = d.period
      /\ e.power = d.power /\ e.isPending /\ e.pendConfig = c
      /\ e.pendType = type /\ e.pendConstraint = constraint
  BY <1>0, <1>1 DEF State, SameModes
<1>4. Interface(e)
  BY <1>2, <1>3, SameModesKeep DEF Good
<1>5. Requests(e)
  BY <1>3 DEF Good, Requests, Sizes, Confirmable, SameModes
<1> QED
  BY <1>3, <1>4, <1>5 DEF Good, e

(* What needs no change is taken up already. *)
LEMMA NoNeed ==
  ASSUME NEW d, Good(d), NEW c, ~NeedChangeConfig(d, c)
  PROVE  TakenUp(d, c)
<1>1. d.request \in {"none", "pending", "requested"}
  BY DEF Good, Interface, State
<1> QED
  BY <1>1 DEF NeedChangeConfig, TakenUp, Good, Requests, Confirmable

(* setActiveConfig() *)
LEMMA SetActiveConfigKeeps ==
  ASSUME NEW d, Good(d), NEW c \in Config, NEW e \in SetActiveConfig(d, c)
  PROVE  /\ Good(e) /\ e.power = d.power
         /\ Postponed(d) => Postponed(e)
         /\ d.power = "on" => SamePostponed(d, e) /\ TakenUp(e, c)
<1>1. CASE d.power # "on"
  <2> DEFINE p == Postpone(d, c, "free", d.pendConstraint)
  <2>1. e = [d EXCEPT !.isPending = TRUE, !.pendConfig = c, !.pendType = "free"]
    BY <1>1 DEF SetActiveConfig
  <2>2. d.pendConstraint \in Constraint /\ d \in State
    BY DEF Good, Interface, State
  <2>3. e = p
    BY <2>1, <2>2 DEF State, Postpone
  <2>4. "free" \in {"free", "constrained"}
    OBVIOUS
  <2>5. Good(p)
    BY <2>2, <2>4, PostponingKeeps
  <2>6. p.power = d.power /\ p.pendConfig = c /\ p.pendType = "free"
    BY <2>2, <2>4, PostponingKeeps
  <2> HIDE DEF p
  <2>7. Postponed(p)
    BY <1>1, <2>6 DEF Postponed
  <2> QED
    BY <1>1, <2>3, <2>5, <2>6, <2>7
<1>2. CASE d.power = "on" /\ NeedChangeConfig(d, c)
  <2>1. e \in SetActiveConfigInternal(d, c)
    BY <1>2 DEF SetActiveConfig
  <2>2. Good(e) /\ e.active = c /\ SamePostponed(d, e)
    BY <2>1, SetActiveConfigInternalKeeps DEF Good
  <2> QED
    BY <1>2, <2>2 DEF SamePostponed, Postponed, TakenUp
<1>3. CASE d.power = "on" /\ ~NeedChangeConfig(d, c)
  <2>1. e = d
    BY <1>3 DEF SetActiveConfig
  <2> QED
    BY <1>3, <2>1, NoNeed DEF SamePostponed
<1> QED
  BY <1>1, <1>2, <1>3

(* What becomes of a request that is valid *)
LEMMA TakeRequestKeeps ==
  ASSUME NEW d, Good(d), NEW c \in Config, NEW constraint \in Constraint,
         constraint # {} => Group[d.active] = Group[c],
         NEW e \in TakeRequest(d, c, constraint)
  PROVE  /\ Good(e) /\ e.power = d.power
         /\ Postponed(d) => Postponed(e)
         /\ d.power = "on" =>
              SamePostponed(d, e) /\ (TakenUp(e, c) \/ "time" \in MayFail)
<1>1. CASE d.power # "on"
  <2> DEFINE p == Postpone(d, c, "constrained", constraint)
  <2>1. e = p
    BY <1>1 DEF TakeRequest, Postpone
  <2>2. "constrained" \in {"free", "constrained"}
    OBVIOUS
  <2>3. Good(p) /\ p.power = d.power /\ p.pendConfig = c
    BY <2>2, PostponingKeeps
  <2>4. p.pendConstraint = constraint /\ p.active = d.active
    BY <2>2, PostponingKeeps
  <2> HIDE DEF p
  <2>5. Postponed(p)
    BY <1>1, <2>3, <2>4 DEF Postponed
  <2> QED
    BY <1>1, <2>1, <2>3, <2>5
<1>2. CASE d.power = "on" /\ NeedChangeConfig(d, c)
  <2>1. e \in Change(d, c, constraint)
    BY <1>2 DEF TakeRequest
  <2>2. Good(e) /\ SamePostponed(d, e) /\ (TakenUp(e, c) \/ "time" \in MayFail)
    BY <2>1, ChangeKeeps
  <2> QED
    BY <1>2, <2>2 DEF SamePostponed, Postponed
<1>3. CASE d.power = "on" /\ ~NeedChangeConfig(d, c)
  <2>1. e = d
    BY <1>3 DEF TakeRequest
  <2> QED
    BY <1>3, <2>1, NoNeed DEF SamePostponed
<1> QED
  BY <1>1, <1>2, <1>3

(* setActiveConfigWithConstraints() takes up what is valid, unless a test   *)
(* fails or the time of the change cannot be told.                          *)
LEMMA SetWithConstraintsKeeps ==
  ASSUME NEW d, Good(d), NEW c, NEW constraint \in Constraint,
         NEW e \in SetWithConstraints(d, c, constraint)
  PROVE  /\ Good(e) /\ e.power = d.power
         /\ Postponed(d) => Postponed(e)
         /\ d.power = "on" =>
              /\ SamePostponed(d, e)
              /\ Valid(d, c, constraint) =>
                   TakenUp(e, c) \/ "seamless" \in constraint \/ "time" \in MayFail
<1>1. CASE ~Valid(d, c, constraint)
  BY <1>1 DEF SetWithConstraints, SamePostponed
<1>2. CASE Valid(d, c, constraint)
  <2>1. c \in Config /\ (constraint # {} => Group[d.active] = Group[c])
    BY <1>2 DEF Valid
  <2>2. CASE "seamless" \in constraint /\ e \in TestFails(d, c)
    <3>1. Good(e) /\ SameRequest(d, e)
      BY <2>1, <2>2, TestFailsKeeps
    <3> QED
      BY <2>2, <3>1 DEF SamePostponed, SameRequest, Postponed
  <2>3. CASE "seamless" \in constraint /\ e \in TakeRequest(TestMode(d, c), c, constraint)
    <3> DEFINE t == TestMode(d, c)
    <3>1. Group[c] = Group[d.active]
      BY <2>1, <2>3
    <3>2. Good(t) /\ SameRequest(d, t)
      BY <2>1, <3>1, DesiringKeeps
    <3> HIDE DEF t
    <3>3. t.active = d.active
      BY <3>2 DEF SameRequest
    <3>4. /\ Good(e) /\ e.power = t.power /\ (Postponed(t) => Postponed(e))
          /\ t.power = "on" => SamePostponed(t, e)
      BY <2>1, <2>3, <3>2, <3>3, TakeRequestKeeps DEF t
    <3> QED
      BY <2>3, <3>2, <3>4 DEF SamePostponed, SameRequest, Postponed
  <2>4. CASE "seamless" \notin constraint
    <3>1. e \in TakeRequest(d, c, constraint)
      BY <1>2, <2>4 DEF SetWithConstraints
    <3> QED
      BY <2>1, <3>1, TakeRequestKeeps
  <2> QED
    BY <1>2, <2>2, <2>3, <2>4 DEF SetWithConstraints
<1> QED
  BY <1>1, <1>2

-----------------------------------------------------------------------------
(* Power modes                                                             *)

(* setPowerOn() applies what is postponed. *)
LEMMA ApplyPendingKeeps ==
  ASSUME NEW d, Good(d), d.power = "on", NEW e \in ApplyPending(d),
         d.isPending => d.pendConfig \in Config
  PROVE  /\ Good(e) /\ SamePostponed(d, e)
         /\ /\ d.isPending
            /\ d.pendType = "constrained" /\ d.pendConstraint # {} =>
                 Group[d.pendConfig] = Group[d.active]
            /\ "seamless" \notin d.pendConstraint /\ "time" \notin MayFail
            => TakenUp(e, d.pendConfig)
<1>0. d.pendConstraint \in Constraint /\ d.pendType \in {"free", "constrained"}
  BY DEF Good, Interface, State
<1>1. CASE ~d.isPending \/ d.active = d.pendConfig
  BY <1>1 DEF ApplyPending, SamePostponed, TakenUp
<1>2. CASE d.isPending /\ d.active # d.pendConfig /\ d.pendType = "free"
  <2>1. e \in SetActiveConfig(d, d.pendConfig)
    BY <1>2 DEF ApplyPending
  <2> QED
    BY <1>2, <2>1, SetActiveConfigKeeps
<1>3. CASE d.isPending /\ d.active # d.pendConfig /\ d.pendType = "constrained"
  <2>1. e \in SetWithConstraints(d, d.pendConfig, d.pendConstraint)
    BY <1>3 DEF ApplyPending
  <2>2. /\ Good(e) /\ SamePostponed(d, e)
        /\ Valid(d, d.pendConfig, d.pendConstraint) =>
             \/ TakenUp(e, d.pendConfig)
             \/ "seamless" \in d.pendConstraint \/ "time" \in MayFail
    BY <1>0, <2>1, SetWithConstraintsKeeps
  <2>3. (d.pendConstraint # {} => Group[d.pendConfig] = Group[d.active])
          => Valid(d, d.pendConfig, d.pendConstraint)
    BY <1>3 DEF Valid
  <2> QED
    BY <1>3, <2>2, <2>3
<1> QED
  BY <1>0, <1>1, <1>2, <1>3

(* Leaving a low power mode restores the configuration and the request. *)
LEMMA RestoreKeeps ==
  ASSUME NEW d, Good(d), d.power = "on", NEW e \in Restore(d)
  PROVE  /\ Good(e) /\ SamePostponed(d, e)
         /\ /\ d.pendConfig \in Config /\ TakenUp(d, d.pendConfig)
            /\ "seamless" \notin d.pendConstraint /\ "time" \notin MayFail
            => TakenUp(e, d.pendConfig)
<1>0. d.pendConstraint \in Constraint /\ d.active \in Config
  BY DEF Good, Interface, State
<1>1. PICK r \in SetActiveConfigInternal(d, d.active) :
        e \in IF d.request = "pending"
              THEN SetWithConstraints(r, d.pendConfig, d.pendConstraint) ELSE {r}
  BY DEF Restore
<1>2. /\ Good(r) /\ SamePostponed(d, r) /\ r.active = d.active /\ r.request = "none"
  BY <1>0, SetActiveConfigInternalKeeps DEF Good
<1>3. r.power = "on"
  BY <1>2 DEF SamePostponed
<1>4. CASE d.request # "pending"
  <2>1. e = r
    BY <1>1, <1>4
  <2> QED
    BY <1>2, <1>4, <2>1 DEF TakenUp
<1>5. CASE d.request = "pending"
  <2>1. e \in SetWithConstraints(r, d.pendConfig, d.pendConstraint)
    BY <1>1, <1>5
  <2>2. /\ Good(e) /\ SamePostponed(r, e)
        /\ Valid(r, d.pendConfig, d.pendConstraint) =>
             \/ TakenUp(e, d.pendConfig)
             \/ "seamless" \in d.pendConstraint \/ "time" \in MayFail
    BY <1>0, <1>2, <1>3, <2>1, SetWithConstraintsKeeps
  <2>3. SamePostponed(d, e)
    BY <1>2, <2>2 DEF SamePostponed
  <2>4. ASSUME d.pendConfig \in Config, TakenUp(d, d.pendConfig)
        PROVE  Valid(r, d.pendConfig, d.pendConstraint)
    <3>1. Group[d.pendConfig] = Group[r.active]
      BY <1>2, <1>5, <2>4 DEF TakenUp, Good, Requests, Sizes
    <3> QED
      BY <2>4, <3>1 DEF Valid
  <2> QED
    BY <2>2, <2>3, <2>4
<1> QED
  BY <1>4, <1>5

\* The switches of the display, whatever it has requested
Switch(d, power) == [d EXCEPT !.power = power]
Forget(d) == [d EXCEPT !.isPending = FALSE]

(* The power mode and what is postponed are of no concern to requests. *)
LEMMA SwitchKeeps ==
  ASSUME NEW d, Good(d), NEW power \in {"on", "off", "doze", "suspend"}
  PROVE  /\ Good(Switch(d, power)) /\ SameModes(d, Switch(d, power))
         /\ Switch(d, power).power = power
         /\ Switch(d, power).isPending <=> d.isPending
         /\ Switch(d, power).pendConfig = d.pendConfig
         /\ Switch(d, power).pendType = d.pendType
         /\ Switch(d, power).pendConstraint = d.pendConstraint
         /\ Switch(d, power).active = d.active /\ Switch(d, power).request = d.request
<1> DEFINE e == Switch(d, power)
<1>1. d \in State
  BY DEF Good, Interface
<1>2. e \in State
  BY <1>1 DEF State, Switch
<1>3. /\ SameModes(d, e) /\ e.power = power /\ (e.isPending <=> d.isPending)
      /\ e.pendConfig = d.pendConfig /\ e.pendType = d.pendType
      /\ e.pendConstraint = d.pendConstraint /\ e.active = d.active
      /\ e.request = d.request /\ e.desired = d.desired
      /\ e.hwVsync = d.hwVsync /\ e.period = d.period
  BY <1>1 DEF State, Switch, SameModes
<1> HIDE DEF e
<1>4. Interface(e)
  BY <1>2, <1>3, SameModesKeep DEF Good
<1>5. Requests(e)
  BY <1>3 DEF Good, Requests, Sizes, Confirmable, SameModes
<1> QED
  BY <1>3, <1>4, <1>5 DEF Good, e

(* Nor is whether something is postponed. *)
LEMMA ForgetKeeps ==
  ASSUME NEW d, Good(d)
  PROVE  /\ Good(Forget(d)) /\ ~Forget(d).isPending
         /\ Forget(d).active = d.active /\ Forget(d).request = d.request
         /\ Forget(d).desired = d.desired
<1> DEFINE e == Forget(d)
<1>1. d \in State
  BY DEF Good, Interface
<1>2. e \in State
  BY <1>1 DEF State, Forget
<1>3. /\ SameModes(d, e) /\ ~e.isPending /\ e.active = d.active
      /\ e.request = d.request /\ e.desired = d.desired
      /\ e.hwVsync = d.hwVsync /\ e.period = d.period
  BY <1>1 DEF State, Forget, SameModes
<1> HIDE DEF e
<1>4. Interface(e)
  BY <1>2, <1>3, SameModesKeep DEF Good
<1>5. Requests(e)
  BY <1>3 DEF Good, Requests, Sizes, Confirmable, SameModes
<1> QED
  BY <1>3, <1>4, <1>5 DEF Good, e

(* setPowerOn() takes up what is postponed and forgets it. *)
LEMMA SetPowerOnKeeps ==
  ASSUME NEW d, Good(d), Postponed(d), NEW e \in SetPowerOn(d)
  PROVE  /\ Good(e) /\ Postponed(e) /\ ~e.isPending
         /\ d.isPending /\ "seamless" \notin d.pendConstraint /\ "time" \notin MayFail =>
              TakenUp(e, d.pendConfig)
<1> DEFINE sw == Switch(d, "on")
<1>0. PICK on \in ApplyPending(sw) :
        \E re \in (IF Restores(d, on) THEN Restore(on) ELSE {on}) : e = Forget(re)
  BY DEF SetPowerOn, Forget, Switch
<1>1. PICK re \in (IF Restores(d, on) THEN Restore(on) ELSE {on}) : e = Forget(re)
  BY <1>0
<1>2. /\ Good(sw) /\ sw.power = "on" /\ (sw.isPending <=> d.isPending)
      /\ sw.pendConfig = d.pendConfig /\ sw.pendType = d.pendType
      /\ sw.pendConstraint = d.pendConstraint /\ sw.active = d.active
  BY SwitchKeeps
<1> HIDE DEF sw
<1>3. /\ Good(on) /\ SamePostponed(sw, on)
      /\ d.isPending /\ "seamless" \notin d.pendConstraint /\ "time" \notin MayFail =>
           TakenUp(on, d.pendConfig)
  BY <1>1, <1>2, ApplyPendingKeeps DEF Postponed
<1>4. on.power = "on" /\ on.pendConfig = d.pendConfig /\ on.pendConstraint = d.pendConstraint
  BY <1>2, <1>3 DEF SamePostponed
<1>5. /\ Good(re)
      /\ d.isPending /\ "seamless" \notin d.pendConstraint /\ "time" \notin MayFail =>
           TakenUp(re, d.pendConfig)
  <2>1. CASE re \in Restore(on)
    BY <1>3, <1>4, <2>1, RestoreKeeps DEF Postponed
  <2>2. CASE re = on
    BY <1>3, <2>2
  <2> QED
    BY <1>1, <2>1, <2>2
<1>6. /\ Good(e) /\ ~e.isPending
      /\ e.active = re.active /\ e.request = re.request /\ e.desired = re.desired
  BY <1>1, <1>5, ForgetKeeps
<1>7. Postponed(e)
  BY <1>6 DEF Postponed
<1> QED
  BY <1>5, <1>6, <1>7 DEF TakenUp

(* setPowerOff() drops the request that a low power mode has stopped. *)
LEMMA SetPowerOffKeeps ==
  ASSUME NEW d, Good(d), Postponed(d), NEW e \in SetPowerOff(d)
  PROVE  Good(e) /\ Postponed(e) /\ e.power = "off"
<1>0. d.active \in Config
  BY DEF Good, Interface, State
<1>1. PICK r \in (IF d.power # "on" THEN SetActiveConfigInternal(d, d.active) ELSE {d}) :
        e = Switch(r, "off")
  BY DEF SetPowerOff, Switch
<1>2. Good(r) /\ SamePostponed(d, r) /\ r.active = d.active
  BY <1>0, <1>1, SetActiveConfigInternalKeeps DEF Good, SamePostponed
<1>3. /\ Good(e) /\ e.power = "off" /\ (e.isPending <=> r.isPending)
      /\ e.pendConfig = r.pendConfig /\ e.pendType = r.pendType
      /\ e.pendConstraint = r.pendConstraint /\ e.active = r.active
  BY <1>1, <1>2, SwitchKeeps
<1>4. Postponed(e)
  BY <1>2, <1>3 DEF Postponed, SamePostponed
<1> QED
  BY <1>3, <1>4

-----------------------------------------------------------------------------
(* Frames                                                                  *)

(* A frame takes up the request that waits for it, or none. *)
LEMMA BeginPresentKeeps ==
  ASSUME NEW d, Good(d), Postponed(d), NEW taken \in BOOLEAN
  PROVE  LET e == BeginPresent(d, taken)
         IN  Good(e) /\ Postponed(e) /\ e.power = d.power
<1> DEFINE e == BeginPresent(d, taken)
           r == RequestMode(d, d.desired)
           waits == taken /\ d.request = "pending" /\ d.power = "on" /\ ~d.later
<1>0. /\ d \in State /\ d.desired \in Config
      /\ d.request \in {"none", "pending", "requested"}
  BY DEF Good, Interface, State
<1>1. CASE waits
  <2>1. Group[d.desired] = Group[d.active]
    BY <1>1 DEF Good, Requests, Sizes
  <2>2. Good(r) /\ SameRequest(d, r)
    BY <1>0, <2>1, DesiringKeeps
  <2> HIDE DEF r
  <2>3. PostProcess(d) = [r EXCEPT !.request = "requested", !.period = Period[d.desired],
                                   !.hwVsync = TRUE]
    BY <1>1 DEF PostProcess, r
  <2>4. r \in State
    BY <2>2 DEF Good, Interface
  <2>5. r.desired = d.desired /\ r.active = d.active
    BY <2>2 DEF SameRequest
  <2> DEFINE p == PostProcess(d)
  <2>p. p.request = "requested" /\ p.desired = d.desired
    BY <2>3, <2>4, <2>5 DEF State
  <2> HIDE DEF p
  <2>q. e = [p EXCEPT !.active = d.desired]
    BY <1>1, <2>p DEF BeginPresent, p
  <2>6. e = [r EXCEPT !.request = "requested", !.period = Period[d.desired],
                      !.hwVsync = TRUE, !.active = d.desired]
    BY <2>3, <2>4, <2>q DEF State, p
  <2> DEFINE period == Period[d.desired]
  <2>7. period \in Periods \union {None}
    BY <1>0 DEF Periods
  <2>8. e = [r EXCEPT !.request = "requested", !.period = period,
                      !.hwVsync = TRUE, !.active = d.desired]
    BY <2>6
  <2> HIDE DEF e, period
  <2>9. e \in State
    BY ZenonT(40), <1>0, <2>4, <2>7, <2>8 DEF State
  <2>10. /\ SameModes(r, e) /\ SamePostponed(r, e) /\ e.active = d.desired
         /\ e.desired = d.desired /\ e.request = "requested" /\ e.hwVsync = TRUE
         /\ e.period = period
    BY <2>4, <2>5, <2>8 DEF State, SameModes, SamePostponed
  <2>11. Interface(e)
    BY <2>2, <2>9, <2>10, SameModesKeep DEF Good
  <2>12. Requests(e)
    BY <2>1, <2>2, <2>5, <2>10 DEF Good, Requests, Sizes, Confirmable,
       SameModes, period
  <2>13. Postponed(e)
    BY <1>1, <2>2, <2>10 DEF Postponed, SamePostponed, SameRequest
  <2> QED
    BY <2>2, <2>10, <2>11, <2>12, <2>13 DEF Good, SamePostponed, SameRequest, e
<1>2. CASE ~waits
  <2>1. (IF taken THEN PostProcess(d) ELSE d) = d
    BY <1>2 DEF PostProcess
  <2>2. d.request = "requested" => d.active = d.desired
    BY DEF Good, Requests, Confirmable
  <2>3. e = IF d.request = "requested" THEN [d EXCEPT !.active = d.desired] ELSE d
    BY <2>1 DEF BeginPresent
  <2>4. e = d
    BY <1>0, <2>2, <2>3 DEF State
  <2> QED
    BY <2>4
<1> QED
  BY <1>1, <1>2

(* The mode set before the frame has the resolution of the frame. *)
LEMMA SetModeKeeps ==
  ASSUME NEW d, Good(d), Postponed(d)
  PROVE  LET e == SetMode(d)
         IN  /\ Good(e) /\ Postponed(e) /\ e.power = d.power
             /\ e.modeset => e.panel = e.desMode
<1> DEFINE e == SetMode(d)
<1>0. d \in State /\ Owned(d)
  BY DEF Good, Interface
<1>1. CASE ~d.modeset
  BY <1>1 DEF SetMode
<1>2. CASE d.modeset
  <2>1. d.blobs[d.desBlob] = d.desMode /\ d.desMode \in Config
    BY <1>0, <1>2 DEF Owned, State
  <2>2. e = [d EXCEPT !.panel = d.desMode]
    BY <1>2, <2>1 DEF SetMode
  <2> HIDE DEF e
  <2>3. d.desMode \in Mode
    BY <2>1, NoMode
  <2>4. e \in State
    BY <1>0, <2>2, <2>3 DEF State
  <2>5. /\ SamePostponed(d, e) /\ e.actMode = d.actMode /\ e.actBlob = d.actBlob
        /\ e.actOld = d.actOld /\ e.desMode = d.desMode /\ e.desBlob = d.desBlob
        /\ e.desOld = d.desOld /\ e.modeset = d.modeset /\ e.blobs = d.blobs
        /\ e.panel = d.desMode /\ e.active = d.active /\ e.desired = d.desired
        /\ e.request = d.request /\ e.hwVsync = d.hwVsync /\ e.period = d.period
        /\ e.lost = d.lost /\ (e.refused <=> d.refused)
    BY <1>0, <2>2 DEF State, SamePostponed
  <2>6. Owned(e)
    BY <1>0, <2>5 DEF Owned
  <2>7. ~e.refused => SizeOf(e.panel) = SizeOf(e.actMode)
    BY <1>2, <2>1, <2>5, SizeOfConfig DEF Good, Requests, Sizes
  <2>8. Requests(e)
    BY <2>5 DEF Good, Requests, Sizes, Confirmable
  <2>9. Postponed(e)
    BY <2>5 DEF Postponed, SamePostponed
  <2> QED
    BY <2>4, <2>5, <2>6, <2>7, <2>8, <2>9 DEF Good, Interface, Spare, SamePostponed,
       e
<1> QED
  BY <1>1, <1>2

(* The desired mode becomes the active one with its blob. *)
LEMMA ApplyKeeps ==
  ASSUME NEW d, Good(d), Postponed(d), d.modeset => d.panel = d.desMode
  PROVE  Good(Apply(d)) /\ Postponed(Apply(d)) /\ Apply(d).power = d.power
<1> DEFINE e == Apply(d)
<1>0. d \in State /\ Owned(d) /\ Spare(d)
  BY DEF Good, Interface
<1>1. CASE ~d.modeset
  BY <1>1 DEF Apply
<1>2. CASE d.modeset
  <2>1. /\ d.desMode \in Config /\ d.desMode \in Mode
        /\ d.desBlob \in Blob /\ d.desBlob # 0
        /\ d.actBlob \in Blob /\ d.actBlob # 0 /\ 0 \notin Blob
        /\ d.actBlob \in Blob \union {0}
    BY <1>0, <1>2, NoMode, BlobAssumption DEF Owned, State
  <2> DEFINE blobs == Destroy(d.blobs, {d.actOld, d.desOld})
  <2>2. e = [d EXCEPT !.blobs = blobs, !.actMode = d.desMode, !.actBlob = d.desBlob,
                      !.actOld = d.actBlob, !.desMode = None, !.desBlob = 0,
                      !.desOld = 0, !.modeset = FALSE, !.refused = FALSE]
    BY <1>0, <1>2 DEF Apply, State
  <2>3. blobs = [b \in Blob |-> IF b \in {d.actOld, d.desOld} THEN None ELSE d.blobs[b]]
    BY DEF Destroy
  <2>4. blobs \in Blobs
    BY <1>0, <2>3 DEF State, Blobs
  <2> HIDE DEF e, blobs
  <2>5. None \in Config \union {None} /\ 0 \in Blob \union {0}
    OBVIOUS
  <2>6. e \in State
    BY ZenonT(40), <1>0, <2>1, <2>2, <2>4, <2>5 DEF State
  <2>7. /\ e.actMode = d.desMode /\ e.actBlob = d.desBlob /\ e.actOld = d.actBlob
        /\ e.desMode = None /\ e.desBlob = 0 /\ e.desOld = 0 /\ e.modeset = FALSE
        /\ e.blobs = blobs /\ e.panel = d.panel /\ e.lost = d.lost /\ e.refused = FALSE
    BY <1>0, <2>2 DEF State
  <2>8. /\ SamePostponed(d, e) /\ e.active = d.active /\ e.desired = d.desired
        /\ e.request = d.request /\ e.hwVsync = d.hwVsync /\ e.period = d.period
    BY <1>0, <2>2 DEF State, SamePostponed
  <2>9. Owned(e)
    <3>1. \A b \in Blob :
            e.blobs[b] # None
              <=> b \in {e.actBlob, e.actOld, e.desBlob, e.desOld} \union e.lost
      BY <1>0, <2>1, <2>3, <2>7 DEF Owned
    <3>2. e.blobs[e.actBlob] = e.actMode
      BY <1>0, <2>1, <2>3, <2>7 DEF Owned
    <3>3. e.lost \intersect {e.actBlob, e.actOld, e.desBlob, e.desOld} = {}
      <4>1. 0 \notin d.lost
        BY <1>0, <2>1 DEF State
      <4> QED
        BY <1>0, <2>7, <4>1 DEF Owned
    <3>4. /\ e.actBlob \notin {e.actOld, e.desBlob, e.desOld}
          /\ e.actOld # 0 => e.actOld \notin {e.desBlob, e.desOld}
      BY <1>0, <2>1, <2>7 DEF Owned
    <3> QED
      BY <2>7, <3>1, <3>2, <3>3, <3>4 DEF Owned
  <2>10. SizeOf(e.actMode) = Group[d.active] /\ SizeOf(e.panel) = Group[d.active]
    BY <1>0, <1>2, <2>1, <2>7, SizeOfConfig DEF Good, Requests, Sizes
  <2>11. Requests(e)
    BY <2>7, <2>8, <2>10 DEF Good, Requests, Sizes, Confirmable
  <2>12. Postponed(e)
    BY <2>8 DEF Postponed, SamePostponed
  <2> QED
    BY <1>0, <2>6, <2>7, <2>8, <2>9, <2>10, <2>11, <2>12 DEF Good, Interface, Spare,
       SamePostponed, e
<1> QED
  BY <1>1, <1>2

-----------------------------------------------------------------------------
(* Steps                                                                   *)

(* The low power mode has the resolution of the active one. *)
LEMMA DozeKeeps ==
  ASSUME Inv, NEW mode \in {"doze", "suspend"}, PowerDoze(mode)
  PROVE  Inv' /\ dpy'.power # "on"
<1> DEFINE low == LowPowerMode(dpy)
<1>1. dpy.actMode \in Mode
  BY DEF Inv, Good, Interface, State
<1>2. low \in Mode /\ SizeOf(low) = SizeOf(dpy.actMode)
  BY <1>1, SizeOfMode, SizeOfDoze DEF LowPowerMode
<1>3. PICK s \in SetActiveDrmMode(dpy, low) : SameMode(s, low) /\ dpy' = Switch(s, mode)
  BY DEF PowerDoze, To, Switch
<1> HIDE DEF low
<1>4. /\ Interface(s) /\ s.actMode = low /\ SameRequest(dpy, s)
      /\ s.modeset = dpy.modeset /\ s.desMode = dpy.desMode /\ (s.refused <=> dpy.refused)
  BY <1>2, <1>3, SetActiveDrmModeKeeps DEF Inv, Good, SameMode
<1>5. Requests(s)
  BY <1>2, <1>4 DEF Inv, Good, Requests, Sizes, Confirmable, SameRequest
<1>6. Good(s)
  BY <1>4, <1>5 DEF Good
<1> DEFINE e == Switch(s, mode)
<1>7. /\ Good(e) /\ e.power = mode /\ (e.isPending <=> s.isPending)
      /\ e.pendConfig = s.pendConfig /\ e.pendType = s.pendType
      /\ e.pendConstraint = s.pendConstraint /\ e.active = s.active
  BY <1>6, SwitchKeeps
<1> HIDE DEF e
<1>8. Postponed(e)
  BY <1>4, <1>7 DEF Inv, Postponed, SameRequest
<1> QED
  BY <1>3, <1>7, <1>8 DEF Inv, e

\* What the client and the vsync thread change of a display
Vsync(d, request, vsync, hwVsync, period) ==
  [d EXCEPT !.request = request, !.vsync = vsync, !.hwVsync = hwVsync, !.period = period]

(* Vsyncs are switched without a change to modes. *)
LEMMA VsyncKeeps ==
  ASSUME NEW d, Good(d), Postponed(d), NEW request \in {"none", d.request},
         NEW vsync \in BOOLEAN, NEW hwVsync \in BOOLEAN, NEW period \in Periods \union {None},
         request = "requested" => hwVsync /\ period = d.period
  PROVE  LET e == Vsync(d, request, vsync, hwVsync, period)
         IN  Good(e) /\ Postponed(e) /\ SameModes(d, e) /\ SamePostponed(d, e)
<1> DEFINE e == Vsync(d, request, vsync, hwVsync, period)
<1>1. d \in State /\ request \in {"none", "pending", "requested"}
  BY DEF Good, Interface, State
<1>2. e \in State
  <2>1. /\ vsync \in BOOLEAN /\ hwVsync \in BOOLEAN
        /\ period \in Periods \union {None}
    OBVIOUS
  <2> DEFINE f == [d EXCEPT !.request = request, !.period = period]
             g == [f EXCEPT !.vsync = vsync]
             h == [g EXCEPT !.hwVsync = hwVsync]
  <2>2. f \in State
    BY ZenonT(40), <1>1, <2>1 DEF State
  <2>3. e = h
    BY <1>1 DEF State, Vsync
  <2> HIDE DEF e, f
  <2>4. g \in State
    BY <2>1, <2>2 DEF State
  <2> HIDE DEF g
  <2>5. h \in State
    BY <2>1, <2>4 DEF State
  <2> QED
    BY <2>3, <2>5
<1>3. /\ SameModes(d, e) /\ SamePostponed(d, e) /\ e.active = d.active
      /\ e.desired = d.desired /\ e.request = request /\ e.period = period
      /\ (e.hwVsync <=> hwVsync)
  BY <1>1 DEF State, Vsync, SameModes, SamePostponed
<1> HIDE DEF e
<1>4. Interface(e)
  BY <1>2, <1>3, SameModesKeep DEF Good
<1>5. Requests(e)
  BY <1>3 DEF Good, Requests, Sizes, Confirmable, SameModes
<1>6. Postponed(e)
  BY <1>3 DEF Postponed, SamePostponed
<1> QED
  BY <1>3, <1>4, <1>5, <1>6 DEF Good, e

(* setVsyncEnabled() goes on with vsyncs that are waited for. *)
LEMMA SetVsyncEnabledKeeps ==
  ASSUME Inv, NEW on \in BOOLEAN, SetVsyncEnabled(on)
  PROVE  Inv' /\ dpy'.power = dpy.power
<1> DEFINE hw == on \/ (dpy.hwVsync /\ dpy.period # None)
<1>1. /\ dpy \in State /\ dpy.period \in Periods \union {None}
      /\ dpy.desired \in Config /\ hw \in BOOLEAN
  BY DEF Inv, Good, Interface, State
<1>2. dpy' = Vsync(dpy, dpy.request, on, hw, dpy.period)
  BY <1>1 DEF SetVsyncEnabled, To, Vsync, State
<1>3. dpy.request = "requested" => hw
  BY <1>1, NoMode, ModeAssumption DEF Inv, Good, Requests, Confirmable
<1> HIDE DEF hw
<1> QED
  BY <1>1, <1>2, <1>3, VsyncKeeps DEF Inv, SamePostponed

(* handleVsync() ends a request. *)
LEMMA VsyncConfirmsKeeps ==
  ASSUME Inv, VsyncConfirms
  PROVE  Inv' /\ dpy'.power = dpy.power
<1> DEFINE v == Vsync(dpy, "none", dpy.vsync, dpy.vsync, None)
           e == [v EXCEPT !.modeset = FALSE]
<1>1. dpy \in State /\ dpy.vsync \in BOOLEAN /\ None \in Periods \union {None}
  BY DEF Inv, Good, Interface, State
<1>2. Good(v) /\ Postponed(v) /\ SamePostponed(dpy, v)
  BY <1>1, VsyncKeeps DEF Inv
<1>3. dpy' = e
  BY <1>1 DEF VsyncConfirms, To, Vsync, State
<1> HIDE DEF v
<1>4. v \in State /\ Owned(v)
  BY <1>2 DEF Good, Interface
<1>5. e \in State
  BY <1>4 DEF State
<1>6. /\ SamePostponed(v, e) /\ e.actMode = v.actMode /\ e.actBlob = v.actBlob
      /\ e.actOld = v.actOld /\ e.desMode = v.desMode /\ e.desBlob = v.desBlob
      /\ e.desOld = v.desOld /\ ~e.modeset /\ e.blobs = v.blobs /\ e.panel = v.panel
      /\ e.active = v.active /\ e.desired = v.desired /\ e.request = v.request
      /\ (e.hwVsync <=> v.hwVsync) /\ e.period = v.period /\ e.lost = v.lost
      /\ (e.refused <=> v.refused)
  BY <1>4 DEF State, SamePostponed
<1> HIDE DEF e
<1>7. Owned(e)
  BY <1>4, <1>6 DEF Owned
<1>8. Good(e)
  BY <1>2, <1>5, <1>6, <1>7 DEF Good, Interface, Spare, Requests, Sizes,
     Confirmable
<1>9. Postponed(e)
  BY <1>2, <1>6 DEF Postponed, SamePostponed
<1> QED
  BY <1>2, <1>3, <1>6, <1>8, <1>9 DEF Inv, SamePostponed

(* The desired time comes. *)
LEMMA TimeComesKeeps ==
  ASSUME Inv, TimeComes
  PROVE  Inv' /\ dpy'.power = dpy.power
<1>0. dpy \in State
  BY DEF Inv, Good, Interface
<1>1. CASE dpy' = [dpy EXCEPT !.later = FALSE]
  <2>1. dpy' \in State
    BY <1>0, <1>1 DEF State
  <2>2. /\ SameModes(dpy, dpy') /\ SamePostponed(dpy, dpy') /\ dpy'.active = dpy.active
        /\ dpy'.desired = dpy.desired /\ dpy'.request = dpy.request
        /\ (dpy'.hwVsync <=> dpy.hwVsync) /\ dpy'.period = dpy.period
    BY <1>0, <1>1 DEF State, SameModes, SamePostponed
  <2>3. Interface(dpy')
    BY <2>1, <2>2, SameModesKeep DEF Inv, Good
  <2>4. Requests(dpy') /\ Postponed(dpy')
    BY <2>2 DEF Inv, Good, Requests, Sizes, Confirmable, SameModes, Postponed,
       SamePostponed
  <2> QED
    BY <2>2, <2>3, <2>4 DEF Inv, Good, SamePostponed
<1>2. CASE dpy' = [dpy EXCEPT !.pendConstraint = @ \ {"later"}]
  <2> DEFINE rest == dpy.pendConstraint \ {"later"}
  <2>1. rest \in Constraint /\ rest \subseteq dpy.pendConstraint
    BY <1>0 DEF State, Constraint
  <2>2. dpy' = [dpy EXCEPT !.pendConstraint = rest]
    BY <1>2
  <2> HIDE DEF rest
  <2>3. dpy' \in State
    BY <1>0, <2>1, <2>2 DEF State
  <2>4. /\ SameModes(dpy, dpy') /\ dpy'.active = dpy.active /\ dpy'.power = dpy.power
        /\ (dpy'.isPending <=> dpy.isPending) /\ dpy'.pendConfig = dpy.pendConfig
        /\ dpy'.pendType = dpy.pendType /\ dpy'.pendConstraint = rest
        /\ dpy'.desired = dpy.desired /\ dpy'.request = dpy.request
        /\ (dpy'.hwVsync <=> dpy.hwVsync) /\ dpy'.period = dpy.period
    BY <1>0, <2>2 DEF State, SameModes
  <2>5. Interface(dpy')
    BY <2>3, <2>4, SameModesKeep DEF Inv, Good
  <2>6. Requests(dpy')
    BY <2>4 DEF Inv, Good, Requests, Sizes, Confirmable, SameModes
  <2>7. Postponed(dpy')
    BY <2>1, <2>4 DEF Inv, Postponed
  <2> QED
    BY <2>4, <2>5, <2>6, <2>7 DEF Inv, Good
<1> QED
  BY <1>1, <1>2 DEF TimeComes, To

(* Frames that are skipped, fail or are shown. *)
LEMMA FramesKeep ==
  ASSUME Inv, NEW taken \in BOOLEAN,
         PresentSkipped(taken) \/ PresentFails(taken) \/ Present(taken)
  PROVE  Inv' /\ dpy'.power = dpy.power
<1> DEFINE b == BeginPresent(dpy, taken)
           m == SetMode(b)
<1>1. dpy' \in {b, m, Apply(m)}
  BY DEF PresentSkipped, PresentFails, Present, To
<1>2. Good(b) /\ Postponed(b) /\ b.power = dpy.power
  BY BeginPresentKeeps DEF Inv
<1> HIDE DEF b
<1>3. /\ Good(m) /\ Postponed(m) /\ m.power = dpy.power
      /\ m.modeset => m.panel = m.desMode
  BY <1>2, SetModeKeeps
<1> HIDE DEF m
<1>4. Good(Apply(m)) /\ Postponed(Apply(m)) /\ Apply(m).power = dpy.power
  BY <1>3, ApplyKeeps
<1> QED
  BY <1>1, <1>2, <1>3, <1>4 DEF Inv

(* resetForDestroyClient() leaves the display off, with the preferred mode  *)
(* unless the driver refuses it.                                            *)
LEMMA DestroyClientKeeps ==
  ASSUME Inv, DestroyClient
  PROVE  Inv' /\ dpy'.power = "off"
<1> DEFINE none == [dpy EXCEPT !.request = "none"]
           Pref(on) == [on EXCEPT !.active = Preferred]
           Quiet(reset) == [reset EXCEPT !.vsync = FALSE, !.hwVsync = FALSE, !.period = None]
<1>1. PICK on \in (IF dpy.power = "on" THEN {none} ELSE SetPowerOn(none)) :
        \E reset \in SetActiveConfigInternal(Pref(on), Preferred) :
          dpy' \in SetPowerOff(Quiet(reset))
  BY DEF DestroyClient, Into
<1>2. PICK reset \in SetActiveConfigInternal(Pref(on), Preferred) :
        dpy' \in SetPowerOff(Quiet(reset))
  BY <1>1
<1>3. /\ dpy \in State /\ Preferred \in Config /\ None \in Periods \union {None}
      /\ dpy.vsync \in BOOLEAN /\ dpy.hwVsync \in BOOLEAN /\ dpy.period \in Periods \union {None}
  BY ModeAssumption DEF Inv, Good, Interface, State
<1>4. none = Vsync(dpy, "none", dpy.vsync, dpy.hwVsync, dpy.period)
  BY <1>3 DEF State, Vsync
<1>5. Good(none) /\ Postponed(none) /\ SamePostponed(dpy, none)
  BY <1>3, <1>4, VsyncKeeps DEF Inv
<1> HIDE DEF none
<1>6. Good(on) /\ ~on.isPending
  <2>1. CASE dpy.power = "on"
    BY <1>1, <1>5, <2>1 DEF Inv, Postponed, SamePostponed
  <2>2. CASE dpy.power # "on"
    BY <1>1, <1>5, <2>2, SetPowerOnKeeps
  <2> QED
    BY <2>1, <2>2
<1> DEFINE pref == Pref(on)
<1>7. on \in State
  BY <1>6 DEF Good, Interface
<1>8. pref \in State /\ SameModes(on, pref) /\ ~pref.isPending
  BY <1>3, <1>6, <1>7 DEF State, SameModes
<1>9. reset \in SetActiveConfigInternal(pref, Preferred)
  BY <1>2
<1> HIDE DEF pref, Pref
<1>10. Interface(pref)
  BY <1>6, <1>8, SameModesKeep DEF Good
<1>11. Good(reset) /\ SamePostponed(pref, reset) /\ reset.request = "none"
  BY <1>3, <1>9, <1>10, SetActiveConfigInternalKeeps
<1>12. Postponed(reset)
  BY <1>8, <1>11 DEF Postponed, SamePostponed
<1> DEFINE no == FALSE
           quiet == Quiet(reset)
<1>13. quiet = Vsync(reset, "none", no, no, None) /\ no \in BOOLEAN
  BY <1>11 DEF Vsync, Good, Interface, State
<1>14. dpy' \in SetPowerOff(quiet)
  BY <1>2
<1> HIDE DEF quiet, Quiet, no
<1>15. Good(quiet) /\ Postponed(quiet)
  BY <1>3, <1>11, <1>12, <1>13, VsyncKeeps
<1> QED
  BY <1>14, <1>15, SetPowerOffKeeps DEF Inv

-----------------------------------------------------------------------------
(* Theorems                                                                *)

(* The display comes up as the invariant says. *)
LEMMA InitInv == Init => Inv
<1> SUFFICES ASSUME Init PROVE Inv
  OBVIOUS
<1>1. PICK b \in Blob, constraint \in Constraint :
    dpy = [ power |-> "off", active |-> Preferred, desired |-> Preferred,
            request |-> "none", later |-> FALSE,
            isPending |-> FALSE, pendConfig |-> None, pendType |-> "free",
            pendConstraint |-> constraint,
            period |-> None, vsync |-> FALSE, hwVsync |-> FALSE,
            actMode |-> Preferred, actBlob |-> b, actOld |-> 0,
            desMode |-> None, desBlob |-> 0, desOld |-> 0, modeset |-> FALSE,
            blobs |-> [x \in Blob |-> IF x = b THEN Preferred ELSE None],
            panel |-> Preferred, lost |-> {}, refused |-> FALSE ]
  BY DEF Init
<1>2. Preferred \in Config /\ Preferred \in Mode /\ b # 0 /\ None \notin Mode
  BY ModeAssumption, BlobAssumption, NoMode
<1>3. [x \in Blob |-> IF x = b THEN Preferred ELSE None] \in Blobs
  BY <1>2 DEF Blobs
<1>4. dpy \in State
  BY <1>1, <1>2, <1>3 DEF State
<1>5. Owned(dpy)
  BY <1>1, <1>2, BlobAssumption DEF Owned
<1>s. Spare(dpy)
  <2>1. Blob \ {} = Blob
    OBVIOUS
  <2> QED
    BY <1>1, <2>1, BlobAssumption DEF Spare
<1>6. Interface(dpy) /\ Requests(dpy)
  BY <1>1, <1>2, <1>4, <1>5, <1>s, SizeOfConfig DEF Interface, Requests, Sizes,
     Confirmable
<1>7. Postponed(dpy)
  BY <1>1 DEF Postponed
<1> QED
  BY <1>6, <1>7 DEF Inv, Good

(* Every step keeps the invariant, and a step that switches the display on  *)
(* takes up what was postponed.                                             *)
LEMMA StepInv ==
  ASSUME Inv, [Next]_vars
  PROVE  /\ Inv'
         /\ dpy' # dpy /\ dpy.isPending /\ dpy.power # "on" /\ dpy'.power = "on" =>
              \/ TakenUp(dpy', dpy.pendConfig)
              \/ "seamless" \in dpy.pendConstraint \/ "time" \in MayFail
<1>1. ASSUME NEW c \in Config, RequestConfig(c)
      PROVE  Inv' /\ dpy'.power = dpy.power
  BY <1>1, SetActiveConfigKeeps DEF Inv, RequestConfig, Into
<1>2. ASSUME NEW c \in Config, NEW constraint \in Constraint,
             RequestWithConstraints(c, constraint)
      PROVE  Inv' /\ dpy'.power = dpy.power
  BY <1>2, SetWithConstraintsKeeps DEF Inv, RequestWithConstraints, Into
<1>3. CASE PowerOn
  BY <1>3, SetPowerOnKeeps DEF Inv, PowerOn, Into
<1>4. CASE PowerOff
  BY <1>4, SetPowerOffKeeps DEF Inv, PowerOff, Into
<1>5. ASSUME NEW mode \in {"doze", "suspend"}, PowerDoze(mode)
      PROVE  Inv' /\ dpy'.power # "on"
  BY <1>5, DozeKeeps
<1>6. ASSUME NEW on \in BOOLEAN, SetVsyncEnabled(on)
      PROVE  Inv' /\ dpy'.power = dpy.power
  BY <1>6, SetVsyncEnabledKeeps
<1>7. ASSUME NEW taken \in Taken,
             PresentSkipped(taken) \/ PresentFails(taken) \/ Present(taken)
      PROVE  Inv' /\ dpy'.power = dpy.power
  <2>1. taken \in BOOLEAN
    BY DEF Taken
  <2> QED
    BY <1>7, <2>1, FramesKeep
<1>8. CASE UNCHANGED vars
  BY <1>8 DEF vars, Inv
<1> QED
  BY <1>1, <1>2, <1>3, <1>4, <1>5, <1>6, <1>7, <1>8, TimeComesKeeps,
     VsyncConfirmsKeeps, DestroyClientKeeps DEF Next

(* The invariant and what it is for. *)
LEMMA InvFacts ==
  ASSUME Inv
  PROVE  TypeOK /\ BlobsOwned /\ ResolutionAgrees /\ ConfirmationPossible
<1>1. /\ dpy \in State /\ Owned(dpy)
      /\ dpy.lost # {} => "property" \in MayFail
      /\ ~dpy.refused => SizeOf(dpy.panel) = SizeOf(dpy.actMode)
      /\ dpy.refused => "switch" \in MayFail
  BY DEF Inv, Good, Interface, Spare
<1>2. dpy.active \in Config /\ dpy.desired \in Config
  BY <1>1 DEF State
<1>3. /\ dpy.actBlob \in Blob /\ dpy.actOld \in Blob \union {0} /\ dpy.lost \subseteq Blob
      /\ dpy.desBlob \in Blob \union {0} /\ dpy.desOld \in Blob \union {0} /\ 0 \notin Blob
  BY <1>1, BlobAssumption DEF State
<1>4. {b \in Blob : dpy.blobs[b] # None}
        = ({dpy.actBlob, dpy.actOld, dpy.desBlob, dpy.desOld} \ {0}) \union dpy.lost
  BY <1>1, <1>3 DEF Owned
<1>5. BlobsOwned
  BY <1>1, <1>4 DEF BlobsOwned, Owned
<1>6. dpy.modeset => dpy.desMode \in Config
  BY <1>1 DEF Owned, State
<1>7. ResolutionAgrees
  BY <1>1, <1>2, <1>6, SizeOfConfig DEF ResolutionAgrees, Inv, Good, Requests,
     Sizes
<1>8. ConfirmationPossible
  BY DEF ConfirmationPossible, Inv, Good, Requests, Confirmable
<1> QED
  BY <1>1, <1>5, <1>7, <1>8 DEF TypeOK

(* The types of the display, its interface and the driver's blobs. *)
THEOREM TypeCorrect == Spec => []TypeOK
  BY InitInv, StepInv, InvFacts, PTL DEF Spec

(* Property BlobsOwned: however modes are switched, tested, requested and   *)
(* applied and whatever of it the driver refuses, no blob is destroyed too  *)
(* early or twice, and none is left without an owner but by a test whose    *)
(* properties cannot be set.                                                *)
THEOREM BlobsKept == Spec => []BlobsOwned
  BY InitInv, StepInv, InvFacts, PTL DEF Spec

(* Property ResolutionAgrees: the panel has the resolution that frames are  *)
(* composed for, even where it has another mode than the interface thinks,  *)
(* as long as the driver has not refused a switch to another resolution.    *)
THEOREM ResolutionsAgree == Spec => []ResolutionAgrees
  BY InitInv, StepInv, InvFacts, PTL DEF Spec

(* Property ConfirmationPossible: vsyncs go on, and are compared with the   *)
(* right period, until the requested mode is confirmed.                     *)
THEOREM VsyncsGoOn == Spec => []ConfirmationPossible
  BY InitInv, StepInv, InvFacts, PTL DEF Spec

(* Property PostponedTakenUp: power on takes up what was asked for while    *)
(* the display was not on, unless the time of the next vsync, which the     *)
(* request needs, cannot be read.                                           *)
THEOREM PostponedIsTakenUp ==
  ASSUME "time" \notin MayFail PROVE Spec => PostponedTakenUp
<1> DEFINE Takes ==
      dpy.isPending /\ dpy.power # "on" /\ dpy'.power = "on" =>
        \/ dpy'.active = dpy.pendConfig
        \/ dpy'.request = "pending" /\ dpy'.desired = dpy.pendConfig
        \/ "seamless" \in dpy.pendConstraint
<1>1. Inv /\ [Next]_vars => [Takes]_vars
  BY StepInv DEF TakenUp, vars
<1> QED
  BY <1>1, InitInv, StepInv, PTL DEF Spec, PostponedTakenUp
=============================================================================
