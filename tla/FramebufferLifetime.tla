------------------------- MODULE FramebufferLifetime -------------------------
(***************************************************************************)
(* What the framebuffer manager promises, whatever lists, stamps and       *)
(* threads it uses: a display scans out framebuffers that exist, nothing   *)
(* is removed while it does, and a removal that was asked for is never     *)
(* forgotten.  FramebufferCache implements it.                             *)
(***************************************************************************)
CONSTANTS FB, Display

VARIABLES
  state,   \* of each framebuffer: absent, kept, or condemned to be removed
  shown    \* the framebuffers each display scans out, as far as promised

vars == <<state, shown>>

Init ==
  /\ state = [f \in FB |-> "absent"]
  /\ shown = [d \in Display |-> {}]

Create(f) ==
  /\ state[f] = "absent"
  /\ state' = [state EXCEPT ![f] = "kept"]
  /\ UNCHANGED shown

\* A condemned framebuffer may be shown again until it is removed.
Show(d, planes) ==
  /\ \A f \in planes : state[f] # "absent"
  /\ shown' = [shown EXCEPT ![d] = planes]
  /\ UNCHANGED state

\* The promise for a display ends: it is unplugged or gets no mode.
Drop(d) ==
  /\ shown' = [shown EXCEPT ![d] = {}]
  /\ UNCHANGED state

Condemn(S) ==
  /\ \A f \in S : state[f] = "kept"
  /\ state' = [f \in FB |-> IF f \in S THEN "condemned" ELSE state[f]]
  /\ UNCHANGED shown

Remove(S) ==
  /\ \A d \in Display : S \intersect shown[d] = {}
  /\ state' = [f \in FB |-> IF f \in S THEN "absent" ELSE state[f]]
  /\ UNCHANGED shown

\* The manager is destroyed and promises nothing more.
Close ==
  /\ shown' = [d \in Display |-> {}]
  /\ \E S \in SUBSET FB :
       state' = [f \in FB |-> IF f \in S THEN "absent" ELSE state[f]]

Next ==
  \/ \E f \in FB : Create(f)
  \/ \E d \in Display : Drop(d) \/ \E planes \in SUBSET FB : Show(d, planes)
  \/ \E S \in SUBSET FB : Condemn(S) \/ Remove(S)
  \/ Close

Spec == Init /\ [][Next]_vars
=============================================================================
