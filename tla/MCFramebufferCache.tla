------------------------- MODULE MCFramebufferCache -------------------------
(* Instances of FramebufferCache for TLC. *)
EXTENDS FramebufferCache, TLC

CONSTANT external

\* Displays of different types, and the two external displays of a device.
Distinct == [d \in Display |-> d]
Shared   == [d \in Display |-> external]

Symmetry == Permutations(FB) \union Permutations(Buf) \union Permutations(Owner)
            \union Permutations(Display)
=============================================================================
