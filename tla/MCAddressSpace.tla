--------------------------- MODULE MCAddressSpace ---------------------------
(* Instances of AddressSpace: the frames are interchangeable.              *)
EXTENDS AddressSpace, TLC

Frames == Permutations(Frame)
=============================================================================
