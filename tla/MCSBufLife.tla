----------------------------- MODULE MCSBufLife -----------------------------
(***************************************************************************)
(* SBufLife for TLC: SBuf objects and heap blobs are interchangeable.      *)
(***************************************************************************)
EXTENDS SBufLife, TLC

Symmetry == Permutations(Objs) \cup Permutations(HeapBlobs)

=============================================================================
