----------------------------- MODULE MCSBufStore -----------------------------
(***************************************************************************)
(* SBufStore for TLC: the SBufs, heap blobs and bytes are model values.    *)
(* The heap has one blob more than there are SBufs, which is the most a    *)
(* reAlloc can need: every SBuf holds at most one heap blob, and the new   *)
(* blob is allocated before the old one is released.                       *)
(***************************************************************************)
EXTENDS SBufStore, TLC

\* SBufs are interchangeable, and so are heap blobs: NewBlob picks one free
\* blob, and all free blobs are equal, so any choice gives a symmetric state
Symmetry == Permutations(SBufs) \cup Permutations(HeapBlobs)

ASSUME Cardinality(HeapBlobs) > Cardinality(SBufs)

\* Spec 4.2.4 step 4 read literally: after cow(len+n) the bytes are added
\* with MemBlob::append, at the store's frontier rather than at bufEnd().
\* MCSBufStoreCursor.cfg substitutes it for AfterCowAppend.
AfterCowAppendAtCursor(w, bytes) ==
  [w EXCEPT !.m = BlobAppend(@, w.b, bytes), !.l = @ + Len(bytes)]

\* the data bytes are a lower-case letter and its upper-case form
CONSTANTS LowerA, UpperA

MCToLower(c) == IF c = UpperA THEN LowerA ELSE c
MCToUpper(c) == IF c = LowerA THEN UpperA ELSE c

=============================================================================
