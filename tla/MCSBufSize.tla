----------------------------- MODULE MCSBufSize -----------------------------
(***************************************************************************)
(* SBufSize for TLC: the counts are the boundaries of maxSize, npos, and   *)
(* for the out-of-range run the largest value a size_type argument holds.  *)
(***************************************************************************)
EXTENDS SBufSize

\* npos, nothing, one byte, and both sides of maxSize
InRangeCounts == {Npos, 0, 1, MaxSize - 1, MaxSize, MaxSize + 1}

\* and a count as large as size_type allows
HugeCounts == InRangeCounts \cup {MaxInt}

\* the lengths of the C strings appended: empty, one byte, around maxSize
InRangeLens == {0, 1, MaxSize - 1, MaxSize, MaxSize + 1}

\* and one of INT32_MAX bytes
HugeLens == InRangeLens \cup {MaxInt}

=============================================================================
