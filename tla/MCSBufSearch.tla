----------------------------- MODULE MCSBufSearch -----------------------------
(***************************************************************************)
(* The queries of SBufSearch read against their doc comments on every     *)
(* pair of values two SBufs can reach under SBufValues: each reachable     *)
(* state supplies a haystack and a needle.  Bytes are ASCII codes: 'A',    *)
(* 'a' and 'b'.                                                            *)
(***************************************************************************)
EXTENDS SBufSearch, FiniteSets

CONSTANTS SBufs, Chars, MaxSize, MaxImport, ToLowerChar(_), ToUpperChar(_)

\* toupper(3) in the C locale: ASCII letters only
ToUpper(c) == IF c \in 97 .. 122 THEN c - 32 ELSE c

VARIABLE val

Values == INSTANCE SBufValues

Spec == Values!Init /\ [][Values!Next]_val

(* The find() comment (SBuf.h 456-457): "if startPos is < 0, it is         *)
(* ignored", i.e. a negative start searches from the beginning.           *)
NegativeStartIgnored ==
  \A s \in SBufs, c \in Chars, p \in {Npos, -2} :
    Find(val[s], c, p) = Find(val[s], c, 0)

(* The compare() comment (SBuf.h 269-271): ">0 argument of the call is     *)
(* greater than called SBuf, <0 argument of the call is smaller".          *)
CompareSignAsDocumented ==
  \A s, t \in SBufs :
    LET a == val[s]  b == val[t] IN
    /\ Compare(a, b, "caseSensitive", Npos) > 0 <=> LexBefore(a, b)
    /\ Compare(a, b, "caseSensitive", Npos) < 0 <=> LexBefore(b, a)

=============================================================================
