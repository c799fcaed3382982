----------------------------- MODULE SBufSearch -----------------------------
(***************************************************************************)
(* The const queries of SBuf (SBuf.h 265-289, 451-502) as operators on the *)
(* bytes an SBuf shows, v, a sequence of byte codes.  Positions are        *)
(* 0-based as in the code; a miss is npos.  Each search is written as the  *)
(* scan its contract describes.  LexBefore states the byte order that the  *)
(* compare() comments are read against.                                   *)
(***************************************************************************)
EXTENDS Integers, Sequences, SequencesExt

Npos == -1

CaseSensitivity == {"caseSensitive", "caseInsensitive"}

At(v, i) == v[i + 1]

\* tolower(3) in the C locale: ASCII letters only
ToLower(c) == IF c \in 65 .. 90 THEN c + 32 ELSE c

Folded(v, cs) == IF cs = "caseSensitive" THEN v ELSE [i \in DOMAIN v |-> ToLower(v[i])]

\* str occurs in v at position i
MatchAt(v, str, i) == i >= 0 /\ i + Len(str) <= Len(v) /\ SubSeq(v, i + 1, i + Len(str)) = str

\* a negative start other than npos is ignored
FromStart(startPos) == IF startPos < 0 THEN 0 ELSE startPos

\* find(c, startPos): npos start gives npos; otherwise scan forward
Find(v, c, startPos) ==
  LET RECURSIVE Scan(_)
      Scan(i) == IF i >= Len(v) THEN Npos ELSE IF At(v, i) = c THEN i ELSE Scan(i + 1)
  IN IF startPos = Npos THEN Npos ELSE Scan(FromStart(startPos))

\* find(str, startPos): leftmost occurrence at or after startPos; an empty
\* str is found at startPos clamped to [0, length()]
FindStr(v, str, startPos) ==
  LET RECURSIVE Scan(_)
      Scan(i) == IF i + Len(str) > Len(v) THEN Npos
                 ELSE IF MatchAt(v, str, i) THEN i ELSE Scan(i + 1)
  IN IF startPos = Npos THEN Npos
     ELSE IF str = <<>> THEN (IF FromStart(startPos) > Len(v) THEN Len(v) ELSE FromStart(startPos))
     ELSE Scan(FromStart(startPos))

\* find_first_of(set, startPos): first byte that is in set; empty set misses
FindFirstOf(v, set, startPos) ==
  LET RECURSIVE Scan(_)
      Scan(i) == IF i >= Len(v) THEN Npos ELSE IF At(v, i) \in set THEN i ELSE Scan(i + 1)
  IN IF startPos = Npos \/ set = {} THEN Npos ELSE Scan(FromStart(startPos))

\* rfind(c, endPos): npos or past the end means the whole SBuf; other
\* negative endPos misses; otherwise scan backward from endPos
RFind(v, c, endPos) ==
  LET RECURSIVE Scan(_)
      Scan(i) == IF i < 0 THEN Npos ELSE IF At(v, i) = c THEN i ELSE Scan(i - 1)
  IN IF endPos = Npos \/ endPos >= Len(v) THEN Scan(Len(v) - 1)
     ELSE IF endPos < 0 THEN Npos
     ELSE Scan(endPos)

\* rfind(str, endPos): rightmost occurrence starting at or before endPos
RFindStr(v, str, endPos) ==
  LET RECURSIVE Scan(_)
      Scan(i) == IF i < 0 THEN Npos ELSE IF MatchAt(v, str, i) THEN i ELSE Scan(i - 1)
      top == IF endPos = Npos \/ endPos > Len(v) - Len(str) THEN Len(v) - Len(str) ELSE endPos
  IN IF endPos < 0 /\ endPos # Npos THEN Npos ELSE Scan(top)

\* at most n bytes of v (all of them for npos)
Upto(v, n) == IF n = Npos \/ n >= Len(v) THEN v ELSE SubSeq(v, 1, n)

\* compare(S, isCaseSensitive, n): strcmp-style over the first n bytes of
\* each, bytes folded to lower case when case-insensitive, then by length
Compare(a, b, cs, n) ==
  LET x == Folded(Upto(a, n), cs)
      y == Folded(Upto(b, n), cs)
      RECURSIVE Cmp(_)
      Cmp(i) == IF i >= Len(x) \/ i >= Len(y) THEN Len(x) - Len(y)
                ELSE IF At(x, i) # At(y, i) THEN At(x, i) - At(y, i) ELSE Cmp(i + 1)
  IN Cmp(0)

\* startsWith(S, isCaseSensitive)
StartsWith(v, s, cs) == Len(v) >= Len(s) /\ Compare(v, s, cs, Len(s)) = 0

\* operator== and operator<, case-sensitive
Equal(a, b) == Compare(a, b, "caseSensitive", Npos) = 0
Less(a, b) == Compare(a, b, "caseSensitive", Npos) < 0

-----------------------------------------------------------------------------
(* The lexicographic byte order                                            *)

\* a sorts strictly before b in lexicographic byte order
LexBefore(a, b) ==
  \E k \in 0 .. Len(a) :
    /\ k <= Len(b)
    /\ SubSeq(a, 1, k) = SubSeq(b, 1, k)
    /\ \/ k = Len(a) /\ Len(b) > k
       \/ k < Len(a) /\ k < Len(b) /\ At(a, k) < At(b, k)

=============================================================================
