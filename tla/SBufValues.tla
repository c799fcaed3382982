----------------------------- MODULE SBufValues -----------------------------
(***************************************************************************)
(* What SBuf promises its users (SBuf.h, class comment): every SBuf        *)
(* behaves as an independent string value.  Copy-on-write is invisible:    *)
(* an operation on one SBuf changes that SBuf's bytes only (consume also   *)
(* sets the SBuf its result is assigned to).  This module states each      *)
(* public mutator as a function on values, following the contract in its   *)
(* doc comment.  SBufStore is checked to implement this specification.     *)
(***************************************************************************)
EXTENDS Integers, Sequences, SequencesExt

CONSTANTS
  SBufs,      \* the SBuf objects of the program
  Chars,      \* the byte values user data is made of
  MaxSize,    \* SBuf::maxSize, scaled down
  MaxImport,  \* longest byte string imported or appended in one call
  ToLowerChar(_), ToUpperChar(_)  \* tolower(3) and toupper(3) on Chars

VARIABLE val  \* val[s]: the bytes SBuf s holds, as a sequence

Npos == -1

\* the byte strings a caller may import or append
Strs == BoundedSeq(Chars, MaxImport)

\* substr(pos, n) / chop(pos, n): pos past the end gives the empty string,
\* n = npos means "to the end", otherwise at most n bytes from pos.
SubstrVal(v, pos, n) ==
  IF pos > Len(v) THEN <<>>
  ELSE SubSeq(v, pos + 1, IF n = Npos \/ pos + n > Len(v) THEN Len(v) ELSE pos + n)

\* consume(n): the head n bytes (all of them when n = npos or n > length)
HeadCount(v, n) == IF n = Npos \/ n > Len(v) THEN Len(v) ELSE n

\* trim(toRemove, atBeginning, atEnd): strip bytes of the set from the
\* selected ends, stopping at the first byte not in the set
TrimVal(v, set, atBeginning, atEnd) ==
  LET kept == {i \in 1 .. Len(v) : v[i] \notin set} IN
  IF kept = {} THEN (IF atBeginning \/ atEnd THEN <<>> ELSE v)
  ELSE SubSeq(v, IF atBeginning THEN Min(kept) ELSE 1,
                 IF atEnd THEN Max(kept) ELSE Len(v))

Init == val = [s \in SBufs |-> <<>>]

Assign(d, s) == val' = [val EXCEPT ![d] = val[s]]

Import(d, str) == val' = [val EXCEPT ![d] = str]

Clear(d) == val' = [val EXCEPT ![d] = <<>>]

\* append fails, leaving the SBuf unchanged, past maxSize
AppendVal(d, str) ==
  /\ Len(val[d]) + Len(str) <= MaxSize
  /\ val' = [val EXCEPT ![d] = @ \o str]

SetAt(d, pos, c) ==
  /\ 0 <= pos /\ pos < Len(val[d])
  /\ val' = [val EXCEPT ![d] = ReplaceAt(@, pos + 1, c)]

Chop(d, pos, n) == val' = [val EXCEPT ![d] = SubstrVal(@, pos, n)]

Substr(r, s, pos, n) == val' = [val EXCEPT ![r] = SubstrVal(val[s], pos, n)]

\* r = d.consume(n): d loses its head, r receives it (r may be d itself)
Consume(d, r, n) ==
  LET k == HeadCount(val[d], n) IN
  val' = [val EXCEPT ![d] = SubSeq(@, k + 1, Len(@)),
                     ![r] = SubSeq(val[d], 1, k)]

Trim(d, set, atBeginning, atEnd) ==
  val' = [val EXCEPT ![d] = TrimVal(@, set, atBeginning, atEnd)]

\* r = s.toLower(), r = s.toUpper(): a converted copy
ToLower(r, s) == val' = [val EXCEPT ![r] = [i \in DOMAIN val[s] |-> ToLowerChar(val[s][i])]]
ToUpper(r, s) == val' = [val EXCEPT ![r] = [i \in DOMAIN val[s] |-> ToUpperChar(val[s][i])]]

Next ==
  \E d, s \in SBufs :
    \/ Assign(d, s)
    \/ Clear(d)
    \/ \E str \in Strs : Import(d, str) \/ AppendVal(d, str)
    \/ AppendVal(d, val[s])
    \/ ToLower(d, s) \/ ToUpper(d, s)
    \/ \E pos \in {Npos} \cup 0 .. MaxSize - 1, c \in Chars : SetAt(d, pos, c)
    \/ \E pos \in 0 .. MaxSize, n \in {Npos} \cup 0 .. MaxSize :
         Chop(d, pos, n) \/ Substr(d, s, pos, n)
    \/ \E n \in {Npos} \cup 0 .. MaxSize : Consume(d, s, n)
    \/ \E set \in SUBSET Chars, b, e \in BOOLEAN : Trim(d, set, b, e)

Spec == Init /\ [][Next]_val

=============================================================================
