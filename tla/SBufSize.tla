------------------------------ MODULE SBufSize ------------------------------
(***************************************************************************)
(* The size arithmetic of SBuf at its real width.  size_type is int32_t,   *)
(* npos is -1 and maxSize is 0xfffffff (SBuf.h 111-115).  The state is the *)
(* numbers SBufStore keeps for one SBuf x: off_ and len_, and the capacity *)
(* and frontier of its store; whether another reference holds the store   *)
(* stands for the rest of the system.  Each action is the numeric part of *)
(* the call SBufStore models, every sum computed as the build computes it: *)
(* int32_t addition, which wraps when it overflows.                       *)
(***************************************************************************)
EXTENDS Integers

CONSTANTS
  Counts,     \* the size_type arguments calls are made with
  SourceLens, \* the byte counts append is given (npos resolved to the source's length)
  MaxCalls    \* bound on the number of calls

VARIABLES
  off, len,   \* x.off_, x.len_
  cap, size,  \* capacity and frontier of x.store_
  shared,     \* some other reference (a sibling, the prototype holder) holds x.store_
  proto,      \* x.store_ is the prototype empty store
  wrapped,    \* the last call computed an int32 sum that overflowed
  last,       \* the last call: its name, argument and exception
  calls

vars == <<off, len, cap, size, shared, proto, wrapped, last, calls>>

MaxInt == 2147483647
MinInt == -MaxInt - 1

Npos == -1

\* fault: maxSize = 2^30, which is not below MAX(size_type)/2
MaxSizeHalf == 1073741824

\* maxSize: 256Mb, "MUST be < MAX(size_type)/2"
MaxSize == 268435455

\* a + b leaves the range of int32_t
Wraps(a, b) == (b > 0 /\ a > MaxInt - b) \/ (b < 0 /\ a < MinInt - b)

\* a + b in int32_t: two's complement, modulo 2^32 (computed without ever
\* forming a value outside the int32 range)
Add32(a, b) ==
  IF b > 0 /\ a > MaxInt - b THEN (a - MaxInt - 1) + (b - MaxInt - 1)
  ELSE IF b < 0 /\ a < MinInt - b THEN (a + MaxInt + 1) + (b + MaxInt + 1)
  ELSE a + b

\* the test a + b > limit.  Signed overflow is undefined: a build compares
\* the wrapped sum, or folds the test into the mathematically true one.
Exceeds(a, b, limit) ==
  IF Wraps(a, b) THEN {Add32(a, b) > limit, b > 0} ELSE {a + b > limit}

\* estimateCapacity(desired): the smallest and the largest size class
EstimateCapacity(desired) == {desired, MaxSize}

\* fault: the no-copy test forgets the offset into the store
CowFastIgnoresOffset(minCap) == ~shared /\ cap >= minCap

\* cow(minCap) needs no copy
CowFast(minCap) == ~shared /\ off = 0 /\ cap - off >= minCap

\* the call throws SBufTooBigException and leaves the store as it was
TooBig == [exc |-> "SBufTooBigException", o |-> off, c |-> cap, s |-> size, sh |-> shared, p |-> proto]

\* cow(minCap): the store numbers it leaves [o, c, s, sh, p] and its exception;
\* reAlloc copies len_ bytes to offset 0 of a fresh store of its own
Cow(minCap) ==
  IF minCap > MaxSize
  THEN {TooBig}
  ELSE IF CowFast(minCap)
  THEN {[exc |-> "none", o |-> off, c |-> cap, s |-> size, sh |-> shared, p |-> proto]}
  ELSE {[exc |-> "none", o |-> 0, c |-> c, s |-> len, sh |-> FALSE, p |-> FALSE] :
          c \in EstimateCapacity(IF len > minCap THEN len ELSE minCap)}

\* x's store numbers become those cow() left
Reseated(r) == off' = r.o /\ cap' = r.c /\ shared' = r.sh /\ proto' = r.p

\* the call is recorded; w: one of its sums overflowed
Call(op, arg, exc, w) ==
  /\ calls < MaxCalls
  /\ calls' = calls + 1
  /\ last' = [op |-> op, arg |-> arg, exc |-> exc]
  /\ wrapped' = w

Init ==
  /\ off = 0 /\ len = 0 /\ cap = 0 /\ size = 0
  /\ shared = TRUE /\ proto = TRUE
  /\ wrapped = FALSE
  /\ last = [op |-> "SBuf", arg |-> 0, exc |-> "none"]
  /\ calls = 0

\* the append-ownership rule, with room for n more bytes
InPlace(n) == ~shared /\ Add32(off, len) = size /\ cap - size >= n

\* append(n bytes): n = 0 is a no-op; len_ + n > maxSize fails; in place
\* under the append-ownership rule; otherwise cow(len_ + n), then the
\* bytes go to bufEnd() and the frontier covers them
Append(n) ==
  \E tooBig \in Exceeds(len, n, MaxSize) :
    \/ /\ n = 0 \/ tooBig
       /\ Call("append", n, IF n = 0 THEN "none" ELSE "SBufTooBigException", Wraps(len, n))
       /\ UNCHANGED <<off, len, cap, size, shared, proto>>
    \/ /\ n # 0 /\ ~tooBig /\ InPlace(n)
       /\ len' = Add32(len, n) /\ size' = Add32(size, n)
       /\ Call("append", n, "none", Wraps(len, n))
       /\ UNCHANGED <<off, cap, shared, proto>>
    \/ /\ n # 0 /\ ~tooBig /\ ~InPlace(n)
       /\ \E r \in Cow(Add32(len, n)) :
            LET e == Add32(Add32(r.o, len), n) IN
            /\ Reseated(r)
            /\ len' = IF r.exc = "none" THEN Add32(len, n) ELSE len
            /\ size' = IF r.exc = "none" /\ e > r.s THEN e ELSE r.s
            /\ Call("append", n, r.exc, Wraps(len, n) \/ Wraps(r.o, len) \/ Wraps(Add32(r.o, len), n))

\* reserveCapacity(minCapacity) == cow(minCapacity)
ReserveCapacity(minCap) ==
  \E r \in Cow(minCap) :
    /\ Reseated(r) /\ size' = r.s
    /\ Call("reserveCapacity", minCap, r.exc, FALSE)
    /\ UNCHANGED len

\* rawSpace(minSize) performs cow(len_ + minSize) (spec 4.2.10);
\* reserveSpace(minSpace) reserves the capacity len_ + minSpace.  cow() is
\* inlined, so its maxSize test may be folded like append's
SpaceFor(op, n) ==
  \E tooBig \in Exceeds(len, n, MaxSize) :
  \E r \in IF tooBig THEN {TooBig} ELSE Cow(Add32(len, n)) :
    /\ Reseated(r) /\ size' = r.s
    /\ Call(op, n, r.exc, Wraps(len, n))
    /\ UNCHANGED len

RawSpace(minSize) == SpaceFor("rawSpace", minSize)
ReserveSpace(minSpace) == SpaceFor("reserveSpace", minSpace)

\* forceSize(newSize): the store to itself and newSize within its capacity,
\* else TextException; the frontier covers the new length
ForceSize(newSize) ==
  \/ /\ ~shared /\ newSize <= cap - off
     /\ len' = newSize
     /\ size' = IF Add32(off, newSize) > size THEN Add32(off, newSize) ELSE size
     /\ Call("forceSize", newSize, "none", Wraps(off, newSize))
     /\ UNCHANGED <<off, cap, shared, proto>>
  \/ /\ ~(~shared /\ newSize <= cap - off)
     /\ Call("forceSize", newSize, "TextException", FALSE)
     /\ UNCHANGED <<off, len, cap, size, shared, proto>>

\* checkAccessBounds(pos): "bounds is 0 <= pos < length()"
AccessInBounds(pos) == 0 <= pos /\ pos < len

\* setAt(pos, c): checkAccessBounds(pos) throws OutOfBoundsException; else
\* cow(length()); the byte written does not change any number
SetAt(pos) ==
  \/ /\ ~AccessInBounds(pos)
     /\ Call("setAt", pos, "OutOfBoundsException", FALSE)
     /\ UNCHANGED <<off, len, cap, size, shared, proto>>
  \/ /\ AccessInBounds(pos)
     /\ \E r \in Cow(len) :
          /\ Reseated(r) /\ size' = r.s
          /\ Call("setAt", pos, r.exc, FALSE)
          /\ UNCHANGED len

\* fault: n is clamped against the whole length, not what is left after pos
ChopClampFromZero(pos, n) ==
  LET start == IF pos > len THEN len ELSE pos
      count == IF n = Npos \/ n > len THEN len - start ELSE n IN
  /\ off' = Add32(off, start) /\ len' = count
  /\ Call("chop", n, "none", Wraps(off, start))
  /\ UNCHANGED <<cap, size, shared, proto>>

\* chop(pos, n): pos clamped to [0, len_], n to what is left after it
Chop(pos, n) ==
  LET start == IF pos > len THEN len ELSE pos IN
  \E past \in Exceeds(start, n, len) :
  /\ off' = Add32(off, start)
  /\ len' = IF n = Npos \/ past THEN len - start ELSE n
  /\ Call("chop", n, "none", (n # Npos /\ Wraps(start, n)) \/ Wraps(off, start))
  /\ UNCHANGED <<cap, size, shared, proto>>

\* r = x.consume(n): r takes the head min(n, len_) and shares the store;
\* x advances past it
Consume(n) ==
  LET k == IF n = Npos \/ n > len THEN len ELSE n IN
  /\ off' = Add32(off, k) /\ len' = len - k /\ shared' = TRUE
  /\ Call("consume", n, "none", Wraps(off, k))
  /\ UNCHANGED <<cap, size, proto>>

\* y = x, y = x.substr(..): another SBuf references x's store
Share ==
  /\ shared' = TRUE
  /\ Call("share", 0, "none", FALSE)
  /\ UNCHANGED <<off, len, cap, size, proto>>

\* that SBuf is cleared or destroyed: x holds its heap store alone again
Unshare ==
  /\ ~proto /\ shared
  /\ shared' = FALSE
  /\ Call("unshare", 0, "none", FALSE)
  /\ UNCHANGED <<off, len, cap, size, proto>>

\* clear(): back to the prototype store
Clear ==
  /\ off' = 0 /\ len' = 0 /\ cap' = 0 /\ size' = 0 /\ shared' = TRUE /\ proto' = TRUE
  /\ Call("clear", 0, "none", FALSE)

\* forceSize takes a length; append's count is the source's length once
\* npos is resolved (spec 4.2.1), so it comes from SourceLens
Next ==
  \/ \E n \in Counts :
       \/ ReserveCapacity(n) \/ RawSpace(n) \/ ReserveSpace(n) \/ Consume(n)
       \/ n >= 0 /\ ForceSize(n)
       \/ SetAt(n)
       \/ \E pos \in Counts : pos >= 0 /\ Chop(pos, n)
  \/ \E n \in SourceLens : Append(n)
  \/ Share \/ Unshare \/ Clear

Spec == Init /\ [][Next]_vars

-----------------------------------------------------------------------------
(* Properties                                                              *)

(* Spec 8.1 at int32 width: whatever sequence of calls x sees, its window *)
(* lies in the store's frontier, and neither its length nor the store's   *)
(* capacity exceeds maxSize: the size check in append, cow's maxSize test *)
(* and the clamps of chop and consume keep every number in range.         *)
SizesWithinMaxSize ==
  /\ 0 <= off /\ 0 <= len
  /\ off + len <= size /\ size <= cap /\ cap <= MaxSize

(* "maxSize MUST be < MAX(size_type)/2" (SBuf.h 114): with x within       *)
(* maxSize and every count at most maxSize + 1, no sum a call computes    *)
(* (len_ + n in append, rawSpace and reserveSpace, pos + n in chop, the   *)
(* end of the appended bytes) overflows int32_t.                           *)
NoSumWraps == ~wrapped

(* rawSpace(minSize), reserveSpace(minSpace) and reserveCapacity(c) that  *)
(* return normally leave at least what they promise (SBuf.h 346-352,      *)
(* 405-419): minSize (minSpace) bytes after bufEnd(), or c bytes of       *)
(* capacity from off_; otherwise they throw SBufTooBigException.          *)
SpaceAsPromised ==
  (last.exc = "none" /\ last.arg >= 0) =>
    /\ last.op \in {"rawSpace", "reserveSpace"} => cap - off - len >= last.arg
    /\ last.op = "reserveCapacity" => cap - off >= last.arg

=============================================================================
