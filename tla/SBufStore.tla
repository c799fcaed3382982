------------------------------ MODULE SBufStore ------------------------------
(***************************************************************************)
(* SBuf as implemented: a view {store_, off_, len_} into a reference-      *)
(* counted MemBlob shared with other SBufs, mutated in place when the      *)
(* SBuf owns the store and through copy-on-write otherwise (SBuf.h).       *)
(*                                                                         *)
(* blob[b] is MemBlob b: capacity, size (the append frontier), refcount   *)
(* and its bytes, indexed 0 .. MaxSize-1.  A byte nobody has written holds *)
(* Junk.  A blob whose refcount reaches zero is freed and returns to the   *)
(* pool; Proto is the shared empty prototype store, also held by the       *)
(* static GetStorePrototype() pointer.  Every action is one public call,   *)
(* with its cow/reAlloc, refcount traffic and bounds failures inside it.   *)
(***************************************************************************)
EXTENDS Integers, Sequences, SequencesExt, FiniteSets

CONSTANTS
  SBufs,      \* the SBuf objects of the program
  HeapBlobs,  \* MemBlobs that can be allocated
  Proto,      \* the prototype empty MemBlob
  Chars,      \* byte values of user data
  Nul,        \* the byte 0, written by c_str() and vsnprintf
  Junk,       \* the value of a byte that was never written
  MaxSize,    \* SBuf::maxSize, scaled down
  MaxImport,  \* longest byte string imported or appended in one call
  MemFail,    \* whether an allocation may fail with MemoryException
  ToLowerChar(_), ToUpperChar(_)  \* tolower(3) and toupper(3) on Chars

ASSUME Proto \notin HeapBlobs /\ Nul \notin Chars /\ Junk \notin Chars \cup {Nul}
ASSUME MemFail \in BOOLEAN

VARIABLES
  blob,   \* MemBlob state, per blob
  store,  \* SBuf::store_
  off,    \* SBuf::off_
  len,    \* SBuf::len_
  cstr,   \* history: s called c_str() and no non-const call on s since
  memErr  \* history: the last call ended with a MemoryException

vars == <<blob, store, off, len, cstr, memErr>>

Npos == -1
Blobs == HeapBlobs \cup {Proto}
Idx == 0 .. MaxSize - 1
Strs == BoundedSeq(Chars, MaxImport)
\* positions and counts for a view of length l: every value past the end
\* is clamped alike, so one past the end stands for all of them
PosArg(l) == 0 .. l + 1
CountArg(l) == {Npos} \cup 0 .. l + 1

-----------------------------------------------------------------------------
(* MemBlob (MemBlob.h is not part of the sources: modelled from spec 4.1)  *)

FreeBlob == [cap |-> 0, size |-> 0, rc |-> 0, data |-> [i \in Idx |-> Junk]]

IsFree(m, b) == b # Proto /\ m[b].rc = 0

\* the block the allocator hands out: which free one it is does not matter
NewBlob(m) == CHOOSE b \in HeapBlobs : IsFree(m, b)

\* new MemBlob(c) followed by append(bytes): refcount 1, size = Len(bytes)
Allocate(m, b, c, bytes) ==
  [m EXCEPT ![b] = [cap |-> c, size |-> Len(bytes), rc |-> 1,
                    data |-> [i \in Idx |-> IF i < Len(bytes) THEN bytes[i + 1] ELSE Junk]]]

Acquire(m, b) == [m EXCEPT ![b].rc = @ + 1]

\* the last release frees the blob
Release(m, b) == [m EXCEPT ![b] = IF @.rc = 1 THEN FreeBlob ELSE [@ EXCEPT !.rc = @ - 1]]

\* fault: drop the old reference before taking the new one (self-assignment)
ReseatReleaseFirst(m, new, old) == Acquire(Release(m, old), new)

\* RefCount<MemBlob>::operator=: take the new reference, then drop the old
Reseat(m, new, old) == Release(Acquire(m, new), old)

\* copy bytes to [at, at + Len(bytes)) without moving the frontier
Scribble(m, b, at, bytes) ==
  [m EXCEPT ![b].data = [i \in Idx |-> IF at <= i /\ i < at + Len(bytes)
                                       THEN bytes[i - at + 1] ELSE @[i]]]

\* the frontier moves up to cover [0, upto)
Grow(m, b, upto) == [m EXCEPT ![b].size = IF upto > @ THEN upto ELSE @]

\* copy bytes to [at, at + Len(bytes)); the written area becomes in use
WriteAt(m, b, at, bytes) == Grow(Scribble(m, b, at, bytes), b, at + Len(bytes))

-----------------------------------------------------------------------------
(* SBuf private helpers                                                    *)

\* an SBuf's state, or the state a call has brought it to so far: the
\* memory, and the SBuf's store_, off_ and len_
ViewOf(s) == [m |-> blob, b |-> store[s], o |-> off[s], l |-> len[s]]

\* the bytes a view shows: rawContent()[0 .. length())
Bytes(v) == [i \in 1 .. v.l |-> v.m[v.b].data[v.o + i - 1]]

Content(s) == Bytes(ViewOf(s))

\* estimateCapacity(desired): any size class in [desired, maxSize]
EstimateCapacity(desired) == desired .. MaxSize

\* faults: the append-ownership rule without its refcount test, or without
\* its frontier test
CanAppendInPlaceNoRc(s, n) ==
  LET b == blob[store[s]] IN off[s] + len[s] = b.size /\ b.cap - b.size >= n
CanAppendInPlaceNoFrontier(s, n) ==
  LET b == blob[store[s]] IN b.rc = 1 /\ b.cap - b.size >= n

\* the append-ownership rule: s alone holds the store and ends at its frontier
CanAppendInPlace(s, n) ==
  LET b == blob[store[s]] IN
  /\ b.rc = 1
  /\ off[s] + len[s] = b.size
  /\ b.cap - b.size >= n

\* fault: cow() skips the copy whenever the capacity suffices
CowFastNoRc(v, minCap) == v.o = 0 /\ v.m[v.b].cap - v.o >= minCap

\* cow(minCap) needs no copy
CowFast(v, minCap) ==
  LET b == v.m[v.b] IN
  b.rc = 1 /\ v.o = 0 /\ b.cap - v.o >= minCap

\* reAlloc(newsize): a fresh blob holding the viewed bytes at offset 0 is
\* allocated and filled, then the old store is released
ReAlloc(v, newsize) ==
  LET nb == NewBlob(v.m) IN
  {[m |-> Release(Allocate(v.m, nb, c, Bytes(v)), v.b), b |-> nb, o |-> 0, l |-> v.l] :
     c \in EstimateCapacity(IF v.l > newsize THEN v.l ELSE newsize)}

Cow(v, minCap) == IF CowFast(v, minCap) THEN {v} ELSE ReAlloc(v, minCap)

\* how a call ends: the view it leaves and the exception it throws, if any
Outcome(v, exc) == [v |-> v, exc |-> exc]

\* cow(minCap) as the calls that need minCap bytes of owned store use it:
\* past maxSize it throws SBufTooBigException; when reAlloc's allocation
\* fails it throws MemoryException; both leave the view as it was
Reserve(v, minCap) ==
  IF minCap > MaxSize THEN {Outcome(v, "SBufTooBigException")}
  ELSE {Outcome(w, "none") : w \in Cow(v, minCap)}
       \cup (IF MemFail /\ ~CowFast(v, minCap) THEN {Outcome(v, "MemoryException")} ELSE {})

\* continue with the view w the call goes on to build, unless it has thrown
Then(r, w) == IF r.exc = "none" THEN [r EXCEPT !.v = w] ELSE r

\* clear(): back to the prototype store; the old store is released
ClearView(v) == [m |-> Reseat(v.m, Proto, v.b), b |-> Proto, o |-> 0, l |-> 0]

\* clamp (pos, n) to the view as substr() and chop() do: [start, count]
Window(l, pos, n) ==
  LET start == IF pos > l THEN l ELSE pos IN
  <<start, IF n = Npos \/ start + n > l THEN l - start ELSE n>>

\* number of leading (trailing) bytes of v that are in set
RECURSIVE LeadIn(_, _)
LeadIn(v, set) == IF v # <<>> /\ Head(v) \in set THEN 1 + LeadIn(Tail(v), set) ELSE 0
TrailIn(v, set) == LeadIn(Reverse(v), set)

\* a non-const call on S invalidates what c_str() returned before
Invalidate(S) == cstr' = [s \in SBufs |-> cstr[s] /\ s \notin S]

\* a non-const call on S that returns normally
Touch(S) == Invalidate(S) /\ memErr' = FALSE

\* s takes view v
SetView(s, v) ==
  /\ blob' = v.m
  /\ store' = [store EXCEPT ![s] = v.b]
  /\ off' = [off EXCEPT ![s] = v.o]
  /\ len' = [len EXCEPT ![s] = v.l]

\* a call on d ends as r says
Finish(d, r) == SetView(d, r.v) /\ memErr' = (r.exc = "MemoryException")

-----------------------------------------------------------------------------
(* Public calls                                                            *)

Init ==
  /\ blob = [b \in Blobs |-> IF b = Proto
                             THEN [FreeBlob EXCEPT !.rc = Cardinality(SBufs) + 1]
                             ELSE FreeBlob]
  /\ store = [s \in SBufs |-> Proto]
  /\ off = [s \in SBufs |-> 0]
  /\ len = [s \in SBufs |-> 0]
  /\ cstr = [s \in SBufs |-> FALSE]
  /\ memErr = FALSE

\* d = s, SBuf(const SBuf&), assign(const SBuf&): share s's store
AssignSBuf(d, s) ==
  /\ SetView(d, [ViewOf(s) EXCEPT !.m = Reseat(blob, store[s], store[d])])
  /\ Touch({d})

\* assign(const char*, pos, n) and friends: clear(), then construct from
\* the bytes in a new blob; a failed allocation leaves d cleared
AssignBytes(d, str) ==
  LET v == ClearView(ViewOf(d))
      nb == NewBlob(v.m) IN
  /\ Invalidate({d})
  /\ \/ \E c \in EstimateCapacity(Len(str)) :
          Finish(d, Outcome([m |-> Release(Allocate(v.m, nb, c, str), Proto),
                             b |-> nb, o |-> 0, l |-> Len(str)], "none"))
     \/ MemFail /\ Finish(d, Outcome(v, "MemoryException"))

\* fault: clear() re-seats the view but keeps the old store referenced
ClearKeepsStore(d) ==
  /\ SetView(d, [m |-> Acquire(blob, Proto), b |-> Proto, o |-> 0, l |-> 0])
  /\ Touch({d})

Clear(d) ==
  /\ SetView(d, ClearView(ViewOf(d)))
  /\ Touch({d})

\* MemBlob::append(bytes): write at the frontier and advance it
BlobAppend(m, b, bytes) == WriteAt(m, b, m[b].size, bytes)

\* p = rawSpace(n); write the n bytes at p; forceSize(length() + n)
WriteTail(w, bytes) ==
  [w EXCEPT !.m = WriteAt(@, w.b, w.o + w.l, bytes), !.l = @ + Len(bytes)]

\* after cow(len+n): the bytes go to bufEnd() of the (possibly new) store
AfterCowAppend(w, bytes) == WriteTail(w, bytes)

\* append(bytes): in place under the append-ownership rule, else cow(len+n)
\* first; fails unchanged past maxSize
AppendData(d, bytes) ==
  LET n == Len(bytes) IN
  \/ /\ n = 0 \/ len[d] + n > MaxSize
     /\ Touch({d})
     /\ UNCHANGED <<blob, store, off, len>>
  \/ /\ n > 0 /\ len[d] + n <= MaxSize /\ CanAppendInPlace(d, n)
     /\ blob' = BlobAppend(blob, store[d], bytes)
     /\ len' = [len EXCEPT ![d] = @ + n]
     /\ Touch({d})
     /\ UNCHANGED <<store, off>>
  \/ /\ n > 0 /\ len[d] + n <= MaxSize /\ ~CanAppendInPlace(d, n)
     /\ Invalidate({d})
     /\ \E r \in Reserve(ViewOf(d), len[d] + n) :
          Finish(d, Then(r, AfterCowAppend(r.v, bytes)))

AppendBytes(d, str) == AppendData(d, str)

\* append(const SBuf& S): S's bytes are taken before d's store may move
AppendSBuf(d, s) == AppendData(d, Content(s))

\* setAt(pos, c): checkAccessBounds (0 <= pos < length()), then cow(length()) and write in place
SetAt(d, pos, c) ==
  /\ Invalidate({d})
  /\ \/ /\ pos < 0 \/ pos >= len[d]
        /\ memErr' = FALSE
        /\ UNCHANGED <<blob, store, off, len>>
     \/ /\ 0 <= pos /\ pos < len[d]
        /\ \E r \in Reserve(ViewOf(d), len[d]) :
             Finish(d, Then(r, [r.v EXCEPT !.m = Scribble(@, r.v.b, r.v.o + pos, <<c>>)]))

\* chop(pos, n): narrow the view, no copy
Chop(d, pos, n) ==
  LET w == Window(len[d], pos, n) IN
  /\ off' = [off EXCEPT ![d] = @ + w[1]]
  /\ len' = [len EXCEPT ![d] = w[2]]
  /\ Touch({d})
  /\ UNCHANGED <<blob, store>>

\* r = s.substr(pos, n): r shares s's store through a narrowed view
Substr(r, s, pos, n) ==
  LET w == Window(len[s], pos, n) IN
  /\ SetView(r, [m |-> Reseat(blob, store[s], store[r]), b |-> store[s],
                 o |-> off[s] + w[1], l |-> w[2]])
  /\ Touch({r})

\* fault: consume(n) clamps only npos, not a count past the end
ConsumeUnclamped(d, r, n) ==
  LET k == IF n = Npos THEN len[d] ELSE n IN
  /\ blob' = Reseat(blob, store[d], store[r])
  /\ store' = [store EXCEPT ![r] = store[d]]
  /\ off' = [off EXCEPT ![d] = @ + k, ![r] = off[d]]
  /\ len' = [len EXCEPT ![d] = @ - k, ![r] = k]
  /\ Touch({d, r})

\* r = d.consume(n): the head becomes r, d advances past it
Consume(d, r, n) ==
  LET k == IF n = Npos \/ n > len[d] THEN len[d] ELSE n IN
  /\ blob' = Reseat(blob, store[d], store[r])
  /\ store' = [store EXCEPT ![r] = store[d]]
  /\ off' = [off EXCEPT ![d] = @ + k, ![r] = off[d]]
  /\ len' = [len EXCEPT ![d] = @ - k, ![r] = k]
  /\ Touch({d, r})

\* trim(toRemove, atBeginning, atEnd): adjust off_ and len_ only
Trim(d, set, atBeginning, atEnd) ==
  LET lead == IF atBeginning THEN LeadIn(Content(d), set) ELSE 0
      rest == SubSeq(Content(d), lead + 1, len[d])
      trail == IF atEnd THEN TrailIn(rest, set) ELSE 0 IN
  /\ off' = [off EXCEPT ![d] = @ + lead]
  /\ len' = [len EXCEPT ![d] = @ - lead - trail]
  /\ Touch({d})
  /\ UNCHANGED <<blob, store>>

\* reserveCapacity(minCapacity): cow(minCapacity)
ReserveCapacity(d, minCap) ==
  /\ Invalidate({d})
  /\ \E r \in Reserve(ViewOf(d), minCap) : Finish(d, r)

\* reserveSpace(minSpace) == reserveCapacity(length() + minSpace)
ReserveSpace(d, minSpace) == ReserveCapacity(d, len[d] + minSpace)

\* p = rawSpace(n); write n bytes at p; forceSize(length() + n)
RawSpaceAppend(d, bytes) ==
  /\ Invalidate({d})
  /\ \E r \in Reserve(ViewOf(d), len[d] + Len(bytes)) :
       Finish(d, Then(r, WriteTail(r.v, bytes)))

\* forceSize(newSize): needs the store to itself and newSize within its
\* capacity, else TextException; the frontier covers the new length
ForceSize(d, newSize) ==
  LET b == blob[store[d]] IN
  /\ Touch({d})
  /\ \/ /\ b.rc = 1 /\ newSize <= b.cap - off[d]
        /\ blob' = Grow(blob, store[d], off[d] + newSize)
        /\ len' = [len EXCEPT ![d] = newSize]
        /\ UNCHANGED <<store, off>>
     \/ /\ ~(b.rc = 1 /\ newSize <= b.cap - off[d])
        /\ UNCHANGED <<blob, store, off, len>>

\* c_str(): a 0 past the content, without growing the view: in the owned
\* tail when there is room, otherwise after cow(length()+1)
CStr(d) ==
  LET e == off[d] + len[d]
      b == blob[store[d]] IN
  \/ /\ e = b.size /\ b.size < b.cap /\ b.rc = 1
     /\ blob' = [blob EXCEPT ![store[d]].data[e] = Nul]
     /\ cstr' = [cstr EXCEPT ![d] = TRUE]
     /\ memErr' = FALSE
     /\ UNCHANGED <<store, off, len>>
  \/ /\ ~(e = b.size /\ b.size < b.cap /\ b.rc = 1)
     /\ \E r \in Reserve(ViewOf(d), len[d] + 1) :
          /\ Finish(d, Then(r, [r.v EXCEPT !.m = Scribble(@, r.v.b, r.v.o + r.v.l, <<Nul>>)]))
          /\ cstr' = [cstr EXCEPT ![d] = r.exc = "none"]

\* vsnprintf at bufEnd() into the space rawSpace() left: at most space-1
\* bytes of the output, then a 0
Attempt(w, out) ==
  LET space == w.m[w.b].cap - w.o - w.l
      k == IF Len(out) < space THEN Len(out) ELSE space - 1 IN
  IF space = 0 THEN w
  ELSE [w EXCEPT !.m = Scribble(@, w.b, w.o + w.l, SubSeq(out, 1, k) \o <<Nul>>)]

\* the output and its 0 fit in the space after bufEnd()
Fits(w, out) == Len(out) < w.m[w.b].cap - w.o - w.l

\* the output was written whole: len_ and the frontier advance over it
Publish(w, out) == [w EXCEPT !.m = Grow(@, w.b, w.o + w.l + Len(out)), !.l = @ + Len(out)]

\* fault: the retry reserves room for the output but not for its 0
VAppendfNoNulRoom(v, out, est) ==
  UNION {IF r.exc # "none" THEN {r}
         ELSE IF Fits(r.v, out) THEN {Outcome(Publish(Attempt(r.v, out), out), "none")}
         ELSE {Then(r2, Publish(Attempt(r2.v, out), out)) :
                 r2 \in Reserve(Attempt(r.v, out), r.v.l + Len(out))}
         : r \in Reserve(v, v.l + est)}

\* vappendf(fmt, args) whose output is out: rawSpace(est), a first attempt;
\* when the output did not fit, re-reserve for it and its 0 and retry;
\* only the attempt that fitted is published
VAppendf(v, out, est) ==
  UNION {IF r.exc # "none" THEN {r}
         ELSE IF Fits(r.v, out) THEN {Outcome(Publish(Attempt(r.v, out), out), "none")}
         ELSE {Then(r2, Publish(Attempt(r2.v, out), out)) :
                 r2 \in Reserve(Attempt(r.v, out), r.v.l + Len(out) + 1)}
         : r \in Reserve(v, v.l + est)}

\* appendf(fmt, ...) == vappendf
Appendf(d, out, est) ==
  /\ Invalidate({d})
  /\ \E r \in VAppendf(ViewOf(d), out, est) : Finish(d, r)

\* Printf(fmt, ...): clear(), then vappendf
Printf(d, out, est) ==
  /\ Invalidate({d})
  /\ \E r \in VAppendf(ClearView(ViewOf(d)), out, est) : Finish(d, r)

\* r = s.toLower() / s.toUpper(): s's bytes, converted, in a fresh blob that
\* r is then assigned; a failed allocation throws before r is touched
CaseCopy(r, s, bytes) ==
  LET nb == NewBlob(blob) IN
  \/ /\ \E c \in EstimateCapacity(len[s]) :
          SetView(r, [m |-> Release(Allocate(blob, nb, c, bytes), store[r]),
                      b |-> nb, o |-> 0, l |-> len[s]])
     /\ Touch({r})
  \/ /\ MemFail
     /\ memErr' = TRUE
     /\ UNCHANGED <<blob, store, off, len, cstr>>

ToLower(r, s) == CaseCopy(r, s, [i \in DOMAIN Content(s) |-> ToLowerChar(Content(s)[i])])
ToUpper(r, s) == CaseCopy(r, s, [i \in DOMAIN Content(s) |-> ToUpperChar(Content(s)[i])])

\* the format-size estimate rawSpace() is first called with
EstArg == 0 .. 1

Next ==
  \/ \E d \in SBufs :
       \/ Clear(d)
       \/ CStr(d)
       \/ \E str \in Strs : AssignBytes(d, str) \/ AppendBytes(d, str) \/ RawSpaceAppend(d, str)
       \/ \E str \in Strs, est \in EstArg : Appendf(d, str, est) \/ Printf(d, str, est)
       \/ \E pos \in {Npos} \cup Idx, c \in Chars : SetAt(d, pos, c)
       \/ \E pos \in PosArg(len[d]), n \in CountArg(len[d]) : Chop(d, pos, n)
       \/ \E set \in SUBSET Chars, b, e \in BOOLEAN : Trim(d, set, b, e)
       \/ \E c \in 0 .. MaxSize + 1 : ReserveCapacity(d, c) \/ ReserveSpace(d, c)
       \/ \E n \in 0 .. len[d] : ForceSize(d, n)
  \/ \E d, s \in SBufs :
       \/ AssignSBuf(d, s)
       \/ AppendSBuf(d, s)
       \/ ToLower(d, s) \/ ToUpper(d, s)
       \/ \E pos \in PosArg(len[s]), n \in CountArg(len[s]) : Substr(d, s, pos, n)
       \/ \E n \in CountArg(len[d]) : Consume(d, s, n)

Spec == Init /\ [][Next]_vars

-----------------------------------------------------------------------------
(* Properties                                                              *)

BlobType == [cap : 0 .. MaxSize, size : 0 .. MaxSize, rc : 0 .. Cardinality(SBufs) + 1,
             data : [Idx -> Chars \cup {Nul, Junk}]]

TypeOK ==
  /\ blob \in [Blobs -> BlobType]
  /\ store \in [SBufs -> Blobs]
  /\ off \in [SBufs -> 0 .. MaxSize]
  /\ len \in [SBufs -> 0 .. MaxSize]
  /\ cstr \in [SBufs -> BOOLEAN]
  /\ memErr \in BOOLEAN

(* Every SBuf views initialized bytes of a live blob: 0 <= off_, 0 <= len_,  *)
(* off_ + len_ <= size <= capacity <= maxSize (spec 8.1).  Broken by an     *)
(* append, cow or trim whose offset arithmetic is off.                      *)
ViewsWithinBlobs ==
  \A s \in SBufs :
    LET b == blob[store[s]] IN
    /\ b.rc > 0
    /\ off[s] + len[s] <= b.size
    /\ b.size <= b.cap

(* A blob's refcount is exactly the number of SBufs whose store_ is that    *)
(* blob, plus the prototype's static holder: no reseat of store_ (assign,  *)
(* clear, substr, consume, cow) leaks a reference or frees a blob in use.  *)
RefCountsExact ==
  \A b \in Blobs :
    blob[b].rc = Cardinality({s \in SBufs : store[s] = b}) + (IF b = Proto THEN 1 ELSE 0)

(* The pointer c_str() returned stays zero-terminated until the next       *)
(* non-const call on the same SBuf, whatever other SBufs sharing its store  *)
(* do in between (SBuf.h, c_str comment).                                   *)
CStrTerminated ==
  \A s \in SBufs :
    cstr[s] => LET e == off[s] + len[s] IN
               e < blob[store[s]].cap /\ blob[store[s]].data[e] = Nul

(* A blob referenced by two or more SBufs is frozen: no step changes its   *)
(* bytes, frontier or capacity; only the sole holder may write (spec 3,    *)
(* append-ownership rule; setAt, c_str and rawSpace must cow first).        *)
SharedBlobFrozen ==
  [][\A b \in Blobs :
       blob[b].rc > 1 =>
         /\ blob'[b].data = blob[b].data
         /\ blob'[b].size = blob[b].size
         /\ blob'[b].cap = blob[b].cap]_vars

(* Strong exception guarantee (spec 7.4): a call that fails with          *)
(* MemoryException leaves every SBuf showing the bytes it showed before:   *)
(* the new store is prepared fully before any handle is swapped.           *)
StrongExceptionGuarantee ==
  [][memErr' => \A s \in SBufs : Content(s)' = Content(s)]_vars

(* c_str() "never returns NULL" and documents no exception (SBuf.h 369-  *)
(* 386): whatever state an SBuf is in, calling c_str() on it can return a  *)
(* zero-terminated pointer.                                                *)
CStrAlwaysTerminates ==
  \A d \in SBufs : ENABLED (CStr(d) /\ cstr'[d])

(* Copy-on-write is invisible: read through the mapping val[s] = the bytes *)
(* s views, every step is a step of the value semantics of SBufValues.     *)
Values == INSTANCE SBufValues WITH val <- [s \in SBufs |-> Content(s)]

ImplementsValues == Values!Spec

=============================================================================
