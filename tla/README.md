# TLA+ models of SBuf (squid `src/SBuf.h`)

The repository holds one source file, `src/src/SBuf.h`. It declares SBuf, squid's
reference-counted, copy-on-write byte string. Each public member has a doc comment
that states its contract. The bodies (`SBuf.cc`, `SBuf.cci`) and the backing store
`MemBlob.h` are not part of the sources. What the bodies do is therefore taken from
the contracts in `SBuf.h` and from `spec.md` §4. Definitions that model code absent
from `src/` (MemBlob, `RefCount::operator=`) are marked `spec_modelled` in
`PROJECT.json`.

## Inventory

### Components

| Component | State | Operations | Source |
|---|---|---|---|
| **MemBlob** (backing store) | `capacity`, `size` (append frontier), `refcount`, bytes | allocate, `append` at the frontier, acquire, release (free at 0) | spec §4.1 (MemBlob.h not in src) |
| **SBuf storage / COW** | `store_`, `off_`, `len_`; the shared prototype empty store | `cow(minsize)`, `reAlloc`, `estimateCapacity`, `GetStorePrototype`, `buf`/`bufEnd` | SBuf.h 535–549 |
| **SBuf construction / assignment** | as above | `SBuf()`, copy ctor, `SBuf(const char*)`, `SBuf(String)`, `assign(...)`, `operator=`, `clear()`, `~SBuf` | SBuf.h 117–183 |
| **SBuf mutators** | as above | `append` (3 overloads), `setAt`, `chop`, `trim`, `consume`, `reserveSpace`, `reserveCapacity`, `rawSpace` + `forceSize`, `c_str`, `Printf`/`appendf`/`vappendf` | SBuf.h 185–263, 291–300, 342–449 |
| **SBuf queries** | none (const) | `at`, `[]`, `compare`, `startsWith`, `==`/`<`/…, `find`, `rfind`, `find_first_of`, `substr`, `copy`, `rawContent`, `length`, `plength`, `isEmpty` | SBuf.h 242–340, 388–403, 444–502 |
| **Case conversion and interop** | none | `toLower`, `toUpper`, `toString`, `scanf` | SBuf.h 504–529 |
| **SBufStats** | global advisory counters | incremented by every call; `GetStats`, `dump`, `operator+=` | SBuf.h 60–100, 305, 538 |
| **Printing** | none | `print`, `dump`, `operator<<`, `SQUIDSBUFPH` | SBuf.h 49–53, 231–240, 560 |

### How they interact

Many SBufs may point at one MemBlob. Copying, assigning, `substr` and `consume`
share the store and raise its refcount. Re-seating `store_` releases the old blob,
and the last release frees it. Default-constructed SBufs share one prototype store
of capacity 0, which a static pointer also holds.

Each mutator decides from the blob's refcount, its frontier and its own `off_+len_`
whether it may write in place or must copy first (`cow`). Three cases write in place:

- `append` writes in place under the *append-ownership rule*: refcount 1 and
  `off_+len_ == size`.
- `c_str()` writes a transient 0 past the content, without growing the frontier.
- `rawSpace()` hands out a writable pointer at `bufEnd()`. The caller writes there
  and then publishes the bytes with `forceSize()`.

Everything is synchronous and single-threaded. The "interleavings" are orders of
calls on different SBufs that share a store.

### What is hard

- **Isolation.** A write by one SBuf must never be visible through another SBuf
  that shares the blob. In-place paths skip the copy, so each one needs the right
  ownership test (refcount, frontier, capacity).
- **Stale pointers.** `c_str()` and `rawContent()` return pointers into the blob.
  These must stay valid until the next non-const call on *the same* SBuf, whatever
  its siblings do in the meantime.
- **Refcount traffic.** Self-assignment, `x = x.consume(n)`, `clear()` and reAlloc
  all re-seat `store_`. Releasing before acquiring, or forgetting a release, frees
  a blob that is still in use or leaks one.
- **Boundaries.** Covered here:
  - `maxSize` (capacity must never exceed it; `c_str` on a maxSize SBuf needs one
    more byte);
  - `npos == -1` as a sentinel in signed arithmetic;
  - clamping of `pos`/`n` past the end.

### Properties that make each component correct

- MemBlob / storage:
  - every view lies within initialized bytes of a live blob;
  - refcounts are exact;
  - a shared blob is frozen.
- SBuf mutators: each SBuf behaves as an independent string value. This is the
  refinement of `SBufValues`. The `c_str()` pointer stays terminated.
- Lifetime: every blob's
  refcount is the number of live SBufs holding it (plus the prototype's static
  pointer), across constructors, destructors and by-value temporaries.
- Queries: what each doc comment promises, where two promises can be set
  against each other (a negative start, the sign of `compare`).

## Modules

| Module | Models | State ↔ code |
|---|---|---|
| `SBufValues` | the promise: every SBuf is an independent byte-string value | `val[s]`: the bytes `s` shows; one action per public mutator, written from its doc comment |
| `SBufStore` | MemBlob + the SBuf view, with cow/reAlloc and refcounts | `blob[b]` = MemBlob b (`cap`, `size`, `rc`, `data`); `store`/`off`/`len` = `store_`/`off_`/`len_`; `cstr` is a history variable: "`c_str()` was called and no non-const call since" |
| `MCSBufStore` | TLC instance of `SBufStore` | symmetry; the literal-reading variant of spec §4.2.4 step 4 |
| `SBufSearch` | the const queries: `find`, `find(str)`, `rfind`, `rfind(str)`, `find_first_of`, `compare`, `startsWith`, `==`, `<` | one RECURSIVE scan per query on a byte sequence (bytes are ASCII codes, so case folding is `tolower`); `LexBefore`, the byte order the `compare` comments are read against |
| `MCSBufSearch` | the queries checked on reachable values | `val` evolves under `SBufValues`; each state gives a haystack and a needle |
| `SBufSize` | the size arithmetic of one SBuf at int32 width, `maxSize = 0xfffffff` | `off`/`len` = `off_`/`len_`, `cap`/`size` = its store's capacity and frontier, `shared`/`proto` = another reference holds the store / it is the prototype; `wrapped`, `last`, `calls` are history |
| `MCSBufSize` | TLC instance of `SBufSize` | the counts calls are made with: in range, or with `INT32_MAX` added |
| `SBufLife` | SBuf object lifetime and the SBufStats counters | `alive` = the SBuf objects constructed and not destroyed; `store[o]` = `o.store_`, a blob reference only; `rc` = MemBlob refcounts, the prototype's including its static pointer; `stats` = `SBuf::stats` restricted to the counters of the modelled calls |
| `MCSBufLife` | TLC instance of `SBufLife` | symmetry over objects and heap blobs |

In `SBufStore` each action is one whole public call. Its `cow`/`reAlloc`, the
refcount release and acquire, the write, and the failure paths all happen inside
that one step:

| Action | Call |
|---|---|
| `AssignSBuf` | `operator=`, `assign(const SBuf&)`, copy ctor |
| `AssignBytes` | `assign(const char*)` and friends |
| `Clear` | `clear()` |
| `AppendBytes`, `AppendSBuf` | `append` |
| `SetAt` | `setAt`: `checkAccessBounds` (position npos = -1 and past the end throw), `cow(length())`, write |
| `Chop`, `Trim` | `chop`, `trim` |
| `Substr` | `r = s.substr(..)` |
| `Consume` | `r = d.consume(n)` |
| `ReserveCapacity`, `ReserveSpace` | `reserveCapacity`, `reserveSpace` |
| `RawSpaceAppend` | `rawSpace(n)`, write n bytes, `forceSize(len+n)` |
| `CStr` | `c_str()` |
| `ForceSize` | `forceSize(n)` on its own (shrink; `TextException` when shared or past capacity) |
| `Appendf`, `Printf` | `appendf`/`vappendf`, `Printf` (clear, then `vappendf`) |
| `ToLower`, `ToUpper` | `r = s.toLower()`, `r = s.toUpper()` |

Every `cow`/`reAlloc` inside an action is the operator `Reserve(v, minCap)`. It
returns the set of outcomes `[v, exc]`: the fast path, every capacity
`estimateCapacity` may pick, `SBufTooBigException` when `minCap > maxSize`, and,
when the constant `MemFail` is TRUE, `MemoryException` whenever reAlloc must
allocate. `Then(r, F)` continues a call only when `r` did not throw. A throwing
call leaves the SBuf as it was at the throw. `memErr` is a history variable:
"the last call ended in a MemoryException".

`vappendf` follows spec §4.2.11. It reserves `len + est` bytes (`est` in
`EstArg = 0..1`, the format's size estimate), writes a first, possibly truncated,
attempt with its 0 into that space, and publishes it only when the whole output
and its 0 fit. Otherwise it re-reserves `len + |out| + 1` and writes again. The
formatted output `out` is any short string; the format string is not modelled.

A blob whose refcount reaches 0 goes back to a canonical free state. Its bytes
become `Junk`, the value of a byte nobody wrote. A view that still pointed into a
freed blob would therefore show garbage.

`estimateCapacity(d)` is only specified as "at least d and at most maxSize". The
model lets it return any capacity in `d..MaxSize`.

`cow(minCap)` follows spec §4.2.3. The fast path requires refcount 1, `off_ == 0`
and enough capacity. The slow path calls `reAlloc` to get a fresh blob holding the
viewed bytes at offset 0, and releases the old one.

After `cow`, `append` writes at `bufEnd()` (`off_+len_`), the position `rawSpace()`
returns. It grows the frontier to cover the write. The run `store_append_at_cursor`
shows why spec §4.2.4's literal wording (MemBlob::append at the frontier) cannot be
what the code does.

## Runs

| Run | Config | Checks | Result |
|---|---|---|---|
| `store_invariants` | `MCSBufStore.cfg` | `TypeOK`, `ViewsWithinBlobs`, `RefCountsExact`, `CStrTerminated` | pass, 14,598 states, ~1 min |
| `store_refines_values` | `MCSBufStoreValues.cfg` | `SharedBlobFrozen`, `ImplementsValues` (SBufStore implements SBufValues), with allocation failure on | pass, 5,880 states, ~2 min |
| `store_alloc_failure_strong_guarantee` | `MCSBufStoreOom.cfg` | `StrongExceptionGuarantee` | violation (finding) |
| `store_cstr_at_maxsize` | `MCSBufStoreCStr.cfg` | `CStrAlwaysTerminates` | violation (finding) |
| `store_append_at_cursor` | `MCSBufStoreCursor.cfg` | `ImplementsValues`, with `AfterCowAppend <- AfterCowAppendAtCursor` | violation (expected) |
| `search_negative_start` | `MCSBufSearchNegStart.cfg` | `NegativeStartIgnored` | violation (finding) |
| `compare_sign_as_documented` | `MCSBufSearchCompareDoc.cfg` | `CompareSignAsDocumented` | violation (finding) |

- **ViewsWithinBlobs.** Every SBuf's `off_+len_ <= size <= capacity` on a blob with
  a non-zero refcount (spec §8.1). A self-assignment that releases before it
  acquires breaks it.
- **RefCountsExact.** A blob's refcount equals the number of SBufs whose `store_`
  it is, plus the prototype's static holder.
- **CStrTerminated.** Until the next non-const call on `s`, the byte after `s`'s
  content is still 0. This holds whatever the SBufs sharing `s`'s store do in the
  meantime.
  - It is the one property that shows why the append-ownership rule needs its
    refcount test.
  - Without that test, a sibling can append in place over the terminator. Every
    view's content still stays correct, so the refinement alone would not notice.
- **SharedBlobFrozen** (action property). No step changes the bytes, frontier or
  capacity of a blob that two or more SBufs reference. A `cow` fast path that does
  not test the refcount breaks it.
- **ImplementsValues.** With `val[s]` = the bytes `s` views, every step of
  `SBufStore` is a step of `SBufValues`. Copy-on-write is invisible: an operation
  changes its own SBuf's value (and `consume`'s target) by exactly the documented
  function, and no other SBuf's.
- **store_append_at_cursor** (finding). Spec §4.2.4 says that after `cow(len+n)`
  the store is uniquely owned "with off=0 and size=len", so the bytes can be added
  at the frontier. §4.2.3's fast path does not reset the frontier, though. An SBuf
  that chopped its own tail keeps `off_+len_ < size`.
  - TLC's trace: `x = "a"` (capacity 1), `x.chop(0,0)`, then `x.c_str()` (fast
    cow). `x.append("a")` fails the ownership rule and takes fast cow again.
  - MemBlob::append then writes past the capacity, and x reads NUL instead of "a".
  - The model resolves the ambiguity the only way that satisfies the contract:
    write at `bufEnd()`, as `rawSpace()` does.

- **store_alloc_failure_strong_guarantee** (finding). `StrongExceptionGuarantee`
  is the action property "a call that ends in MemoryException changes no SBuf's
  content" (spec §7.4). reAlloc keeps it: the new blob is allocated before the old
  is released. `assign(const char*)` and `Printf` do not: spec §4.2.1 has them
  clear the receiver first. TLC's trace: `x.assign("a")`, then `x.assign("A")`
  fails to allocate and x is empty.
- **store_cstr_at_maxsize** (finding). `CStrAlwaysTerminates` says that from every
  reachable state `c_str()` can return a terminated string (an `ENABLED`
  invariant). `c_str()` reserves `len_+1`; after x grows to `maxSize` bytes by
  legal appends, that is more than maxSize and cow throws SBufTooBigException.
  The doc says "This call never returns NULL" and documents no exception.

- No run compares the scans of `SBufSearch` with a declarative restatement of
  the same comments. With no bodies to translate (SBuf.cc is absent), such a
  check would hold whatever SBuf.cc does. The scans serve the two runs that set
  one doc comment against another.
- **search_negative_start** (finding). `find`'s comment says both "if startPos is
  npos, npos is always returned" and "if startPos is < 0, it is ignored". npos is
  -1, so after `x = "A"`, `x.find('A', -1)` is npos, not 0. Only starts below -1
  are ignored. The same clause pair is on `find(str)` and `find_first_of`.
- **compare_sign_as_documented** (finding). `compare` is "str(case)cmp-style"
  and spec S4 has `"Hello".compare("hello") < 0`: negative when the called SBuf
  sorts first. The `\retval` lines say the opposite (">0 argument of the call is
  greater than called SBuf"). With `x = "A"`, `y = ""`, `x.compare(y) > 0`.

### SBufSize: the numbers at their real width

`SBufStore` uses unbounded integers and sizes up to 3. `SBufSize` keeps only the
numbers, at the width the code has them (`size_type` is `int32_t`, SBuf.h 111),
and the real `maxSize`. It has one action per call that computes with sizes:
`Append`, `RawSpace`, `ReserveSpace`, `ReserveCapacity`, `ForceSize`, `SetAt`,
`Chop`, `Consume`. `SetAt` is `checkAccessBounds` (`AccessInBounds`, SBuf.h 551:
`0 <= pos < length()`), then `cow(length())`, then the write at `off_ + pos` of
the store cow() left (spec 4.2.5). The call record `last` keeps the store index
written. It also has `Share`, `Unshare` and `Clear`, for the other references
that decide `cow()`'s path. The actions follow `SBufStore`'s.

- Every sum a call computes is `Add32`, two's complement modulo 2^32. TLC's own
  integers are 32-bit, so it is computed without forming an out-of-range value.
- A comparison of a sum that overflows (`len_ + n > maxSize`, `start + n > len_`)
  is undefined behaviour. `Exceeds` lets the build either compare the wrapped sum
  or fold the test into the true one.
- `estimateCapacity(d)` is either `d` or `maxSize`: the two boundary size classes.
- Append's count comes from its own constant `SourceLens`: it is the length of
  the source once npos is resolved, so it is never negative. Every other call
  takes its argument from `Counts`, which includes npos.

| Run | Config | Checks | Result |
|---|---|---|---|
| `size_arithmetic_in_range` | `MCSBufSize.cfg` | `SizesWithinMaxSize`, `NoSumWraps`, `SpaceAsPromised` | pass, 6,331 states, 4 s |
| `size_huge_request` | `MCSBufSizeHuge.cfg` | `SpaceAsPromised` | violation (finding) |
| `size_huge_append` | `MCSBufSizeHugeAppend.cfg` | `SizesWithinMaxSize` | violation (finding) |

- **SizesWithinMaxSize.** Spec §8.1 at int32 width: `0 <= off_`, `0 <= len_`,
  `off_ + len_ <= size <= capacity <= maxSize`. The check in `append`, `cow`'s
  maxSize test and the clamps in `chop` and `consume` keep it.
- **NoSumWraps.** The header's "maxSize MUST be < MAX(size_type)/2". With counts
  `{npos, 0, 1, maxSize-1, maxSize, maxSize+1}`, no call overflows a sum. The sums
  are `len_+n`, `off_+pos`, `off_+newSize` and the end of the appended bytes. The
  mutant `maxSize = 2^30` breaks it after two appends of maxSize.
- **SpaceAsPromised.** A `rawSpace(m)`/`reserveSpace(m)` that returns leaves `m`
  bytes after `bufEnd()`, and `reserveCapacity(c)` leaves `c` bytes from `off_`
  (SBuf.h 342-358, 405-419).
- **size_huge_request** (finding). After `x.append("a")`, `x.rawSpace(INT32_MAX)`
  computes `1 + INT32_MAX`, which wraps to `INT32_MIN`. cow's maxSize test passes,
  the no-copy path is taken, and the call returns with the space x already had
  (in the trace, maxSize - 1 bytes), not INT32_MAX. It neither throws
  SBufTooBigException nor provides the space. `reserveSpace` has the same
  sum. The maxSize headroom protects sums of two in-range sizes, not a size the
  caller passes.
- **size_huge_append** (finding). Append's count is the caller's, so it can be
  as large as `size_type` allows. After `x.append("a")`,
  `x.append(S, 0, INT32_MAX)` computes `len_ + n = INT32_MIN`, so the maxSize
  test passes. cow(INT32_MIN) then takes the no-copy path, and `len_` becomes
  `INT32_MIN`. That breaks spec §8.1. Spec §7 says a size overflow should leave
  the SBuf unchanged instead. The in-range run passes only because its lengths
  are at most maxSize + 1.

Bounds: `MaxCalls = 4` calls. Two appends reach maxSize, and a third overflows
under the mutant `maxSize`. Four calls also cover append, chop and then a reserve
at an offset. The run stops at the bound, so it sets `CHECK_DEADLOCK FALSE`. No
call is ever obliged to happen on a library object.

### SBufLife: object lifetime and statistics

`SBufStore` keeps a fixed set of SBufs. `SBufLife` lets them come and go. Each
action is one call, with the counters its header comment names (SBuf.h 69-91):

| Action | Call | Counters |
|---|---|---|
| `Construct` | `SBuf()`: the prototype store | `alloc`, `live`+1 |
| `CopyConstruct` | `SBuf(const SBuf&)`: shares the store | `alloc`, `allocCopy`, `live`+1 |
| `Import` | `SBuf(const char*)`, `SBuf(const String&)`: a fresh blob (spec §2) | `alloc`, `allocFromCString` or `allocFromString`, `live`+1 |
| `Destroy` | `~SBuf()`: releases the store | `live`-1 |
| `Assign` | `operator=`, `assign(const SBuf&)` | `assignFast` |
| `Clear` | `clear()` | `clear` |
| `Cow` | the `cow()` of any mutator: no copy when the SBuf holds a heap blob alone, else a fresh blob taken before the old one is released | `cowFast` or `cowSlow` |
| `SubstrAssign` | `d = s.substr(..)`, `d = s.consume(..)`: a temporary sharing `s`'s store is assigned to `d` and destroyed | `alloc`, `allocCopy`, `assignFast` |
| `CaseAssign` | `d = s.toLower()`, `d = s.toUpper()`: a temporary with a fresh blob is assigned to `d` and destroyed | `alloc`, `caseChange`, `assignFast` |

| Run | Config | Checks | Result |
|---|---|---|---|
| `life_refcounts` | `MCSBufLife.cfg` | `StoresHeldByLiveSBufs` | pass, 20,140 states, 7 s |

- **StoresHeldByLiveSBufs.** Every blob's refcount is the number of live SBufs
  holding it, plus 1 for the prototype's static pointer. A blob no live SBuf holds
  is free. The mutant destructor that keeps its reference (a leak) breaks it.
- No property is stated over `stats`. Each action writes its `live` change next
  to its `alive` change, so "`stats.live` counts the live SBufs" would hold by
  the shape of the model. A by-value temporary is one step with a net `live`
  change of 0, so a miscounted temporary cannot be seen either.

Bounds: three SBuf objects and four heap blobs, so three SBufs can each own a blob
while a `cowSlow` or a `toLower` temporary takes a fourth. `MaxCalls = 6` calls:
enough to construct, share, copy and destroy in every order that matters for
two objects, and to reach three live SBufs. When no blob is free, the calls that
allocate are disabled; allocation failure is `SBufStore`'s concern. The run stops
at the call bound, hence `CHECK_DEADLOCK FALSE`.

### Bounds and why they are enough

- Two SBufs `{x, y}` and three heap blobs, one more than the SBufs. That is the
  most any reAlloc can need, because the new blob is allocated before the old one
  is released.
- Two data bytes `{a, A}`, plus `nul` and `junk`. Two bytes are enough to tell a
  sibling's overwrite apart from the value it replaced, and `toLower`/`toUpper`
  map one to the other (`MCToLower`/`MCToUpper` are `tolower`/`toupper` on them).
- The invariants run uses one data byte (`Chars = {a}`). Its four invariants are
  about views, refcounts and where a 0 sits, and none of them depends on which
  data byte is stored. With one byte it can afford `MaxSize = 3` with allocation
  failure on.
- `MemFail` is TRUE in the invariants, refinement and strong-guarantee runs, and
  FALSE in the c_str run, whose trace needs no allocation failure.
- `MaxSize = 3` for the invariants and 2 for the refinement run, where TLC must
  also match every step against `SBufValues`. At these sizes the following all
  occur:
  - the maxSize failures of `append`, `reserve*`, `rawSpace` and `c_str`;
  - chopped tails behind the frontier;
  - slack between the frontier and the capacity;
  - sharing of prefix and suffix views.
- Imported strings are one byte long (`MaxImport = 1`). Multi-byte appends still
  happen through `append(const SBuf&)` and self-append.
- Symmetry: SBufs, and heap blobs. The allocator `NewBlob` picks one free blob with
  `CHOOSE`. All free blobs are identical (`FreeBlob`), so every choice gives states
  that are permutations of each other.

- Search: two SBufs over the bytes `{'A', 'a', 'b'}` (65, 97, 98), values up to
  length 3. The upper-case byte makes case-insensitive compare differ from the
  case-sensitive one. Length 3 gives repeated and overlapping occurrences
  ("aaa", "aba"), needles longer than haystacks, and matches at both ends.

### Fairness

None. SBuf is a passive library type: no call is ever obliged to happen, so the
properties are safety properties and the specifications have no fairness
conditions.

## Not modelled (yet) and why

- SBuf lifetime together with bytes. `SBufLife` has constructors and
  destructors, but without bytes; `SBufStore` has bytes on fixed slots, where
  a destroyed SBuf is one that is cleared and never used again.
- The SBufStats counters of calls that change nothing else (`getChar`,
  `setChar`, `append`, `find`, `compareFast`/`compareSlow`, `copyOut`,
  `rawAccess`, `chop`, `trim`, `scanf`, `toStream`). The header says only that
  each counts calls, and spec §1 makes them advisory. Also not modelled: `dump()`,
  which is I/O, and `operator+=`, which merges per-thread stats and has no caller
  in this header.
- `forceSize(newLen)` growing over bytes nobody wrote. On its own it is modelled
  as a shrink (or a no-op); growth is modelled inside the `rawSpace` protocol,
  where the caller has written the bytes.
- The format string of `Printf`/`appendf`: the formatted output is an input.
  So `x.Printf(SQUIDSBUFPH, SQUIDSBUFPRINT(x))` is not modelled. It formats from
  a pointer into x's own store while Printf replaces x's content. Whether it reads
  a freed blob depends on whether Printf releases the store before it formats.
  That order is in SBuf.cc; the header and spec §4.2.11 say only that Printf
  "replaces content". The hazard is listed in PROJECT.json without a property.
- `scanf`, `toString`, printing and `SBufStats`. Scanning and printing are I/O,
  `toString` builds an object outside this header, and the stats are advisory
  (spec §1).

## Plan

1. **Done:** `SBufValues`, `SBufStore` and `MCSBufStore` cover the core: sharing,
   COW, refcounts and the in-place paths.
2. **Done:** `SBufSearch` and `MCSBufSearch`: the const queries as RECURSIVE
   scans, and two findings in the doc comments.
3. **Done:** `SBufSize`: the size arithmetic at int32 width; one finding
   (`rawSpace`/`reserveSpace` with a huge size).
4. **Done:** `SBufStore` extended with standalone `forceSize`, `Printf`/`appendf`
   (reserve, truncated attempt, retry), `toLower`/`toUpper`, and allocation
   failure in every reAlloc and in assign's allocation; two findings.
5. **Done:** `SBufSize` extended with `setAt` (bounds check, cow, write) and
   with append's own source lengths; a second
   finding (append of INT32_MAX bytes). `setAt` in `SBufStore`/`SBufValues` now
   also rejects negative positions.
6. **Done:** `SBufLife`: construction, destruction, by-value temporaries and
   the SBufStats counters they update.
7. **Findings to pursue.**
   - Spec §3 says a byte below the frontier is never overwritten while referenced.
     Yet `setAt` after a fast `cow` overwrites in place at refcount 1 (SBuf.h 261,
     "performs a copy-on-write if needed").
     A step-level statement of §3 needs blob instances told apart. The allocator
     may hand out the block that `clear()` freed earlier in the same call. That
     needs an allocation history in `SBufStore`.
