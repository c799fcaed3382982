------------------------------ MODULE SBufLife ------------------------------
(***************************************************************************)
(* The lifetime of SBuf objects and the class-wide statistics.  SBufStore  *)
(* keeps a fixed set of SBufs; here SBuf objects are constructed (empty,   *)
(* by copy, from a C string or a String) and destroyed, and the calls that *)
(* return an SBuf by value (substr, consume, toLower, toUpper) construct a *)
(* temporary that is assigned and then destroyed.  A store is a MemBlob    *)
(* reference: what matters here is who holds it, not its bytes.  The      *)
(* prototype empty store is held by a static pointer besides its users     *)
(* (GetStorePrototype).  SBufStats are the counters of SBuf.h 60-100 whose *)
(* meaning the header documents; they are updated as the header says.     *)
(***************************************************************************)
EXTENDS Integers, FiniteSets

CONSTANTS
  Objs,       \* the SBuf objects that may exist
  HeapBlobs,  \* the heap MemBlobs
  Proto,      \* the prototype empty MemBlob
  MaxCalls    \* bound on the number of calls

VARIABLES
  alive,   \* the SBuf objects constructed and not yet destroyed
  store,   \* SBuf::store_ of each live object
  rc,      \* MemBlob reference count
  stats,   \* SBuf::stats
  calls

vars == <<alive, store, rc, stats, calls>>

Blobs == HeapBlobs \cup {Proto}

\* the SBufStats counters the modelled calls update
Counters == {"alloc", "allocCopy", "allocFromCString", "allocFromString",
             "assignFast", "clear", "caseChange", "cowFast", "cowSlow", "live"}

\* SBufStats(): every counter 0
NoStats == [c \in Counters |-> 0]

\* the counters in cs are incremented, live changes by dl
Count(cs, dl) ==
  /\ calls < MaxCalls
  /\ calls' = calls + 1
  /\ stats' = [c \in Counters |-> stats[c] + (IF c \in cs THEN 1 ELSE 0)
                                            + (IF c = "live" THEN dl ELSE 0)]

\* MemBlob::Pointer: a new reference is taken before the old one is dropped
Reseat(r, new, old) == [r EXCEPT ![new] = @ + 1, ![old] = @ - 1]

FreeBlobs == {b \in HeapBlobs : rc[b] = 0}

Init ==
  /\ alive = {}
  /\ store = [o \in Objs |-> Proto]
  /\ rc = [b \in Blobs |-> IF b = Proto THEN 1 ELSE 0]
  /\ stats = NoStats
  /\ calls = 0

\* o comes to life holding b
Born(o, b) ==
  /\ o \notin alive
  /\ alive' = alive \cup {o}
  /\ store' = [store EXCEPT ![o] = b]
  /\ rc' = [rc EXCEPT ![b] = @ + 1]

\* SBuf(): the prototype store
Construct(o) ==
  /\ Born(o, Proto)
  /\ Count({"alloc"}, 1)

\* SBuf(const SBuf &S): shares S's store
CopyConstruct(o, s) ==
  /\ s \in alive
  /\ Born(o, store[s])
  /\ Count({"alloc", "allocCopy"}, 1)

\* SBuf(const char *S, ..), SBuf(const String &S): a copy of the bytes in a
\* freshly allocated MemBlob (spec 2)
Import(o, kind) ==
  /\ FreeBlobs # {}
  /\ Born(o, CHOOSE b \in FreeBlobs : TRUE)
  /\ Count({"alloc", kind}, 1)

\* fault: the destructor does not release the store
DestroyKeepsStore(o) ==
  /\ o \in alive
  /\ alive' = alive \ {o}
  /\ Count({}, -1)
  /\ UNCHANGED <<store, rc>>

\* ~SBuf(): the store reference is released (the blob is freed at 0)
Destroy(o) ==
  /\ o \in alive
  /\ alive' = alive \ {o}
  /\ rc' = [rc EXCEPT ![store[o]] = @ - 1]
  /\ Count({}, -1)
  /\ UNCHANGED store

\* d = s, d.assign(s): d shares s's store, no copy
Assign(d, s) ==
  /\ {d, s} \subseteq alive
  /\ store' = [store EXCEPT ![d] = store[s]]
  /\ rc' = Reseat(rc, store[s], store[d])
  /\ Count({"assignFast"}, 0)
  /\ UNCHANGED alive

\* d.clear(): back to the prototype store
Clear(d) ==
  /\ d \in alive
  /\ store' = [store EXCEPT ![d] = Proto]
  /\ rc' = Reseat(rc, Proto, store[d])
  /\ Count({"clear"}, 0)
  /\ UNCHANGED alive

\* cow() of a mutator on d: no copy when d holds a heap store alone (and,
\* below this model's detail, has the capacity); otherwise reAlloc into a
\* fresh MemBlob allocated before the old one is released
Cow(d) ==
  /\ d \in alive
  /\ \/ /\ store[d] # Proto /\ rc[store[d]] = 1
        /\ Count({"cowFast"}, 0)
        /\ UNCHANGED <<store, rc>>
     \/ /\ FreeBlobs # {}
        /\ LET nb == CHOOSE b \in FreeBlobs : TRUE IN
           /\ store' = [store EXCEPT ![d] = nb]
           /\ rc' = Reseat(rc, nb, store[d])
        /\ Count({"cowSlow"}, 0)
  /\ UNCHANGED alive

\* d = s.substr(..) or d = s.consume(..): the returned SBuf is a copy of s
\* narrowed to the slice, so it shares s's store; d is assigned from it and
\* the temporary is destroyed
SubstrAssign(d, s) ==
  /\ {d, s} \subseteq alive
  /\ store' = [store EXCEPT ![d] = store[s]]
  /\ rc' = Reseat(rc, store[s], store[d])
  /\ Count({"alloc", "allocCopy", "assignFast"}, 0)
  /\ UNCHANGED alive

\* d = s.toLower() / s.toUpper(): the returned copy has a fresh MemBlob;
\* d is assigned from it and the temporary is destroyed
CaseAssign(d, s) ==
  /\ {d, s} \subseteq alive
  /\ FreeBlobs # {}
  /\ LET nb == CHOOSE b \in FreeBlobs : TRUE IN
     /\ store' = [store EXCEPT ![d] = nb]
     /\ rc' = [rc EXCEPT ![nb] = 1, ![store[d]] = @ - 1]
  /\ Count({"alloc", "caseChange", "assignFast"}, 0)
  /\ UNCHANGED alive

Next ==
  \/ \E o \in Objs :
       \/ Construct(o) \/ Destroy(o) \/ Clear(o) \/ Cow(o)
       \/ \E kind \in {"allocFromCString", "allocFromString"} : Import(o, kind)
  \/ \E o, s \in Objs :
       CopyConstruct(o, s) \/ Assign(o, s) \/ SubstrAssign(o, s) \/ CaseAssign(o, s)

Spec == Init /\ [][Next]_vars

-----------------------------------------------------------------------------
(* Properties                                                              *)

(* Every MemBlob's reference count is the number of live SBufs whose      *)
(* store_ it is, plus the prototype's static pointer: construction by copy *)
(* acquires, destruction and re-seating release, and the temporaries of   *)
(* by-value returns give back what they took.  A blob no live SBuf holds  *)
(* is free (no leak), and none that a live SBuf holds is.                 *)
StoresHeldByLiveSBufs ==
  \A b \in Blobs :
    rc[b] = Cardinality({o \in alive : store[o] = b}) + (IF b = Proto THEN 1 ELSE 0)

=============================================================================
