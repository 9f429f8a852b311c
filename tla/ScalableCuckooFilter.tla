------------------------- MODULE ScalableCuckooFilter -------------------------
(***************************************************************************)
(* The scalable cuckoo filter of src/test/test/filter.go                   *)
(* (ScalableCuckooFilter): a chain of Filter values.  Insert goes to the   *)
(* last filter unless its load test fires or its Insert fails; then a new  *)
(* filter with twice the buckets (scaleFactor = size * bucketSize * 2,     *)
(* rounded by NewFilter) is appended and the key is inserted there.        *)
(* Lookup and Delete scan the chain from the oldest filter.                *)
(*                                                                         *)
(* A filter is a value [buckets, count, pow]; its methods are operators on *)
(* such values.  getIndexAndFingerprint takes the low bucketPow bits of a  *)
(* fixed per-key value h (hash >> 32) and a fixed fingerprint, so one key  *)
(* lands in different buckets of filters of different sizes; getAltIndex   *)
(* masks both the index and altHash[fp] with the filter's mask.  h and     *)
(* altHash are chosen once, in Init, from all functions of small width.    *)
(*                                                                         *)
(* Ghost state: `present` is the bag of keys whose Insert returned true    *)
(* and that were not deleted since; `lost` records that a reinsert of some *)
(* filter ran out of kicks.                                                *)
(***************************************************************************)
EXTENDS Naturals, Sequences, FiniteSets, Functions, Bitwise

CONSTANTS
    Keys,              \* the caller's keys (model values)
    InitPow,           \* bucketPow of the filter configure() creates
    MaxFilters,        \* model bound on the length of the chain
    BucketSize,        \* bucketSize (4 in the code)
    MaxCuckooCount,    \* maxCuckooCount (500 in the code)
    Fingerprints,      \* the fingerprints getFingerprint can return
    HashBits,          \* the width of h and altHash that the masks can see
    LoadNum, LoadDen,  \* loadFactor = LoadNum / LoadDen (0.9 by default)
    DeleteOnlyPresent, \* TRUE: the caller deletes only keys it inserted
    FpsDistinct        \* TRUE: no two keys share a fingerprint

ASSUME InitPow + MaxFilters - 1 <= HashBits
ASSUME Fingerprints \subseteq 1 .. 255 /\ BucketSize >= 1 /\ MaxCuckooCount >= 1

NullFp == 0
Slots  == 0 .. BucketSize - 1
Width  == 0 .. 2^HashBits - 1

VARIABLES
    filters,  \* ScalableCuckooFilter.filters
    hash,     \* per key: h (the bits getIndexAndFingerprint masks) and fp
    altHash,  \* the altHash table, before masking
    present,  \* ghost: bag of keys the chain must report
    lost      \* ghost: some reinsert exhausted maxCuckooCount

vars == <<filters, hash, altHash, present, lost>>

\* NewFilter with 2^pow buckets.
NewFilter(pow) == [buckets |-> [b \in 0 .. 2^pow - 1 |-> [s \in Slots |-> NullFp]],
                   count   |-> 0,
                   pow     |-> pow]

IsFilter(f) ==
    /\ f.pow \in InitPow .. InitPow + MaxFilters - 1
    /\ f.buckets \in [0 .. 2^f.pow - 1 -> [Slots -> Fingerprints \cup {NullFp}]]
    /\ f.count \in Nat

TypeOK ==
    /\ Len(filters) \in 1 .. MaxFilters
    /\ \A i \in 1 .. Len(filters) : IsFilter(filters[i])
    /\ hash \in [Keys -> [h : Width, fp : Fingerprints]]
    /\ altHash \in [Fingerprints -> Width]
    /\ present \in [Keys -> Nat]
    /\ lost \in BOOLEAN

\* configure(): one filter of DefaultCapacity.
Init ==
    /\ filters = <<NewFilter(InitPow)>>
    /\ hash \in [Keys -> [h : Width, fp : Fingerprints]]
    /\ altHash \in [Fingerprints -> Width]
    /\ FpsDistinct => \A a, b \in Keys : a # b => hash[a].fp # hash[b].fp
    /\ present = [k \in Keys |-> 0]
    /\ lost = FALSE

(***************************************************************************)
(* One Filter, as operators on a filter value f                            *)
(***************************************************************************)
Mask(f, x) == x % 2^f.pow
GetAltIndex(f, fp, i) == Mask(f, i) ^^ Mask(f, altHash[fp])
I1(f, k) == Mask(f, hash[k].h)
Fp(k) == hash[k].fp
I2(f, k) == GetAltIndex(f, Fp(k), I1(f, k))

HasFp(f, i, fp) == \E s \in Slots : f.buckets[i][s] = fp
FirstSlot(f, i, v) ==
    CHOOSE s \in Slots : f.buckets[i][s] = v /\ \A r \in 0 .. s - 1 : f.buckets[i][r] # v

\* Filter.insert: the first null slot of bucket i, and count + 1
CanInsert(f, i) == HasFp(f, i, NullFp)
FInsertAt(f, i, fp) ==
    [f EXCEPT !.buckets[i][FirstSlot(f, i, NullFp)] = fp, !.count = @ + 1]

\* Filter.reinsert from kick k: the set of possible [f, ok] outcomes.
RECURSIVE FKicks(_, _, _, _)
FKicks(f, fp, i, k) ==
    IF k = MaxCuckooCount
    THEN {[f |-> f, ok |-> FALSE]}
    ELSE UNION {
           LET old  == f.buckets[i][j]
               swap == [f EXCEPT !.buckets[i][j] = fp]
               alt  == GetAltIndex(f, old, i)
           IN  IF CanInsert(swap, alt)
               THEN {[f |-> FInsertAt(swap, alt, old), ok |-> TRUE]}
               ELSE FKicks(swap, old, alt, k + 1)
         : j \in Slots }

\* Filter.Insert
FInsert(f, k) ==
    IF CanInsert(f, I1(f, k)) THEN {[f |-> FInsertAt(f, I1(f, k), Fp(k)), ok |-> TRUE]}
    ELSE IF CanInsert(f, I2(f, k)) THEN {[f |-> FInsertAt(f, I2(f, k), Fp(k)), ok |-> TRUE]}
    ELSE UNION {FKicks(f, Fp(k), start, 0) : start \in {I1(f, k), I2(f, k)}}

\* Filter.Lookup
FLookup(f, k) == HasFp(f, I1(f, k), Fp(k)) \/ HasFp(f, I2(f, k), Fp(k))

\* Filter.delete at bucket i, then Filter.Delete: i1 first, then i2
FRemove(f, i, fp) ==
    [f EXCEPT !.buckets[i][FirstSlot(f, i, fp)] = NullFp,
              !.count = IF @ > 0 THEN @ - 1 ELSE @]
FDelete(f, k) ==
    IF HasFp(f, I1(f, k), Fp(k)) THEN FRemove(f, I1(f, k), Fp(k))
    ELSE FRemove(f, I2(f, k), Fp(k))

\* Filter.Reset
FReset(f) == NewFilter(f.pow)

(***************************************************************************)
(* The chain                                                               *)
(***************************************************************************)
Last == filters[Len(filters)]

\* float32(count) / float32(len(buckets)) > loadFactor
LoadExceeded(f) == f.count * LoadDen > LoadNum * 2^f.pow

\* Mutant: the scale factor is applied to the slot count twice over.
GrownQuadruple(f) == NewFilter(f.pow + 2)

\* NewFilter(scaleFactor(len(buckets))) has twice the buckets.
Grown(f) == NewFilter(f.pow + 1)

Added(k) == [present EXCEPT ![k] = @ + 1]

\* Insert: either the load test fires, or lastFilter.Insert runs and, when
\* it fails (having possibly displaced a fingerprint), a new filter is
\* appended and the key inserted there.
Insert(k) ==
    /\ UNCHANGED <<hash, altHash>>
    /\ \/ /\ LoadExceeded(Last)
          /\ Len(filters) < MaxFilters
          /\ \E r \in FInsert(Grown(Last), k) :
                /\ filters' = Append(filters, r.f)
                /\ present' = IF r.ok THEN Added(k) ELSE present
          /\ UNCHANGED lost
       \/ /\ ~LoadExceeded(Last)
          /\ \E r \in FInsert(Last, k) :
                IF r.ok
                THEN /\ filters' = [filters EXCEPT ![Len(filters)] = r.f]
                     /\ present' = Added(k)
                     /\ UNCHANGED lost
                ELSE /\ Len(filters) < MaxFilters
                     /\ lost' = TRUE
                     /\ \E r2 \in FInsert(Grown(Last), k) :
                           /\ filters' = Append([filters EXCEPT ![Len(filters)] = r.f], r2.f)
                           /\ present' = IF r2.ok THEN Added(k) ELSE present

\* Lookup: any filter of the chain.
Lookup(k) == \E i \in 1 .. Len(filters) : FLookup(filters[i], k)

InsertUnique(k) == IF Lookup(k) THEN UNCHANGED vars ELSE Insert(k)

\* Mutant: Delete does not stop at the first filter that deletes.
DeleteAll(k) ==
    /\ DeleteOnlyPresent => present[k] > 0
    /\ filters' = [i \in 1 .. Len(filters) |->
                     IF FLookup(filters[i], k) THEN FDelete(filters[i], k) ELSE filters[i]]
    /\ present' = [present EXCEPT ![k] = IF @ > 0 THEN @ - 1 ELSE 0]
    /\ UNCHANGED <<hash, altHash, lost>>

\* Delete: the first filter, oldest first, whose Delete succeeds.
Delete(k) ==
    /\ DeleteOnlyPresent => present[k] > 0
    /\ \/ /\ \E i \in 1 .. Len(filters) :
                /\ FLookup(filters[i], k)
                /\ \A j \in 1 .. i - 1 : ~FLookup(filters[j], k)
                /\ filters' = [filters EXCEPT ![i] = FDelete(@, k)]
       \/ /\ ~Lookup(k)
          /\ UNCHANGED filters
    /\ present' = [present EXCEPT ![k] = IF @ > 0 THEN @ - 1 ELSE 0]
    /\ UNCHANGED <<hash, altHash, lost>>

\* Reset: every filter of the chain is reset; the chain keeps its length.
Reset ==
    /\ filters' = [i \in 1 .. Len(filters) |-> FReset(filters[i])]
    /\ present' = [k \in Keys |-> 0]
    /\ UNCHANGED <<hash, altHash, lost>>

Next ==
    \/ \E k \in Keys : Insert(k) \/ InsertUnique(k) \/ Delete(k)
    \/ Reset

Spec == Init /\ [][Next]_vars

\* Count: the sum of the filters' counts.
Count == SumFunction([i \in 1 .. Len(filters) |-> filters[i].count])

(***************************************************************************)
(* Encode and Decode of the chain: the gob Store holds each filter's       *)
(* Filter.Encode bytes and loadFactor; DecodeScalableFilter decodes each   *)
(* with Decode and keeps configure's default scaleFactor.                  *)
(***************************************************************************)
\* Filter.Encode: one byte per slot, index i * len(b) + j.
FEncode(f) == [x \in 0 .. 2^f.pow * BucketSize - 1 |->
                 f.buckets[x \div BucketSize][x % BucketSize]]

\* bits.TrailingZeros of a positive integer.
RECURSIVE TrailingZeros(_)
TrailingZeros(x) == IF x % 2 = 1 THEN 0 ELSE 1 + TrailingZeros(x \div 2)

\* Mutant: bucketPow is taken as the number of buckets.
FDecodePowLen(bytes) ==
    LET nb == Cardinality(DOMAIN bytes) \div BucketSize IN
    [buckets |-> [i \in 0 .. nb - 1 |-> [j \in Slots |-> bytes[i * BucketSize + j]]],
     count   |-> Cardinality({x \in DOMAIN bytes : bytes[x] # NullFp}),
     pow     |-> nb]

\* Decode: len(bytes)/bucketSize buckets, count the non-zero bytes,
\* bucketPow the trailing zeros of the bucket count.  Its length checks
\* cannot fail on an Encode result.
FDecode(bytes) ==
    LET nb == Cardinality(DOMAIN bytes) \div BucketSize IN
    [buckets |-> [i \in 0 .. nb - 1 |-> [j \in Slots |-> bytes[i * BucketSize + j]]],
     count   |-> Cardinality({x \in DOMAIN bytes : bytes[x] # NullFp}),
     pow     |-> TrailingZeros(nb)]

\* ScalableCuckooFilter.Encode: the Store of per-filter bytes and loadFactor.
EncodeScalable(chain) ==
    [Bytes |-> [i \in 1 .. Len(chain) |-> FEncode(chain[i])],
     LoadFactor |-> <<LoadNum, LoadDen>>]

\* DecodeScalableFilter: filters of the Store's length, each decoded.
DecodeScalableFilter(store) ==
    [filters    |-> [i \in 1 .. Len(store.Bytes) |-> FDecode(store.Bytes[i])],
     loadFactor |-> store.LoadFactor]

(***************************************************************************)
(* Properties                                                              *)
(***************************************************************************)

\* No false negatives across the chain: while no reinsert has run out of
\* kicks, every key with a live successful insertion is found by Lookup.
\* Delete removes a copy from the oldest filter that reports the key,
\* which may be another key's copy when the two collide in that filter.
NoFalseNegatives == ~lost => \A k \in Keys : present[k] > 0 => Lookup(k)

\* The same without the escape: the chain is how the caller grows a filter
\* whose Insert failed (spec sections 4.2 and 7), so a key whose Insert
\* returned true and that was not deleted is found, whatever later Inserts
\* did.  Insert ignores that lastFilter.Insert may already have dropped an
\* evicted fingerprint of an earlier key before it returned false.
NoLostKeys == \A k \in Keys : present[k] > 0 => Lookup(k)

\* A chain survives Encode and DecodeScalableFilter: the same filters in the
\* same order, each with its buckets, its bucketPow (which fixes how keys
\* index it) and a count that Decode recomputes from the non-null slots,
\* so Insert's load test, Lookup and Delete behave as before.
ChainRoundTripFaithful ==
    LET d == DecodeScalableFilter(EncodeScalable(filters)) IN
    d.filters = filters /\ d.loadFactor = <<LoadNum, LoadDen>>
=============================================================================
