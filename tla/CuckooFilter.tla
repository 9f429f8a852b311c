----------------------------- MODULE CuckooFilter -----------------------------
(***************************************************************************)
(* The cuckoo filter of src/test/test/filter.go (type Filter).             *)
(*                                                                         *)
(* NewFilter(Capacity) gives 2^BucketPow buckets of BucketSize one-byte    *)
(* fingerprints, 0 meaning an empty slot.  getIndexAndFingerprint reduces  *)
(* a key to a primary bucket                                               *)
(* i1 and a fingerprint in 1..255; getAltIndex(fp, i) = i XOR             *)
(* (altHash[fp] & mask).  The key hash and the altHash table are fixed but *)
(* unknown, so Init chooses them from Hashes and AltHashes.                *)
(*                                                                         *)
(* Every method is one atomic step (the filter is single-threaded, spec    *)
(* section 5).  The random choices of Insert (randi) and reinsert          *)
(* (rand.Intn(bucketSize) per kick) are nondeterministic; the kick loop is *)
(* evaluated whole by the recursive operator Kicks.  Lookup, Count and     *)
(* Encode change nothing and are operators.                                *)
(*                                                                         *)
(* Ghost state: `present` is the bag of keys whose Insert returned true    *)
(* and that were not deleted since (plain Insert accepts duplicates);      *)
(* `lost` records that a reinsert ran out of kicks.                        *)
(***************************************************************************)
EXTENDS Naturals, FiniteSets, Functions, Bitwise

CONSTANTS
    Keys,              \* the caller's keys (model values)
    Capacity,          \* the capacity NewFilter is called with
    UintBits,          \* the width of a uint64 (64 in the code)
    BucketSize,        \* the bucketSize constant (4 in the code)
    MaxCuckooCount,    \* the maxCuckooCount constant (500 in the code)
    Fingerprints,      \* the fingerprint values getFingerprint can return
    DeleteOnlyPresent  \* TRUE: the caller deletes only keys it inserted

NullFp  == 0

\* getNextPow2: n--, then n |= n >> k for k = 1, 2, ..., 32, then n++, all
\* on a word of UintBits bits, so that 0 and anything above the top bit
\* wrap to 0.
Dec(n) == (n + 2^UintBits - 1) % 2^UintBits
Inc(n) == (n + 1) % 2^UintBits
SmearRight(n) ==
    LET m1 == n  | shiftR(n, 1)
        m2 == m1 | shiftR(m1, 2)
        m3 == m2 | shiftR(m2, 4)
        m4 == m3 | shiftR(m3, 8)
        m5 == m4 | shiftR(m4, 16)
    IN  m5 | shiftR(m5, 32)

\* Mutant: the leading n-- is missing, so a power of two is doubled.
getNextPow2NoDec(n) == Inc(SmearRight(n))

getNextPow2(n) == Inc(SmearRight(Dec(n)))

\* bits.TrailingZeros of a positive integer.
RECURSIVE TrailingZeros(_)
TrailingZeros(x) == IF x % 2 = 1 THEN 0 ELSE 1 + TrailingZeros(x \div 2)

\* NewFilter: getNextPow2(capacity) / bucketSize buckets, at least one,
\* and bucketPow their trailing zeros.
NewFilterBuckets(capacity) ==
    LET c == getNextPow2(capacity) \div BucketSize IN IF c = 0 THEN 1 ELSE c
BucketPow == TrailingZeros(NewFilterBuckets(Capacity))
Buckets   == 0 .. 2^BucketPow - 1
Slots   == 0 .. BucketSize - 1

ASSUME BucketSize >= 1 /\ MaxCuckooCount >= 1 /\ UintBits >= 2
ASSUME Fingerprints \subseteq 1 .. 255
ASSUME DeleteOnlyPresent \in BOOLEAN

\* The possible results of getIndexAndFingerprint and of the altHash table.
Hashes    == [Keys -> [i1 : Buckets, fp : Fingerprints]]
AltHashes == [Fingerprints -> Buckets]

VARIABLES
    buckets,  \* Filter.buckets
    count,    \* Filter.count
    hash,     \* the fixed getIndexAndFingerprint of every key
    altHash,  \* the altHash table, masked by masks[bucketPow]
    present,  \* ghost: bag of keys the filter must report
    lost      \* ghost: some reinsert exhausted maxCuckooCount

vars == <<buckets, count, hash, altHash, present, lost>>

EmptyBuckets == [b \in Buckets |-> [s \in Slots |-> NullFp]]

TypeOK ==
    /\ buckets \in [Buckets -> [Slots -> Fingerprints \cup {NullFp}]]
    /\ count \in 0 .. Cardinality(Buckets) * BucketSize
    /\ hash \in Hashes
    /\ altHash \in AltHashes
    /\ present \in [Keys -> Nat]
    /\ lost \in BOOLEAN

\* NewFilter, then the init() that fills altHash.
Init ==
    /\ buckets = EmptyBuckets
    /\ count = 0
    /\ hash \in Hashes
    /\ altHash \in AltHashes
    /\ present = [k \in Keys |-> 0]
    /\ lost = FALSE

(***************************************************************************)
(* Helpers                                                                 *)
(***************************************************************************)
GetAltIndex(fp, i) == i ^^ altHash[fp]

\* bucket.getFingerprintIndex(fp) > -1
HasFp(bkts, i, fp) == \E s \in Slots : bkts[i][s] = fp

\* the first slot of bucket i holding v (bucket.insert / bucket.delete scan)
FirstSlot(bkts, i, v) == CHOOSE s \in Slots : bkts[i][s] = v /\ \A r \in 0 .. s - 1 : bkts[i][r] # v

\* Filter.insert(fp, i): bucket.insert writes the first null slot, and
\* count is incremented when it succeeds.
CanInsert(bkts, i) == HasFp(bkts, i, NullFp)
BucketInsert(bkts, i, fp) == [bkts EXCEPT ![i][FirstSlot(bkts, i, NullFp)] = fp]

\* reinsert(fp, i) from kick k on: swap fp with a random slot j of bucket
\* i, then try to insert the evicted fingerprint in its alternate bucket.
\* The result is the set of possible [bkts, ok] outcomes.
\* Mutant: the evicted fingerprint is sent to the alternate bucket of
\* the fingerprint that displaced it.
RECURSIVE KicksWrongAlt(_, _, _, _)
KicksWrongAlt(bkts, fp, i, k) ==
    IF k = MaxCuckooCount
    THEN {[bkts |-> bkts, ok |-> FALSE]}
    ELSE UNION {
           LET old  == bkts[i][j]
               swap == [bkts EXCEPT ![i][j] = fp]
               alt  == GetAltIndex(fp, i)
           IN  IF CanInsert(swap, alt)
               THEN {[bkts |-> BucketInsert(swap, alt, old), ok |-> TRUE]}
               ELSE KicksWrongAlt(swap, old, alt, k + 1)
         : j \in Slots }

RECURSIVE Kicks(_, _, _, _)
Kicks(bkts, fp, i, k) ==
    IF k = MaxCuckooCount
    THEN {[bkts |-> bkts, ok |-> FALSE]}
    ELSE UNION {
           LET old  == bkts[i][j]
               swap == [bkts EXCEPT ![i][j] = fp]
               alt  == GetAltIndex(old, i)
           IN  IF CanInsert(swap, alt)
               THEN {[bkts |-> BucketInsert(swap, alt, old), ok |-> TRUE]}
               ELSE Kicks(swap, old, alt, k + 1)
         : j \in Slots }

I1(k) == hash[k].i1
Fp(k) == hash[k].fp
I2(k) == GetAltIndex(Fp(k), I1(k))

\* Lookup: bucket i1, then the alternate bucket.
Lookup(k) == HasFp(buckets, I1(k), Fp(k)) \/ HasFp(buckets, I2(k), Fp(k))

Added(k) == [present EXCEPT ![k] = @ + 1]

(***************************************************************************)
(* Insert: bucket i1, else bucket i2, else reinsert from randi(i1, i2).    *)
(***************************************************************************)
Insert(k) ==
    /\ UNCHANGED <<hash, altHash>>
    /\ \/ /\ CanInsert(buckets, I1(k))
          /\ buckets' = BucketInsert(buckets, I1(k), Fp(k))
          /\ count' = count + 1
          /\ present' = Added(k)
          /\ UNCHANGED lost
       \/ /\ ~CanInsert(buckets, I1(k))
          /\ CanInsert(buckets, I2(k))
          /\ buckets' = BucketInsert(buckets, I2(k), Fp(k))
          /\ count' = count + 1
          /\ present' = Added(k)
          /\ UNCHANGED lost
       \/ /\ ~CanInsert(buckets, I1(k))
          /\ ~CanInsert(buckets, I2(k))
          /\ \E start \in {I1(k), I2(k)} :
               \E r \in Kicks(buckets, Fp(k), start, 0) :
                  /\ buckets' = r.bkts
                  /\ IF r.ok
                     THEN /\ count' = count + 1
                          /\ present' = Added(k)
                          /\ UNCHANGED lost
                     ELSE /\ lost' = TRUE
                          /\ UNCHANGED <<count, present>>

\* InsertUnique: refuse when Lookup already answers true.
InsertUnique(k) ==
    IF Lookup(k) THEN UNCHANGED vars ELSE Insert(k)

(***************************************************************************)
(* Delete: the first matching slot of bucket i1, else of bucket i2; count  *)
(* is decremented only while positive.                                     *)
(***************************************************************************)
DeleteAt(i, fp) ==
    /\ buckets' = [buckets EXCEPT ![i][FirstSlot(buckets, i, fp)] = NullFp]
    /\ count' = IF count > 0 THEN count - 1 ELSE count

Delete(k) ==
    /\ DeleteOnlyPresent => present[k] > 0
    /\ \/ /\ HasFp(buckets, I1(k), Fp(k))
          /\ DeleteAt(I1(k), Fp(k))
       \/ /\ ~HasFp(buckets, I1(k), Fp(k))
          /\ HasFp(buckets, I2(k), Fp(k))
          /\ DeleteAt(I2(k), Fp(k))
       \/ /\ ~Lookup(k)
          /\ UNCHANGED <<buckets, count>>
    /\ present' = [present EXCEPT ![k] = IF @ > 0 THEN @ - 1 ELSE 0]
    /\ UNCHANGED <<hash, altHash, lost>>

\* Mutant: Reset clears the buckets but keeps count.
ResetKeepCount ==
    /\ buckets' = EmptyBuckets
    /\ present' = [k \in Keys |-> 0]
    /\ UNCHANGED <<count, hash, altHash, lost>>

\* Reset: every bucket cleared, count 0.
Reset ==
    /\ buckets' = EmptyBuckets
    /\ count' = 0
    /\ present' = [k \in Keys |-> 0]
    /\ UNCHANGED <<hash, altHash, lost>>

Next ==
    \/ \E k \in Keys : Insert(k) \/ InsertUnique(k) \/ Delete(k)
    \/ Reset

Spec == Init /\ [][Next]_vars

(***************************************************************************)
(* Encode and Decode                                                       *)
(***************************************************************************)
\* Mutant: Encode writes slot-major instead of bucket-major.
EncodeTransposed(bkts) == [x \in 0 .. Cardinality(Buckets) * BucketSize - 1 |->
                              bkts[x % BucketSize][x \div BucketSize]]

\* Encode: one byte per slot, bucket-major (index = i * len(b) + j).
Encode(bkts) == [x \in 0 .. Cardinality(Buckets) * BucketSize - 1 |->
                    bkts[x \div BucketSize][x % BucketSize]]

\* Decode: len(bytes)/4 buckets; a non-zero byte fills its slot and adds
\* one to count.  Length checks cannot fail on an Encode result.
DecodeBuckets(bytes) == [i \in Buckets |-> [j \in Slots |-> bytes[i * BucketSize + j]]]
DecodeCount(bytes) == Cardinality({x \in DOMAIN bytes : bytes[x] # NullFp})

(***************************************************************************)
(* Properties                                                              *)
(***************************************************************************)
\* The stored copies of fingerprint fp in the bucket pair {i, alt(i)}.
Pair(fp, i) == {i, GetAltIndex(fp, i)}
Copies(fp, P) == Cardinality({<<b, s>> \in P \X Slots : buckets[b][s] = fp})
Demand(fp, P) == SumFunctionOnSet(present, {k \in Keys : Fp(k) = fp /\ Pair(fp, I1(k)) = P})

\* No false negatives, counted with multiplicity: as long as no reinsert
\* has run out of kicks, every bucket pair holds at least as many copies of
\* a fingerprint as there are live insertions of keys hashing to that pair
\* and fingerprint.  It needs the eviction chain to move each fingerprint
\* to its own alternate bucket, and Delete to remove exactly one copy, so
\* that deleting one of two colliding keys leaves the other one found.
CopiesCoverPresent ==
    ~lost =>
        \A k \in Keys : Copies(Fp(k), Pair(Fp(k), I1(k))) >= Demand(Fp(k), Pair(Fp(k), I1(k)))

\* NewFilter sizes a filter as the fewest buckets, a power of two and at
\* least one, whose slots hold the requested capacity: getNextPow2's
\* decrement, bit smearing and increment round up to the next power of two
\* for every capacity up to the word's top bit.  In particular the filter's
\* own table holds Capacity fingerprints.
NewFilterFits ==
    /\ Cardinality(DOMAIN buckets) * BucketSize >= Capacity
    /\ \A c \in 1 .. 2^(UintBits - 1) :
           LET nb == NewFilterBuckets(c) IN
           /\ nb = 2^TrailingZeros(nb)
           /\ nb * BucketSize >= c
           /\ nb = 1 \/ (nb \div 2) * BucketSize < c

\* Round-trip serialization (spec section 8): Decode(Encode(filter)) has
\* the same buckets and the same count as the filter, so the incremental
\* count kept by insert/delete/reinsert agrees with the slots it describes.
RoundTripFaithful ==
    /\ DecodeBuckets(Encode(buckets)) = buckets
    /\ DecodeCount(Encode(buckets)) = count

\* No false negatives, unconditionally (spec section 7): Lookup answers
\* true for every key with a live successful insertion.
NoFalseNegatives == \A k \in Keys : present[k] > 0 => Lookup(k)
=============================================================================
