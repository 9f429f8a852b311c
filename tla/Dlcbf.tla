-------------------------------- MODULE Dlcbf --------------------------------
(***************************************************************************)
(* The d-left counting Bloom filter of                                     *)
(* src/common/test/test/countbloomfilter.go (type Dlcbf).                  *)
(*                                                                         *)
(* NumTables tables of NumBuckets buckets; a bucket holds BucketHeight     *)
(* fingerprint entries and a count.  A key is reduced by getTargets to one *)
(* fingerprint and one bucket index per table.  The hash is deterministic  *)
(* but unknown, so the model chooses it once, in Init, from the set Hashes *)
(* an MC module supplies; the checks then hold for every hash of that set. *)
(*                                                                         *)
(* The filter is single-threaded (spec section 5): every public method is  *)
(* one atomic step.  IsMember and GetCount change nothing and are          *)
(* operators.  The ghost variable `present` is the set of keys whose Add   *)
(* returned true and that have not been passed to Delete since.           *)
(***************************************************************************)
EXTENDS Naturals, FiniteSets, Functions

CONSTANTS
    Keys,              \* the keys the caller uses (model values)
    NumTables,         \* Dlcbf.numTables
    NumBuckets,        \* Dlcbf.numBuckets
    BucketHeight,      \* the bucketHeight constant (8 in the code)
    Hashes,            \* the hash functions getTargets may implement
    DeleteOnlyPresent  \* TRUE: the caller deletes only keys it added

Tables  == 0 .. NumTables - 1
Buckets == 0 .. NumBuckets - 1
Slots   == 0 .. BucketHeight - 1

\* A fingerprint is a uint16; 0 is also the value of an unused entry.
Fingerprints == UNION { {h[k].fp : k \in Keys} : h \in Hashes }

\* NewDlcbf refuses numBuckets < numTables (countbloomfilter.go:45).
ASSUME NumTables >= 1 /\ NumBuckets >= NumTables /\ BucketHeight >= 1
ASSUME \A h \in Hashes : h \in [Keys -> [fp : Nat, idx : [Tables -> Buckets]]]
ASSUME DeleteOnlyPresent \in BOOLEAN

VARIABLES
    tables,   \* tables[t][b] = [entries |-> ..., count |-> ...]
    hash,     \* the fixed result of getTargets for every key
    present   \* ghost: keys added successfully and not deleted since

vars == <<tables, hash, present>>

EmptyBucket == [entries |-> [s \in Slots |-> 0], count |-> 0]

TypeOK ==
    /\ tables \in [Tables -> [Buckets ->
                     [entries : [Slots -> Fingerprints \cup {0}],
                      count : 0 .. BucketHeight]]]
    /\ hash \in Hashes
    /\ present \subseteq Keys

\* NewDlcbf: every table is a slice of zeroed buckets.
Init ==
    /\ tables = [t \in Tables |-> [b \in Buckets |-> EmptyBucket]]
    /\ hash \in Hashes
    /\ present = {}

(***************************************************************************)
(* getTargets: one bucket per table, one fingerprint shared by all.        *)
(***************************************************************************)
Fp(k) == hash[k].fp
TargetBucket(k, t) == tables[t][hash[k].idx[t]]

\* lookup: scans all BucketHeight entries of each candidate bucket, those
\* beyond count included, and stops at the first equal one.
Lookup(k) == \E t \in Tables : \E s \in Slots : TargetBucket(k, t).entries[s] = Fp(k)

IsMember(k) == Lookup(k)

\* GetCount: the sum of the count fields of every bucket.
GetCount == SumFunction([p \in Tables \X Buckets |-> tables[p[1]][p[2]].count])

(***************************************************************************)
(* Add: refuse when lookup matches; otherwise the first table, in index    *)
(* order, whose candidate bucket has the smallest count below              *)
(* BucketHeight; refuse when there is none.  The fingerprint is written at *)
(* entries[count] and count is incremented.                                *)
(***************************************************************************)
\* Mutant: the capacity test admits a bucket whose count is BucketHeight.
NotFullOffByOne(k) == {t \in Tables : TargetBucket(k, t).count <= BucketHeight}

NotFull(k) == {t \in Tables : TargetBucket(k, t).count < BucketHeight}

ChosenTable(k) ==
    CHOOSE t \in NotFull(k) :
        \A u \in NotFull(k) :
            \/ TargetBucket(k, t).count < TargetBucket(k, u).count
            \/ TargetBucket(k, t).count = TargetBucket(k, u).count /\ t <= u

\* Mutant: Add no longer refuses a key lookup already finds.
AddNoLookup(k) ==
    IF NotFull(k) = {}
    THEN UNCHANGED vars
    ELSE LET t == ChosenTable(k)
             b == hash[k].idx[t]
             c == tables[t][b].count
         IN  /\ tables' = [tables EXCEPT ![t][b] =
                              [entries |-> [@.entries EXCEPT ![c] = Fp(k)],
                               count   |-> c + 1]]
             /\ present' = present \cup {k}
             /\ UNCHANGED hash

Add(k) ==
    IF Lookup(k) \/ NotFull(k) = {}
    THEN UNCHANGED vars
    ELSE LET t == ChosenTable(k)
             b == hash[k].idx[t]
             c == tables[t][b].count
         IN  /\ tables' = [tables EXCEPT ![t][b] =
                              [entries |-> [@.entries EXCEPT ![c] = Fp(k)],
                               count   |-> c + 1]]
             /\ present' = present \cup {k}
             /\ UNCHANGED hash

(***************************************************************************)
(* Delete.  For each table the inner loop ranges over a copy of the        *)
(* bucket's entries taken when the loop starts (Go evaluates a range over  *)
(* an array once), so a position j is tested against the snapshot while    *)
(* the compaction works on the live bucket.  Every match with count > 0    *)
(* decrements count, copies the entries other than index j down by one     *)
(* (the last entry keeps its value) and zeroes entries[count].  No match   *)
(* stops the scan: all occurrences in all candidate buckets go.            *)
(***************************************************************************)
\* Mutant: the compaction drops the entry after j instead of entry j.
CompactSkipNext(bkt, j) ==
    LET e == bkt.entries
        n == bkt.count - 1
        shifted == [x \in Slots |-> IF x <= j THEN e[x]
                                    ELSE IF x < BucketHeight - 1 THEN e[x + 1]
                                    ELSE e[x]]
    IN  [entries |-> [shifted EXCEPT ![n] = 0], count |-> n]

\* Mutant: the compaction forgets to zero entries[count].
CompactNoZero(bkt, j) ==
    LET e == bkt.entries
        shifted == [x \in Slots |-> IF x < j THEN e[x]
                                    ELSE IF x < BucketHeight - 1 THEN e[x + 1]
                                    ELSE e[x]]
    IN  [entries |-> shifted, count |-> bkt.count - 1]

Compact(bkt, j) ==
    LET e == bkt.entries
        n == bkt.count - 1
        shifted == [x \in Slots |-> IF x < j THEN e[x]
                                    ELSE IF x < BucketHeight - 1 THEN e[x + 1]
                                    ELSE e[x]]
    IN  [entries |-> [shifted EXCEPT ![n] = 0], count |-> n]

RECURSIVE ScanBucket(_, _, _, _)
ScanBucket(bkt, snapshot, fp, j) ==
    IF j = BucketHeight THEN bkt
    ELSE IF snapshot[j] = fp /\ bkt.count # 0
         THEN ScanBucket(Compact(bkt, j), snapshot, fp, j + 1)
         ELSE ScanBucket(bkt, snapshot, fp, j + 1)

DeleteInBucket(bkt, fp) == ScanBucket(bkt, bkt.entries, fp, 0)

Delete(k) ==
    /\ DeleteOnlyPresent => k \in present
    /\ tables' = [t \in Tables |->
                    [tables[t] EXCEPT ![hash[k].idx[t]] = DeleteInBucket(@, Fp(k))]]
    /\ present' = present \ {k}
    /\ UNCHANGED hash

Next == \E k \in Keys : Add(k) \/ Delete(k)

Spec == Init /\ [][Next]_vars

(***************************************************************************)
(* Properties                                                              *)
(***************************************************************************)

\* No false negatives (spec sections 7 and 8): IsMember answers true for
\* every key whose Add returned true and which has not been deleted.  Add's
\* placement, Delete's multi-match compaction and its count guard all have
\* to agree for this to hold.
NoFalseNegatives == \A k \in present : IsMember(k)

\* Exact cardinality (spec 4.3, GetCount): the sum of the bucket counts is
\* the number of keys that are in the filter.  A Delete that compacts the
\* wrong entry, or decrements without removing, breaks it.
CountMatchesPresent == GetCount = Cardinality(present)

\* The compaction invariant of spec section 3: entries at or beyond a
\* bucket's count are zero, so lookup's full-height scan never reads a
\* stale fingerprint as present.
EntriesBeyondCountEmpty ==
    \A t \in Tables, b \in Buckets :
        \A s \in tables[t][b].count .. BucketHeight - 1 :
            tables[t][b].entries[s] = 0
=============================================================================
