------------------------------ MODULE QFDoubling ------------------------------
(***************************************************************************)
(* The quotient filter with dynamic doubling of                            *)
(* src/common/test/test/QF/QF_go.go (package qf, type Filter).             *)
(*                                                                         *)
(* A hash value hv is a word of BitsPerWord bits (64 in the code): the top *)
(* qBits bits are the quotient dq, the other rBits = BitsPerWord - qBits   *)
(* bits the remainder dr.  The table has 2^qBits slots, each a remainder   *)
(* and the occupied/continuation/shifted bits (slotData).  InsertRawHash   *)
(* first doubles the table when entries has reached maxEntries = ceil(size *)
(* * 0.65): double() re-inserts every stored hash value, enumerated by     *)
(* eachHashValue, into a table with one more quotient bit.  Then it calls  *)
(* insertByHash.  Lookup is lookupByHash and changes nothing.              *)
(*                                                                         *)
(* The Vector storage and its bit packing are abstracted to a function     *)
(* from slot index to record, and the external value storage (the second   *)
(* Vector, set up when BitsOfStoragePerEntry > 0) to a function from slot  *)
(* index to value, with values that fit its width.  The inputs are the     *)
(* hash values themselves, from HashValues, and the values, from Values;   *)
(* the ghost `inserted` holds every hash value passed to InsertRawHash and *)
(* `latest` the value last passed with each.                               *)
(***************************************************************************)
EXTENDS Integers, Sequences, FiniteSets

CONSTANTS
    BitsPerWord,  \* bitsPerWord: the width of a hash value
    InitQBits,    \* the quotient bits NewWithConfig starts with
    HashValues,   \* the hash values the caller inserts
    Values        \* the values the caller stores with them

HV == 0 .. 2^BitsPerWord - 1

ASSUME InitQBits \in 1 .. BitsPerWord /\ HashValues \subseteq HV /\ 0 \in Values

Size(q)  == 2^q
RBits(q) == BitsPerWord - q
\* maxEntries = uint64(math.Ceil(float64(size) * MaxLoadingFactor)) with
\* MaxLoadingFactor 0.65; size * 0.65 is never an integer for size = 2^q.
MaxEntries(q) == (Size(q) * 65 + 99) \div 100

\* Mutant: rMask built with one bit too many.
RemainderWideMask(hv, q) == hv % 2^(RBits(q) + 1)

\* hash / InsertRawHash: dq = hv >> rBits, dr = hv & rMask
Quotient(hv, q)  == hv \div 2^RBits(q)
Remainder(hv, q) == hv % 2^RBits(q)

VARIABLES
    qBits,     \* qf.qBits
    slots,     \* qf.filter, decoded slot by slot
    entries,   \* qf.entries
    vals,      \* qf.storage: the value stored at each slot
    inserted,  \* ghost: every hash value passed to InsertRawHash
    latest     \* ghost: the value last inserted with each hash value

vars == <<qBits, slots, entries, vals, inserted, latest>>

Slot == [r : 0 .. 2^BitsPerWord - 1, occ : BOOLEAN, cont : BOOLEAN, shift : BOOLEAN]
ZeroSlot == [r |-> 0, occ |-> FALSE, cont |-> FALSE, shift |-> FALSE]

\* allocStorage: a zeroed vector of 2^q slots
EmptyTable(q) == [i \in 0 .. Size(q) - 1 |-> ZeroSlot]
EmptyValues(q) == [i \in 0 .. Size(q) - 1 |-> 0]

\* slotData.empty: no bookkeeping bit set
empty(sd) == ~sd.occ /\ ~sd.cont /\ ~sd.shift

right(i, size) == IF i + 1 >= size THEN 0 ELSE i + 1
left(i, size)  == IF i = 0 THEN size - 1 ELSE i - 1

TypeOK ==
    /\ qBits \in InitQBits .. BitsPerWord
    /\ slots \in [0 .. Size(qBits) - 1 -> Slot]
    /\ \A i \in DOMAIN slots : slots[i].r < 2^RBits(qBits)
    /\ entries \in Nat
    /\ vals \in [0 .. Size(qBits) - 1 -> Values]
    /\ inserted \subseteq HashValues
    /\ latest \in [HashValues -> Values]

\* NewWithConfig: initForQuotientBits, then allocStorage.
Init ==
    /\ qBits = InitQBits
    /\ slots = EmptyTable(InitQBits)
    /\ entries = 0
    /\ vals = EmptyValues(InitQBits)
    /\ inserted = {}
    /\ latest = [hv \in HashValues |-> 0]

(***************************************************************************)
(* findStart: scan left to an unshifted slot counting the runs to skip     *)
(* (runs starts at 1 and each shifted occupied slot adds one) and the run  *)
(* starts already passed (complete), then scan right until they match.     *)
(***************************************************************************)
RECURSIVE FindStartLeft(_, _, _, _, _)
FindStartLeft(S, size, i, runs, complete) ==
    LET sd == S[i]
        c  == IF ~sd.cont THEN complete + 1 ELSE complete
    IN  IF ~sd.shift THEN [runs |-> runs, complete |-> c]
        ELSE FindStartLeft(S, size, left(i, size),
                           IF sd.occ THEN runs + 1 ELSE runs, c)

RECURSIVE FindStartRight(_, _, _, _, _)
FindStartRight(S, size, dq, runs, complete) ==
    IF runs > complete
    THEN LET d == right(dq, size)
         IN  FindStartRight(S, size, d, runs,
                            IF ~S[d].cont THEN complete + 1 ELSE complete)
    ELSE dq

\* Mutant: the left scan does not count the quotient's own run.
findStartNoOwnRun(S, size, dq) ==
    LET c == FindStartLeft(S, size, dq, 0, 0)
    IN  FindStartRight(S, size, dq, c.runs, c.complete)

findStart(S, size, dq) ==
    LET c == FindStartLeft(S, size, dq, 1, 0)
    IN  FindStartRight(S, size, dq, c.runs, c.complete)

(***************************************************************************)
(* lookupByHash: whether dr is in dq's run, and the value stored at its    *)
(* slot (0 when it is absent).                                             *)
(***************************************************************************)
NoSlot == -1

RECURSIVE LookupScan(_, _, _, _)
LookupScan(S, size, slot, dr) ==
    IF S[slot].r = dr THEN slot
    ELSE IF S[slot].r > dr THEN NoSlot
    ELSE IF ~S[right(slot, size)].cont THEN NoSlot
    ELSE LookupScan(S, size, right(slot, size), dr)

lookupByHash(S, V, size, dq, dr) ==
    LET at == IF ~S[dq].occ THEN NoSlot
              ELSE LookupScan(S, size, IF S[dq].shift THEN findStart(S, size, dq) ELSE dq, dr)
    IN  IF at = NoSlot THEN [found |-> FALSE, value |-> 0]
        ELSE [found |-> TRUE, value |-> V[at]]

(***************************************************************************)
(* insertByHash(dq, dr, value): the result is the new table and values and *)
(* whether entries was incremented (the code returns false exactly then).  *)
(***************************************************************************)
\* The scan of an extended run: stop on an empty slot or a remainder >= dr,
\* or on the first slot after the run.  The slot reached and its data.
RECURSIVE InsertScan(_, _, _, _)
InsertScan(S, size, slot, dr) ==
    IF empty(S[slot]) \/ S[slot].r >= dr THEN [slot |-> slot, sd |-> S[slot]]
    ELSE LET n == right(slot, size)
         IN  IF ~S[n].cont THEN [slot |-> n, sd |-> S[n]]
             ELSE InsertScan(S, size, n, dr)

\* case 3: write dr at slot, carrying the occupied bit of the slot it
\* overwrites, swap the value into the slot's storage, and push the old
\* remainder and value right until an empty slot.
RECURSIVE ShiftIn(_, _, _, _, _, _, _, _, _, _)
ShiftIn(S, V, size, slot, dr, value, shifted, continuation, runStart, extendingRun) ==
    LET old == S[slot]
        S2  == [S EXCEPT ![slot] = [r |-> dr, occ |-> old.occ,
                                    cont |-> continuation, shift |-> shifted]]
        V2  == [V EXCEPT ![slot] = value]
    IN  IF empty(old) THEN [S |-> S2, V |-> V2]
        ELSE ShiftIn(S2, V2, size, right(slot, size), old.r, V[slot], TRUE,
                     (slot = runStart /\ extendingRun) \/ old.cont,
                     runStart, extendingRun)

insertByHash(S, V, size, dq, dr, value) ==
    LET sd           == S[dq]
        extendingRun == sd.occ
        S1           == IF extendingRun THEN S ELSE [S EXCEPT ![dq].occ = TRUE]
        runStart     == IF sd.shift THEN findStart(S1, size, dq) ELSE dq
        scan         == IF extendingRun THEN InsertScan(S1, size, runStart, dr)
                        ELSE [slot |-> runStart, sd |-> S1[dq]]
        shifted      == ShiftIn(S1, V, size, scan.slot, dr, value, scan.slot # dq,
                                scan.slot # runStart, runStart, extendingRun)
    IN  IF empty(sd)
        THEN [S |-> [S EXCEPT ![dq] = [ZeroSlot EXCEPT !.r = dr, !.occ = TRUE]],
              V |-> [V EXCEPT ![dq] = value], added |-> TRUE]
        ELSE IF dr = scan.sd.r                            \* case 2: "update"
        THEN [S |-> S1, V |-> [V EXCEPT ![scan.slot] = value], added |-> FALSE]
        ELSE [S |-> shifted.S, V |-> shifted.V, added |-> TRUE]

(***************************************************************************)
(* double: eachHashValue walks the table once from its first unshifted     *)
(* slot, keeping a queue of the quotients whose runs are still to come,    *)
(* and yields (queue head << rBits) | r with the slot it read for every    *)
(* slot of a run; each value is re-inserted, with storage.Get(slot), into  *)
(* a fresh table with qBits + 1.                                           *)
(***************************************************************************)
RECURSIVE FirstUnshifted(_, _, _)
FirstUnshifted(S, size, i) ==
    IF S[i].shift THEN FirstUnshifted(S, size, right(i, size)) ELSE i

\* Mutant: the callback is given the run's home slot instead of the slot read.
RECURSIVE EachFromHomeSlot(_, _, _, _, _, _, _)
EachFromHomeSlot(S, size, rb, i, end, stack, acc) ==
    LET sd  == S[i]
        st1 == IF ~sd.cont /\ stack # <<>> THEN Tail(stack) ELSE stack
        st2 == IF sd.occ THEN Append(st1, i) ELSE st1
        acc2 == IF st2 # <<>> THEN Append(acc, <<Head(st2) * 2^rb + sd.r, Head(st2)>>) ELSE acc
    IN  IF i = end THEN acc2
        ELSE EachFromHomeSlot(S, size, rb, right(i, size), end, st2, acc2)

RECURSIVE EachFrom(_, _, _, _, _, _, _)
EachFrom(S, size, rb, i, end, stack, acc) ==
    LET sd  == S[i]
        st1 == IF ~sd.cont /\ stack # <<>> THEN Tail(stack) ELSE stack
        st2 == IF sd.occ THEN Append(st1, i) ELSE st1
        acc2 == IF st2 # <<>> THEN Append(acc, <<Head(st2) * 2^rb + sd.r, i>>) ELSE acc
    IN  IF i = end THEN acc2
        ELSE EachFrom(S, size, rb, right(i, size), end, st2, acc2)

eachHashValue(S, q) ==
    LET start == FirstUnshifted(S, Size(q), 0)
    IN  EachFrom(S, Size(q), RBits(q), start, left(start, Size(q)), <<>>, <<>>)

\* Re-insert the <<hash value, old slot>> pairs, reading each value from
\* the old storage OV.
RECURSIVE ReinsertAll(_, _, _, _, _, _)
ReinsertAll(S, V, n, q, OV, hvs) ==
    IF hvs = <<>> THEN [S |-> S, V |-> V, entries |-> n]
    ELSE LET hv  == Head(hvs)[1]
             res == insertByHash(S, V, Size(q), Quotient(hv, q), Remainder(hv, q),
                                 OV[Head(hvs)[2]])
         IN  ReinsertAll(res.S, res.V, IF res.added THEN n + 1 ELSE n, q, OV, Tail(hvs))

\* Mutant: the copy keeps the old entries count.
doubleKeepEntries(S, V, q) ==
    ReinsertAll(EmptyTable(q + 1), EmptyValues(q + 1), entries, q + 1, V, eachHashValue(S, q))

\* cpy.entries = 0; cpy.initForQuotientBits(qBits + 1); allocStorage for
\* both vectors; re-insert all with their values.
double(S, V, q) ==
    ReinsertAll(EmptyTable(q + 1), EmptyValues(q + 1), 0, q + 1, V, eachHashValue(S, q))

(***************************************************************************)
(* InsertRawHash(hv, value): double when maxEntries <= entries, then      *)
(* insert.                                                                 *)
(***************************************************************************)
InsertRawHash(hv, value) ==
    LET grow == MaxEntries(qBits) <= entries
        q    == IF grow THEN qBits + 1 ELSE qBits
        base == IF grow THEN double(slots, vals, qBits)
                ELSE [S |-> slots, V |-> vals, entries |-> entries]
        res  == insertByHash(base.S, base.V, Size(q), Quotient(hv, q), Remainder(hv, q), value)
    IN  /\ qBits' = q
        /\ slots' = res.S
        /\ vals' = res.V
        /\ entries' = IF res.added THEN base.entries + 1 ELSE base.entries
        /\ inserted' = inserted \cup {hv}
        /\ latest' = [latest EXCEPT ![hv] = value]

Next == \E hv \in HashValues, v \in Values : InsertRawHash(hv, v)

Spec == Init /\ [][Next]_vars

Lookup(hv) == lookupByHash(slots, vals, Size(qBits), Quotient(hv, qBits), Remainder(hv, qBits))

(***************************************************************************)
(* Properties                                                              *)
(***************************************************************************)
\* Over the whole hash space Lookup is exact: it answers true for a hash
\* value exactly when InsertRawHash was called with it, through every
\* doubling.  Broken by a duplicate test that reads the wrong slot, by a
\* findStart that skips the wrong number of runs, or by eachHashValue
\* attributing a remainder to the wrong quotient.
ExactLookup == \A hv \in HV : Lookup(hv).found <=> hv \in inserted

\* Lookup returns, for every inserted hash value, the value passed with
\* its latest InsertRawHash: case 1 stores it, case 2 overwrites it in
\* place, case 3's Swap carries every displaced value along with its
\* remainder, and double() re-inserts each remainder with the value read
\* from the slot eachHashValue visited.
ValuesFollowRemainders == \A hv \in inserted : Lookup(hv).value = latest[hv]

\* entries, which decides when to double, counts the distinct stored hash
\* values: double() restarts it at 0 and re-insertion counts each value once.
EntriesMatchInserted == entries = Cardinality(inserted)
=============================================================================
