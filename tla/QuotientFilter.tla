---------------------------- MODULE QuotientFilter ----------------------------
(***************************************************************************)
(* The quotient filter of src/common/test/test/QF/QF2.go (type            *)
(* QuotientFilter).                                                        *)
(*                                                                         *)
(* 1 << QBits slots, each a remainder of RBits bits above the three bits  *)
(* is_occupied, is_continuation, is_shifted, packed r + 3 bits apiece into *)
(* qf.data, an array of words; a slot may span two words.  The words have  *)
(* WordBits bits (64 in the code).  Add and Contains work on the slot      *)
(* view `slots`, read with getSlot, and Add writes every slot it changes   *)
(* back with setSlot; slots is re-read from the written words.            *)
(* A key enters only through quotientAndRemainder(hash(key)), so the       *)
(* inputs are the (quotient, remainder) pairs themselves.                  *)
(*                                                                         *)
(* The filter is single-threaded: Add is one atomic step, and its run      *)
(* search and right shift are evaluated whole by recursive operators.      *)
(* Contains changes nothing and is an operator.  The ghost `inserted` is   *)
(* the set of pairs for which Add returned nil.                            *)
(***************************************************************************)
EXTENDS Naturals, FiniteSets, Bitwise

CONSTANTS
    QBits,    \* q: quotient bits
    RBits,    \* r: remainder bits
    WordBits  \* the width of an element of qf.data (64 in the code)

\* New panics when q + r exceeds the word width.
ASSUME QBits >= 1 /\ RBits >= 1 /\ QBits + RBits <= WordBits

Cap  == 2^QBits          \* qf.cap = 1 << q
Idx  == 0 .. Cap - 1
Rems == 0 .. 2^RBits - 1

(***************************************************************************)
(* Bit packing                                                             *)
(***************************************************************************)
\* (1 << e) - 1 in uint64: all ones once e reaches the word width.
maskLower(e) == (2^e - 1) % 2^WordBits
SSize == RBits + 3                                       \* qf.ssize

\* uint64Size: the number of bytes the slots need, used as the number of
\* words.
uint64Size(q, r) ==
    LET bits == 2^q * (r + 3)
    IN  bits \div 8 + (IF bits % 8 # 0 THEN 1 ELSE 0)

Words == 0 .. uint64Size(QBits, RBits) - 1
Word  == 0 .. 2^WordBits - 1

\* x << k and ^x on a word.
Shl(x, k) == (x * 2^k) % 2^WordBits
Compl(x)  == 2^WordBits - 1 - x

slotIndex(index) ==
    LET bitIndex == SSize * index
    IN  [slice    |-> bitIndex \div WordBits,
         offset   |-> bitIndex % WordBits,
         nextBits |-> (bitIndex % WordBits) + SSize - WordBits]

getSlot(D, index) ==
    LET si == slotIndex(index)
        lo == (D[si.slice] \div 2^si.offset) & maskLower(SSize)
    IN  IF si.nextBits > 0
        THEN lo | Shl(D[si.slice + 1] & maskLower(si.nextBits), SSize - si.nextBits)
        ELSE lo

\* Mutant: the bits spilling into the next word are taken from the wrong
\* end of the slot.
setSlotLowSpill(D, index, s) ==
    LET si == slotIndex(index)
        sm == s & maskLower(SSize)
        D1 == [D EXCEPT ![si.slice] = (@ & Compl(Shl(maskLower(SSize), si.offset)))
                                      | Shl(sm, si.offset)]
    IN  IF si.nextBits > 0
        THEN [D1 EXCEPT ![si.slice + 1] = (@ & Compl(maskLower(si.nextBits)))
                                          | (sm & maskLower(si.nextBits))]
        ELSE D1

setSlot(D, index, s) ==
    LET si == slotIndex(index)
        sm == s & maskLower(SSize)
        D1 == [D EXCEPT ![si.slice] = (@ & Compl(Shl(maskLower(SSize), si.offset)))
                                      | Shl(sm, si.offset)]
    IN  IF si.nextBits > 0
        THEN [D1 EXCEPT ![si.slice + 1] = (@ & Compl(maskLower(si.nextBits)))
                                          | (sm \div 2^(SSize - si.nextBits))]
        ELSE D1

\* The slot type: remainder << 3 and the three metadata bits.
Slot == [r : 0 .. (2^WordBits - 1) \div 8, occ : BOOLEAN, cont : BOOLEAN, shift : BOOLEAN]
SlotValue(sd) == sd.r * 8 + (IF sd.occ THEN 1 ELSE 0) + (IF sd.cont THEN 2 ELSE 0)
                          + (IF sd.shift THEN 4 ELSE 0)
SlotOf(v) == [r |-> v \div 8, occ |-> v % 2 = 1, cont |-> (v \div 2) % 2 = 1,
              shift |-> (v \div 4) % 2 = 1]

VARIABLES
    data,      \* qf.data
    slots,     \* Decode(data), kept so that properties decode the words once
    len,       \* qf.len
    inserted   \* ghost: pairs whose Add returned nil

vars == <<data, slots, len, inserted>>

\* The slots as getSlot reads them.
Decode(D) == [i \in Idx |-> SlotOf(getSlot(D, i))]

\* setSlot of every slot whose content changed from old to new, in index
\* order.
RECURSIVE WriteBack(_, _, _, _)
WriteBack(D, old, new, i) ==
    IF i = Cap THEN D
    ELSE WriteBack(IF old[i] = new[i] THEN D ELSE setSlot(D, i, SlotValue(new[i])),
                   old, new, i + 1)
\* setSlot of every changed slot, and the view re-read from the new words.
Store(new) == /\ data'  = WriteBack(data, slots, new, 0)
              /\ slots' = Decode(data')

\* slot is a uint64: remainder << 3 keeps only its low WordBits - 3 bits.
newSlot(rem) == SlotOf(Shl(rem, 3) & Compl(7))
isEmpty(s) == ~s.occ /\ ~s.cont /\ ~s.shift

\* next/previous wrap with & qMask.
next(i)     == (i + 1) % Cap
previous(i) == (i + Cap - 1) % Cap

TypeOK ==
    /\ data \in [Words -> Word]
    /\ slots \in [Idx -> Slot]
    /\ len \in 0 .. Cap
    /\ inserted \subseteq Idx \X Rems

Init ==
    /\ data = [w \in Words |-> 0]
    /\ slots = Decode(data)
    /\ len = 0
    /\ inserted = {}

(***************************************************************************)
(* findRun: scan left to the first unshifted slot, then advance a run      *)
(* pointer and an occupied-quotient pointer together until the latter      *)
(* reaches the quotient.                                                   *)
(***************************************************************************)
RECURSIVE ScanLeft(_, _)
ScanLeft(S, i) == IF S[i].shift THEN ScanLeft(S, previous(i)) ELSE i

\* for { run = next(run); if !continuation break }
RECURSIVE NextRunStart(_, _)
NextRunStart(S, run) ==
    IF S[next(run)].cont THEN NextRunStart(S, next(run)) ELSE next(run)

\* for { index = next(index); if occupied break }
RECURSIVE NextOccupied(_, _)
NextOccupied(S, i) ==
    IF S[next(i)].occ THEN next(i) ELSE NextOccupied(S, next(i))

RECURSIVE Walk(_, _, _, _)
Walk(S, q, index, run) ==
    IF index = q THEN run
    ELSE Walk(S, q, NextOccupied(S, index), NextRunStart(S, run))

findRun(S, q) == LET b == ScanLeft(S, q) IN Walk(S, q, b, b)

(***************************************************************************)
(* Contains: false when the home slot is not occupied; otherwise scan the  *)
(* run in ascending remainder order.                                       *)
(***************************************************************************)
RECURSIVE ScanRun(_, _, _)
ScanRun(S, index, rem) ==
    IF S[index].r = rem THEN TRUE
    ELSE IF S[index].r > rem THEN FALSE
    ELSE IF ~S[next(index)].cont THEN FALSE
    ELSE ScanRun(S, next(index), rem)

Contains(S, q, rem) == S[q].occ /\ ScanRun(S, findRun(S, q), rem)

(***************************************************************************)
(* Add                                                                     *)
(***************************************************************************)
\* Mutant: Add's scan does not stop at a greater remainder, so runs are
\* no longer sorted.
RECURSIVE AddScanUnsorted(_, _, _)
AddScanUnsorted(S, index, rem) ==
    IF S[index].r = rem THEN [dup |-> TRUE, at |-> index]
    ELSE IF ~S[next(index)].cont THEN [dup |-> FALSE, at |-> next(index)]
    ELSE AddScanUnsorted(S, next(index), rem)

\* The scan of an existing run: stop on an equal remainder (already
\* present), on a greater one, or on the slot after the run.
RECURSIVE AddScan(_, _, _)
AddScan(S, index, rem) ==
    IF S[index].r = rem THEN [dup |-> TRUE, at |-> index]
    ELSE IF S[index].r > rem THEN [dup |-> FALSE, at |-> index]
    ELSE IF ~S[next(index)].cont THEN [dup |-> FALSE, at |-> next(index)]
    ELSE AddScan(S, next(index), rem)

\* Mutant: insertSlot shifts the occupied bit along with the slot.
RECURSIVE insertSlotNoCarry(_, _, _)
insertSlotNoCarry(S, index, curr) ==
    LET prev == S[index]
        S2   == [S EXCEPT ![index] = curr]
    IN  IF isEmpty(prev) THEN S2
        ELSE insertSlotNoCarry(S2, next(index), [prev EXCEPT !.shift = TRUE])

\* Mutant: insertSlot's loop ends at the first unshifted slot, overwriting
\* the start of the next cluster instead of pushing it right.
RECURSIVE insertSlotStopAtCluster(_, _, _)
insertSlotStopAtCluster(S, index, curr) ==
    LET prev  == S[index]
        empty == isEmpty(prev)
        here  == IF ~empty /\ prev.occ THEN [curr EXCEPT !.occ = TRUE] ELSE curr
        moved == [prev EXCEPT !.shift = TRUE, !.occ = FALSE]
        S2    == [S EXCEPT ![index] = here]
    IN  IF empty \/ ~prev.shift THEN S2 ELSE insertSlotStopAtCluster(S2, next(index), moved)

\* insertSlot: write curr at index and push the old content one slot to
\* the right, marking it shifted; the occupied bit stays with the position.
RECURSIVE insertSlot(_, _, _)
insertSlot(S, index, curr) ==
    LET prev  == S[index]
        empty == isEmpty(prev)
        here  == IF ~empty /\ prev.occ THEN [curr EXCEPT !.occ = TRUE] ELSE curr
        moved == [prev EXCEPT !.shift = TRUE, !.occ = FALSE]
        S2    == [S EXCEPT ![index] = here]
    IN  IF empty THEN S2 ELSE insertSlot(S2, next(index), moved)

Add(q, rem) ==
    IF len >= Cap
    THEN UNCHANGED vars                                   \* ErrFull
    ELSE
    LET S0    == slots
        slot  == S0[q]
        new   == newSlot(rem)
        S1    == IF slot.occ THEN S0 ELSE [S0 EXCEPT ![q].occ = TRUE]
        start == findRun(S1, q)
        scan  == IF slot.occ THEN AddScan(S1, start, rem)
                 ELSE [dup |-> FALSE, at |-> start]
        index == scan.at
        S2    == IF slot.occ /\ index = start
                 THEN [S1 EXCEPT ![start].cont = TRUE] ELSE S1
        new2  == [new EXCEPT !.cont  = slot.occ /\ index # start,
                             !.shift = index # q]
    IN  /\ inserted' = inserted \cup {<<q, rem>>}
        /\ IF isEmpty(slot)
           THEN /\ Store([S0 EXCEPT ![q] = [new EXCEPT !.occ = TRUE]])
                /\ len' = len + 1
           ELSE IF scan.dup
           THEN UNCHANGED <<data, slots, len>>
           ELSE /\ Store(insertSlot(S2, index, new2))
                /\ len' = len + 1

Next == \E q \in Idx, rem \in Rems : Add(q, rem)

Spec == Init /\ [][Next]_vars

(***************************************************************************)
(* Properties                                                              *)
(***************************************************************************)
\* Over the hash space the filter is exact: Contains(q, r) holds exactly
\* for the pairs whose Add returned nil.  A wrong shift, a lost or
\* misplaced occupied/continuation bit, or a findRun that miscounts runs
\* across a wrapped cluster shows up as a missing or an extra pair.
ExactMembership ==
    LET S == slots
    IN  \A q \in Idx, rem \in Rems : Contains(S, q, rem) <=> <<q, rem>> \in inserted

\* The metadata invariant behind findRun: there are as many occupied bits
\* (quotients with a run) as there are run starts (non-empty slots whose
\* continuation bit is clear), so counting one against the other lands on
\* the right run.
OccupiedMatchesRuns ==
    LET S == slots
    IN  Cardinality({i \in Idx : S[i].occ})
            = Cardinality({i \in Idx : ~isEmpty(S[i]) /\ ~S[i].cont})

\* Add's ErrFull test reads only len, so len must count the slots in use:
\* then Add returns ErrFull exactly when no slot is empty, and an Add that
\* passes the test always finds the empty slot that ends insertSlot's
\* shift chain.  A shift chain that overwrites a slot instead of moving it,
\* or a len++ on a path that stores nothing, breaks the count.
LenCountsSlots == len = Cardinality({i \in Idx : ~isEmpty(slots[i])})
====
