----------------------------- MODULE BlockLedger -----------------------------
(***************************************************************************)
(* What the ordering service and the block store promise together,        *)
(* whatever redaction does to the data of a block: one chain of block      *)
(* headers, cut one at a time, each numbered after and linked by           *)
(* PreviousHash to the one before it; and, per node, a ledger that is      *)
(* always a prefix of that chain and grows by the next header only.  A    *)
(* header, once cut or added, never changes.                               *)
(***************************************************************************)
EXTENDS Naturals, Sequences

CONSTANTS
    Nodes,          \* the nodes that keep a ledger
    Genesis,        \* the header of block 0
    HeaderHash(_)   \* the hash PreviousHash refers to

VARIABLES
    ordered,   \* the headers the ordering service has cut, genesis first
    chain      \* per node: the headers of the blocks in its ledger

vars == <<ordered, chain>>

Last(s) == s[Len(s)]

Init ==
    /\ ordered = <<Genesis>>
    /\ chain = [n \in Nodes |-> <<Genesis>>]

\* The next block is cut: its header has the next number and links to the
\* header cut before it.
Cut ==
    /\ Len(ordered') = Len(ordered) + 1
    /\ SubSeq(ordered', 1, Len(ordered)) = ordered
    /\ Last(ordered').num = Len(ordered)
    /\ Last(ordered').prev = HeaderHash(Last(ordered))
    /\ UNCHANGED chain

\* Node n adds the next block of the chain to its ledger.
AddNext(n) ==
    /\ Len(chain[n]) < Len(ordered)
    /\ chain' = [chain EXCEPT ![n] = Append(@, ordered[Len(@) + 1])]
    /\ UNCHANGED ordered

Next == Cut \/ \E n \in Nodes : AddNext(n)

Spec == Init /\ [][Next]_vars
=============================================================================
