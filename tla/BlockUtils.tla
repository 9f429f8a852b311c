----------------------------- MODULE BlockUtils -----------------------------
(***************************************************************************)
(* Blocks and the chameleon hash of src/protoutil/blockutils.go.           *)
(*                                                                         *)
(* Hash values are symbolic.  BlockHeaderHash (sha256 of the ASN.1         *)
(* header) is the header record itself: two headers hash alike only when   *)
(* they are equal.  chameleonHash(m, r, s) is the pair <<m, rs>> unless    *)
(* rs is a collision made by generateCollision for exactly m: the trapdoor *)
(* computes r2, s2 with CH(m2, r2, s2) = CH(m1, r1, s1), and for any other *)
(* message the pair hashes to a fresh value.  bytes.Join(Data) is the      *)
(* sequence of envelopes.                                                  *)
(*                                                                         *)
(* The r, s values a node keeps in /opt/gopath/blockfile<num> are RSFile   *)
(* contents: Missing, the fixed r0/s0 BlockDataHash writes, a pair written *)
(* line by line, or a file whose lines are no longer r and s.              *)
(***************************************************************************)
EXTENDS Naturals, Sequences

\* args[i] of a chaincode argument list, indexed from 0 as in the code
Arg(args, i) == args[i + 1]

\* r, s values
R0  == [kind |-> "r0"]           \* the constants ff6a03.. and 7c0ad2..
Nil == [kind |-> "nil"]          \* r1, s1 left unset: SetString("") fails
\* r2, s2 made by generateCollision so that m2 hashes to `target`
Coll(target, m2) == [kind |-> "coll", target |-> target, msg |-> m2]

\* contents of /opt/gopath/blockfile<num>
Missing == [kind |-> "missing"]
Garbled(rs) == [kind |-> "garbled", rs |-> rs]  \* r2 and s2 written without line breaks

\* chameleonHash(hk, p, q, g, message, r, s)
ChameleonHash(m, rs) ==
    IF rs.kind = "coll" /\ rs.msg = m THEN rs.target ELSE <<m, rs>>

\* Envelopes of Block.Data: the genesis config envelope, an endorsed
\* transaction [args, writes, rver], or the empty bytes "" a peer puts in
\* place of a ChangeCert.
Config == [kind |-> "config"]
Erased == [kind |-> "erased"]
Tx(args, writes, rver) == [kind |-> "tx", args |-> args, writes |-> writes, rver |-> rver]

\* NewBlock(seqNum, previousHash)
NewBlock(num, prev) == [hdr |-> [num |-> num, prev |-> prev, dh |-> <<>>], data |-> <<>>]

\* BlockHeaderHash: sha256 over Number, PreviousHash and DataHash.
BlockHeaderHash(hdr) == [sha256 |-> hdr]

\* The r, s BlockDataHash reads from a file it finds: message[0] and
\* message[1].  A file holding r2s2 on one line has no message[1], and
\* the read panics; Unreadable stands for that outcome.
Unreadable == [kind |-> "unreadable"]
ReadRS(file) == IF file.kind = "garbled" THEN Unreadable ELSE file

\* BlockDataHash(data, num) on a node whose blockfile<num> holds `file`:
\* a missing file is created with r0, s0 and those are used.
BlockDataHash(data, file) ==
    IF file = Missing THEN ChameleonHash(data, R0) ELSE ChameleonHash(data, ReadRS(file))

\* The file BlockDataHash leaves behind.
BlockDataHashFile(file) == IF file = Missing THEN R0 ELSE file
=============================================================================
