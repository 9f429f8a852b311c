---------------------------- MODULE BlockCreator ----------------------------
(***************************************************************************)
(* The helpers of src/orderer/consensus/etcdraft/blockcreator.go that      *)
(* createNextBlock calls, as operators on the values of the files they     *)
(* read.  The createNextBlock action itself is in CertChain.               *)
(*                                                                         *)
(* certinfo_000000 is a sequence of lines <<certId, blockNum>>;            *)
(* blockinfo_000000 a sequence of lines <<blockNum, offset>>; a block file *)
(* a sequence of slots [blk, framed], the slot at offset o being file[o+1] *)
(* (offsets count blocks, not bytes).  framed is FALSE once block bytes    *)
(* were written over the length prefix the slot starts with.               *)
(*                                                                         *)
(* The code reads decimal strings; "" is the empty string it returns when  *)
(* a line is not found, and strconv.Atoi("") is 0.                         *)
(***************************************************************************)
EXTENDS Integers, Sequences, SequencesExt, BlockUtils

NotFound == -1     \* the string "" (no number or offset is negative)
IndexPanic == -2   \* index out of range

\* ValidateAnalysis / GetArgsFromBlock: the chaincode args of Data[0]; a
\* config or empty envelope does not parse as a chaincode proposal.
ValidateAnalysis(block) ==
    IF block.data[1].kind = "tx" THEN block.data[1].args ELSE <<>>
GetArgsFromBlock(block) == ValidateAnalysis(block)

\* GetBlockNumberFromFile: the block number of the first line for certkey,
\* or "" at EOF.
GetBlockNumberFromFile(certinfo, certkey) ==
    LET i == SelectInSeq(certinfo, LAMBDA l : l[1] = certkey)
    IN  IF i = 0 THEN NotFound ELSE certinfo[i][2]

\* GetBlockOffsetFromFile: the offset of the first line for blocknum.  At
\* EOF the empty line splits to [""]; it matches blocknum "" and then
\* certinfo[1] is out of range.
GetBlockOffsetFromFile(blockinfo, blocknum) ==
    IF blocknum = NotFound THEN IndexPanic
    ELSE LET i == SelectInSeq(blockinfo, LAMBDA l : l[1] = blocknum)
         IN  IF i = 0 THEN NotFound ELSE blockinfo[i][2]

\* strconv.Atoi, error ignored
Atoi(s) == IF s = NotFound THEN 0 ELSE s

\* getBlock: ScanForLastCompleteBlock reads the one block whose length
\* prefix starts at the offset; DeserializeBlock of bytes read through a
\* missing prefix fails and getBlock panics.
GetBlockOk(file, offset) == Atoi(offset) < Len(file) /\ file[Atoi(offset) + 1].framed
GetBlock(file, offset) == file[Atoi(offset) + 1].blk

\* PutArgsInBlock: re-marshals Data[0] with the new args, in place: the
\* block it returns is the block it was given.
PutArgsInBlock(args, block) == [block EXCEPT !.data[1].args = args]

\* GetCollision(msg1, msg2): generateCollision with r1, s1 never set.
GenerateCollision(m1, rs1, m2) == Coll(ChameleonHash(m1, rs1), m2)
GetCollision(m1, m2) == GenerateCollision(m1, Nil, m2)

\* A header whose bytes were written over: no block number reads back.
Overwritten == [num |-> -1, prev |-> <<>>, dh |-> <<>>]

\* f.WriteAt(newblockBytes, offset) on the block file: the serialized
\* block, without its length prefix, from the slot's offset on.  When the
\* new bytes are longer than the slot (overrun), their tail runs over the
\* length prefix and header of the next slot.
WriteAt(file, offset, block, overrun) ==
    LET i == Atoi(offset) + 1 IN
    [j \in DOMAIN file |->
        IF j = i THEN [blk |-> block, framed |-> FALSE]
        ELSE IF j = i + 1 /\ overrun
        THEN [blk |-> [file[j].blk EXCEPT !.hdr = Overwritten], framed |-> FALSE]
        ELSE file[j]]
=============================================================================
