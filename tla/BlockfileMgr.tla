---------------------------- MODULE BlockfileMgr ----------------------------
(***************************************************************************)
(* The helpers of src/common/ledger/blkstorage/blockfile_mgr.go that       *)
(* addBlock calls, as operators on values.  The addBlock action itself is  *)
(* in CertChain.  Files are represented as in BlockCreator: certinfo and   *)
(* blockinfo as sequences of lines, a block file as a sequence of slots    *)
(* [blk, framed] with the slot at offset o at position o + 1.              *)
(***************************************************************************)
EXTENDS Integers, Sequences, SequencesExt, BlockUtils

NotFound == -1     \* the string "" (no number or offset is negative)
IndexPanic == -2   \* index out of range

\* ValidateAnalysis: the chaincode args of Data[0] when Data is not empty;
\* a config envelope or the empty bytes do not parse.
ValidateAnalysis(block) ==
    IF Len(block.data) # 0 /\ block.data[1].kind = "tx" THEN block.data[1].args ELSE <<>>

\* GetArgsFromBlock: the same parse without the length check.
GetArgsFromBlock(block) == IF block.data[1].kind = "tx" THEN block.data[1].args ELSE <<>>

\* GetRwsetFromBlock: Writes[0].Value of the chaincode's namespace, the
\* record PutState wrote under args[1].
GetRwsetFromBlock(block) == block.data[1].writes[Arg(block.data[1].args, 1)]

\* GetBlockNumberFromFile / GetBlockOffsetFromFile: as in blockcreator.go.
GetBlockNumberFromFile(certinfo, certkey) ==
    LET i == SelectInSeq(certinfo, LAMBDA l : l[1] = certkey)
    IN  IF i = 0 THEN NotFound ELSE certinfo[i][2]

GetBlockOffsetFromFile(blockinfo, blocknum) ==
    IF blocknum = NotFound THEN IndexPanic
    ELSE LET i == SelectInSeq(blockinfo, LAMBDA l : l[1] = blocknum)
         IN  IF i = 0 THEN NotFound ELSE blockinfo[i][2]

Atoi(s) == IF s = NotFound THEN 0 ELSE s

\* ScanForLastCompleteBlock(rootDir, 0, offset): the first block read from
\* the offset (the loop breaks after one); getBlock panics when
\* DeserializeBlock fails on bytes read through a missing length prefix.
ScanForLastCompleteBlock(file, offset) == file[Atoi(offset) + 1]
GetBlockOk(file, offset) ==
    Atoi(offset) < Len(file) /\ ScanForLastCompleteBlock(file, offset).framed
GetBlock(file, offset) == ScanForLastCompleteBlock(file, offset).blk

\* strings.Replace(oldvalues, old, new, 1) on the JSON of a Cert: the
\* first field, in declaration order, whose value is old.
ReplaceFirst(rec, old, new) ==
    IF rec.kind = "cert" /\ rec.ca = old THEN [rec EXCEPT !.ca = new]
    ELSE IF rec.kind = "cert" /\ rec.ent = old THEN [rec EXCEPT !.ent = new]
    ELSE IF rec.pk = old THEN [rec EXCEPT !.pk = new]
    ELSE rec

\* PutArgsInBlock / PutRwsetInBlock: re-marshal Data[0], in place.
PutArgsInBlock(args, block) == [block EXCEPT !.data[1].args = args]
PutRwsetInBlock(value, block) ==
    [block EXCEPT !.data[1].writes[Arg(block.data[1].args, 1)] = value]

\* GetCollision: generateCollision with r1, s1 never set.
GenerateCollision(m1, rs1, m2) == Coll(ChameleonHash(m1, rs1), m2)
GetCollision(m1, m2) == GenerateCollision(m1, Nil, m2)

\* A header whose bytes were written over: no block number reads back.
Overwritten == [num |-> -1, prev |-> <<>>, dh |-> <<>>]

\* currentFileWriter.writeat(newblockBytes, offset, true): the block
\* without its length prefix from the offset on; a block longer than the
\* slot (overrun) runs over the next slot's length prefix and header.
WriteAt(file, offset, block, overrun) ==
    LET i == Atoi(offset) + 1 IN
    [j \in DOMAIN file |->
        IF j = i THEN [blk |-> block, framed |-> FALSE]
        ELSE IF j = i + 1 /\ overrun
        THEN [blk |-> [file[j].blk EXCEPT !.hdr = Overwritten], framed |-> FALSE]
        ELSE file[j]]

\* Mutant: CreatTimeHashlock names the file after args[3], the hash.
LockStepHashArg(bugu, args) ==
    IF Len(args) = 0 THEN [bugu |-> bugu, panic |-> FALSE]
    ELSE IF Arg(args, 0) = "CreatTimeHashlock"
    THEN [bugu |-> bugu \cup {Arg(args, 3)}, panic |-> FALSE]
    ELSE IF Arg(args, 0) = "ExeTimeHashlock" /\ Arg(args, 2) \in bugu
    THEN IF Arg(args, 5) > Arg(args, 4)
         THEN [bugu |-> bugu, panic |-> TRUE]
         ELSE [bugu |-> bugu \ {Arg(args, 2)}, panic |-> FALSE]
    ELSE [bugu |-> bugu, panic |-> FALSE]

\* Mutant: ExeTimeHashlock removes the file of args[1], the lock id.
LockStepLockId(bugu, args) ==
    IF Len(args) = 0 THEN [bugu |-> bugu, panic |-> FALSE]
    ELSE IF Arg(args, 0) = "CreatTimeHashlock"
    THEN [bugu |-> bugu \cup {Arg(args, 2)}, panic |-> FALSE]
    ELSE IF Arg(args, 0) = "ExeTimeHashlock" /\ Arg(args, 2) \in bugu
    THEN IF Arg(args, 5) > Arg(args, 4)
         THEN [bugu |-> bugu, panic |-> TRUE]
         ELSE [bugu |-> bugu \ {Arg(args, 1)}, panic |-> FALSE]
    ELSE [bugu |-> bugu, panic |-> FALSE]

\* The lock files /var/bugu<certId> of one node after addBlock handles the
\* args of Data[0]: CreatTimeHashlock creates the file; ExeTimeHashlock,
\* when the file opens, panics if endtime > nowtime, and otherwise (the
\* hash check only logs) removes it.  CreatCert appends to /var/<ca>, a
\* file nothing reads; DelCert and ChangeCert only log.
LockStep(bugu, args) ==
    IF Len(args) = 0 THEN [bugu |-> bugu, panic |-> FALSE]
    ELSE IF Arg(args, 0) = "CreatTimeHashlock"
    THEN [bugu |-> bugu \cup {Arg(args, 2)}, panic |-> FALSE]
    ELSE IF Arg(args, 0) = "ExeTimeHashlock" /\ Arg(args, 2) \in bugu
    THEN IF Arg(args, 5) > Arg(args, 4)
         THEN [bugu |-> bugu, panic |-> TRUE]
         ELSE [bugu |-> bugu \ {Arg(args, 2)}, panic |-> FALSE]
    ELSE [bugu |-> bugu, panic |-> FALSE]

=============================================================================
