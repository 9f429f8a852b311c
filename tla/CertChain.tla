----------------------------- MODULE CertChain ------------------------------
(***************************************************************************)
(* The certificate chain: clients' transactions are endorsed by running    *)
(* the CertContract chaincode on the peer's world state, ordered into      *)
(* blocks by the orderer's createNextBlock                                 *)
(* (src/orderer/consensus/etcdraft/blockcreator.go), written to the        *)
(* orderer's ledger and, through deliver, to the peer's ledger by addBlock *)
(* (src/common/ledger/blkstorage/blockfile_mgr.go), and committed to the   *)
(* peer's world state.                                                     *)
(*                                                                         *)
(* ChangeCert is a redaction: besides changing the world state it rewrites *)
(* the block that created the cert, in place, on the orderer (when the     *)
(* block is created) and on the peer (when it is added), and stores r2, s2 *)
(* so that, per the design, the rewritten block still matches its header's *)
(* chameleon DataHash.                                                     *)
(*                                                                         *)
(* Each node keeps its own files (block file, /var/blockinfo_000000,       *)
(* /opt/gopath/blockfile<num>, /var/bugu<certId>); certinfo_000000 is      *)
(* written by the orderer; the peer's redaction reads the same path, which *)
(* nothing on the peer writes, so it sees the orderer's lines only when    *)
(* the two share that directory.  Both deployments are initial states.     *)
(* A node that panics stops until it is restarted.                        *)
(***************************************************************************)
EXTENDS Naturals, Sequences, FiniteSets, Functions, CertContract

CONSTANTS
    Orderer, Peer,   \* the two nodes
    Invocations,     \* argument lists clients submit
    MaxTx,           \* bound on endorsed transactions
    MaxBlocks,       \* bound on blocks after genesis
    MaxInflight,     \* blocks created ahead of the orderer's ledger
    KeyLen,          \* bytes of each argument value once serialized
    PrefixLen        \* bytes of the length prefix of a stored block

Nodes == {Orderer, Peer}

OC == INSTANCE BlockCreator
LM == INSTANCE BlockfileMgr

VARIABLES
    pending,    \* endorsed envelopes not yet ordered
    submitted,  \* number of endorsed envelopes
    bcNumber,   \* blockCreator.number
    bcHash,     \* blockCreator.hash
    created,    \* created[k]: the block createNextBlock returned for number k
    certinfo,   \* certinfo_000000: lines <<certId, blockNum>>
    store,      \* per node: the block file, a sequence of slots
    blockinfo,  \* per node: blockinfo_000000, lines <<blockNum, offset>>
    height,     \* per node: blockchain info Height
    rsfile,     \* per node and block number: /opt/gopath/blockfile<num>
    bugu,       \* per node: the cert ids with a /var/bugu<certId> file
    halted,     \* per node: the process panicked
    ws,         \* the peer's world state
    ver,        \* per key: number of the block that last wrote it
    shared      \* the peer reads the orderer's certinfo_000000

vars == <<pending, submitted, bcNumber, bcHash, created, certinfo, store,
          blockinfo, height, rsfile, bugu, halted, ws, ver, shared>>

Genesis == [hdr  |-> [num |-> 0, prev |-> <<>>, dh |-> ChameleonHash(<<Config>>, R0)],
            data |-> <<Config>>]

Slot(b) == [blk |-> b, framed |-> TRUE]

Init ==
    /\ pending = {}
    /\ submitted = 0
    /\ bcNumber = 0
    /\ bcHash = BlockHeaderHash(Genesis.hdr)
    /\ created = <<>>
    /\ certinfo = <<>>
    /\ store = [n \in Nodes |-> <<Slot(Genesis)>>]
    /\ blockinfo = [n \in Nodes |-> <<<<0, 0>>>>]
    /\ height = [n \in Nodes |-> 1]
    /\ rsfile = [n \in Nodes |-> [k \in 0 .. MaxBlocks |-> Missing]]
    /\ bugu = [n \in Nodes |-> {}]
    /\ halted = [n \in Nodes |-> FALSE]
    /\ ws = [id \in Ids |-> Absent]
    /\ ver = [id \in Ids |-> 0]
    /\ shared \in BOOLEAN

(***************************************************************************)
(* Endorsement: the chaincode runs on the peer's world state; a panic or   *)
(* error rejects the proposal and nothing is submitted.                    *)
(***************************************************************************)
Endorse(args) ==
    LET out == Invoke(ws, args) IN
    /\ ~halted[Peer]
    /\ submitted < MaxTx
    /\ out.status = "ok"
    /\ pending' = pending \cup {Tx(args, out.writes, [id \in out.reads |-> ver[id]])}
    /\ submitted' = submitted + 1
    /\ UNCHANGED <<bcNumber, bcHash, created, certinfo, store, blockinfo, height,
                   rsfile, bugu, halted, ws, ver, shared>>

(***************************************************************************)
(* createNextBlock                                                         *)
(***************************************************************************)
IsChange(args) == Len(args) # 0 /\ Arg(args, 0) = "ChangeCert"

\* Mutant: the line records the previous block number.
\* A redaction replaces the old args[11] by the new key in `fields` places
\* of the serialized block; the block outgrows its slot when it gains more
\* bytes than the length prefix it is written over.
Overruns(oldKey, newKey, fields) ==
    fields * (KeyLen[newKey] - KeyLen[oldKey]) > PrefixLen

IndexCertPrevNumber(lines, args, num) ==
    IF Len(args) # 0 /\ Arg(args, 0) = "CreatCert"
    THEN Append(lines, <<Arg(args, 1), num - 1>>) ELSE lines

\* The certinfo line for a block whose Data[0] is a CreatCert.
IndexCert(lines, args, num) ==
    IF Len(args) # 0 /\ Arg(args, 0) = "CreatCert"
    THEN Append(lines, <<Arg(args, 1), num>>) ELSE lines

\* The orderer's redaction succeeds: both lookups and getBlock return and
\* the old block's args have an index 11.
OrdererRedactOk(lines, args) ==
    LET off == OC!GetBlockOffsetFromFile(blockinfo[Orderer], OC!GetBlockNumberFromFile(lines, Arg(args, 1)))
    IN  /\ off # OC!IndexPanic
        /\ OC!GetBlockOk(store[Orderer], off)
        /\ Len(OC!GetArgsFromBlock(OC!GetBlock(store[Orderer], off))) > 11

CreateNextBlock(env) ==
    LET num   == bcNumber + 1
        data  == <<env>>
        block == [hdr  |-> [num |-> num, prev |-> bcHash,
                            dh  |-> BlockDataHash(data, rsfile[Orderer][num])],
                  data |-> data]
        args  == OC!ValidateAnalysis(block)
        lines == IndexCert(certinfo, args, num)
        rs1   == [rsfile EXCEPT ![Orderer][num] = BlockDataHashFile(@)]
        off   == OC!GetBlockOffsetFromFile(blockinfo[Orderer], OC!GetBlockNumberFromFile(lines, Arg(args, 1)))
        old   == OC!GetBlock(store[Orderer], off)
        new   == OC!PutArgsInBlock([OC!GetArgsFromBlock(old) EXCEPT ![12] = Arg(args, 2)], old)
    IN
    /\ ~halted[Orderer]
    /\ env \in pending
    /\ bcNumber < MaxBlocks
    /\ bcNumber - (height[Orderer] - 1) < MaxInflight
    /\ pending' = pending \ {env}
    /\ bcNumber' = num
    /\ bcHash' = BlockHeaderHash(block.hdr)
    /\ certinfo' = lines
    /\ \/ /\ ~IsChange(args)
          /\ created' = Append(created, block)
          /\ rsfile' = rs1
          /\ UNCHANGED <<store, halted>>
       \/ /\ IsChange(args)
          /\ ~OrdererRedactOk(lines, args)
          /\ halted' = [halted EXCEPT ![Orderer] = TRUE]
          /\ rsfile' = rs1
          /\ UNCHANGED <<created, store>>
       \/ /\ IsChange(args)
          /\ OrdererRedactOk(lines, args)
          /\ store' = [store EXCEPT ![Orderer] = OC!WriteAt(@, off, new,
                            Overruns(Arg(OC!GetArgsFromBlock(old), 11), Arg(args, 2), 1))]
          \* r2, s2 of GetCollision(oldBlock.Data, newblock.Data), both the
          \* new data, written over r0, s0 without line breaks
          /\ rsfile' = [rs1 EXCEPT ![Orderer][old.hdr.num] =
                            Garbled(OC!GetCollision(new.data, new.data))]
          /\ created' = Append(created, block)
          /\ UNCHANGED halted
    /\ UNCHANGED <<submitted, blockinfo, height, bugu, ws, ver, shared>>

(***************************************************************************)
(* addBlock on node n                                                      *)
(***************************************************************************)
\* Mutant: the check compares with the height plus one.
HeightMatchesNext(n, b) == b.hdr.num = height[n] + 1

\* The block number must be the current height.
HeightMatches(n, b) == b.hdr.num = height[n]

\* The peer's redaction of the block that created the cert a ChangeCert
\* names: the certinfo and blockinfo lookups, getBlock, args[11] set to
\* the new key, the first occurrence of the old args[11] in the write set
\* replaced, the block written back at its offset, and r2, s2 written to
\* blockfile<oldnum> one per line.
CertinfoAt(n) == IF n = Orderer \/ shared THEN certinfo ELSE <<>>
RedactTarget(n, args) ==
    LM!GetBlockOffsetFromFile(blockinfo[n], LM!GetBlockNumberFromFile(CertinfoAt(n), Arg(args, 1)))
RedactOk(n, args) ==
    LET off == RedactTarget(n, args) IN
    /\ LM!GetBlockOk(store[n], off)
    /\ Len(LM!GetArgsFromBlock(LM!GetBlock(store[n], off))) > 11
RedactedValues(n, args) ==
    LET old == LM!GetBlock(store[n], RedactTarget(n, args)) IN
    LM!ReplaceFirst(LM!GetRwsetFromBlock(old), Arg(LM!GetArgsFromBlock(old), 11), Arg(args, 2))
Redacted(n, args) ==
    LET old     == LM!GetBlock(store[n], RedactTarget(n, args))
        oldArgs == LM!GetArgsFromBlock(old)
    IN  LM!PutRwsetInBlock(RedactedValues(n, args),
                           LM!PutArgsInBlock([oldArgs EXCEPT ![12] = Arg(args, 2)], old))
\* The peer's block changes in args[11] and, when ReplaceFirst found the
\* old key, in the write set too.
RedactOverruns(n, args) ==
    LET old == LM!GetBlock(store[n], RedactTarget(n, args)) IN
    Overruns(Arg(LM!GetArgsFromBlock(old), 11), Arg(args, 2),
             IF RedactedValues(n, args) = LM!GetRwsetFromBlock(old) THEN 1 ELSE 2)
RedactFile(n, args) ==
    LET off == RedactTarget(n, args) IN
    IF off # LM!NotFound
    THEN LM!WriteAt(store[n], off, Redacted(n, args), RedactOverruns(n, args))
    ELSE store[n]
RedactRS(n, args) ==
    LET new == Redacted(n, args) IN
    [rsfile EXCEPT ![n][LM!GetBlock(store[n], RedactTarget(n, args)).hdr.num] =
                       LM!GetCollision(new.data, new.data)]

\* The peer's commit of Data[0] to its world state, after addBlock, when
\* the keys it read still have the versions it read (MVCC).
Commit(b) ==
    LET tx == b.data[1] IN
    IF tx.kind = "tx" /\ \A id \in DOMAIN tx.rver : ver[id] = tx.rver[id]
    THEN /\ ws' = [id \in Ids |-> IF id \in DOMAIN tx.writes THEN tx.writes[id] ELSE ws[id]]
         /\ ver' = [id \in Ids |-> IF id \in DOMAIN tx.writes THEN b.hdr.num ELSE ver[id]]
    ELSE UNCHANGED <<ws, ver>>

\* The rest of addBlock once Data[0] is final: PreviousHash check, append,
\* blockinfo line, lock files, index and blockchain info.  A panic in the
\* lock-file step comes after the append and the blockinfo line and
\* before the height is updated.
AppendBlock(n, b, file, rs, committed) ==
    LET lock == LM!LockStep(bugu[n], LM!ValidateAnalysis(b)) IN
    /\ b.hdr.prev = BlockHeaderHash(store[n][height[n]].blk.hdr)
    /\ store' = [store EXCEPT ![n] = Append(file, Slot(b))]
    /\ blockinfo' = [blockinfo EXCEPT ![n] = Append(@, <<b.hdr.num, Len(file)>>)]
    /\ rsfile' = rs
    /\ IF lock.panic
       THEN /\ halted' = [halted EXCEPT ![n] = TRUE]
            /\ UNCHANGED <<height, bugu, ws, ver>>
       ELSE /\ height' = [height EXCEPT ![n] = @ + 1]
            /\ bugu' = [bugu EXCEPT ![n] = lock.bugu]
            /\ IF n = Peer THEN Commit(committed) ELSE UNCHANGED <<ws, ver>>
            /\ UNCHANGED halted

\* addBlock.  Only the peer's ledger directory exists on the peer, so only
\* the peer redacts; for any ChangeCert it then empties Data[0].  getBlock
\* or args[11] would panic only on a target the orderer's redaction of the
\* same ChangeCert already failed on, so RedactOk is a guard here.
AddBlock(n, b) ==
    LET args   == LM!ValidateAnalysis(b)
        redact == n = Peer /\ IsChange(args)
        found  == redact /\ LM!GetBlockNumberFromFile(CertinfoAt(n), Arg(args, 1)) # LM!NotFound
    IN
    /\ ~halted[n]
    /\ HeightMatches(n, b)
    /\ \/ /\ ~redact
          /\ AppendBlock(n, b, store[n], rsfile, b)
       \/ /\ redact
          /\ ~found
          /\ AppendBlock(n, [b EXCEPT !.data[1] = Erased], store[n], rsfile, b)
       \/ /\ found
          /\ RedactOk(n, args)
          /\ AppendBlock(n, [b EXCEPT !.data[1] = Erased], RedactFile(n, args),
                         RedactRS(n, args), b)
    /\ UNCHANGED <<pending, submitted, bcNumber, bcHash, created, certinfo, shared>>

(***************************************************************************)
(* Restart of a node that panicked: newBlockfileMgr.  addBlock saved       *)
(* blockfilesInfo (lastPersistedBlock = the block's number) right after    *)
(* the append and before the lock-file step, so a block whose addBlock    *)
(* panicked there is the last persisted block; syncBlockfilesInfoFromFS   *)
(* finds the file size it recorded and changes nothing.                    *)
(***************************************************************************)
\* blockfilesInfo.lastPersistedBlock: the number of the last slot.
LastPersistedBlock(n) == Len(store[n]) - 1

\* syncIndex: in sync when the last indexed block (height - 1) is the last
\* persisted one; otherwise the block stream starts at the last indexed
\* block's offset and reads it first, which fails on a slot that lost its
\* length prefix.
SyncIndexOk(n) ==
    \/ LastPersistedBlock(n) + 1 = height[n]
    \/ store[n][height[n]].framed

\* retrieveBlockHeaderByNumber(lastPersistedBlock): fetchBlockBytes at the
\* indexed offset, then the header is parsed; an unframed slot fails and
\* newBlockfileMgr panics again.
HeaderReadable(n) == store[n][Len(store[n])].framed

Restart(n) ==
    /\ halted[n]
    /\ SyncIndexOk(n)
    /\ HeaderReadable(n)
    /\ halted' = [halted EXCEPT ![n] = FALSE]
    /\ height' = [height EXCEPT ![n] = LastPersistedBlock(n) + 1]
    /\ IF n = Peer /\ Len(store[n]) > height[n]
       THEN Commit(store[n][Len(store[n])].blk)
       ELSE UNCHANGED <<ws, ver>>
    /\ IF n = Orderer
       THEN /\ bcNumber' = Len(created)
            /\ bcHash' = BlockHeaderHash(IF created = <<>> THEN Genesis.hdr
                                          ELSE created[Len(created)].hdr)
       ELSE UNCHANGED <<bcNumber, bcHash>>
    /\ UNCHANGED <<pending, submitted, created, certinfo, store, blockinfo,
                   rsfile, bugu, shared>>

\* The orderer writes the blocks it created, in order.
OrdererWrite ==
    /\ Len(created) >= height[Orderer]
    /\ AddBlock(Orderer, created[height[Orderer]])

\* The peer pulls the next block from the orderer's ledger; the read
\* fails while that block's slot has lost its length prefix.
PeerDeliver ==
    /\ height[Orderer] > height[Peer]
    /\ store[Orderer][height[Peer] + 1].framed
    /\ AddBlock(Peer, store[Orderer][height[Peer] + 1].blk)

Next ==
    \/ \E args \in Invocations : Endorse(args)
    \/ \E env \in pending : CreateNextBlock(env)
    \/ OrdererWrite
    \/ PeerDeliver
    \/ \E n \in Nodes : Restart(n)

\* The orderer's ledger writer is the etcdraft apply loop, which writes
\* every block it is handed; deliver to the peer is client driven and is
\* not assumed to happen.
Spec == Init /\ [][Next]_vars /\ WF_vars(OrdererWrite)

(***************************************************************************)
(* Properties                                                              *)
(***************************************************************************)
\* The Data[0] args of the block in slot p of node n, as addBlock parses them.
StoredArgs(n, p) == LM!ValidateAnalysis(store[n][p].blk)

\* Every variable holds values of its kind; in particular the lock files a
\* node's addBlock creates and removes are named by cert ids.
TypeOK ==
    /\ submitted \in 0 .. MaxTx
    /\ bcNumber \in 0 .. MaxBlocks
    /\ Len(created) <= bcNumber
    /\ height \in [Nodes -> 1 .. MaxBlocks + 1]
    /\ halted \in [Nodes -> BOOLEAN]
    /\ bugu \in [Nodes -> SUBSET CertIds]
    /\ shared \in BOOLEAN
    /\ \A n \in Nodes : Len(store[n]) \in height[n] .. height[n] + 1
    /\ ws \in [Ids -> Records \cup {Absent}]
    /\ ver \in [Ids -> 0 .. MaxBlocks]

\* The redaction lookup (certinfo_000000, then a node's blockinfo_000000,
\* then getBlock at the offset) of a cert leads, on every node, to a slot
\* holding the block createNextBlock built for that cert's CreatCert: the
\* certinfo line the orderer writes before the block exists and the
\* blockinfo line addBlock writes after the append agree on which block
\* that is.
RedactionLookupResolves ==
    \A n \in Nodes, id \in CertIds :
        LET k == OC!GetBlockNumberFromFile(certinfo, id) IN
        k # OC!NotFound =>
            /\ k \in 1 .. Len(created)
            /\ Arg(OC!ValidateAnalysis(created[k]), 0) = "CreatCert"
            /\ LET off == OC!GetBlockOffsetFromFile(blockinfo[n], k) IN
               off # OC!NotFound =>
                   /\ off + 1 \in 1 .. Len(store[n])
                   /\ store[n][off + 1].blk.hdr = created[k].hdr
                   /\ Arg(StoredArgs(n, off + 1), 0) = "CreatCert"
                   /\ Arg(StoredArgs(n, off + 1), 1) = id

\* Slot p of node n holds a lock transaction of kind k on cert c.
LockTxAt(n, p, k, c) ==
    /\ Len(StoredArgs(n, p)) > 5
    /\ Arg(StoredArgs(n, p), 0) = k
    /\ Arg(StoredArgs(n, p), 2) = c

\* An ExeTimeHashlock in slot p whose endtime is after its nowtime.
Refused(n, p) == Arg(StoredArgs(n, p), 5) > Arg(StoredArgs(n, p), 4)

\* Per the blocks in slots 2 .. p - 1 of node n, cert c is locked: a
\* CreatTimeHashlock for c with no later ExeTimeHashlock for c that the
\* time check lets through.
LockHeldBefore(n, c, p) ==
    \E p1 \in 2 .. p - 1 :
        /\ LockTxAt(n, p1, "CreatTimeHashlock", c)
        /\ \A q \in p1 + 1 .. p - 1 :
              ~ (LockTxAt(n, q, "ExeTimeHashlock", c) /\ ~Refused(n, q))

\* A node has a /var/bugu<certId> lock file exactly for the certs its
\* ledger leaves locked: addBlock's CreatTimeHashlock creates the file, an
\* ExeTimeHashlock that passes the time check removes it, and a later
\* CreatTimeHashlock restores it; restarts included.
LocksMatchLedger ==
    \A n \in Nodes :
        bugu[n] = {c \in CertIds : LockHeldBefore(n, c, height[n] + 1)}

\* addBlock panics on an ExeTimeHashlock whose endtime is after its
\* nowtime while the cert is locked, so that the early unlock is refused:
\* no such block is ever part of a node's ledger.
RefusedUnlockNotInLedger ==
    \A n \in Nodes : \A p \in 2 .. height[n] : \A c \in CertIds :
        (LockTxAt(n, p, "ExeTimeHashlock", c) /\ Refused(n, p))
            => ~LockHeldBefore(n, c, p)

\* Every block createNextBlock returns is eventually in the orderer's
\* ledger, unless the orderer has panicked.
OrdererLedgerCatchesUp ==
    \A k \in 1 .. MaxBlocks :
        (Len(created) >= k) ~> (height[Orderer] > k \/ halted[Orderer])

\* Refinement: the headers of the created blocks, after genesis, and of the
\* slots below each node's height evolve as BlockLedger's one chain and its
\* per-node prefixes.  Redaction rewrites block data in place, a panic
\* leaves a block appended above the height, a restart takes the height to
\* the last persisted block and rebuilds the orderer's blockCreator; none
\* of it may fork, skip, reorder or change a header.
Ledger == INSTANCE BlockLedger WITH
              Genesis    <- Genesis.hdr,
              HeaderHash <- BlockHeaderHash,
              ordered    <- <<Genesis.hdr>> \o [k \in 1 .. Len(created) |-> created[k].hdr],
              chain      <- [n \in Nodes |-> [p \in 1 .. height[n] |-> store[n][p].blk.hdr]]

StoredBlocksVerify ==
    \A n \in Nodes : \A p \in 2 .. height[n] :
        /\ store[n][p].framed
        /\ BlockDataHash(store[n][p].blk.data, rsfile[n][p - 1]) = store[n][p].blk.hdr.dh
=============================================================================
