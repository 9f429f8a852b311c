CONSTANTS
    CertIds = {"c0", "c1"}
    LockIds = {"l1"}
    InitIds = {"c0"}
    Vals = {"v1", "v2"}
    Times = {1, 2}
    Secrets = {"h"}
    Absent = Absent
    Empty = ""
    Filler = "x"
    Orderer = Orderer
    Peer = Peer
    Invocations <- MCInvocations
    MaxTx = 4
    MaxBlocks = 4
    MaxInflight = 2
    KeyLen <- MCKeyLen
    PrefixLen = 2
SPECIFICATION Spec
INVARIANT
    StoredBlocksVerify
CHECK_DEADLOCK FALSE
