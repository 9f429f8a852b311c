---------------------------- MODULE MCCertChain -----------------------------
(***************************************************************************)
(* A model of CertChain for TLC: one cert id created by clients, one id    *)
(* InitLedger writes, one lock id, two key values, two times.              *)
(***************************************************************************)
EXTENDS CertChain

\* ca is v1, so a CreatCert whose entityIdentifier is also v1 puts the old
\* entityIdentifier in the ca field before it reaches entityIdentifier.
MCInvocations ==
    {CreatCertArgs("c1", "v1", e, "v2") : e \in {"v1", "v2"}}
    \cup {ChangeCertArgs(c, "v1") : c \in {"c0", "c1"}}
    \cup {DelCertArgs("c1"), <<"InitLedger">>}
    \cup {LockArgs("CreatTimeHashlock", "l1", "c1", "h", 1, 1, "h", "v1")}
    \cup {LockArgs("ExeTimeHashlock", "l1", "c1", "h", 1, e, "h", "v1") : e \in {1, 2}}

\* The keys are public keys of one algorithm, whose serialized forms have
\* one length; a stored block's length prefix (a varint of a block of a
\* few hundred bytes) takes 2 bytes.
MCKeyLen == [v \in Vals \cup {Empty, Filler} |-> 64]
=============================================================================
