---------------------------- MODULE CertContract ----------------------------
(***************************************************************************)
(* The certificate and time-hash-lock chaincode of                         *)
(* src/common/smartcontract/timelock.go, as operators on a world state.    *)
(*                                                                         *)
(* A world state maps every key to a stored record or to Absent.  Certs    *)
(* and locks share one keyspace: both are put under their own `id`.  A     *)
(* record keeps the fields the ledger code reads (ca, entityIdentifier,    *)
(* publicKey of a Cert; certId, hash, nowtime, endtime, randomString,      *)
(* publicKey of a Hashtime_lock); the other fields are constant filler.    *)
(* json.Unmarshal of one kind into the other keeps the shared fields (id,  *)
(* publicKey, optionalString) and leaves the rest "".                      *)
(*                                                                         *)
(* A transaction is its argument list args, with args[0] the function      *)
(* name, as the ledger code sees it (Arg(args, i) is the code's args[i]).  *)
(* Invoke returns the chaincode's outcome: "ok" with the keys it read and  *)
(* the values it wrote, or "panic" where the code calls err.Error() on a   *)
(* nil error (GetState of a missing key returns nil, nil).                 *)
(***************************************************************************)
EXTENDS Naturals, Sequences, Functions, TLC, BlockUtils

CONSTANTS
    CertIds,   \* ids the clients give to certs
    LockIds,   \* ids the clients give to locks
    InitIds,   \* the ids InitLedger writes (000001 .. 000005 in the code)
    Vals,      \* values of ca, entityIdentifier and publicKey
    Times,     \* values of nowtime and endtime (decimal strings)
    Secrets,   \* values of hash and randomString
    Absent,    \* GetState returns nil
    Empty,     \* the string ""
    Filler     \* a field no ledger code reads

Ids == CertIds \cup LockIds \cup InitIds

ASSUME InitIds \subseteq CertIds /\ Empty \notin Vals /\ Filler \notin Vals

\* type Cert / type Hashtime_lock, reduced to the fields the ledger reads.
CertRec(ca, ent, pk) == [kind |-> "cert", ca |-> ca, ent |-> ent, pk |-> pk]
LockRec(c, h, now, end, rnd, pk) ==
    [kind |-> "lock", cert |-> c, hash |-> h, now |-> now, end |-> end, rnd |-> rnd, pk |-> pk]

Certs == {CertRec(ca, e, pk) : ca, e, pk \in Vals \cup {Empty, Filler}}
Locks == {LockRec(c, h, n, e, r, pk) : c \in Ids, h, r \in Secrets, n, e \in Times, pk \in Vals}
Records == Certs \cup Locks

\* json.Unmarshal(bytes, cert): a lock's JSON keeps only id and publicKey.
AsCert(rec) == IF rec.kind = "cert" THEN rec ELSE CertRec(Empty, Empty, rec.pk)

Ok(reads, writes) == [status |-> "ok", reads |-> reads, writes |-> writes]
Panic == [status |-> "panic", reads |-> {}, writes |-> <<>>]

\* InitLedger: PutState of each fixed cert.
InitLedger(ws) == Ok({}, [id \in InitIds |-> CertRec(Filler, Filler, Filler)])

\* CreatCert: a blind PutState(id, cert); args 1..14 are the Cert fields
\* in declaration order, so ca is args[2], entityIdentifier args[11] and
\* publicKey args[12].
CreatCert(ws, args) ==
    Ok({}, Arg(args, 1) :> CertRec(Arg(args, 2), Arg(args, 11), Arg(args, 12)))

\* QueryCert: read-only; a missing id panics on err.Error().
QueryCert(ws, id) == IF ws[id] = Absent THEN Panic ELSE AsCert(ws[id])

\* ChangeCert(id, publicKey, optionalString): GetState, Unmarshal into a
\* Cert, set PublicKey, PutState.
ChangeCert(ws, args) ==
    LET id == Arg(args, 1) IN
    IF ws[id] = Absent THEN Panic
    ELSE Ok({id}, id :> [AsCert(ws[id]) EXCEPT !.pk = Arg(args, 2)])

\* DelCert: GetState, then DelState.
DelCert(ws, args) ==
    LET id == Arg(args, 1) IN
    IF ws[id] = Absent THEN Panic ELSE Ok({id}, id :> Absent)

\* CreatTimeHashlock / ExeTimeHashlock: both a blind PutState of the lock
\* (id, certId, hash, nowtime, endtime, randomString, publicKey).
PutLock(args) ==
    Ok({}, Arg(args, 1) :> LockRec(Arg(args, 2), Arg(args, 3), Arg(args, 4),
                                   Arg(args, 5), Arg(args, 6), Arg(args, 7)))
CreatTimeHashlock(ws, args) == PutLock(args)
ExeTimeHashlock(ws, args) == PutLock(args)

\* QueryTimeHashlock: read-only, as QueryCert.
QueryTimeHashlock(ws, id) ==
    IF ws[id] = Absent THEN Panic
    ELSE IF ws[id].kind = "lock" THEN ws[id]
    ELSE LockRec(Empty, Empty, Empty, Empty, Empty, ws[id].pk)

\* The contract API dispatches on the function name args[0].
Invoke(ws, args) ==
    CASE Arg(args, 0) = "InitLedger"        -> InitLedger(ws)
      [] Arg(args, 0) = "CreatCert"         -> CreatCert(ws, args)
      [] Arg(args, 0) = "ChangeCert"        -> ChangeCert(ws, args)
      [] Arg(args, 0) = "DelCert"           -> DelCert(ws, args)
      [] Arg(args, 0) = "CreatTimeHashlock" -> CreatTimeHashlock(ws, args)
      [] Arg(args, 0) = "ExeTimeHashlock"   -> ExeTimeHashlock(ws, args)

\* Argument lists of the transactions, as the SDK sends them.
CreatCertArgs(id, ca, ent, pk) ==
    <<"CreatCert", id, ca, Filler, Filler, Filler, Filler, Filler, Filler,
      Filler, Filler, ent, pk, Filler, Filler>>
ChangeCertArgs(id, pk) == <<"ChangeCert", id, pk, Filler>>
DelCertArgs(id) == <<"DelCert", id>>
LockArgs(fn, id, c, h, now, end, rnd, pk) == <<fn, id, c, h, now, end, rnd, pk, Filler>>
=============================================================================
