------------------------------- MODULE MCDlcbf -------------------------------
(***************************************************************************)
(* Model-checking instances of Dlcbf.  Keys are the integers 1..N, so that *)
(* a hash family can give key k the fingerprint k.                         *)
(***************************************************************************)
EXTENDS Dlcbf

IndexChoices == [Tables -> Buckets]

\* Collision-free hashing (spec section 8, "a configuration with no
\* collision ambiguity"): key k has fingerprint k, and the buckets are
\* arbitrary.  Renaming distinct non-zero fingerprints changes nothing the
\* filter does, so fixing fp = k loses no behaviour of that class.
MCHashesDistinct ==
    { [k \in Keys |-> [fp |-> k, idx |-> ix[k]]] : ix \in [Keys -> IndexChoices] }

\* Distinct fingerprints, except that the fingerprint of key 1 is 0,
\* a value the uint16 read of countbloomfilter.go:91 can produce.
MCHashesZeroFp ==
    { [k \in Keys |-> [fp |-> IF k = 1 THEN 0 ELSE k, idx |-> ix[k]]] :
        ix \in [Keys -> IndexChoices] }
=============================================================================
