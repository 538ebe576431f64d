------------------------------ MODULE RedisScan ------------------------------
(***************************************************************************)
(* What SCAN answers, as internal/policy uses it.  Redis promises that an  *)
(* iteration returns every key that is present from its first call to its  *)
(* last; a key may come twice, and one written or removed in between may   *)
(* come or not.  A reply may be empty before the iteration is over.        *)
(***************************************************************************)
EXTENDS Naturals, Sequences

CONSTANTS
    Key,        \* the keys of the database
    MaxBatch    \* bound: the keys of one reply

ASSUME BatchAssumption == MaxBatch \in Nat \ {0}

Batch == UNION {[1..n -> Key] : n \in 0..MaxBatch}

Returned(keys) == {keys[i] : i \in DOMAIN keys}

\* The keys the iteration still owes when SCAN is called with this cursor.
Owed(cursor, owed, matching) == IF cursor = "0" THEN matching ELSE owed

\* A reply with these keys and the next cursor, among the keys that match now.
ScanReply(keys, next, due, matching) ==
    /\ keys \in Batch
    /\ Returned(keys) \subseteq matching
    /\ next = "0" => due \subseteq Returned(keys)
=============================================================================
