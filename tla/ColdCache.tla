------------------------------ MODULE ColdCache ------------------------------
(***************************************************************************)
(* The cold_cache scenario: DeleteColdCache scans Redis for the keys of    *)
(* the disposable profiles and deletes them one by one, never more than    *)
(* safety.max_keys_delete, while the app goes on writing and removing keys.*)
(*                                                                         *)
(* The configuration has passed Validate: key deletes are allowed, there   *)
(* is a disposable profile and its patterns have long enough prefixes, so  *)
(* the checks of these that DeleteColdCache repeats succeed.               *)
(***************************************************************************)
EXTENDS RedisScan

CONSTANTS
    Patterns,       \* the disposable profiles' patterns: the keys each matches
    MaxKeysDelete   \* cfg.Safety.MaxKeysDelete

ASSUME PatternsAssumption == Patterns \in Seq(SUBSET Key) /\ Patterns # <<>>
ASSUME LimitAssumption == MaxKeysDelete \in Nat \ {0}

VARIABLES
    target,     \* the flag and the upstream: remote database, remote allowed,
                \* and whether its Redis has UNLINK
    pc,         \* "guard", "scan", "delete", "fallback" or "done"
    p,          \* the pattern being deleted
    cursor, owed, keys,     \* its SCAN, and the keys of the reply still to do
    useDel,     \* UNLINK is unknown
    count,      \* deletePattern's deleted
    deleted,    \* DeleteColdCache's deleted
    result,     \* "none", "ok" or "error"
    store,      \* the keys in Redis
    written,    \* history: keys the app wrote since the start
    removals    \* history: keys this run removed

scan == <<p, cursor, owed, keys>>
tally == <<useDel, count, deleted>>
vars == <<target, pc, scan, tally, result, store, written, removals>>

TypeOK ==
    /\ target \in [remote : BOOLEAN, allowed : BOOLEAN, hasUnlink : BOOLEAN]
    /\ pc \in {"guard", "scan", "delete", "fallback", "done"}
    /\ p \in DOMAIN Patterns
    /\ cursor \in {"0", "more"}
    /\ owed \in SUBSET Key
    /\ keys \in Seq(Key)
    /\ useDel \in BOOLEAN
    /\ count \in 0..MaxKeysDelete
    /\ deleted \in 0..MaxKeysDelete
    /\ result \in {"none", "ok", "error"}
    /\ store \in SUBSET Key
    /\ written \in SUBSET Key
    /\ removals \in Nat

Init ==
    /\ target \in [remote : BOOLEAN, allowed : BOOLEAN, hasUnlink : BOOLEAN]
    /\ pc = "guard"
    /\ p = 1 /\ cursor = "0" /\ owed = {} /\ keys = <<>>
    /\ useDel = FALSE /\ count = 0 /\ deleted = 0
    /\ result = "none"
    /\ store \in SUBSET Key
    /\ written = {} /\ removals = 0

\* Mutant: each pattern gets the whole budget.
RemainingPerPattern == MaxKeysDelete - count

\* The budget the earlier patterns and this one have left.
Remaining == MaxKeysDelete - deleted - count

\* Return with this result.
Return(outcome) ==
    /\ pc' = "done"
    /\ result' = outcome

-----------------------------------------------------------------------------
Refuse ==
    /\ pc = "guard"
    /\ target.remote /\ ~target.allowed
    /\ Return("error")
    /\ UNCHANGED <<target, scan, tally, store, written, removals>>

Dial ==
    /\ pc = "guard"
    /\ ~target.remote \/ target.allowed
    /\ pc' = "scan"
    /\ UNCHANGED <<target, scan, tally, result, store, written, removals>>

Scan ==
    /\ pc = "scan"
    /\ Remaining > 0
    /\ LET matching == store \cap Patterns[p]
           due == Owed(cursor, owed, matching)
       IN  \E reply \in Batch, next \in {"0", "more"} :
            /\ ScanReply(reply, next, due, matching)
            /\ keys' = reply
            /\ cursor' = next
            /\ owed' = due \ Returned(reply)
    /\ pc' = "delete"
    /\ UNCHANGED <<target, p, tally, result, store, written, removals>>

\* The loop over the keys of a reply has one to delete.
AtKey == pc = "delete" /\ keys # <<>> /\ Remaining > 0

\* Redis executes UNLINK or DEL for the next key.
Removes(k) ==
    /\ store' = store \ {k}
    /\ removals' = IF k \in store THEN removals + 1 ELSE removals

\* ... and answers: the key counts, whether it was still there or not.
Deleted ==
    /\ Removes(Head(keys))
    /\ keys' = Tail(keys)
    /\ count' = count + 1
    /\ pc' = "delete"
    /\ UNCHANGED <<target, p, cursor, owed, deleted, result, written>>

Unlink ==
    /\ AtKey
    /\ ~useDel /\ target.hasUnlink
    /\ Deleted
    /\ UNCHANGED useDel

UnlinkUnknown ==
    /\ AtKey
    /\ ~useDel /\ ~target.hasUnlink
    /\ useDel' = TRUE
    /\ pc' = "fallback"
    /\ UNCHANGED <<target, scan, count, deleted, result, store, written, removals>>

Del ==
    /\ \/ pc = "fallback"
       \/ AtKey /\ useDel
    /\ Deleted
    /\ UNCHANGED useDel

\* Mutant: one reply is taken for the whole iteration.
PatternDoneAfterReply ==
    /\ pc = "delete" /\ (keys = <<>> \/ Remaining = 0)

\* The reply is worked off, and it was the last or the budget is spent.
PatternDone ==
    /\ pc = "delete" /\ (keys = <<>> \/ Remaining = 0)
    /\ cursor = "0" \/ Remaining = 0

NextScan ==
    /\ pc = "delete" /\ keys = <<>>
    /\ ~PatternDone
    /\ pc' = "scan"
    /\ UNCHANGED <<target, scan, tally, result, store, written, removals>>

NextPattern ==
    /\ PatternDone
    /\ deleted + count < MaxKeysDelete
    /\ p < Len(Patterns)
    /\ p' = p + 1
    /\ cursor' = "0" /\ owed' = {} /\ keys' = <<>>
    /\ deleted' = deleted + count
    /\ count' = 0 /\ useDel' = FALSE
    /\ pc' = "scan"
    /\ UNCHANGED <<target, result, store, written, removals>>

Finish ==
    /\ PatternDone
    /\ deleted + count >= MaxKeysDelete \/ p = Len(Patterns)
    /\ deleted' = deleted + count
    /\ count' = 0
    /\ Return("ok")
    /\ UNCHANGED <<target, scan, useDel, store, written, removals>>

\* The context ends or the connection breaks before the command is executed,
\* or after: then the key is gone and not counted.
Fails ==
    /\ \/ pc \in {"guard", "scan"} /\ UNCHANGED <<store, removals>>
       \/ pc = "fallback" /\ UNCHANGED <<store, removals>>
       \/ pc = "fallback" /\ Removes(Head(keys))
       \/ AtKey /\ UNCHANGED <<store, removals>>
       \/ AtKey /\ (useDel \/ target.hasUnlink) /\ Removes(Head(keys))
    /\ Return("error")
    /\ UNCHANGED <<target, scan, tally, written>>

\* The app, through the proxy.
Write(k) ==
    /\ pc # "done"
    /\ store' = store \cup {k}
    /\ written' = written \cup {k}
    /\ UNCHANGED <<target, pc, scan, tally, result, removals>>

Remove(k) ==
    /\ pc # "done"
    /\ store' = store \ {k}
    /\ owed' = owed \ {k}
    /\ UNCHANGED <<target, pc, p, cursor, keys, tally, result, written, removals>>

Next ==
    \/ Refuse \/ Dial \/ Scan \/ Unlink \/ UnlinkUnknown \/ Del \/ NextScan
    \/ NextPattern \/ Finish \/ Fails
    \/ \E k \in Key : Write(k) \/ Remove(k)

Spec == Init /\ [][Next]_vars

-----------------------------------------------------------------------------
\* However the patterns overlap, SCAN repeats itself or a call fails, no more
\* than max_keys_delete keys are removed from Redis.
DeleteBudget == removals <= MaxKeysDelete

\* When the deletion ends well and its budget is not spent, the cache is cold:
\* of the disposable keys only those the app wrote meanwhile are there.
ColdUnderBudget ==
    result = "ok" /\ deleted < MaxKeysDelete =>
        \A i \in DOMAIN Patterns : store \cap Patterns[i] \subseteq written

\* Nothing is removed from a remote Redis without --allow-remote-destructive.
RemoteUntouched == removals > 0 => ~target.remote \/ target.allowed
=============================================================================
