------------------------------ MODULE TTLAudit ------------------------------
(***************************************************************************)
(* auditTTL: after the scenarios, every key that matches a profile's       *)
(* pattern is asked for its time to live, at most max_keys_scanned keys in *)
(* all, while the app goes on writing keys.                                *)
(*                                                                         *)
(* Times are in milliseconds; Redis answers TTL in rounded seconds, and    *)
(* the code compares that with max_ttl in truncated seconds.               *)
(***************************************************************************)
EXTENDS RedisScan, Integers

CONSTANTS
    Patterns,       \* every profile's patterns: [keys, mustExpire, maxTTL]
    Times,          \* bound: the times to live of the keys
    MaxKeysScanned  \* cfg.MaxKeysScanned

Absent == -2
Eternal == -1

ASSUME TimesAssumption == Times \subseteq Nat
ASSUME PatternsAssumption ==
    Patterns \in Seq([keys : SUBSET Key, mustExpire : BOOLEAN, maxTTL : Nat])
ASSUME ScannedAssumption == MaxKeysScanned \in Nat \ {0}

VARIABLES
    ttl,        \* Redis: the time each key has left, Eternal or Absent
    touched,    \* history: keys the app wrote or removed during the audit
    pc,         \* "scan", "ttl", "done" or "error"
    p,          \* the pattern being audited
    cursor, owed, keys,     \* its SCAN, and the keys of the reply still to do
    scanned, noExpiration, tooLong,
    findings    \* the ttl-policy findings: [pattern, kind]

redis == <<ttl, touched>>
scan == <<cursor, owed, keys>>
tally == <<scanned, noExpiration, tooLong>>
vars == <<redis, pc, p, scan, tally, findings>>

Kind == {"no expiration", "exceed max_ttl"}

TypeOK ==
    /\ ttl \in [Key -> Times \cup {Absent, Eternal}]
    /\ touched \in SUBSET Key
    /\ pc \in {"scan", "ttl", "done", "error"}
    /\ p \in 1..Len(Patterns) + 1
    /\ cursor \in {"0", "more"}
    /\ owed \in SUBSET Key
    /\ keys \in Seq(Key)
    /\ scanned \in 0..MaxKeysScanned   \* whatever SCAN returns
    /\ noExpiration \in Nat
    /\ tooLong \in Nat
    /\ findings \in Seq([pattern : DOMAIN Patterns, kind : Kind])

Init ==
    /\ ttl \in [Key -> Times \cup {Absent, Eternal}]
    /\ touched = {}
    /\ pc = "scan" /\ p = 1
    /\ cursor = "0" /\ owed = {} /\ keys = <<>>
    /\ scanned = 0 /\ noExpiration = 0 /\ tooLong = 0
    /\ findings = <<>>

-----------------------------------------------------------------------------
\* The TTL command, rounded to the nearest second as Redis does.
TTLReply(t) == IF t < 0 THEN t ELSE (t + 500) \div 1000

\* Mutant: a maximum of zero is compared like any other.
TooLongUnset(reply, maxTTL) == reply > maxTTL \div 1000

TooLong(reply, maxTTL) == maxTTL > 0 /\ reply > maxTTL \div 1000

Matching == {k \in Patterns[p].keys : ttl[k] # Absent}

\* Mutant: the cap is off by one.
FullTooLate == scanned > MaxKeysScanned

\* The cap is shared by all patterns.
Full == scanned >= MaxKeysScanned

Scan ==
    /\ pc = "scan" /\ p <= Len(Patterns)
    /\ ~Full
    /\ LET due == Owed(cursor, owed, Matching)
       IN  \E reply \in Batch, next \in {"0", "more"} :
            /\ ScanReply(reply, next, due, Matching)
            /\ keys' = reply
            /\ cursor' = next
            /\ owed' = due \ Returned(reply)
    /\ pc' = "ttl"
    /\ UNCHANGED <<redis, p, tally, findings>>

AuditKey ==
    /\ pc = "ttl" /\ keys # <<>>
    /\ ~Full
    /\ LET reply == TTLReply(ttl[Head(keys)])
           eternal == Patterns[p].mustExpire /\ reply = Eternal
       IN  /\ noExpiration' = IF eternal THEN noExpiration + 1 ELSE noExpiration
           /\ tooLong' = IF ~eternal /\ TooLong(reply, Patterns[p].maxTTL)
                         THEN tooLong + 1 ELSE tooLong
    /\ scanned' = scanned + 1
    /\ keys' = Tail(keys)
    /\ UNCHANGED <<redis, pc, p, cursor, owed, findings>>

NextScan ==
    /\ pc = "ttl" /\ keys = <<>> /\ ~Full
    /\ cursor # "0"
    /\ pc' = "scan"
    /\ UNCHANGED <<redis, p, scan, tally, findings>>

\* Mutant: what one reply says of a pattern stands for the pattern.
PatternDoneAfterReply == Full \/ (pc = "ttl" /\ keys = <<>>)

\* The loop over the SCAN of a pattern ends, or is not entered at all because
\* earlier patterns have used up the cap.
PatternDone == Full \/ (pc = "ttl" /\ keys = <<>> /\ cursor = "0")

Found(n, kind) == IF n > 0 THEN <<[pattern |-> p, kind |-> kind]>> ELSE <<>>

FinishPattern ==
    /\ pc \in {"scan", "ttl"} /\ p <= Len(Patterns)
    /\ PatternDone
    /\ findings' = findings \o Found(noExpiration, "no expiration")
                            \o Found(tooLong, "exceed max_ttl")
    /\ noExpiration' = 0 /\ tooLong' = 0
    /\ cursor' = "0" /\ owed' = {} /\ keys' = <<>>
    /\ p' = p + 1
    /\ pc' = "scan"
    /\ UNCHANGED <<redis, scanned>>

Finish ==
    /\ pc = "scan" /\ p > Len(Patterns)
    /\ pc' = "done"
    /\ UNCHANGED <<redis, p, scan, tally, findings>>

\* SCAN or TTL fails: the findings so far are dropped.
Fails ==
    /\ \/ pc = "scan" /\ p <= Len(Patterns) /\ ~Full
       \/ pc = "ttl" /\ keys # <<>> /\ ~Full
    /\ pc' = "error"
    /\ findings' = <<>>
    /\ UNCHANGED <<redis, p, scan, tally>>

\* The app writes, removes or touches a key, or it expires.
Change(k, t) ==
    /\ pc \in {"scan", "ttl"}
    /\ ttl' = [ttl EXCEPT ![k] = t]
    /\ touched' = touched \cup {k}
    /\ owed' = IF t = Absent THEN owed \ {k} ELSE owed
    /\ UNCHANGED <<pc, p, cursor, keys, tally, findings>>

Next ==
    \/ Scan \/ AuditKey \/ NextScan \/ FinishPattern \/ Finish \/ Fails
    \/ \E k \in Key, t \in Times \cup {Absent, Eternal} : Change(k, t)

Spec == Init /\ [][Next]_vars

-----------------------------------------------------------------------------
\* A key the profile of this pattern objects to, by its real time to live.
Violates(k, pattern, kind) ==
    IF kind = "no expiration"
    THEN pattern.mustExpire /\ ttl[k] = Eternal
    ELSE pattern.maxTTL > 0 /\ ttl[k] > pattern.maxTTL

\* auditor.go:148: a finding says "keys matching ... exceed max_ttl".  If so,
\* some key of that pattern does, or the app changed one meanwhile.
FindingsTrue ==
    \A f \in DOMAIN findings :
        LET pattern == Patterns[findings[f].pattern]
        IN  \E k \in pattern.keys :
                k \in touched \/ Violates(k, pattern, findings[f].kind)

\* An audit that did not meet its cap has missed nothing: a key that was there
\* all along and has no expiration, or more than a second too much, shows up.
AuditComplete ==
    pc = "done" /\ ~Full =>
        \A i \in DOMAIN Patterns : \A k \in Patterns[i].keys \ touched :
            /\ Violates(k, Patterns[i], "no expiration") =>
                [pattern |-> i, kind |-> "no expiration"] \in Returned(findings)
            /\ Patterns[i].maxTTL > 0 /\ ttl[k] >= Patterns[i].maxTTL + 1000 =>
                [pattern |-> i, kind |-> "exceed max_ttl"] \in Returned(findings)
=============================================================================
