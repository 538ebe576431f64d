----------------------------- MODULE PolicyAudit -----------------------------
(***************************************************************************)
(* From the commands that pass the proxy to the findings of Audit: the     *)
(* handlers record what they read while the orchestrator runs its          *)
(* scenarios; Audit then judges a snapshot of the recorder and has         *)
(* TTLAudit look at the keys.                                              *)
(*                                                                         *)
(* Handlers go on after the snapshot; nothing reads what they record then. *)
(***************************************************************************)
EXTENDS TTLAudit, Recorder

CONSTANTS
    Conn,           \* the app's connections to the proxy
    Commands,       \* the commands it sends
    MaxSent,        \* bound: commands read before the audit
    Suspicious,     \* suspicious_commands, in upper case
    Disposable      \* some profile is disposable

ASSUME CommandsAssumption == Commands \subseteq CommandType
ASSUME SuspiciousAssumption == Suspicious \subseteq Name /\ Disposable \in BOOLEAN
\* config.Config has it `validate:"required,min=1"`; a recorder of 0 counts none.
ASSUME ValidatedAssumption == MaxValueBytes > 0

VARIABLES
    stage,          \* of the run: "traffic", "dial", "ttl", "returned" or "failed"
    phase,          \* names of Scenarios that have been set
    at, cmd,        \* each handler, and the command it is at work on, if any
    rec,            \* the recorder
    contract,       \* findings from the snapshot: [commands, values]
    report,         \* what Audit returned: {} or one set of findings
    sent, answered  \* history: commands read, and answered, before the audit

ttlVars == vars
traffic == <<at, cmd, rec, sent, answered>>
auditVars == <<ttlVars, stage, phase, traffic, contract, report>>

Reported == [commands : SUBSET Name, values : Nat,
            ttl : Seq([pattern : DOMAIN Patterns, kind : Kind]), pass : BOOLEAN]

AuditTypeOK ==
    /\ TypeOK
    /\ stage \in {"traffic", "dial", "ttl", "returned", "failed"}
    /\ phase \in 0..Len(Scenarios)
    /\ at \in [Conn -> {"read", "observe", "decide", "closed"}]
    /\ cmd \in [Conn -> {<<>>} \cup {<<m>> : m \in Commands}]
    /\ rec \in RecorderType /\ AddsUp(rec)
    /\ contract \in [commands : SUBSET Name, values : Nat]
    /\ report \in SUBSET Reported /\ (report = {} <=> stage # "returned")
    /\ answered \subseteq sent /\ sent \subseteq Commands

AuditInit ==
    /\ Init
    /\ stage = "traffic" /\ phase = 0
    /\ at = [c \in Conn |-> "read"]
    /\ cmd = [c \in Conn |-> <<>>]
    /\ rec = New
    /\ contract = [commands |-> {}, values |-> 0] /\ report = {}
    /\ sent = {} /\ answered = {}

-----------------------------------------------------------------------------
(* The traffic. *)

Handles(c, from, to) ==
    /\ stage = "traffic"
    /\ at[c] = from
    /\ at' = [at EXCEPT ![c] = to]
    /\ UNCHANGED <<ttlVars, stage, phase, contract, report>>

Read(c, m) ==
    /\ rec.rows + Cardinality({d \in Conn : at[d] = "observe"}) < MaxSent
    /\ Handles(c, "read", "observe")
    /\ cmd' = [cmd EXCEPT ![c] = <<m>>]
    /\ sent' = sent \cup {m}
    /\ UNCHANGED <<rec, answered>>

\* Mutant: only commands of a scenario are recorded.
ObserveInScenario(c) ==
    /\ Handles(c, "observe", "decide")
    /\ rec' = IF phase > 0 THEN Observed(rec, cmd[c][1]) ELSE rec
    /\ UNCHANGED <<cmd, sent, answered>>

\* Before the engine decides: what is refused or missed is recorded too.
Observe(c) ==
    /\ Handles(c, "observe", "decide")
    /\ rec' = Observed(rec, cmd[c][1])
    /\ UNCHANGED <<cmd, sent, answered>>

Answer(c) ==
    /\ Handles(c, "decide", "read")
    /\ cmd' = [cmd EXCEPT ![c] = <<>>]
    /\ answered' = answered \cup {cmd[c][1]}
    /\ UNCHANGED <<rec, sent>>

Drop(c) ==
    /\ Handles(c, "decide", "closed")
    /\ cmd' = [cmd EXCEPT ![c] = <<>>]
    /\ UNCHANGED <<rec, sent, answered>>

NextPhase ==
    /\ stage = "traffic" /\ phase < Len(Scenarios)
    /\ phase' = phase + 1
    /\ rec' = SetScenario(rec, Scenarios[phase'])
    /\ UNCHANGED <<ttlVars, stage, at, cmd, sent, answered, contract, report>>

-----------------------------------------------------------------------------
(* The audit. *)

Contract ==
    [commands |-> {n \in Suspicious : Disposable /\ rec.counts[n] > 0},
     values   |-> rec.bigValues]

Audit ==
    /\ stage = "traffic" /\ phase = Len(Scenarios)
    /\ stage' = "dial"
    /\ contract' = Contract
    /\ UNCHANGED <<ttlVars, phase, traffic, report>>

Dial ==
    /\ stage = "dial"
    /\ stage' = "ttl"
    /\ UNCHANGED <<ttlVars, phase, traffic, contract, report>>

AuditTTL ==
    /\ stage = "ttl"
    /\ Next
    /\ UNCHANGED <<stage, phase, traffic, contract, report>>

Return ==
    /\ stage = "ttl" /\ pc = "done"
    /\ stage' = "returned"
    /\ report' = {[commands |-> contract.commands, values |-> contract.values,
                   ttl |-> findings,
                   pass |-> contract.commands = {} /\ contract.values = 0 /\ findings = <<>>]}
    /\ UNCHANGED <<ttlVars, phase, traffic, contract>>

\* The context, the connection or auditTTL; what was found is dropped.
AuditFails ==
    /\ \/ stage = "traffic" /\ phase = Len(Scenarios)
       \/ stage = "dial"
       \/ stage = "ttl" /\ pc = "error"
    /\ stage' = "failed"
    /\ UNCHANGED <<ttlVars, phase, traffic, contract, report>>

AuditNext ==
    \/ \E c \in Conn : Observe(c) \/ Answer(c) \/ Drop(c) \/ \E m \in Commands : Read(c, m)
    \/ NextPhase \/ Audit \/ Dial \/ AuditTTL \/ Return \/ AuditFails

AuditSpec == AuditInit /\ [][AuditNext]_auditVars

-----------------------------------------------------------------------------
\* Where Redis takes the values from that a command has it store.
Stored(m) ==
    DOMAIN m.args \cap
        CASE m.name \in {"SET", "SETNX", "GETSET", "APPEND"}         -> {2}
          [] m.name \in {"SETEX", "PSETEX", "SETRANGE", "LSET"}      -> {3}
          [] m.name \in {"LPUSH", "RPUSH", "SADD"}                   -> 2..Len(m.args)
          [] m.name \in {"MSET", "MSETNX"}    -> {2 * j : j \in 1..Len(m.args) \div 2}
          [] m.name \in {"HSET", "HMSET"}     -> {1 + 2 * j : j \in 1..(Len(m.args) - 1) \div 2}
          [] m.name \in {"ZADD", "HSETNX"}    -> {i \in 3..Len(m.args) : i % 2 = 1}
          [] m.name = "XADD"                  -> {2 + 2 * j : j \in 1..(Len(m.args) - 2) \div 2}
          [] OTHER                            -> {}

Big(m) == \E i \in Stored(m) : Size[m.args[i]] > MaxValueBytes

\* The commands whose values the recorder looks at.  Big values of the others, as
\* of LPUSH, MSET and XADD, are not found.
Sized == {"SET", "SETEX", "PSETEX", "HSET", "APPEND"}

\* README.md's cache-contract and value-size are about the traffic of the run.
\* What is found is true: a suspicious command was sent, and some value that Redis
\* was to store is too big.  What the app had an answer to before the audit is
\* found: a suspicious command, and a value too big of a command that is sized.
\* The audit says that nothing was found exactly when there is no finding.
AuditMeansTraffic ==
    \A r \in report :
        /\ r.commands \subseteq {m.name : m \in sent} \cap Suspicious
        /\ r.values > 0 => \E m \in sent : Big(m)
        /\ \A m \in answered :
            /\ Disposable /\ m.name \in Suspicious => m.name \in r.commands
            /\ m.name \in Sized /\ Big(m) => r.values > 0
        /\ r.pass <=> r.commands = {} /\ r.values = 0 /\ r.ttl = <<>>
=============================================================================
