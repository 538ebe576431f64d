--------------------------- MODULE PolicyAuditProofs ---------------------------
(***************************************************************************)
(* What PolicyAudit reports, for any patterns, any Redis and any traffic.  *)
(* What it says of the keys is true, and complete unless its cap cut it    *)
(* short: the traffic does not touch what TTLAudit works on, so this part  *)
(* is about TTLAudit, whose specification PolicyAudit implements.  What it *)
(* says of the traffic is what the recorder heard: a command is recorded   *)
(* before it is answered, and its count never falls.                       *)
(***************************************************************************)
EXTENDS PolicyAudit, FiniteSetTheorems, TLAPS

\* Every max_ttl is a whole number of seconds.
WholeSeconds == \A i \in DOMAIN Patterns : Patterns[i].maxTTL % 1000 = 0

\* A key of pattern i that is objected to for this reason, unless touched.
Objected(k, i, kind) ==
    /\ k \in Patterns[i].keys
    /\ k \in touched \/ Violates(k, Patterns[i], kind)

Place ==
    /\ pc \in {"ttl", "error"} => p <= Len(Patterns)
    /\ pc = "done" => p = Len(Patterns) + 1
    /\ pc = "scan" => keys = <<>>
    /\ p > Len(Patterns) => noExpiration = 0 /\ tooLong = 0 /\ keys = <<>>
    /\ pc = "ttl" => Returned(keys) \subseteq Patterns[p].keys

\* What is counted, and what was found, is so.
Truth ==
    /\ noExpiration > 0 => \E k \in Key : Objected(k, p, "no expiration")
    /\ tooLong > 0 => \E k \in Key : Objected(k, p, "exceed max_ttl")
    /\ \A f \in Returned(findings) : \E k \in Key : Objected(k, f.pattern, f.kind)

\* The keys an audit must not miss: a second or more too long is enough.
Amiss(t, pattern, kind) ==
    IF kind = "no expiration"
    THEN pattern.mustExpire /\ t = Eternal
    ELSE pattern.maxTTL > 0 /\ t >= pattern.maxTTL + 1000

Missable(k, i, kind) ==
    k \in Patterns[i].keys \ touched /\ Amiss(ttl[k], Patterns[i], kind)

Counter(kind) == IF kind = "no expiration" THEN noExpiration ELSE tooLong

\* What is left of pattern p: in Redis, in the last reply, or counted.
Owing(k, kind) ==
    p <= Len(Patterns) /\ ~(pc = "scan" /\ cursor = "0") /\ Missable(k, p, kind) =>
        k \in owed \/ k \in Returned(keys) \/ Counter(kind) > 0

\* The patterns before p.
Past(k, kind) ==
    \A i \in 1..(p - 1) : Missable(k, i, kind) =>
        [pattern |-> i, kind |-> kind] \in Returned(findings)

\* Nothing is lost between SCAN, its replies, the counters and the findings.
Completeness ==
    /\ pc = "ttl" /\ cursor = "0" => owed = {}
    /\ ~Full /\ pc # "error" =>
        \A kind \in Kind, k \in Key : Past(k, kind) /\ Owing(k, kind)

IInv == TypeOK /\ Place /\ Completeness

-----------------------------------------------------------------------------
(* The traffic and its record. *)

\* A value that is too big, of a command whose values are sized.
SizedBig(m) == m.name \in Sized /\ Big(m)

\* A command that was recorded, with its value if that is too big.
Recorded(m) == rec.counts[m.name] > 0 /\ (SizedBig(m) => rec.bigValues > 0)

\* A handler at work has read its command, and recorded it before it decides.
Busy ==
    \A c \in Conn :
        /\ at[c] = "observe" => \E m \in sent : cmd[c] = <<m>>
        /\ at[c] = "decide" => \E m \in sent : cmd[c] = <<m>> /\ Recorded(m)

\* What is answered was recorded, and what is recorded was sent.
Heard ==
    /\ \A m \in answered : Recorded(m)
    /\ \A n \in Name : rec.counts[n] > 0 => \E m \in sent : m.name = n
    /\ rec.bigValues > 0 => \E m \in sent : SizedBig(m)

\* The contract findings are of a snapshot that nothing adds to any more.
Judged ==
    /\ stage \in {"dial", "ttl", "returned"} => contract = Contract
    /\ \A r \in report :
        /\ r.commands = contract.commands /\ r.values = contract.values
        /\ r.pass <=> r.commands = {} /\ r.values = 0 /\ r.ttl = <<>>

TrafficInv == AuditTypeOK /\ Busy /\ Heard /\ Judged

-----------------------------------------------------------------------------
(* Sequences. *)

LEMMA SeqFacts ==
    ASSUME NEW S, NEW s \in Seq(S)
    PROVE  Len(s) \in Nat /\ DOMAIN s = 1..Len(s) /\ \A i \in DOMAIN s : s[i] \in S
OBVIOUS

LEMMA ShortFacts ==
    ASSUME NEW S
    PROVE  <<>> \in Seq(S) /\ \A x \in S : <<x>> \in Seq(S)
OBVIOUS

LEMMA ConcatFacts ==
    ASSUME NEW S, NEW s \in Seq(S), NEW t \in Seq(S)
    PROVE  /\ s \o t \in Seq(S)
           /\ DOMAIN (s \o t) = 1..(Len(s) + Len(t))
           /\ DOMAIN s = 1..Len(s) /\ DOMAIN t = 1..Len(t)
           /\ Len(s) \in Nat /\ Len(t) \in Nat
           /\ \A i \in 1..Len(s) : (s \o t)[i] = s[i]
           /\ \A i \in 1..Len(t) : (s \o t)[Len(s) + i] = t[i]
OBVIOUS

LEMMA ReturnedConcat ==
    ASSUME NEW S, NEW s \in Seq(S), NEW t \in Seq(S)
    PROVE  s \o t \in Seq(S) /\ Returned(s \o t) = Returned(s) \cup Returned(t)
<1>1. /\ s \o t \in Seq(S)
      /\ DOMAIN (s \o t) = 1..(Len(s) + Len(t))
      /\ DOMAIN s = 1..Len(s) /\ DOMAIN t = 1..Len(t)
      /\ Len(s) \in Nat /\ Len(t) \in Nat
      /\ \A i \in 1..Len(s) : (s \o t)[i] = s[i]
      /\ \A i \in 1..Len(t) : (s \o t)[Len(s) + i] = t[i]
  BY ConcatFacts
<1> DEFINE u == s \o t
           m == Len(s)
           n == Len(t)
<1> HIDE DEF u, m, n
<1>2. /\ DOMAIN u = 1..(m + n) /\ DOMAIN s = 1..m /\ DOMAIN t = 1..n
      /\ m \in Nat /\ n \in Nat
      /\ \A i \in 1..m : u[i] = s[i]
      /\ \A i \in 1..n : u[m + i] = t[i]
  BY <1>1 DEF u, m, n
<1>3. Returned(s) \subseteq Returned(u)
  <2>1. \A i \in DOMAIN s : i \in DOMAIN u /\ u[i] = s[i] BY <1>2
  <2> QED BY <2>1 DEF Returned
<1>4. Returned(t) \subseteq Returned(u)
  <2>1. \A i \in DOMAIN t : m + i \in DOMAIN u /\ u[m + i] = t[i] BY <1>2
  <2> QED BY <2>1 DEF Returned
<1>5. Returned(u) \subseteq Returned(s) \cup Returned(t)
  <2>1. \A i \in DOMAIN u :
          \/ i \in DOMAIN s /\ u[i] = s[i]
          \/ i - m \in DOMAIN t /\ u[i] = t[i - m]
    <3> TAKE i \in DOMAIN u
    <3>1. CASE i \in 1..m BY <1>2, <3>1
    <3>2. CASE i \notin 1..m
      <4>1. i - m \in 1..n /\ m + (i - m) = i BY <1>2, <3>2
      <4> HIDE DEF u
      <4> QED BY <1>2, <4>1
    <3> QED BY <3>1, <3>2
  <2> QED BY <2>1 DEF Returned
<1> QED BY <1>1, <1>3, <1>4, <1>5 DEF u

LEMMA ReturnedOne ==
    ASSUME NEW f
    PROVE  Returned(<<f>>) = {f} /\ Returned(<<>>) = {}
<1>1. DOMAIN <<f>> = 1..1 /\ <<f>>[1] = f OBVIOUS
<1>2. 1..1 = {1} OBVIOUS
<1>3. DOMAIN <<>> = {} OBVIOUS
<1> QED BY <1>1, <1>2, <1>3 DEF Returned

LEMMA PatternFacts ==
    /\ Len(Patterns) \in Nat /\ DOMAIN Patterns = 1..Len(Patterns)
    /\ \A i \in DOMAIN Patterns :
        /\ Patterns[i].keys \subseteq Key
        /\ Patterns[i].mustExpire \in BOOLEAN
        /\ Patterns[i].maxTTL \in Nat
<1> DEFINE S == [keys : SUBSET Key, mustExpire : BOOLEAN, maxTTL : Nat]
<1>1. Patterns \in Seq(S) BY PatternsAssumption
<1>2. \A s \in S : s.keys \subseteq Key /\ s.mustExpire \in BOOLEAN /\ s.maxTTL \in Nat
  OBVIOUS
<1> HIDE DEF S
<1> QED BY <1>1, <1>2, SeqFacts

-----------------------------------------------------------------------------
LEMMA InitIInv == Init => IInv
<1> SUFFICES ASSUME Init PROVE IInv OBVIOUS
<1>1. TypeOK
  <2>1. <<>> \in Seq(Key) /\ <<>> \in Seq([pattern : DOMAIN Patterns, kind : Kind])
    OBVIOUS
  <2>2. Len(Patterns) \in Nat BY PatternsAssumption
  <2>3. 0 \in 0..MaxKeysScanned BY ScannedAssumption
  <2> QED BY <2>1, <2>2, <2>3 DEF Init, TypeOK
<1>2. Place BY PatternsAssumption DEF Init, Place
<1>3. \A k, kind : Past(k, kind) /\ Owing(k, kind)
  <2>1. p = 1 /\ 1..(p - 1) = {} /\ pc = "scan" /\ cursor = "0" BY DEF Init
  <2> QED BY <2>1 DEF Past, Owing
<1>4. Completeness BY <1>3 DEF Init, Completeness
<1> QED BY <1>1, <1>2, <1>4 DEF IInv

-----------------------------------------------------------------------------
(* Types and places. *)

LEMMA BatchFacts ==
    ASSUME NEW b \in Batch
    PROVE  b \in Seq(Key)
<1>1. PICK n \in 0..MaxBatch : b \in [1..n -> Key] BY DEF Batch
<1>2. n \in Nat BY <1>1, BatchAssumption
<1> QED BY <1>1, <1>2

LEMMA KeysFacts ==
    ASSUME NEW s \in Seq(Key), s # <<>>
    PROVE  /\ Head(s) \in Key /\ Tail(s) \in Seq(Key)
           /\ Head(s) \in Returned(s)
           /\ Returned(s) = {Head(s)} \cup Returned(Tail(s))
<1>1. /\ Head(s) \in Key /\ Tail(s) \in Seq(Key) /\ Head(s) = s[1]
      /\ DOMAIN s = 1..Len(s) /\ DOMAIN Tail(s) = 1..(Len(s) - 1)
      /\ Len(s) \in Nat /\ Len(s) > 0
      /\ \A i \in 1..(Len(s) - 1) : Tail(s)[i] = s[i + 1]
  OBVIOUS
<1>2. 1 \in DOMAIN s BY <1>1
<1>3. \A i \in DOMAIN s : i = 1 \/ (i - 1 \in DOMAIN Tail(s) /\ s[i] = Tail(s)[i - 1])
  BY <1>1
<1>4. \A i \in DOMAIN Tail(s) : i + 1 \in DOMAIN s /\ Tail(s)[i] = s[i + 1]
  BY <1>1
<1>5. Returned(s) \subseteq {Head(s)} \cup Returned(Tail(s))
  BY <1>1, <1>3 DEF Returned
<1>6. Returned(Tail(s)) \subseteq Returned(s) BY <1>4 DEF Returned
<1>7. Head(s) \in Returned(s) BY <1>1, <1>2 DEF Returned
<1> QED BY <1>1, <1>5, <1>6, <1>7

\* FinishPattern adds a finding for each counter that is not zero.
FindingType == [pattern : DOMAIN Patterns, kind : Kind]

LEMMA AtPattern ==
    ASSUME TypeOK, p <= Len(Patterns)
    PROVE  p \in DOMAIN Patterns
<1>1. Len(Patterns) \in Nat /\ DOMAIN Patterns = 1..Len(Patterns) BY PatternFacts
<1>2. p \in 1..(Len(Patterns) + 1) BY DEF TypeOK
<1>3. p \in 1..Len(Patterns) BY <1>1, <1>2
<1> QED BY <1>1, <1>3

LEMMA FindingsConcat ==
    \A s, t \in Seq(FindingType) :
        s \o t \in Seq(FindingType) /\ Returned(s \o t) = Returned(s) \cup Returned(t)
BY ReturnedConcat

LEMMA FoundFacts ==
    ASSUME TypeOK, p <= Len(Patterns),
           findings' = findings \o Found(noExpiration, "no expiration")
                                \o Found(tooLong, "exceed max_ttl")
    PROVE  /\ findings' \in Seq(FindingType)
           /\ Returned(findings') =
                Returned(findings) \cup
                    {[pattern |-> p, kind |-> kind] : kind \in {x \in Kind : Counter(x) > 0}}
<1> DEFINE one == Found(noExpiration, "no expiration")
           two == Found(tooLong, "exceed max_ttl")
<1>1. p \in DOMAIN Patterns BY AtPattern
<1>2. Kind = {"no expiration", "exceed max_ttl"} BY DEF Kind
<1>3. ASSUME NEW n, NEW kind \in Kind
      PROVE  /\ Found(n, kind) \in Seq(FindingType)
             /\ Returned(Found(n, kind)) = IF n > 0 THEN {[pattern |-> p, kind |-> kind]} ELSE {}
  <2> DEFINE f == [pattern |-> p, kind |-> kind]
  <2>1. f \in FindingType BY <1>1, <1>3 DEF FindingType
  <2>2. Found(n, kind) = IF n > 0 THEN <<f>> ELSE <<>> BY DEF Found
  <2> HIDE DEF f
  <2>3. <<f>> \in Seq(FindingType) /\ <<>> \in Seq(FindingType)
    BY <2>1, ShortFacts
  <2>4. Returned(<<f>>) = {f} /\ Returned(<<>>) = {} BY ReturnedOne
  <2> QED BY <2>2, <2>3, <2>4 DEF f
<1>4. /\ one \in Seq(FindingType) /\ two \in Seq(FindingType)
      /\ Returned(one) = IF noExpiration > 0
                         THEN {[pattern |-> p, kind |-> "no expiration"]} ELSE {}
      /\ Returned(two) = IF tooLong > 0
                         THEN {[pattern |-> p, kind |-> "exceed max_ttl"]} ELSE {}
  BY <1>2, <1>3
<1>5. findings \in Seq(FindingType) BY DEF TypeOK, FindingType
<1>6. findings' = (findings \o one) \o two OBVIOUS
<1> HIDE DEF one, two
<1>10. one \in Seq(FindingType) /\ two \in Seq(FindingType) BY <1>4
<1>7. /\ findings \o one \in Seq(FindingType)
      /\ Returned(findings \o one) = Returned(findings) \cup Returned(one)
  BY <1>5, <1>10, FindingsConcat, Zenon
<1>8. /\ findings' \in Seq(FindingType)
      /\ Returned(findings') = Returned(findings \o one) \cup Returned(two)
  <2> DEFINE s == findings \o one
  <2>1. s \in Seq(FindingType) BY <1>7
  <2> HIDE DEF s
  <2>2. s \o two \in Seq(FindingType) /\ Returned(s \o two) = Returned(s) \cup Returned(two)
    BY <1>10, <2>1, FindingsConcat, Zenon
  <2> QED BY <1>6, <2>2 DEF s
<1>9. Returned(one) \cup Returned(two) =
        {[pattern |-> p, kind |-> kind] : kind \in {x \in Kind : Counter(x) > 0}}
  <2>1. {x \in Kind : Counter(x) > 0} =
            (IF noExpiration > 0 THEN {"no expiration"} ELSE {})
            \cup (IF tooLong > 0 THEN {"exceed max_ttl"} ELSE {})
    BY <1>2 DEF Counter
  <2>2. \A A, B : {[pattern |-> p, kind |-> kind] : kind \in A \cup B} =
                    {[pattern |-> p, kind |-> kind] : kind \in A}
                    \cup {[pattern |-> p, kind |-> kind] : kind \in B}
    BY Zenon
  <2>3. \A x : {[pattern |-> p, kind |-> kind] : kind \in {x}} = {[pattern |-> p, kind |-> x]}
    BY Zenon
  <2>4. {[pattern |-> p, kind |-> kind] : kind \in {}} = {} BY Zenon
  <2> DEFINE F(A) == {[pattern |-> p, kind |-> kind] : kind \in A}
             A1 == IF noExpiration > 0 THEN {"no expiration"} ELSE {}
             A2 == IF tooLong > 0 THEN {"exceed max_ttl"} ELSE {}
  <2>5. F(A1) = Returned(one) BY <1>4, <2>3, <2>4
  <2>6. F(A2) = Returned(two) BY <1>4, <2>3, <2>4
  <2>7. F(A1 \cup A2) = F(A1) \cup F(A2) BY <2>2
  <2>8. {x \in Kind : Counter(x) > 0} = A1 \cup A2 BY <2>1
  <2> HIDE DEF A1, A2
  <2>9. F({x \in Kind : Counter(x) > 0}) = F(A1 \cup A2) BY <2>8, Zenon
  <2> HIDE DEF F
  <2>10. F({x \in Kind : Counter(x) > 0}) = Returned(one) \cup Returned(two)
    BY <2>5, <2>6, <2>7, <2>9, Zenon
  <2> QED BY <2>10, Zenon DEF F
<1> QED BY <1>7, <1>8, <1>9

LEMMA TypeStep == TypeOK /\ Place /\ [Next]_ttlVars => TypeOK'
<1> SUFFICES ASSUME TypeOK, Place, [Next]_ttlVars PROVE TypeOK' OBVIOUS
<1> USE DEF TypeOK, redis, scan, tally
<1>0. Len(Patterns) \in Nat /\ MaxKeysScanned \in Nat
  BY PatternFacts, ScannedAssumption
<1>1. CASE Scan
  <2>1. PICK reply \in Batch, next \in {"0", "more"} :
            /\ keys' = reply /\ cursor' = next
            /\ owed' = Owed(cursor, owed, Matching) \ Returned(reply)
    BY <1>1 DEF Scan
  <2>2. Owed(cursor, owed, Matching) \subseteq Key
    <3>1. p \in DOMAIN Patterns BY <1>1, PatternFacts DEF Scan
    <3>2. Patterns[p].keys \subseteq Key BY <3>1, PatternFacts
    <3> QED BY <3>2 DEF Owed, Matching
  <2>3. keys' \in Seq(Key) BY <2>1, BatchFacts
  <2>4. owed' \in SUBSET Key BY <2>1, <2>2
  <2> QED BY <1>1, <2>1, <2>3, <2>4 DEF Scan
<1>2. CASE AuditKey
  <2>1. Tail(keys) \in Seq(Key) BY <1>2, KeysFacts DEF AuditKey
  <2>2. scanned' \in 0..MaxKeysScanned BY <1>0, <1>2 DEF AuditKey, Full
  <2>3. noExpiration' \in Nat /\ tooLong' \in Nat BY <1>2 DEF AuditKey
  <2> QED BY <1>2, <2>1, <2>2, <2>3 DEF AuditKey
<1>3. CASE NextScan BY <1>3 DEF NextScan
<1>4. CASE FinishPattern
  <2>1. findings' \in Seq([pattern : DOMAIN Patterns, kind : Kind])
    BY <1>4, FoundFacts DEF FinishPattern, FindingType
  <2>2. p' \in 1..Len(Patterns) + 1
    <3>1. p \in 1..(Len(Patterns) + 1) /\ p <= Len(Patterns) /\ p' = p + 1
      BY <1>4 DEF FinishPattern
    <3> QED BY <1>0, <3>1
  <2>3. keys' \in Seq(Key)
    <3>1. keys' = <<>> BY <1>4 DEF FinishPattern
    <3> QED BY <3>1
  <2> QED BY <1>4, <2>1, <2>2, <2>3 DEF FinishPattern
<1>5. CASE Finish BY <1>5 DEF Finish
<1>6. CASE Fails BY <1>6 DEF Fails
<1>7. ASSUME NEW k \in Key, NEW t \in Times \cup {Absent, Eternal}, Change(k, t)
      PROVE  TypeOK'
  BY <1>7 DEF Change
<1>8. CASE UNCHANGED ttlVars BY <1>8 DEF ttlVars, vars
<1> QED BY <1>1, <1>2, <1>3, <1>4, <1>5, <1>6, <1>7, <1>8 DEF Next

LEMMA PlaceStep == TypeOK /\ Place /\ [Next]_ttlVars => Place'
<1> SUFFICES ASSUME TypeOK, Place, [Next]_ttlVars PROVE Place' OBVIOUS
<1> USE DEF Place, redis, scan, tally
<1>0. Len(Patterns) \in Nat /\ p \in 1..(Len(Patterns) + 1) /\ keys \in Seq(Key)
  BY PatternsAssumption DEF TypeOK
<1>1. CASE Scan
  <2>1. PICK reply \in Batch : keys' = reply /\ Returned(reply) \subseteq Matching
    BY <1>1 DEF Scan, ScanReply
  <2> QED BY <1>0, <1>1, <2>1 DEF Scan, Matching
<1>2. CASE AuditKey
  <2>1. Returned(Tail(keys)) \subseteq Returned(keys)
    BY <1>0, <1>2, KeysFacts DEF AuditKey
  <2> QED BY <1>0, <1>2, <2>1 DEF AuditKey
<1>3. CASE NextScan BY <1>0, <1>3 DEF NextScan
<1>4. CASE FinishPattern BY <1>0, <1>4 DEF FinishPattern
<1>5. CASE Finish BY <1>0, <1>5 DEF Finish
<1>6. CASE Fails BY <1>0, <1>6 DEF Fails
<1>7. ASSUME NEW k \in Key, NEW t \in Times \cup {Absent, Eternal}, Change(k, t)
      PROVE  Place'
  BY <1>0, <1>7 DEF Change
<1>8. CASE UNCHANGED ttlVars BY <1>8 DEF ttlVars, vars
<1> QED BY <1>1, <1>2, <1>3, <1>4, <1>5, <1>6, <1>7, <1>8 DEF Next

-----------------------------------------------------------------------------
(* Findings are true. *)

LEMMA ObjectedStays ==
    ASSUME TypeOK, [Next]_ttlVars, NEW k \in Key, NEW i, NEW kind, Objected(k, i, kind)
    PROVE  Objected(k, i, kind)'
<1>1. ttl \in [Key -> Times \cup {Absent, Eternal}] BY DEF TypeOK
<1>2. CASE UNCHANGED redis
  BY <1>2 DEF Objected, Violates, redis
<1>3. ASSUME NEW c \in Key, NEW t \in Times \cup {Absent, Eternal}, Change(c, t)
      PROVE  Objected(k, i, kind)'
  <2>1. ttl' = [ttl EXCEPT ![c] = t] /\ touched' = touched \cup {c} BY <1>3 DEF Change
  <2>2. k = c \/ ttl'[k] = ttl[k] BY <1>1, <2>1
  <2> QED BY <2>1, <2>2 DEF Objected, Violates
<1> QED
  BY <1>2, <1>3
  DEF Next, Scan, AuditKey, NextScan, FinishPattern, Finish, Fails, ttlVars, vars, redis

\* In whole seconds, what TTL rounds up to exceeds max_ttl only if the key does.
LEMMA RoundedAbove ==
    ASSUME NEW t \in Times \cup {Absent, Eternal}, NEW m \in Nat,
           m % 1000 = 0, TooLong(TTLReply(t), m)
    PROVE  m > 0 /\ t > m
<1>1. t \in Int BY TimesAssumption DEF Absent, Eternal
<1>2. m > 0 /\ TTLReply(t) > m \div 1000 BY DEF TooLong
<1>3. m \div 1000 \in Nat /\ m = 1000 * (m \div 1000) BY SMT
<1>4. t >= 0 BY <1>1, <1>2, <1>3 DEF TTLReply
<1>5. (t + 500) \div 1000 \in Nat /\ 1000 * ((t + 500) \div 1000) <= t + 500
  BY <1>1, <1>4, SMT
<1>6. (t + 500) \div 1000 > m \div 1000 BY <1>2, <1>4, <1>1 DEF TTLReply
<1> QED BY <1>1, <1>2, <1>3, <1>5, <1>6, SMT

LEMMA EternalReply ==
    ASSUME NEW t \in Times \cup {Absent, Eternal}
    PROVE  TTLReply(t) = Eternal <=> t = Eternal
<1>1. t \in Int BY TimesAssumption DEF Absent, Eternal
<1>2. t >= 0 => (t + 500) \div 1000 \in Nat BY <1>1, SMT
<1> QED BY <1>1, <1>2 DEF TTLReply, Eternal

LEMMA TruthStep ==
    ASSUME WholeSeconds, TypeOK, Place, Truth, [Next]_ttlVars
    PROVE  Truth'
<1>1. \A k \in Key : \A i, kind : Objected(k, i, kind) => Objected(k, i, kind)'
  BY ObjectedStays
<1>2. /\ noExpiration > 0 => \E k \in Key : Objected(k, p, "no expiration")
      /\ tooLong > 0 => \E k \in Key : Objected(k, p, "exceed max_ttl")
      /\ \A f \in Returned(findings) : \E k \in Key : Objected(k, f.pattern, f.kind)
  BY DEF Truth
<1>3. ASSUME p' = p, noExpiration' = noExpiration \/ noExpiration' = 0,
             tooLong' = tooLong \/ tooLong' = 0,
             Returned(findings') \subseteq Returned(findings)
      PROVE  Truth'
  <2>1. noExpiration' > 0 => \E k \in Key : Objected(k, p, "no expiration")'
    <3> SUFFICES ASSUME noExpiration' > 0 PROVE \E k \in Key : Objected(k, p, "no expiration")'
      OBVIOUS
    <3>1. noExpiration > 0 BY <1>3
    <3>2. PICK k \in Key : Objected(k, p, "no expiration") BY <1>2, <3>1
    <3>3. Objected(k, p, "no expiration")' BY <1>1, <1>3, <3>2 DEF Objected, Violates
    <3> QED BY <3>3
  <2>2. tooLong' > 0 => \E k \in Key : Objected(k, p, "exceed max_ttl")'
    <3> SUFFICES ASSUME tooLong' > 0 PROVE \E k \in Key : Objected(k, p, "exceed max_ttl")'
      OBVIOUS
    <3>1. tooLong > 0 BY <1>3
    <3>2. PICK k \in Key : Objected(k, p, "exceed max_ttl") BY <1>2, <3>1
    <3>3. Objected(k, p, "exceed max_ttl")' BY <1>1, <1>3, <3>2 DEF Objected, Violates
    <3> QED BY <3>3
  <2>3. \A f \in Returned(findings') : \E k \in Key : Objected(k, f.pattern, f.kind)'
    BY <1>1, <1>2, <1>3
  <2> QED BY <2>1, <2>2, <2>3 DEF Truth, Returned
<1>4. Returned(<<>>) = {} BY ReturnedOne
<1>5. CASE UNCHANGED ttlVars BY <1>3, <1>5 DEF ttlVars, vars, tally
<1>6. CASE Scan BY <1>3, <1>6 DEF Scan, tally
<1>7. CASE NextScan BY <1>3, <1>7 DEF NextScan, tally
<1>8. CASE Finish BY <1>3, <1>8 DEF Finish, tally
<1>9. CASE Fails BY <1>3, <1>4, <1>9 DEF Fails, tally
<1>10. ASSUME NEW c \in Key, NEW t \in Times \cup {Absent, Eternal}, Change(c, t)
       PROVE  Truth'
  BY <1>3, <1>10 DEF Change, tally
<1>11. CASE FinishPattern
  <2>1. /\ p \in DOMAIN Patterns
        /\ noExpiration' = 0 /\ tooLong' = 0
        /\ Returned(findings') = Returned(findings) \cup
            {[pattern |-> p, kind |-> kind] : kind \in {x \in Kind : Counter(x) > 0}}
    BY <1>11, AtPattern, FoundFacts DEF FinishPattern
  <2>2. \A kind \in Kind : Counter(kind) > 0 => \E k \in Key : Objected(k, p, kind)
    BY <1>2 DEF Kind, Counter
  <2>3. \A f \in Returned(findings') : \E k \in Key : Objected(k, f.pattern, f.kind)
    <3> TAKE f \in Returned(findings')
    <3>1. CASE f \in Returned(findings) BY <1>2, <3>1
    <3>2. CASE f \notin Returned(findings)
      <4>1. PICK kind \in Kind : Counter(kind) > 0 /\ f = [pattern |-> p, kind |-> kind]
        BY <2>1, <3>2
      <4>2. f.pattern = p /\ f.kind = kind BY <4>1
      <4> QED BY <2>2, <4>1, <4>2
    <3> QED BY <3>1, <3>2
  <2>4. \A f \in Returned(findings') : \E k \in Key : Objected(k, f.pattern, f.kind)'
    BY <1>1, <2>3
  <2>5. ~(noExpiration' > 0) /\ ~(tooLong' > 0) BY <2>1
  <2> QED BY <2>4, <2>5 DEF Truth, Returned
<1>12. CASE AuditKey
  <2> DEFINE k == Head(keys)
             reply == TTLReply(ttl[k])
             eternal == Patterns[p].mustExpire /\ reply = Eternal
  <2>1. /\ pc = "ttl" /\ keys # <<>> /\ UNCHANGED <<ttl, touched, p, findings>>
        /\ noExpiration' = (IF eternal THEN noExpiration + 1 ELSE noExpiration)
        /\ tooLong' = (IF ~eternal /\ TooLong(reply, Patterns[p].maxTTL)
                       THEN tooLong + 1 ELSE tooLong)
    BY <1>12 DEF AuditKey, redis
  <2>2. k \in Key /\ k \in Returned(keys)
    BY <2>1, KeysFacts DEF TypeOK
  <2>3. p \in DOMAIN Patterns /\ k \in Patterns[p].keys
    BY <2>1, <2>2, AtPattern DEF Place
  <2>4. ttl[k] \in Times \cup {Absent, Eternal} BY <2>2 DEF TypeOK
  <2>5. Patterns[p].maxTTL \in Nat /\ Patterns[p].maxTTL % 1000 = 0
    BY <2>3, PatternFacts DEF WholeSeconds
  <2> HIDE DEF k
  <2>6. eternal => Objected(k, p, "no expiration")
    BY <2>3, <2>4, EternalReply DEF Objected, Violates
  <2>7. TooLong(reply, Patterns[p].maxTTL) => Objected(k, p, "exceed max_ttl")
    BY <2>3, <2>4, <2>5, RoundedAbove DEF Objected, Violates
  <2> HIDE DEF eternal, reply
  <2>8. noExpiration' > 0 => \E j \in Key : Objected(j, p, "no expiration")
    BY <1>2, <2>1, <2>2, <2>6
  <2>9. tooLong' > 0 => \E j \in Key : Objected(j, p, "exceed max_ttl")
    BY <1>2, <2>1, <2>2, <2>7
  <2> QED BY <1>2, <2>1, <2>8, <2>9 DEF Truth, Objected, Violates, Returned
<1> QED
  BY <1>5, <1>6, <1>7, <1>8, <1>9, <1>10, <1>11, <1>12 DEF Next

-----------------------------------------------------------------------------
(* Nothing is missed. *)

LEMMA MissableBefore ==
    ASSUME TypeOK, [Next]_ttlVars, NEW k \in Key, NEW i, NEW kind, Missable(k, i, kind)'
    PROVE  Missable(k, i, kind)
<1>1. ttl \in [Key -> Times \cup {Absent, Eternal}] BY DEF TypeOK
<1>2. CASE UNCHANGED redis
  <2>1. ttl' = ttl /\ touched' = touched BY <1>2 DEF redis
  <2> QED BY <2>1 DEF Missable
<1>3. ASSUME NEW c \in Key, NEW t \in Times \cup {Absent, Eternal}, Change(c, t)
      PROVE  Missable(k, i, kind)
  <2>1. ttl' = [ttl EXCEPT ![c] = t] /\ touched' = touched \cup {c} BY <1>3 DEF Change
  <2>2. k # c /\ k \notin touched BY <2>1 DEF Missable
  <2>3. ttl'[k] = ttl[k] BY <1>1, <2>1, <2>2
  <2>4. k \in Patterns[i].keys \ touched BY <2>2 DEF Missable
  <2> QED BY <2>3, <2>4, Zenon DEF Missable
<1> QED
  BY <1>2, <1>3
  DEF Next, Scan, AuditKey, NextScan, FinishPattern, Finish, Fails, ttlVars, vars, redis

\* A second too much is seen however max_ttl and the reply are rounded.
LEMMA SecondAbove ==
    ASSUME NEW t \in Times \cup {Absent, Eternal}, NEW m \in Nat,
           m > 0, t >= m + 1000
    PROVE  TooLong(TTLReply(t), m) /\ TTLReply(t) # Eternal
<1>1. t \in Int /\ t >= 0 BY TimesAssumption DEF Absent, Eternal
<1>2. m \div 1000 \in Nat /\ 1000 * (m \div 1000) <= m BY SMT
<1>3. /\ (t + 500) \div 1000 \in Nat
      /\ t + 500 < 1000 * ((t + 500) \div 1000) + 1000
  BY <1>1, SMT
<1>4. (t + 500) \div 1000 > m \div 1000 BY <1>1, <1>2, <1>3, SMT
<1> QED BY <1>1, <1>3, <1>4 DEF TooLong, TTLReply, Eternal

LEMMA MissableHere ==
    ASSUME TypeOK, [Next]_ttlVars, p' = p, NEW k \in Key, NEW kind, Missable(k, p, kind)'
    PROVE  Missable(k, p, kind)
<1>1. PICK i : i = p OBVIOUS
<1>2. Missable(k, i, kind)' BY <1>1 DEF Missable
<1>3. Missable(k, i, kind) BY <1>2, MissableBefore
<1> QED BY <1>1, <1>3

\* Steps that neither finish a pattern nor find anything.
LEMMA PastStays ==
    ASSUME TypeOK, [Next]_ttlVars, p' = p, findings' = findings,
           NEW k \in Key, NEW kind, Past(k, kind)
    PROVE  Past(k, kind)'
<1>1. \A i : Missable(k, i, kind)' => Missable(k, i, kind) BY MissableBefore
<1>2. Returned(findings)' = Returned(findings) BY DEF Returned
<1> QED BY <1>1, <1>2 DEF Past

LEMMA DrainedStep ==
    ASSUME TypeOK, Completeness, [Next]_ttlVars
    PROVE  pc' = "ttl" /\ cursor' = "0" => owed' = {}
<1>0. pc = "ttl" /\ cursor = "0" => owed = {} BY DEF Completeness
<1>1. CASE Scan
  <2>1. PICK reply, next : ScanReply(reply, next, Owed(cursor, owed, Matching), Matching)
            /\ cursor' = next /\ owed' = Owed(cursor, owed, Matching) \ Returned(reply)
    BY <1>1 DEF Scan
  <2> QED BY <2>1 DEF ScanReply
<1>2. ASSUME NEW c \in Key, NEW t \in Times \cup {Absent, Eternal}, Change(c, t)
      PROVE  pc' = "ttl" /\ cursor' = "0" => owed' = {}
  BY <1>0, <1>2 DEF Change
<1> QED
  BY <1>0, <1>1, <1>2
  DEF Next, AuditKey, NextScan, FinishPattern, Finish, Fails, ttlVars, vars, redis, scan

LEMMA PastStep ==
    ASSUME TypeOK, Completeness, [Next]_ttlVars, ~Full', pc' # "error",
           NEW k \in Key, NEW kind \in Kind
    PROVE  Past(k, kind)'
<1>1. ~Full /\ pc # "error" => Past(k, kind) /\ Owing(k, kind) BY DEF Completeness
<1>2. scanned \in Nat /\ MaxKeysScanned \in Nat
  BY ScannedAssumption DEF TypeOK
<1>3. CASE p' = p /\ findings' = findings
  <2>1. ~Full /\ pc # "error"
    BY <1>2 DEF Full, Next, Scan, AuditKey, NextScan, FinishPattern, Finish, Fails, Change,
                ttlVars, vars, redis, scan, tally
  <2> QED BY <1>1, <1>3, <2>1, PastStays
<1>4. CASE FinishPattern
  <2>1. /\ p <= Len(Patterns) /\ p' = p + 1 /\ pc \in {"scan", "ttl"} /\ PatternDone
        /\ scanned' = scanned
    BY <1>4 DEF FinishPattern, redis
  <2>2. Returned(findings') = Returned(findings) \cup
            {[pattern |-> p, kind |-> x] : x \in {y \in Kind : Counter(y) > 0}}
    BY <1>4, FoundFacts DEF FinishPattern
  <2>3. ~Full BY <2>1 DEF Full
  <2>4. pc = "ttl" /\ keys = <<>> /\ cursor = "0" BY <2>1, <2>3 DEF PatternDone
  <2>5. Past(k, kind) /\ Owing(k, kind) BY <1>1, <2>3, <2>4
  <2>6. owed = {} /\ Returned(keys) = {}
    BY <2>4, ReturnedOne DEF Completeness
  <2>7. p \in Nat BY PatternFacts DEF TypeOK
  <2>8. ASSUME NEW i \in 1..(p' - 1), Missable(k, i, kind)'
        PROVE  [pattern |-> i, kind |-> kind] \in Returned(findings')
    <3>1. Missable(k, i, kind) BY <2>8, MissableBefore
    <3>2. CASE i = p
      <4>1. Counter(kind) > 0 BY <2>1, <2>4, <2>5, <2>6, <3>1, <3>2 DEF Owing
      <4> QED BY <2>2, <3>2, <4>1
    <3>3. CASE i # p
      <4>1. i \in 1..(p - 1) BY <2>1, <2>7, <2>8, <3>3
      <4> QED BY <2>2, <2>5, <3>1, <4>1 DEF Past
    <3> QED BY <3>2, <3>3
  <2>9. \A i \in 1..(p' - 1) : Missable(k, i, kind)' =>
            [pattern |-> i, kind |-> kind] \in Returned(findings')
    BY <2>8
  <2> QED BY <2>9 DEF Past, Returned
<1> QED
  BY <1>3, <1>4
  DEF Next, Scan, AuditKey, NextScan, Finish, Fails, Change, ttlVars, vars, redis, scan, tally

LEMMA OwingScan ==
    ASSUME TypeOK, Place, Completeness, Scan, NEW k \in Key, NEW kind \in Kind
    PROVE  Owing(k, kind)'
<1> DEFINE due == Owed(cursor, owed, Matching)
<1>1. PICK reply \in Batch : keys' = reply /\ owed' = due \ Returned(reply)
  BY DEF Scan
<1>2. /\ pc = "scan" /\ p <= Len(Patterns) /\ ~Full
      /\ UNCHANGED <<ttl, touched, p, noExpiration, tooLong>>
  BY DEF Scan, redis, tally
<1>3. Owing(k, kind) BY <1>2 DEF Completeness
<1>4. Counter(kind)' = Counter(kind) BY <1>2 DEF Counter
<1>5. ASSUME Missable(k, p, kind)
      PROVE  k \in due \/ Counter(kind) > 0
  <2>1. p \in DOMAIN Patterns BY <1>2, AtPattern
  <2>2. Patterns[p].maxTTL \in Nat BY <2>1, PatternFacts
  <2>3. k \in Matching
    <3>1. k \in Patterns[p].keys BY <1>5 DEF Missable
    <3>2. ttl[k] = Eternal \/ ttl[k] >= Patterns[p].maxTTL + 1000
      BY <1>5 DEF Missable, Amiss
    <3>3. ttl[k] # Absent BY <2>2, <3>2 DEF Absent, Eternal
    <3> QED BY <3>1, <3>3 DEF Matching
  <2>4. CASE cursor = "0" BY <2>3, <2>4 DEF Owed
  <2>5. CASE cursor # "0"
    <3>1. Returned(keys) = {} BY <1>2, ReturnedOne DEF Place
    <3> QED BY <1>2, <1>3, <1>5, <2>3, <2>5, <3>1 DEF Owing, Owed
  <2> QED BY <2>4, <2>5
<1> HIDE DEF due
<1>6. ASSUME Missable(k, p, kind)'
      PROVE  k \in owed' \/ k \in Returned(keys)' \/ Counter(kind)' > 0
  <2>1. Missable(k, p, kind) BY <1>2, <1>6 DEF Missable
  <2>2. Returned(keys)' = Returned(reply) BY <1>1 DEF Returned
  <2> QED BY <1>1, <1>4, <1>5, <2>1, <2>2
<1> QED BY <1>6 DEF Owing

LEMMA OwingKey ==
    ASSUME TypeOK, Place, Completeness, AuditKey, NEW k \in Key, NEW kind \in Kind
    PROVE  Owing(k, kind)'
<1> DEFINE h == Head(keys)
           reply == TTLReply(ttl[h])
           eternal == Patterns[p].mustExpire /\ reply = Eternal
           above == TooLong(reply, Patterns[p].maxTTL)
<1>1. /\ pc = "ttl" /\ keys # <<>> /\ ~Full
      /\ UNCHANGED <<ttl, touched, p, owed>> /\ keys' = Tail(keys)
      /\ noExpiration' = (IF eternal THEN noExpiration + 1 ELSE noExpiration)
      /\ tooLong' = (IF ~eternal /\ above THEN tooLong + 1 ELSE tooLong)
  BY DEF AuditKey, redis
<1>2. /\ h \in Key /\ Returned(keys) = {h} \cup Returned(Tail(keys))
      /\ noExpiration \in Nat /\ tooLong \in Nat
  BY <1>1, KeysFacts DEF TypeOK
<1>3. p <= Len(Patterns) BY <1>1 DEF Place
<1>4. Patterns[p].maxTTL \in Nat
  <2>1. p \in DOMAIN Patterns BY <1>3, AtPattern
  <2> QED BY <2>1, PatternFacts
<1>5. ttl[h] \in Times \cup {Absent, Eternal} BY <1>2 DEF TypeOK
<1>6. Owing(k, kind) BY <1>1 DEF Completeness
<1> HIDE DEF h
<1>7. Missable(h, p, "no expiration") => eternal
  <2>1. Missable(h, p, "no expiration") => Patterns[p].mustExpire /\ ttl[h] = Eternal
    BY DEF Missable, Amiss
  <2>2. ttl[h] = Eternal => reply = Eternal BY DEF TTLReply, Eternal
  <2> QED BY <2>1, <2>2
<1>8. Missable(h, p, "exceed max_ttl") => ~eternal /\ above
  <2> SUFFICES ASSUME Missable(h, p, "exceed max_ttl") PROVE ~eternal /\ above
    OBVIOUS
  <2>1. Patterns[p].maxTTL > 0 /\ ttl[h] >= Patterns[p].maxTTL + 1000
    BY DEF Missable, Amiss
  <2>2. above /\ reply # Eternal BY <1>4, <1>5, <2>1, SecondAbove, ZenonT(30)
  <2>3. ~eternal BY <2>2
  <2> QED BY <2>2, <2>3
<1> HIDE DEF eternal, above, reply
<1>12. eternal => noExpiration' > 0 BY <1>1, <1>2
<1>13. ~eternal /\ above => tooLong' > 0 BY <1>1, <1>2
<1>9. Counter(kind) > 0 => Counter(kind)' > 0
  <2>1. kind = "no expiration" => Counter(kind) = noExpiration /\ Counter(kind)' = noExpiration'
    BY DEF Counter
  <2>2. kind # "no expiration" => Counter(kind) = tooLong /\ Counter(kind)' = tooLong'
    BY DEF Counter
  <2>3. (noExpiration > 0 => noExpiration' > 0) /\ (tooLong > 0 => tooLong' > 0)
    BY <1>1, <1>2
  <2> QED BY <2>1, <2>2, <2>3
<1>10. Missable(h, p, kind) => Counter(kind)' > 0
  <2>1. CASE kind = "no expiration"
    <3>1. Counter(kind)' = noExpiration' BY <2>1 DEF Counter
    <3> QED BY <1>7, <1>12, <2>1, <3>1
  <2>2. CASE kind = "exceed max_ttl"
    <3>1. Counter(kind)' = tooLong' BY <2>2 DEF Counter
    <3> QED BY <1>8, <1>13, <2>2, <3>1
  <2> QED BY <2>1, <2>2 DEF Kind
<1>11. ASSUME Missable(k, p, kind)'
       PROVE  k \in owed' \/ k \in Returned(keys)' \/ Counter(kind)' > 0
  <2>4. UNCHANGED <<ttl, touched, p>> BY <1>1
  <2>1. Missable(k, p, kind) BY <1>11, <2>4 DEF Missable
  <2>2. k \in owed \/ k \in Returned(keys) \/ Counter(kind) > 0
    BY <1>1, <1>3, <1>6, <2>1 DEF Owing
  <2>3. Returned(keys)' = Returned(Tail(keys)) BY <1>1 DEF Returned
  <2> QED BY <1>1, <1>2, <1>9, <1>10, <2>1, <2>2, <2>3
<1> QED BY <1>11 DEF Owing

LEMMA OwingStep ==
    ASSUME TypeOK, Place, Completeness, [Next]_ttlVars, ~Full', pc' # "error",
           NEW k \in Key, NEW kind \in Kind
    PROVE  Owing(k, kind)'
<1>1. ~Full /\ pc # "error" => Owing(k, kind) BY DEF Completeness
<1>2. CASE Scan BY <1>2, OwingScan
<1>3. CASE AuditKey BY <1>3, OwingKey
<1>4. ASSUME ~Full, pc # "error",
             UNCHANGED <<ttl, touched, p, cursor, owed, keys, noExpiration, tooLong>>,
             (pc = "scan" /\ cursor = "0") => (pc' = "scan" /\ cursor' = "0")
      PROVE  Owing(k, kind)'
  <2>1. /\ Missable(k, p, kind)' <=> Missable(k, p, kind)
        /\ Counter(kind)' = Counter(kind) /\ Returned(keys)' = Returned(keys)
    BY <1>4 DEF Missable, Counter, Returned
  <2>2. Owing(k, kind) BY <1>1, <1>4
  <2>3. ASSUME p' <= Len(Patterns), ~(pc' = "scan" /\ cursor' = "0"), Missable(k, p, kind)'
        PROVE  k \in owed' \/ k \in Returned(keys)' \/ Counter(kind)' > 0
    <3>1. p <= Len(Patterns) /\ Missable(k, p, kind) BY <1>4, <2>1, <2>3
    <3>2. ~(pc = "scan" /\ cursor = "0") BY <1>4, <2>3
    <3>3. k \in owed \/ k \in Returned(keys) \/ Counter(kind) > 0
      BY <2>2, <3>1, <3>2 DEF Owing
    <3> QED BY <1>4, <2>1, <3>3
  <2> QED BY <2>3 DEF Owing
<1>9. CASE UNCHANGED ttlVars
  <2>1. UNCHANGED <<ttl, touched, pc, p, cursor, owed, keys, scanned, noExpiration, tooLong>>
    BY <1>9 DEF ttlVars, vars, redis, scan, tally
  <2>2. ~Full /\ pc # "error" BY <2>1 DEF Full
  <2>3. (pc = "scan" /\ cursor = "0") => (pc' = "scan" /\ cursor' = "0") BY <2>1
  <2> QED BY <1>4, <2>1, <2>2, <2>3
<1>10. CASE NextScan
  <2>1. /\ ~Full /\ pc = "ttl" /\ cursor # "0"
        /\ UNCHANGED <<ttl, touched, p, cursor, owed, keys, noExpiration, tooLong>>
    BY <1>10 DEF NextScan, redis, scan, tally
  <2> QED BY <1>4, <2>1
<1>5. CASE FinishPattern
  <2>1. pc' = "scan" /\ cursor' = "0" BY <1>5 DEF FinishPattern
  <2> QED BY <2>1 DEF Owing
<1>6. CASE Finish
  <2>1. p' = p /\ p > Len(Patterns) BY <1>6 DEF Finish
  <2>2. ~(p <= Len(Patterns))
    BY <2>1, PatternFacts DEF TypeOK
  <2> QED BY <2>1, <2>2 DEF Owing
<1>7. CASE Fails BY <1>7 DEF Fails
<1>8. ASSUME NEW c \in Key, NEW t \in Times \cup {Absent, Eternal}, Change(c, t)
      PROVE  Owing(k, kind)'
  <2>1. /\ pc \in {"scan", "ttl"} /\ owed \ {c} \subseteq owed'
        /\ touched' = touched \cup {c}
        /\ UNCHANGED <<pc, p, cursor, keys, scanned, noExpiration, tooLong>>
    BY <1>8 DEF Change, tally
  <2>2. ~Full BY <2>1 DEF Full
  <2>3. Owing(k, kind) BY <1>1, <2>1, <2>2
  <2>4. Counter(kind)' = Counter(kind) /\ Returned(keys)' = Returned(keys)
    BY <2>1 DEF Counter, Returned
  <2>5. Missable(k, p, kind)' => Missable(k, p, kind) /\ k # c
    <3>1. Missable(k, p, kind)' => k # c BY <2>1 DEF Missable
    <3> QED BY <2>1, <3>1, MissableHere
  <2> QED BY <2>1, <2>3, <2>4, <2>5 DEF Owing
<1> QED BY <1>2, <1>3, <1>5, <1>6, <1>7, <1>8, <1>9, <1>10 DEF Next

LEMMA CompletenessStep ==
    ASSUME TypeOK, Place, Completeness, [Next]_ttlVars
    PROVE  Completeness'
<1>1. ~Full' /\ pc' # "error" =>
        \A kind \in Kind, k \in Key : Past(k, kind)' /\ Owing(k, kind)'
  BY PastStep, OwingStep
<1>2. pc' = "ttl" /\ cursor' = "0" => owed' = {} BY DrainedStep
<1> QED BY <1>1, <1>2 DEF Completeness, Full

-----------------------------------------------------------------------------
(* Sums over finite sets. *)

\* A sum counts cells: f[x] of them for every x.
CellsOf(f, s) == {c \in s \X Nat : c[2] \in 1..f[c[1]]}

Pick(s) == CHOOSE x \in s : TRUE
Solves(g, f, S) ==
    g = [s \in SUBSET S |-> IF s = {} THEN 0 ELSE f[Pick(s)] + g[s \ {Pick(s)}]]

LEMMA SumAsChoice ==
    ASSUME NEW f
    PROVE  SumFunction(f) = (CHOOSE g : Solves(g, f, DOMAIN f))[DOMAIN f]
BY DEF SumFunction, SumFunctionOnSet, FoldFunctionOnSet, MapThenFoldSet, Solves, Pick

LEMMA CellsSplit ==
    ASSUME NEW S, NEW f \in [S -> Nat], NEW s \in SUBSET S, NEW x \in s,
           IsFiniteSet(CellsOf(f, s \ {x}))
    PROVE  /\ IsFiniteSet(CellsOf(f, s))
           /\ Cardinality(CellsOf(f, s)) = f[x] + Cardinality(CellsOf(f, s \ {x}))
<1> DEFINE new == {x} \X (1..f[x])
           old == CellsOf(f, s \ {x})
<1>1. f[x] \in Nat OBVIOUS
<1>2. IsFiniteSet(new) /\ Cardinality(new) = f[x]
  <2>1. IsFiniteSet(1..f[x]) /\ Cardinality(1..f[x]) = f[x]
    BY <1>1, FS_Interval
  <2>2. IsFiniteSet({x}) /\ Cardinality({x}) = 1 BY FS_Singleton
  <2>3. IsFiniteSet(new) /\ Cardinality(new) = 1 * f[x]
    BY <2>1, <2>2, FS_Product, SMTT(30)
  <2> QED BY <1>1, <2>3
<1>3. CellsOf(f, s) = old \cup new
  <2>1. \A c \in CellsOf(f, s) : c \in old \cup new BY DEF CellsOf
  <2>2. old \subseteq CellsOf(f, s) BY DEF CellsOf
  <2>3. new \subseteq CellsOf(f, s) BY <1>1 DEF CellsOf
  <2> QED BY <2>1, <2>2, <2>3
<1>4. old \cap new = {} BY DEF CellsOf
<1>5. IsFiniteSet(old) OBVIOUS
<1> HIDE DEF old, new
<1>6. /\ IsFiniteSet(old \cup new)
      /\ Cardinality(old \cup new) = Cardinality(old) + Cardinality(new) - Cardinality(old \cap new)
  BY <1>2, <1>5, FS_Union
<1>7. Cardinality(old \cap new) = 0 BY <1>4, FS_EmptySet
<1>8. Cardinality(old) \in Nat BY <1>5, FS_CardinalityType
<1> QED BY <1>1, <1>2, <1>3, <1>6, <1>7, <1>8 DEF old

\* Of a set of finite subsets one is smallest.
LEMMA SmallestOf ==
    ASSUME NEW S, IsFiniteSet(S), NEW T, T \subseteq SUBSET S, T # {}
    PROVE  \E m \in T : \A t \in T : t \subseteq m => t = m
<1>1. FiniteSubsetsOf(S) = SUBSET S BY FS_FiniteSubsetsOfFinite
<1>2. IsWellFoundedOn(StrictSubsetOrdering(S), SUBSET S)
  BY <1>1, FS_StrictSubsetOrderingWellFounded
<1>3. PICK m \in T : \A t \in T : ~(<<t, m>> \in StrictSubsetOrdering(S))
  BY <1>2, WFMin, Zenon
<1>4. ASSUME NEW t \in T, t \subseteq m PROVE t = m
  <2>1. <<t, m>> \in (SUBSET S) \X (SUBSET S) OBVIOUS
  <2> QED BY <1>3, <1>4, <2>1 DEF StrictSubsetOrdering
<1> QED BY <1>4

LEMMA CellsFinite ==
    ASSUME NEW S, IsFiniteSet(S), NEW f \in [S -> Nat], NEW s \in SUBSET S
    PROVE  IsFiniteSet(CellsOf(f, s))
<1> DEFINE T == {t \in SUBSET S : ~IsFiniteSet(CellsOf(f, t))}
<1> SUFFICES ASSUME T # {} PROVE FALSE OBVIOUS
<1>8. T \subseteq SUBSET S OBVIOUS
<1>1. PICK m \in T : \A t \in T : t \subseteq m => t = m
  <2> HIDE DEF T
  <2> QED BY <1>8, SmallestOf
<1>2. m # {}
  <2>1. CellsOf(f, {}) = {} BY DEF CellsOf
  <2> QED BY <1>1, <2>1, FS_EmptySet
<1>3. PICK x : x \in m BY <1>2
<1>4. m \ {x} \notin T BY <1>1, <1>3
<1>5. IsFiniteSet(CellsOf(f, m \ {x})) BY <1>1, <1>4
<1>6. m \in SUBSET S BY <1>1
<1>7. IsFiniteSet(CellsOf(f, m)) BY <1>3, <1>5, <1>6, CellsSplit
<1> QED BY <1>1, <1>7

LEMMA SumIsCells ==
    ASSUME NEW S, IsFiniteSet(S), NEW f \in [S -> Nat]
    PROVE  SumFunction(f) = Cardinality(CellsOf(f, S)) /\ IsFiniteSet(CellsOf(f, S))
<1> DEFINE count == [s \in SUBSET S |-> Cardinality(CellsOf(f, s))]
           g == CHOOSE h : Solves(h, f, S)
<1>1. DOMAIN f = S OBVIOUS
<1>2. SumFunction(f) = g[S] BY <1>1, SumAsChoice
<1>3. ASSUME NEW s \in SUBSET S, s # {}
      PROVE  Pick(s) \in s /\ s \ {Pick(s)} \in SUBSET S
  BY <1>3 DEF Pick
<1>4. Solves(count, f, S)
  <2>1. ASSUME NEW s \in SUBSET S
        PROVE  count[s] = IF s = {} THEN 0 ELSE f[Pick(s)] + count[s \ {Pick(s)}]
    <3>1. CASE s = {}
      <4>1. CellsOf(f, {}) = {} BY DEF CellsOf
      <4> QED BY <3>1, <4>1, FS_EmptySet
    <3>2. CASE s # {}
      <4>1. Pick(s) \in s /\ s \ {Pick(s)} \in SUBSET S BY <1>3, <3>2
      <4> HIDE DEF Pick
      <4>2. IsFiniteSet(CellsOf(f, s \ {Pick(s)})) BY <4>1, CellsFinite
      <4>3. Cardinality(CellsOf(f, s)) = f[Pick(s)] + Cardinality(CellsOf(f, s \ {Pick(s)}))
        BY <4>1, <4>2, CellsSplit
      <4> QED BY <3>2, <4>1, <4>3
    <3> QED BY <3>1, <3>2
  <2> HIDE DEF count
  <2>2. count = [s \in SUBSET S |-> count[s]] BY DEF count
  <2> QED BY <2>1, <2>2 DEF Solves
<1>5. Solves(g, f, S) BY <1>4, Zenon
<1> HIDE DEF g
<1>6. ASSUME NEW s \in SUBSET S
      PROVE  /\ g[s] = IF s = {} THEN 0 ELSE f[Pick(s)] + g[s \ {Pick(s)}]
             /\ count[s] = IF s = {} THEN 0 ELSE f[Pick(s)] + count[s \ {Pick(s)}]
  <2> HIDE DEF count
  <2> QED BY <1>4, <1>5 DEF Solves
<1> HIDE DEF count
<1>7. g[S] = count[S]
  <2> DEFINE T == {t \in SUBSET S : g[t] # count[t]}
  <2> SUFFICES ASSUME T # {} PROVE FALSE OBVIOUS
  <2>0. T \subseteq SUBSET S OBVIOUS
  <2>1. PICK m \in T : \A t \in T : t \subseteq m => t = m
    <3> HIDE DEF T
    <3> QED BY <2>0, SmallestOf
  <2>2. m # {} BY <1>6, <2>1
  <2>3. Pick(m) \in m /\ m \ {Pick(m)} \in SUBSET S BY <1>3, <2>1, <2>2
  <2>4. m \ {Pick(m)} \notin T BY <2>1, <2>3
  <2>5. g[m \ {Pick(m)}] = count[m \ {Pick(m)}] BY <2>3, <2>4
  <2> QED BY <1>6, <2>1, <2>2, <2>5
<1> QED BY <1>2, <1>7, CellsFinite DEF count

\* A sum of counters is a natural number, 0 when they all are, and one more
\* when one of them is.
LEMMA SumFacts ==
    ASSUME NEW S, IsFiniteSet(S)
    PROVE  /\ SumFunction([x \in S |-> 0]) = 0
           /\ \A f \in [S -> Nat] : SumFunction(f) \in Nat
<1>1. ASSUME NEW f \in [S -> Nat] PROVE SumFunction(f) \in Nat
  BY SumIsCells, FS_CardinalityType
<1>2. SumFunction([x \in S |-> 0]) = 0
  <2> DEFINE f == [x \in S |-> 0]
  <2>1. f \in [S -> Nat] /\ CellsOf(f, S) = {} BY DEF CellsOf
  <2> HIDE DEF f
  <2>2. SumFunction(f) = Cardinality({}) BY <2>1, SumIsCells
  <2> QED BY <2>2, FS_EmptySet DEF f
<1> QED BY <1>1, <1>2

LEMMA SumBump ==
    ASSUME NEW S, IsFiniteSet(S)
    PROVE  \A f, g \in [S -> Nat], x \in S :
                g = [f EXCEPT ![x] = f[x] + 1] => SumFunction(g) = SumFunction(f) + 1
<1> SUFFICES ASSUME NEW f \in [S -> Nat], NEW g \in [S -> Nat], NEW x \in S,
                    g = [f EXCEPT ![x] = f[x] + 1]
             PROVE  SumFunction(g) = SumFunction(f) + 1
  OBVIOUS
<1> DEFINE c == <<x, f[x] + 1>>
<1>1. CellsOf(g, S) = CellsOf(f, S) \cup {c}
  <2>1. ASSUME NEW y \in S, NEW n \in Nat
        PROVE  n \in 1..g[y] <=> (n \in 1..f[y] \/ <<y, n>> = c)
    <3>1. f[y] \in Nat OBVIOUS
    <3>2. CASE y = x BY <3>1, <3>2
    <3>3. CASE y # x BY <3>3
    <3> QED BY <3>2, <3>3
  <2>2. c \in S \X Nat OBVIOUS
  <2> HIDE DEF c
  <2> QED BY <2>1, <2>2 DEF CellsOf
<1>2. c \notin CellsOf(f, S) BY DEF CellsOf
<1>3. IsFiniteSet(CellsOf(f, S)) /\ SumFunction(f) = Cardinality(CellsOf(f, S))
  BY SumIsCells
<1>4. SumFunction(g) = Cardinality(CellsOf(g, S)) BY SumIsCells
<1> HIDE DEF c
<1>5. Cardinality(CellsOf(f, S) \cup {c}) = Cardinality(CellsOf(f, S)) + 1
  BY <1>2, <1>3, FS_AddElement
<1> QED BY <1>1, <1>3, <1>4, <1>5

-----------------------------------------------------------------------------
(* The recorder. *)

LEMMA GreatestOf ==
    ASSUME NEW S, IsFiniteSet(S)
    PROVE  S \subseteq Nat /\ S # {} => Max(S) \in S /\ \A x \in S : x <= Max(S)
<1> DEFINE Top(t) == \E q \in t : \A x \in t : x <= q
           T == {t \in SUBSET S : t \subseteq Nat /\ t # {} /\ ~Top(t)}
<1>1. T # {} => \E m \in T : \A t \in T : t \subseteq m => t = m
  <2>1. T \subseteq SUBSET S OBVIOUS
  <2> HIDE DEF T
  <2> QED BY <2>1, SmallestOf
<1>2. T = {}
  <2> SUFFICES ASSUME T # {} PROVE FALSE OBVIOUS
  <2>2. PICK m \in T : \A t \in T : t \subseteq m => t = m BY <1>1
  <2>3. m \in SUBSET S /\ m \subseteq Nat /\ m # {} /\ ~Top(m) OBVIOUS
  <2>4. PICK x : x \in m BY <2>3
  <2>5. m \ {x} \notin T BY <2>2, <2>4
  <2>6. m \ {x} = {} \/ Top(m \ {x}) BY <2>3, <2>5
  <2>7. CASE m \ {x} = {}
    <3>1. \A y \in m : y = x BY <2>7
    <3>2. x \in Nat BY <2>3, <2>4
    <3> QED BY <2>3, <2>4, <3>1, <3>2
  <2>8. CASE Top(m \ {x})
    <3>1. PICK q \in m \ {x} : \A y \in m \ {x} : y <= q BY <2>8
    <3>2. \A y \in m : y \in Nat BY <2>3
    <3>3. CASE x <= q
      <4>1. \A y \in m : y <= q BY <3>1, <3>3
      <4> QED BY <2>3, <4>1
    <3>4. CASE ~(x <= q)
      <4>1. \A y \in m : y <= x BY <2>4, <3>1, <3>2, <3>4
      <4> QED BY <2>3, <2>4, <4>1
    <3> QED BY <3>3, <3>4
  <2> QED BY <2>6, <2>7, <2>8
<1> SUFFICES ASSUME S \subseteq Nat, S # {}
             PROVE  Max(S) \in S /\ \A x \in S : x <= Max(S)
  OBVIOUS
<1>3. PICK q \in S : \A x \in S : x <= q BY <1>2
<1>4. \E y \in S : \A x \in S : y >= x BY <1>3
<1>5. Max(S) \in S /\ \A x \in S : Max(S) >= x BY <1>4 DEF Max
<1> QED BY <1>5

LEMMA MaxOfTwo ==
    ASSUME NEW a \in Nat, NEW b \in Nat
    PROVE  Max({a, b}) \in Nat
<1>1. IsFiniteSet({a}) /\ {a, b} = {a} \cup {b} BY FS_Singleton
<1>2. IsFiniteSet({a, b}) BY <1>1, FS_AddElement
<1> QED BY <1>2, GreatestOf

\* valueSize is the size of the largest value, 0 without one.
LEMMA ValueSizeFacts ==
    ASSUME NEW m \in CommandType
    PROVE  /\ ValueSize(m) \in Nat
           /\ \A i \in ValuePosition(m) : Size[m.args[i]] \in Nat /\ Size[m.args[i]] <= ValueSize(m)
           /\ ValueSize(m) > 0 => \E i \in ValuePosition(m) : Size[m.args[i]] = ValueSize(m)
<1> DEFINE V == ValuePosition(m)
           size == [i \in V |-> Size[m.args[i]]]
           T == {Size[m.args[i]] : i \in V}
<1>1. m.args \in Seq(Arg) BY DEF CommandType
<1>2. Len(m.args) \in Nat /\ DOMAIN m.args = 1..Len(m.args) /\ \A i \in DOMAIN m.args : m.args[i] \in Arg
  BY <1>1, SeqFacts
<1>3. V \subseteq 1..Len(m.args) BY <1>2 DEF ValuePosition
<1>4. \A i \in V : Size[m.args[i]] \in Nat
  BY <1>2, <1>3, ArgAssumption
<1>5. IsFiniteSet(V)
  <2>1. IsFiniteSet(1..Len(m.args)) BY <1>2, FS_Interval
  <2> HIDE DEF V
  <2> QED BY <1>3, <2>1, FS_Subset
<1> HIDE DEF V
<1>6. IsFiniteSet(T)
  <2>1. size \in Surjection(V, T) BY DEF Surjection
  <2> HIDE DEF size, T
  <2> QED BY <1>5, <2>1, FS_Surjection
<1>7. T \subseteq Nat BY <1>4
<1>8. {0} \cup T = T \cup {0} OBVIOUS
<1>9. ValueSize(m) = Max({0} \cup T) BY DEF ValueSize, V
<1>10. /\ Max({0} \cup T) \in {0} \cup T
       /\ \A x \in {0} \cup T : x <= Max({0} \cup T)
  <2> HIDE DEF T
  <2>1. IsFiniteSet(T \cup {0}) BY <1>6, FS_AddElement
  <2>2. T \cup {0} \subseteq Nat /\ T \cup {0} # {} BY <1>7
  <2> QED BY <1>8, <2>1, <2>2, GreatestOf
<1>11. ValueSize(m) \in {0} \cup T /\ \A x \in {0} \cup T : x <= ValueSize(m)
  BY <1>9, <1>10
<1>12. \A i \in V : Size[m.args[i]] \in T OBVIOUS
<1>13. ValueSize(m) > 0 => ValueSize(m) \in T
  BY <1>11
<1>14. ValueSize(m) \in Nat BY <1>7, <1>11
<1> QED BY <1>4, <1>11, <1>12, <1>13, <1>14 DEF V

\* For a command that valueSize knows it looks where Redis has the values, and
\* nowhere for any other.
LEMMA StoredFacts ==
    ASSUME NEW m \in CommandType
    PROVE  /\ m.name \in Sized => Stored(m) = ValuePosition(m)
           /\ m.name \notin Sized => ValuePosition(m) = {}
<1>1. m.args \in Seq(Arg) BY DEF CommandType
<1>2. Len(m.args) \in Nat /\ DOMAIN m.args = 1..Len(m.args)
  BY <1>1, SeqFacts
<1> DEFINE n == Len(m.args)
<1>3. CASE m.name \in {"SET", "APPEND"} BY <1>3 DEF Stored, ValuePosition, Sized
<1>4. CASE m.name \in {"SETEX", "PSETEX"} BY <1>4 DEF Stored, ValuePosition, Sized
<1>5. CASE m.name = "HSET"
  <2>1. Stored(m) = (1..n) \cap {1 + 2 * j : j \in 1..(n - 1) \div 2}
    BY <1>2, <1>5 DEF Stored
  <2>2. ValuePosition(m) = (1..n) \cap {i \in 1..n : i >= 3 /\ i % 2 = 1}
    BY <1>2, <1>5 DEF ValuePosition
  <2> HIDE DEF n
  <2>0. n \in Nat BY <1>2 DEF n
  <2>3. ASSUME NEW i \in 1..n, i >= 3, i % 2 = 1
        PROVE  \E j \in 1..(n - 1) \div 2 : i = 1 + 2 * j
    <3> DEFINE j == (i - 1) \div 2
    <3>1. i = 1 + 2 * j /\ j \in Int BY <2>0, <2>3
    <3>2. j >= 1 BY <2>0, <2>3, <3>1
    <3>3. j <= (n - 1) \div 2 BY <2>0, <2>3
    <3>4. (n - 1) \div 2 \in Int BY <2>0
    <3> HIDE DEF j
    <3> QED BY <3>1, <3>2, <3>3, <3>4
  <2>4. ASSUME NEW j \in 1..(n - 1) \div 2
        PROVE  1 + 2 * j >= 3 /\ (1 + 2 * j) % 2 = 1
    <3>1. j \in Int /\ j >= 1 BY <2>0
    <3> QED BY <3>1
  <2>5. Stored(m) = ValuePosition(m) BY <2>1, <2>2, <2>3, <2>4
  <2> QED BY <1>5, <2>5 DEF Sized
<1>6. CASE m.name \notin Sized
  BY <1>6 DEF ValuePosition, Sized
<1> QED BY <1>3, <1>4, <1>5, <1>6 DEF Sized

LEMMA BigFacts ==
    ASSUME NEW m \in CommandType
    PROVE  SizedBig(m) <=> ValueSize(m) > MaxValueBytes
<1>1. MaxValueBytes \in Nat BY MaxValueAssumption
<1>2. CASE m.name \in Sized
  BY <1>1, <1>2, ValueSizeFacts, StoredFacts DEF SizedBig, Big
<1>3. CASE m.name \notin Sized
  <2>1. ValuePosition(m) = {} BY <1>3, StoredFacts
  <2>2. ValueSize(m) = 0 BY <2>1, ValueSizeFacts
  <2> QED BY <1>1, <1>3, <2>2 DEF SizedBig
<1> QED BY <1>2, <1>3

LEMMA ScenarioFacts ==
    /\ IsFiniteSet(ScenarioName)
    /\ "unknown" \in ScenarioName
    /\ \A i \in 1..Len(Scenarios) : Scenarios[i] \in ScenarioName
<1> DEFINE T == {Scenarios[i] : i \in DOMAIN Scenarios}
           name == [i \in DOMAIN Scenarios |-> Scenarios[i]]
<1>1. Len(Scenarios) \in Nat /\ DOMAIN Scenarios = 1..Len(Scenarios)
  BY NameAssumption
<1>2. IsFiniteSet(DOMAIN Scenarios) BY <1>1, FS_Interval
<1>3. name \in Surjection(DOMAIN Scenarios, T) BY DEF Surjection
<1>4. ScenarioName = T \cup {"unknown"} BY DEF ScenarioName
<1>5. \A i \in 1..Len(Scenarios) : Scenarios[i] \in T BY <1>1
<1> HIDE DEF T, name
<1>6. IsFiniteSet(T) BY <1>2, <1>3, FS_Surjection
<1> QED BY <1>4, <1>5, <1>6, FS_AddElement

LEMMA NewFacts == New \in RecorderType /\ AddsUp(New)
<1>1. New \in RecorderType BY ScenarioFacts DEF New, RecorderType
<1>2. New.rows = 0 /\ New.counts = [n \in Name |-> 0]
      /\ New.byScenario = [s \in ScenarioName |-> [n \in Name |-> 0]]
  BY DEF New
<1>3. SumFunction([n \in Name |-> 0]) = 0 BY NameAssumption, SumFacts
<1>4. SumFunction([s \in ScenarioName |-> 0]) = 0 BY ScenarioFacts, SumFacts
<1>5. ASSUME NEW n \in Name
      PROVE  [s \in ScenarioName |-> New.byScenario[s][n]] = [s \in ScenarioName |-> 0]
  BY <1>2
<1> QED BY <1>1, <1>2, <1>3, <1>4, <1>5 DEF AddsUp

\* Observe adds one row, one to a name and one to that name in a scenario, and
\* one big value when there is one.
LEMMA ObservedFacts ==
    ASSUME NEW r \in RecorderType, AddsUp(r), NEW m \in CommandType,
           NEW o, o = Observed(r, m)
    PROVE  /\ o \in RecorderType /\ AddsUp(o)
           /\ o.counts = [r.counts EXCEPT ![m.name] = r.counts[m.name] + 1]
           /\ o.bigValues = IF SizedBig(m) THEN r.bigValues + 1 ELSE r.bigValues
<1> DEFINE size == ValueSize(m)
           x == r.scenario
           one == [r.byScenario[x] EXCEPT ![m.name] = r.byScenario[x][m.name] + 1]
<1>1. /\ x \in ScenarioName /\ r.rows \in Nat /\ r.counts \in [Name -> Nat]
      /\ r.byScenario \in [ScenarioName -> [Name -> Nat]] /\ r.keys \subseteq Arg
      /\ r.maxValueSeen \in Nat /\ r.bigValues \in Nat
  BY DEF RecorderType
<1>2. m.name \in Name /\ m.args \in Seq(Arg) BY DEF CommandType
<1>3. size \in Nat BY ValueSizeFacts
<1>4. Max({r.maxValueSeen, size}) \in Nat BY <1>1, <1>3, MaxOfTwo
<1>5. KeyOf(m) \subseteq Arg
  <2>1. m.args # <<>> => m.args[1] \in Arg BY <1>2
  <2> QED BY <2>1 DEF KeyOf
<1> HIDE DEF size
<1>6. o = [r EXCEPT
            !.rows = r.rows + 1,
            !.counts = [r.counts EXCEPT ![m.name] = r.counts[m.name] + 1],
            !.byScenario = [r.byScenario EXCEPT ![x] = one],
            !.keys = r.keys \cup KeyOf(m),
            !.maxValueSeen = Max({r.maxValueSeen, size}),
            !.bigValues = IF MaxValueBytes > 0 /\ size > MaxValueBytes
                          THEN r.bigValues + 1 ELSE r.bigValues]
  BY DEF Observed, size
<1>7. /\ o.scenario = x /\ o.rows = r.rows + 1
      /\ o.counts = [r.counts EXCEPT ![m.name] = r.counts[m.name] + 1]
      /\ o.byScenario = [r.byScenario EXCEPT ![x] = one]
      /\ o.keys = r.keys \cup KeyOf(m)
      /\ o.maxValueSeen = Max({r.maxValueSeen, size})
      /\ o.bigValues = IF MaxValueBytes > 0 /\ size > MaxValueBytes
                       THEN r.bigValues + 1 ELSE r.bigValues
  BY <1>6 DEF RecorderType
<1>8. o.counts \in [Name -> Nat] BY <1>1, <1>2, <1>7
<1>9. o.byScenario \in [ScenarioName -> [Name -> Nat]]
  <2>1. one \in [Name -> Nat] BY <1>1, <1>2
  <2> HIDE DEF one
  <2> QED BY <1>1, <1>7, <2>1
<1>10. o \in RecorderType
  <2>1. o.bigValues \in Nat /\ o.rows \in Nat /\ o.keys \subseteq Arg BY <1>1, <1>5, <1>7
  <2>2. o = [scenario |-> o.scenario, rows |-> o.rows, counts |-> o.counts,
             byScenario |-> o.byScenario, keys |-> o.keys,
             maxValueSeen |-> o.maxValueSeen, bigValues |-> o.bigValues]
    BY <1>6 DEF RecorderType
  <2> QED BY <1>1, <1>4, <1>7, <1>8, <1>9, <2>1, <2>2 DEF RecorderType
<1>11. o.bigValues = IF SizedBig(m) THEN r.bigValues + 1 ELSE r.bigValues
  BY <1>7, BigFacts, ValidatedAssumption DEF size
<1>12. o.rows = SumFunction(o.counts)
  <2>1. SumFunction(o.counts) = SumFunction(r.counts) + 1
    <3> DEFINE f == r.counts
               g == o.counts
    <3>1. f \in [Name -> Nat] /\ g \in [Name -> Nat] BY <1>1, <1>8
    <3>2. g = [f EXCEPT ![m.name] = f[m.name] + 1] BY <1>7
    <3> HIDE DEF f, g
    <3>3. SumFunction(g) = SumFunction(f) + 1
      BY <1>2, <3>1, <3>2, NameAssumption, SumBump
    <3> QED BY <3>3 DEF f, g
  <2> QED BY <1>7, <2>1 DEF AddsUp
<1>13. ASSUME NEW n \in Name
       PROVE  o.counts[n] = SumFunction([s \in ScenarioName |-> o.byScenario[s][n]])
  <2> DEFINE f == [s \in ScenarioName |-> r.byScenario[s][n]]
             g == [s \in ScenarioName |-> o.byScenario[s][n]]
  <2>1. r.counts[n] = SumFunction(f) BY DEF AddsUp
  <2>2. f \in [ScenarioName -> Nat] BY <1>1
  <2>3. g \in [ScenarioName -> Nat] BY <1>9
  <2>4. f[x] = r.byScenario[x][n] BY <1>1
  <2>5. \A s \in ScenarioName : o.byScenario[s][n] =
            IF s = x /\ n = m.name THEN r.byScenario[s][n] + 1 ELSE r.byScenario[s][n]
    BY <1>1, <1>2, <1>7
  <2>6. CASE n = m.name
    <3>1. g = [f EXCEPT ![x] = f[x] + 1] BY <1>1, <2>5, <2>6
    <3> HIDE DEF f, g
    <3>2. SumFunction(g) = SumFunction(f) + 1
      <4>1. IsFiniteSet(ScenarioName) /\ x \in ScenarioName BY <1>1, ScenarioFacts
      <4> HIDE DEF x
      <4> QED BY <2>2, <2>3, <3>1, <4>1, SumBump
    <3>3. o.counts[n] = r.counts[n] + 1 BY <1>1, <1>7, <2>6
    <3> QED BY <2>1, <3>2, <3>3 DEF g
  <2>7. CASE n # m.name
    <3>1. g = f BY <2>5, <2>7
    <3>2. o.counts[n] = r.counts[n] BY <1>1, <1>7, <2>7
    <3> QED BY <2>1, <3>1, <3>2
  <2> QED BY <2>6, <2>7
<1> QED BY <1>7, <1>10, <1>11, <1>12, <1>13 DEF AddsUp

-----------------------------------------------------------------------------
(* PolicyAudit. *)

\* The traffic leaves alone what TTLAudit works on.
LEMMA ImplementsTTLAudit ==
    /\ AuditInit => Init
    /\ [AuditNext]_auditVars => [Next]_ttlVars
<1>1. AuditInit => Init BY DEF AuditInit
<1>2. ASSUME [AuditNext]_auditVars PROVE [Next]_ttlVars
  <2>1. CASE UNCHANGED auditVars BY <2>1 DEF auditVars
  <2>2. CASE \E c \in Conn : Observe(c) \/ Answer(c) \/ Drop(c) \/ \E m \in Commands : Read(c, m)
    BY <2>2 DEF Observe, Answer, Drop, Read, Handles
  <2>3. CASE NextPhase BY <2>3 DEF NextPhase
  <2>4. CASE Audit BY <2>4 DEF Audit
  <2>5. CASE Dial BY <2>5 DEF Dial
  <2>6. CASE AuditTTL BY <2>6 DEF AuditTTL
  <2>7. CASE Return BY <2>7 DEF Return
  <2>8. CASE AuditFails BY <2>8 DEF AuditFails
  <2> QED BY <1>2, <2>1, <2>2, <2>3, <2>4, <2>5, <2>6, <2>7, <2>8 DEF AuditNext
<1> QED BY <1>1, <1>2

\* While nothing is counted and nothing found there is nothing to be wrong.
LEMMA InitTruth == Init => Truth
<1> SUFFICES ASSUME Init PROVE Truth OBVIOUS
<1>1. noExpiration = 0 /\ tooLong = 0 /\ findings = <<>> BY DEF Init
<1>2. Returned(findings) = {} BY <1>1, ReturnedOne
<1> QED BY <1>1, <1>2 DEF Truth

LEMMA StepIInv == IInv /\ [Next]_ttlVars => IInv'
BY TypeStep, PlaceStep, CompletenessStep DEF IInv

-----------------------------------------------------------------------------
(* The traffic. *)

LEMMA InitTraffic == AuditInit => TrafficInv
<1> SUFFICES ASSUME AuditInit PROVE TrafficInv OBVIOUS
<1>1. TypeOK BY InitIInv DEF AuditInit, IInv
<1>2. AuditTypeOK
  <2>1. Len(Scenarios) \in Nat BY NameAssumption
  <2>2. rec \in RecorderType /\ AddsUp(rec) BY NewFacts DEF AuditInit
  <2> QED BY <1>1, <2>1, <2>2 DEF AuditInit, AuditTypeOK
<1>3. Busy BY DEF AuditInit, Busy
<1>4. Heard
  <2>1. \A n \in Name : rec.counts[n] = 0 BY DEF AuditInit, New
  <2>2. rec.bigValues = 0 BY DEF AuditInit, New
  <2> QED BY <2>1, <2>2 DEF AuditInit, Heard
<1>5. Judged BY DEF AuditInit, Judged
<1> QED BY <1>2, <1>3, <1>4, <1>5 DEF TrafficInv

\* The command of a handler at work.
LEMMA AtWork ==
    ASSUME AuditTypeOK, Busy, NEW c \in Conn, at[c] \in {"observe", "decide"}
    PROVE  \E m \in sent :
                /\ cmd[c] = <<m>> /\ cmd[c][1] = m
                /\ m \in Commands /\ m \in CommandType /\ m.name \in Name
                /\ at[c] = "decide" => Recorded(m)
<1>1. PICK m \in sent : cmd[c] = <<m>> /\ (at[c] = "decide" => Recorded(m))
  BY DEF Busy
<1>2. m \in Commands BY DEF AuditTypeOK
<1>3. m \in CommandType BY <1>2, CommandsAssumption
<1>4. m.name \in Name BY <1>3 DEF CommandType
<1> QED BY <1>1, <1>2, <1>3, <1>4

\* What a handler records stays recorded.
LEMMA ObserveKeeps ==
    ASSUME AuditTypeOK, Busy, NEW c \in Conn, Observe(c)
    PROVE  /\ rec' \in RecorderType /\ AddsUp(rec')
           /\ Recorded(cmd[c][1])'
           /\ \A m \in CommandType : Recorded(m) => Recorded(m)'
           /\ \A n \in Name : rec'.counts[n] > 0 => rec.counts[n] > 0 \/ n = cmd[c][1].name
           /\ rec'.bigValues > 0 => rec.bigValues > 0 \/ SizedBig(cmd[c][1])
<1>1. at[c] = "observe" /\ rec' = Observed(rec, cmd[c][1]) /\ cmd' = cmd
  BY DEF Observe, Handles
<1>2. PICK m \in CommandType : cmd[c][1] = m /\ m.name \in Name BY <1>1, AtWork
<1>3. rec \in RecorderType /\ AddsUp(rec) BY DEF AuditTypeOK
<1>4. rec.counts \in [Name -> Nat] /\ rec.bigValues \in Nat BY <1>3 DEF RecorderType
<1>5. /\ rec' \in RecorderType /\ AddsUp(rec')
      /\ rec'.counts = [rec.counts EXCEPT ![m.name] = rec.counts[m.name] + 1]
      /\ rec'.bigValues = IF SizedBig(m) THEN rec.bigValues + 1 ELSE rec.bigValues
  BY <1>1, <1>2, <1>3, ObservedFacts
<1>6. \A n \in Name : rec'.counts[n] =
            IF n = m.name THEN rec.counts[n] + 1 ELSE rec.counts[n]
  BY <1>4, <1>5
<1>7. \A n \in Name : /\ rec.counts[n] \in Nat
                      /\ rec.counts[n] > 0 => rec'.counts[n] > 0
                      /\ rec'.counts[n] > 0 => rec.counts[n] > 0 \/ n = m.name
  BY <1>4, <1>6
<1>8. rec'.counts[m.name] > 0 BY <1>2, <1>6, <1>7
<1>9. /\ rec.bigValues > 0 => rec'.bigValues > 0
      /\ SizedBig(m) => rec'.bigValues > 0
      /\ rec'.bigValues > 0 => rec.bigValues > 0 \/ SizedBig(m)
  BY <1>4, <1>5
<1>10. \A k \in CommandType : SizedBig(k)' <=> SizedBig(k) BY DEF SizedBig, Big, Stored, Sized
<1>11. \A k \in CommandType : k.name \in Name BY DEF CommandType
<1>12. Recorded(m)' BY <1>2, <1>8, <1>9, <1>10 DEF Recorded
<1>13. ASSUME NEW k \in CommandType, Recorded(k) PROVE Recorded(k)'
  BY <1>7, <1>9, <1>10, <1>11, <1>13 DEF Recorded
<1>14. Recorded(cmd[c][1])' BY <1>1, <1>2, <1>12 DEF Recorded, SizedBig, Big, Stored, Sized
<1> QED BY <1>2, <1>5, <1>7, <1>9, <1>13, <1>14

LEMMA ContractType ==
    ASSUME AuditTypeOK
    PROVE  Contract \in [commands : SUBSET Name, values : Nat]
BY SuspiciousAssumption DEF AuditTypeOK, RecorderType, Contract

LEMMA AuditTypeStep ==
    ASSUME AuditTypeOK, Busy, TypeOK', [AuditNext]_auditVars
    PROVE  AuditTypeOK'
<1> USE DEF AuditTypeOK, traffic
<1>1. ASSUME NEW c \in Conn, NEW m \in Commands, Read(c, m) PROVE AuditTypeOK'
  BY <1>1 DEF Read, Handles
<1>2. ASSUME NEW c \in Conn, Observe(c) PROVE AuditTypeOK'
  <2>1. rec' \in RecorderType /\ AddsUp(rec') BY <1>2, ObserveKeeps
  <2> QED BY <1>2, <2>1 DEF Observe, Handles
<1>3. ASSUME NEW c \in Conn, Answer(c) PROVE AuditTypeOK'
  <2>1. cmd[c][1] \in sent BY <1>3, AtWork DEF Answer, Handles
  <2> QED BY <1>3, <2>1 DEF Answer, Handles
<1>4. ASSUME NEW c \in Conn, Drop(c) PROVE AuditTypeOK'
  BY <1>4 DEF Drop, Handles
<1>5. CASE NextPhase
  <2>1. phase' \in 1..Len(Scenarios) BY <1>5, NameAssumption DEF NextPhase
  <2>2. Scenarios[phase'] \in ScenarioName BY <2>1, ScenarioFacts
  <2>3. rec' = [rec EXCEPT !.scenario = Scenarios[phase']]
    BY <1>5 DEF NextPhase, SetScenario
  <2>4. rec' \in RecorderType BY <2>2, <2>3 DEF RecorderType
  <2>5. rec'.rows = rec.rows /\ rec'.counts = rec.counts /\ rec'.byScenario = rec.byScenario
    BY <2>3 DEF RecorderType
  <2>6. AddsUp(rec') BY <2>5 DEF AddsUp
  <2>7. phase' \in 0..Len(Scenarios) BY <2>1, NameAssumption
  <2> QED BY <1>5, <2>4, <2>6, <2>7 DEF NextPhase
<1>6. CASE Audit BY <1>6, ContractType DEF Audit
<1>7. CASE Dial BY <1>7 DEF Dial
<1>8. CASE AuditTTL BY <1>8 DEF AuditTTL
<1>9. CASE Return
  <2> DEFINE r == [commands |-> contract.commands, values |-> contract.values,
                   ttl |-> findings,
                   pass |-> contract.commands = {} /\ contract.values = 0 /\ findings = <<>>]
  <2>1. report' = {r} BY <1>9 DEF Return
  <2>2. findings \in Seq([pattern : DOMAIN Patterns, kind : Kind]) BY DEF TypeOK
  <2>3. r \in Reported BY <2>2 DEF Reported
  <2>4. report' \in SUBSET Reported /\ report' # {} BY <2>1, <2>3
  <2> QED BY <1>9, <2>4 DEF Return
<1>10. CASE AuditFails
  <2>1. report' = {} BY <1>10 DEF AuditFails
  <2> QED BY <1>10, <2>1 DEF AuditFails
<1>11. CASE UNCHANGED auditVars BY <1>11 DEF auditVars, ttlVars
<1> QED BY <1>1, <1>2, <1>3, <1>4, <1>5, <1>6, <1>7, <1>8, <1>9, <1>10, <1>11 DEF AuditNext

\* A step that leaves the handlers and the counts alone.
LEMMA Aside ==
    ASSUME Busy, Heard, UNCHANGED <<at, cmd, sent, answered>>,
           rec'.counts = rec.counts, rec'.bigValues = rec.bigValues
    PROVE  Busy' /\ Heard'
<1>1. \A m : SizedBig(m)' <=> SizedBig(m) BY DEF SizedBig, Big, Stored, Sized
<1>2. \A m : Recorded(m)' <=> Recorded(m) BY <1>1 DEF Recorded
<1>3. Busy' BY <1>2 DEF Busy
<1>4. Heard' BY <1>1, <1>2 DEF Heard
<1> QED BY <1>3, <1>4

LEMMA HandlersStep ==
    ASSUME AuditTypeOK, Busy, Heard, [AuditNext]_auditVars
    PROVE  Busy' /\ Heard'
<1>0. /\ answered \subseteq sent /\ sent \subseteq CommandType
      /\ at \in [Conn -> {"read", "observe", "decide", "closed"}]
      /\ cmd \in [Conn -> {<<>>} \cup {<<m>> : m \in Commands}]
  BY CommandsAssumption DEF AuditTypeOK
<1>b. \A m : SizedBig(m)' <=> SizedBig(m) BY DEF SizedBig, Big, Stored, Sized
<1>r. rec' = rec => \A m : Recorded(m)' <=> Recorded(m) BY <1>b DEF Recorded
<1>1. ASSUME NEW c \in Conn, NEW m \in Commands, Read(c, m) PROVE Busy' /\ Heard'
  <2>1. /\ at' = [at EXCEPT ![c] = "observe"] /\ cmd' = [cmd EXCEPT ![c] = <<m>>]
        /\ sent' = sent \cup {m} /\ rec' = rec /\ answered' = answered
    BY <1>1 DEF Read, Handles
  <2>2. Busy'
    <3>1. ASSUME NEW d \in Conn
          PROVE  /\ at'[d] = "observe" => \E k \in sent' : cmd'[d] = <<k>>
                 /\ at'[d] = "decide" => \E k \in sent' : cmd'[d] = <<k>> /\ Recorded(k)'
      <4>1. CASE d = c
        <5>1. at'[d] = "observe" /\ cmd'[d] = <<m>> /\ m \in sent' BY <1>0, <2>1, <4>1
        <5> QED BY <5>1
      <4>2. CASE d # c
        <5>1. at'[d] = at[d] /\ cmd'[d] = cmd[d] /\ sent \subseteq sent' BY <1>0, <2>1, <4>2
        <5> QED BY <1>r, <2>1, <5>1 DEF Busy
      <4> QED BY <4>1, <4>2
    <3> QED BY <3>1 DEF Busy
  <2>3. sent \subseteq sent' BY <2>1
  <2>4. Heard' BY <1>b, <1>r, <2>1, <2>3 DEF Heard
  <2> QED BY <2>2, <2>4
<1>2. ASSUME NEW c \in Conn, Observe(c) PROVE Busy' /\ Heard'
  <2>1. /\ at[c] = "observe" /\ at' = [at EXCEPT ![c] = "decide"]
        /\ cmd' = cmd /\ sent' = sent /\ answered' = answered
    BY <1>2 DEF Observe, Handles
  <2>2. PICK m \in sent : cmd[c] = <<m>> /\ cmd[c][1] = m /\ m.name \in Name
    BY <2>1, AtWork
  <2>3. /\ Recorded(cmd[c][1])'
        /\ \A k \in CommandType : Recorded(k) => Recorded(k)'
        /\ \A n \in Name : rec'.counts[n] > 0 => rec.counts[n] > 0 \/ n = cmd[c][1].name
        /\ rec'.bigValues > 0 => rec.bigValues > 0 \/ SizedBig(cmd[c][1])
    BY <1>2, ObserveKeeps
  <2>4. Recorded(m)' BY <2>1, <2>2, <2>3 DEF Recorded, SizedBig, Big, Stored, Sized
  <2>5. Busy'
    <3>1. ASSUME NEW d \in Conn
          PROVE  /\ at'[d] = "observe" => \E k \in sent' : cmd'[d] = <<k>>
                 /\ at'[d] = "decide" => \E k \in sent' : cmd'[d] = <<k>> /\ Recorded(k)'
      <4>1. CASE d = c
        <5>1. at'[d] = "decide" /\ cmd'[d] = <<m>> /\ m \in sent' BY <1>0, <2>1, <2>2, <4>1
        <5> QED BY <2>4, <5>1
      <4>2. CASE d # c
        <5>1. at'[d] = at[d] /\ cmd'[d] = cmd[d] BY <1>0, <2>1, <4>2
        <5> QED BY <1>0, <2>1, <2>3, <5>1 DEF Busy
      <4> QED BY <4>1, <4>2
    <3> QED BY <3>1 DEF Busy
  <2>6. \A k \in answered' : Recorded(k)'
    <3>1. \A k \in answered : k \in CommandType /\ Recorded(k) BY <1>0 DEF Heard
    <3> QED BY <2>1, <2>3, <3>1
  <2>7. \A n \in Name : rec'.counts[n] > 0 => \E k \in sent' : k.name = n
    BY <2>1, <2>2, <2>3 DEF Heard
  <2>8. rec'.bigValues > 0 => \E k \in sent' : SizedBig(k)'
    BY <1>b, <2>1, <2>2, <2>3 DEF Heard
  <2>9. Heard' BY <2>6, <2>7, <2>8 DEF Heard
  <2> QED BY <2>5, <2>9
<1>3. ASSUME NEW c \in Conn, Answer(c) PROVE Busy' /\ Heard'
  <2>1. /\ at[c] = "decide" /\ at' = [at EXCEPT ![c] = "read"]
        /\ cmd' = [cmd EXCEPT ![c] = <<>>]
        /\ sent' = sent /\ rec' = rec /\ answered' = answered \cup {cmd[c][1]}
    BY <1>3 DEF Answer, Handles
  <2>2. PICK m \in sent : cmd[c][1] = m /\ Recorded(m) BY <2>1, AtWork
  <2>3. Busy'
    <3>1. \A d \in Conn : at'[d] \in {"observe", "decide"} => at'[d] = at[d] /\ cmd'[d] = cmd[d]
      BY <1>0, <2>1
    <3> QED BY <1>r, <2>1, <3>1 DEF Busy
  <2>4. Heard' BY <1>b, <1>r, <2>1, <2>2 DEF Heard
  <2> QED BY <2>3, <2>4
<1>4. ASSUME NEW c \in Conn, Drop(c) PROVE Busy' /\ Heard'
  <2>1. /\ at[c] = "decide" /\ at' = [at EXCEPT ![c] = "closed"]
        /\ cmd' = [cmd EXCEPT ![c] = <<>>]
        /\ sent' = sent /\ rec' = rec /\ answered' = answered
    BY <1>4 DEF Drop, Handles
  <2>2. Busy'
    <3>1. \A d \in Conn : at'[d] \in {"observe", "decide"} => at'[d] = at[d] /\ cmd'[d] = cmd[d]
      BY <1>0, <2>1
    <3> QED BY <1>r, <2>1, <3>1 DEF Busy
  <2>3. Heard' BY <1>b, <1>r, <2>1 DEF Heard
  <2> QED BY <2>2, <2>3
<1>5. CASE NextPhase
  <2>1. rec'.counts = rec.counts /\ rec'.bigValues = rec.bigValues
    BY <1>5 DEF NextPhase, SetScenario, AuditTypeOK, RecorderType
  <2> QED BY <1>5, <2>1, Aside DEF NextPhase
<1>6. CASE UNCHANGED traffic BY <1>6, Aside DEF traffic
<1>7. CASE Audit BY <1>6, <1>7 DEF Audit
<1>8. CASE Dial BY <1>6, <1>8 DEF Dial
<1>9. CASE AuditTTL BY <1>6, <1>9 DEF AuditTTL
<1>10. CASE Return BY <1>6, <1>10 DEF Return
<1>11. CASE AuditFails BY <1>6, <1>11 DEF AuditFails
<1>12. CASE UNCHANGED auditVars BY <1>6, <1>12 DEF auditVars
<1> QED
  BY <1>1, <1>2, <1>3, <1>4, <1>5, <1>7, <1>8, <1>9, <1>10, <1>11, <1>12 DEF AuditNext

LEMMA JudgedStep ==
    ASSUME AuditTypeOK, Judged, [AuditNext]_auditVars
    PROVE  Judged'
<1>0. report # {} => stage = "returned" BY DEF AuditTypeOK
<1>1. ASSUME stage = "traffic", stage' \in {"traffic", "failed"}, report' = report
      PROVE  Judged'
  BY <1>0, <1>1 DEF Judged
<1>2. CASE \E c \in Conn : Observe(c) \/ Answer(c) \/ Drop(c) \/ \E m \in Commands : Read(c, m)
  BY <1>1, <1>2 DEF Observe, Answer, Drop, Read, Handles
<1>3. CASE NextPhase BY <1>1, <1>3 DEF NextPhase
<1>4. rec' = rec => Contract' = Contract BY DEF Contract
<1>5. CASE Audit BY <1>0, <1>4, <1>5 DEF Audit, traffic, Judged
<1>6. CASE Dial BY <1>0, <1>4, <1>6 DEF Dial, traffic, Judged
<1>7. CASE AuditTTL BY <1>0, <1>4, <1>7 DEF AuditTTL, traffic, Judged
<1>8. CASE Return
  <2>1. contract = Contract /\ contract' = contract /\ Contract' = Contract
    BY <1>4, <1>8 DEF Return, traffic, Judged
  <2>2. ASSUME NEW r \in report'
        PROVE  /\ r.commands = contract'.commands /\ r.values = contract'.values
               /\ r.pass <=> r.commands = {} /\ r.values = 0 /\ r.ttl = <<>>
    <3>1. r = [commands |-> contract.commands, values |-> contract.values,
               ttl |-> findings,
               pass |-> contract.commands = {} /\ contract.values = 0 /\ findings = <<>>]
      BY <1>8 DEF Return
    <3>2. r.commands = contract.commands /\ r.values = contract.values /\ r.ttl = findings
      BY <3>1
    <3>3. r.pass = (contract.commands = {} /\ contract.values = 0 /\ findings = <<>>)
      BY <3>1, Zenon
    <3> QED BY <2>1, <3>2, <3>3
  <2> QED BY <2>1, <2>2 DEF Judged
<1>9. CASE AuditFails BY <1>0, <1>9 DEF AuditFails, Judged
<1>10. CASE UNCHANGED auditVars
  BY <1>4, <1>10 DEF auditVars, traffic, Judged
<1> QED BY <1>2, <1>3, <1>5, <1>6, <1>7, <1>8, <1>9, <1>10 DEF AuditNext

LEMMA StepTraffic ==
    IInv /\ TrafficInv /\ [AuditNext]_auditVars => TrafficInv'
<1> SUFFICES ASSUME IInv, TrafficInv, [AuditNext]_auditVars PROVE TrafficInv' OBVIOUS
<1>1. TypeOK' BY ImplementsTTLAudit, StepIInv DEF IInv
<1>2. AuditTypeOK' BY <1>1, AuditTypeStep DEF TrafficInv
<1>3. Busy' /\ Heard' BY HandlersStep DEF TrafficInv
<1>4. Judged' BY JudgedStep DEF TrafficInv
<1> QED BY <1>2, <1>3, <1>4 DEF TrafficInv

-----------------------------------------------------------------------------
(* The theorems. *)

\* Under any traffic the part of a run that Audit spends on the keys is an
\* audit of TTLAudit: handlers and scenarios do not interfere with it.
THEOREM Refinement == AuditSpec => Spec
<1>1. Spec <=> Init /\ [][Next]_ttlVars BY DEF Spec, ttlVars
<1> QED BY <1>1, ImplementsTTLAudit, PTL DEF AuditSpec

\* The audit of the keys stays within its types, MaxKeysScanned among them:
\* it never asks for the TTL of more keys than the cap allows.
THEOREM TypeCorrect == AuditSpec => []TypeOK
<1>1. AuditInit => IInv BY ImplementsTTLAudit, InitIInv
<1>2. IInv /\ [AuditNext]_auditVars => IInv' BY ImplementsTTLAudit, StepIInv
<1>3. IInv => TypeOK BY DEF IInv
<1> QED BY <1>1, <1>2, <1>3, PTL DEF AuditSpec

\* Every finding about a pattern is true of one of its keys, when every
\* max_ttl is a whole number of seconds.
THEOREM FindingsCorrect == WholeSeconds => (AuditSpec => []FindingsTrue)
<1> SUFFICES ASSUME WholeSeconds PROVE AuditSpec => []FindingsTrue OBVIOUS
<1> DEFINE Inv == IInv /\ Truth
<1>1. AuditInit => Inv BY ImplementsTTLAudit, InitIInv, InitTruth
<1>2. Inv /\ [AuditNext]_auditVars => Inv'
  <2> SUFFICES ASSUME Inv, [AuditNext]_auditVars PROVE Inv' OBVIOUS
  <2>1. [Next]_ttlVars BY ImplementsTTLAudit
  <2>2. IInv' BY <2>1, StepIInv
  <2>3. Truth' BY <2>1, TruthStep DEF IInv
  <2> QED BY <2>2, <2>3
<1>3. Inv => FindingsTrue
  <2> SUFFICES ASSUME Inv PROVE FindingsTrue OBVIOUS
  <2>1. ASSUME NEW j \in DOMAIN findings
        PROVE  \E k \in Patterns[findings[j].pattern].keys :
                    k \in touched \/ Violates(k, Patterns[findings[j].pattern], findings[j].kind)
    <3>1. findings[j] \in Returned(findings) BY <2>1 DEF Returned
    <3>2. PICK k \in Key : Objected(k, findings[j].pattern, findings[j].kind)
      BY <3>1 DEF Truth
    <3> QED BY <3>2 DEF Objected
  <2> QED BY <2>1 DEF FindingsTrue
<1> HIDE DEF Inv
<1> QED BY <1>1, <1>2, <1>3, PTL DEF AuditSpec

\* An audit that its cap did not cut short has found every pattern with a key
\* that was there all along and has no expiration, or a second too much.
THEOREM CompleteCorrect == AuditSpec => []AuditComplete
<1>1. AuditInit => IInv BY ImplementsTTLAudit, InitIInv
<1>2. IInv /\ [AuditNext]_auditVars => IInv' BY ImplementsTTLAudit, StepIInv
<1>3. IInv => AuditComplete
  <2> SUFFICES ASSUME IInv, pc = "done", ~Full,
                      NEW i \in DOMAIN Patterns, NEW k \in Patterns[i].keys \ touched
               PROVE  /\ Violates(k, Patterns[i], "no expiration") =>
                            [pattern |-> i, kind |-> "no expiration"] \in Returned(findings)
                      /\ Patterns[i].maxTTL > 0 /\ ttl[k] >= Patterns[i].maxTTL + 1000 =>
                            [pattern |-> i, kind |-> "exceed max_ttl"] \in Returned(findings)
    BY DEF AuditComplete
  <2>1. k \in Key BY PatternFacts
  <2>2. i \in 1..(p - 1)
    <3>1. p = Len(Patterns) + 1 BY DEF IInv, Place
    <3> QED BY <3>1, PatternFacts
  <2>3. \A kind \in Kind : Past(k, kind) BY <2>1 DEF IInv, Completeness
  <2>4. \A kind \in Kind : Missable(k, i, kind) =>
            [pattern |-> i, kind |-> kind] \in Returned(findings)
    BY <2>2, <2>3 DEF Past
  <2>5. "no expiration" \in Kind /\ "exceed max_ttl" \in Kind BY DEF Kind
  <2>6. Violates(k, Patterns[i], "no expiration") => Missable(k, i, "no expiration")
    BY DEF Violates, Missable, Amiss
  <2>7. Patterns[i].maxTTL > 0 /\ ttl[k] >= Patterns[i].maxTTL + 1000 =>
            Missable(k, i, "exceed max_ttl")
    BY DEF Missable, Amiss
  <2>8. Violates(k, Patterns[i], "no expiration") =>
            [pattern |-> i, kind |-> "no expiration"] \in Returned(findings)
    BY <2>4, <2>5, <2>6
  <2>9. Patterns[i].maxTTL > 0 /\ ttl[k] >= Patterns[i].maxTTL + 1000 =>
            [pattern |-> i, kind |-> "exceed max_ttl"] \in Returned(findings)
    BY <2>4, <2>5, <2>7, Zenon
  <2> QED BY <2>8, <2>9
<1> QED BY <1>1, <1>2, <1>3, PTL DEF AuditSpec

\* The audit and the traffic stay within their types; in the recorder, whatever
\* the handlers and the orchestrator do to it in whatever order, the rows are
\* the sum of the counts, and each count the sum of its scenarios'.
THEOREM AuditTypeCorrect == AuditSpec => []AuditTypeOK
<1> DEFINE Inv == IInv /\ TrafficInv
<1>1. AuditInit => Inv BY ImplementsTTLAudit, InitIInv, InitTraffic
<1>2. Inv /\ [AuditNext]_auditVars => Inv' BY ImplementsTTLAudit, StepIInv, StepTraffic
<1>3. Inv => AuditTypeOK BY DEF TrafficInv
<1> HIDE DEF Inv
<1> QED BY <1>1, <1>2, <1>3, PTL DEF AuditSpec

\* The findings from the recorder are about the traffic of the run, whatever it
\* is: a suspicious command that is found was sent, and when a value is found some
\* value that Redis was to store is too big.  What was answered before the audit
\* is found: a suspicious command, and a value that is too big of a command of
\* Sized; one of any other command is not looked at.  The report passes exactly
\* when nothing was found.
THEOREM TrafficCorrect == AuditSpec => []AuditMeansTraffic
<1> DEFINE Inv == IInv /\ TrafficInv
<1>1. AuditInit => Inv BY ImplementsTTLAudit, InitIInv, InitTraffic
<1>2. Inv /\ [AuditNext]_auditVars => Inv' BY ImplementsTTLAudit, StepIInv, StepTraffic
<1>3. Inv => AuditMeansTraffic
  <2> SUFFICES ASSUME TrafficInv, NEW r \in report
               PROVE  /\ r.commands \subseteq {m.name : m \in sent} \cap Suspicious
                      /\ r.values > 0 => \E m \in sent : Big(m)
                      /\ \A m \in answered :
                          /\ Disposable /\ m.name \in Suspicious => m.name \in r.commands
                          /\ m.name \in Sized /\ Big(m) => r.values > 0
                      /\ r.pass <=> r.commands = {} /\ r.values = 0 /\ r.ttl = <<>>
    BY DEF AuditMeansTraffic
  <2>1. contract = Contract BY DEF TrafficInv, AuditTypeOK, Judged
  <2>2. /\ r.commands = {n \in Suspicious : Disposable /\ rec.counts[n] > 0}
        /\ r.values = rec.bigValues
    BY <2>1 DEF TrafficInv, Judged, Contract
  <2>3. \A n \in Suspicious : n \in Name BY SuspiciousAssumption
  <2>4. r.commands \subseteq {m.name : m \in sent} \cap Suspicious
    BY <2>2, <2>3 DEF TrafficInv, Heard
  <2>5. r.values > 0 => \E m \in sent : Big(m) BY <2>2 DEF TrafficInv, Heard, SizedBig
  <2>6. ASSUME NEW m \in answered
        PROVE  /\ Disposable /\ m.name \in Suspicious => m.name \in r.commands
               /\ m.name \in Sized /\ Big(m) => r.values > 0
    BY <2>2 DEF TrafficInv, Heard, Recorded, SizedBig
  <2>7. r.pass <=> r.commands = {} /\ r.values = 0 /\ r.ttl = <<>>
    BY DEF TrafficInv, Judged
  <2> QED BY <2>4, <2>5, <2>6, <2>7
<1> HIDE DEF Inv
<1> QED BY <1>1, <1>2, <1>3, PTL DEF AuditSpec
=============================================================================
