-------------------------- MODULE ProxySessionProofs --------------------------
(***************************************************************************)
(* Type correctness of ProxySession, that replies keep their order and     *)
(* commands are answered once, and what it says of transactions and of the *)
(* protocol version, for conversations of any length.  The handler and     *)
(* Redis each keep a state of their own, and both follow from the replies; *)
(* their order is what lets one speak of the reply to a command.           *)
(***************************************************************************)
EXTENDS ProxySession, TLAPS

\* Where commands and replies are, subscriptions or not.
Places ==
    /\ reached \subseteq 1..Len(asked)
    /\ \A i \in DOMAIN pending : pending[i] \in reached
    /\ \A i \in DOMAIN out : out[i].kind # "nil" /\ out[i].to \in 0..Len(asked)
    /\ \A i \in DOMAIN got : got[i].to \in 0..Len(asked)

\* What is under way: nothing while the handler reads the app, and one command
\* or its reply while it waits.
Idle == pending = <<>> /\ out = <<>> /\ Len(got) = Len(asked)
OneUnderWay ==
    /\ Len(asked) = Len(got) + 1
    /\ \/ pending = <<Len(asked)>> /\ out = <<>>
       \/ pending = <<>> /\ Len(out) = 1 /\ out[1].to = Len(asked)

\* Redis sends one reply per command: the two sides go in lockstep.
Lockstep ==
    OneReplyEach =>
        /\ ~subscribed
        /\ RepliesInOrder
        /\ pc = "read" => Idle
        /\ pc = "await" => OneUnderWay

IInv == TypeOK /\ Places /\ Lockstep /\ AnsweredOnce

-----------------------------------------------------------------------------
(* Sequences. *)

LEMMA SingletonFacts ==
    ASSUME NEW S, NEW x \in S
    PROVE  <<x>> \in Seq(S) /\ Len(<<x>>) = 1 /\ DOMAIN <<x>> = 1..1 /\ <<x>>[1] = x
OBVIOUS

LEMMA AppendFacts ==
    ASSUME NEW S, NEW s \in Seq(S), NEW x \in S
    PROVE  /\ Append(s, x) \in Seq(S)
           /\ Len(Append(s, x)) = Len(s) + 1
           /\ DOMAIN Append(s, x) = 1..(Len(s) + 1)
           /\ DOMAIN s = 1..Len(s)
           /\ Len(s) \in Nat
           /\ \A i \in 1..Len(s) : Append(s, x)[i] = s[i]
           /\ Append(s, x)[Len(s) + 1] = x
OBVIOUS

LEMMA TailFacts ==
    ASSUME NEW S, NEW s \in Seq(S), s # <<>>
    PROVE  /\ Head(s) \in S /\ Head(s) = s[1] /\ 1 \in DOMAIN s
           /\ Tail(s) \in Seq(S)
           /\ Len(Tail(s)) = Len(s) - 1
           /\ DOMAIN Tail(s) = 1..(Len(s) - 1)
           /\ DOMAIN s = 1..Len(s)
           /\ \A i \in 1..(Len(s) - 1) : Tail(s)[i] = s[i + 1]
OBVIOUS

LEMMA ConcatFacts ==
    ASSUME NEW S, NEW s \in Seq(S), NEW t \in Seq(S)
    PROVE  /\ s \o t \in Seq(S)
           /\ Len(s \o t) = Len(s) + Len(t)
           /\ DOMAIN (s \o t) = 1..(Len(s) + Len(t))
           /\ DOMAIN s = 1..Len(s) /\ DOMAIN t = 1..Len(t)
           /\ Len(s) \in Nat /\ Len(t) \in Nat
           /\ \A i \in 1..Len(s) : (s \o t)[i] = s[i]
           /\ \A i \in 1..Len(t) : (s \o t)[Len(s) + i] = t[i]
           /\ s = <<>> => s \o t = t
OBVIOUS

LEMMA EmptyFacts ==
    ASSUME NEW S
    PROVE  <<>> \in Seq(S) /\ Len(<<>>) = 0 /\ DOMAIN <<>> = {}
OBVIOUS

-----------------------------------------------------------------------------
(* The parts of a step. *)

LEMMA VerdictFacts ==
    ASSUME NEW e \in Engine, NEW cmd
    PROVE  Verdict(e, cmd) \in {"drop", "reject", "miss", "forward"}
BY DEF Verdict, Decide, Engine, RefuseConnections, PassThrough, RandomMiss,
       Unavailable

\* What the handler answers itself is a reply.
LEMMA AnswerFacts ==
    ASSUME TypeOK, NEW n \in 1..MaxCommands, NEW kind \in Kinds
    PROVE  /\ Answer(n, kind) \in Reply
           /\ [Answer(n, kind) EXCEPT !.proto = 2] \in Reply
           /\ Answer(n, kind).to = n /\ Answer(n, kind).kind = kind
           /\ [Answer(n, kind) EXCEPT !.proto = 2].to = n
           /\ [Answer(n, kind) EXCEPT !.proto = 2].kind = kind
<1>1. n \in 0..MaxCommands BY BoundsAssumption
<1>2. {} \in SUBSET (1..MaxCommands) OBVIOUS
<1>3. Answer(n, kind) \in Reply BY <1>1, <1>2 DEF Answer, Reply
<1>4. [Answer(n, kind) EXCEPT !.proto = 2] \in Reply
  BY <1>1, <1>2 DEF Answer, Reply
<1>5. Answer(n, kind).to = n /\ Answer(n, kind).kind = kind BY DEF Answer
<1>6. /\ [Answer(n, kind) EXCEPT !.proto = 2].to = n
      /\ [Answer(n, kind) EXCEPT !.proto = 2].kind = kind
  BY DEF Answer
<1> QED BY <1>3, <1>4, <1>5, <1>6

\* A reply of Redis to command n.
Replies(n) == {r \in Reply : r.to = n /\ r.kind # "nil"}

LEMMA SaysFacts ==
    ASSUME TypeOK, NEW n \in 0..MaxCommands, NEW kind \in Kinds \ {"nil"}
    PROVE  /\ Says(n, kind) \in Replies(n)
           /\ [Says(n, kind) EXCEPT !.results = queued] \in Replies(n)
           /\ \A v \in {2, 3} : [Says(n, kind) EXCEPT !.proto = v] \in Replies(n)
<1>1. proto \in {2, 3} /\ queued \in SUBSET (1..MaxCommands) BY DEF TypeOK
<1>2. {} \in SUBSET (1..MaxCommands) /\ kind \in Kinds /\ kind # "nil" OBVIOUS
<1>3. Says(n, kind) \in Replies(n) BY <1>1, <1>2 DEF Says, Reply, Replies
<1>4. [Says(n, kind) EXCEPT !.results = queued] \in Replies(n)
  BY <1>1, <1>2 DEF Says, Reply, Replies
<1>5. ASSUME NEW v \in {2, 3}
      PROVE  [Says(n, kind) EXCEPT !.proto = v] \in Replies(n)
  BY <1>1, <1>2 DEF Says, Reply, Replies
<1> QED BY <1>3, <1>4, <1>5

\* What is Redis's own stays well typed.
RedisOK ==
    /\ tx \in BOOLEAN
    /\ queued \in SUBSET (1..MaxCommands)
    /\ hello \in {0, 2, 3}
    /\ proto \in {2, 3}
    /\ subscribed \in BOOLEAN

\* A command but SUBSCRIBE has one reply and subscribes to nothing.
Answered(n, replies) ==
    /\ replies \in Seq(Replies(n))
    /\ out' = out \o replies
    /\ asked[n].name # "SUBSCRIBE" =>
        Len(replies) = 1 /\ (subscribed' => subscribed)

LEMMA OneAnswer ==
    ASSUME TypeOK, NEW n, NEW r \in Replies(n), Respond(<<r>>),
           subscribed' => subscribed
    PROVE  \E replies : Answered(n, replies)
<1>1. <<r>> \in Seq(Replies(n)) /\ Len(<<r>>) = 1 BY SingletonFacts
<1>2. Answered(n, <<r>>) BY <1>1 DEF Answered, Respond
<1> QED BY <1>2

\* However Redis executes a command, this is what it comes to.
LEMMA ExecuteEffect ==
    ASSUME TypeOK, Places, Execute
    PROVE  /\ pending # <<>>
           /\ pending' = Tail(pending)
           /\ RedisOK'
           /\ \E replies : Answered(Head(pending), replies)
<1> DEFINE n == Head(pending)
           cmd == asked[n]
<1>1. /\ pending # <<>> /\ pending \in Seq(1..MaxCommands)
      /\ pending' = Tail(pending)
  BY DEF Execute, TypeOK
<1>2. n \in reached /\ n \in 1..MaxCommands
  BY <1>1, TailFacts DEF Places
<1>3. n \in 1..Len(asked) BY <1>2 DEF Places
<1>4. cmd \in Commands BY <1>3 DEF TypeOK
<1>5. cmd.version \in {0, 2, 3} BY <1>4, SessionAssumption DEF SessionCommand
<1>6. n \in 0..MaxCommands BY <1>2, BoundsAssumption
<1>7. RedisOK BY DEF TypeOK, RedisOK
<1>8. \A kind \in Kinds \ {"nil"} :
        /\ Says(n, kind) \in Replies(n)
        /\ [Says(n, kind) EXCEPT !.results = queued] \in Replies(n)
        /\ \A v \in {2, 3} : [Says(n, kind) EXCEPT !.proto = v] \in Replies(n)
  BY <1>6, SaysFacts
<1>9. {"ok", "error", "queued", "exec", "message"} \subseteq Kinds \ {"nil"}
  BY DEF Kinds
<1> HIDE DEF n, cmd
<1>10. CASE OpenTx(n)
  <2>1. RedisOK' BY <1>7, <1>10 DEF OpenTx, RedisOK
  <2>2. \E replies : Answered(n, replies)
    <3> DEFINE r == Says(n, IF tx THEN "error" ELSE "ok")
    <3>1. r \in Replies(n) BY <1>8, <1>9
    <3>2. Respond(<<r>>) /\ (subscribed' => subscribed) BY <1>10 DEF OpenTx
    <3> HIDE DEF r
    <3> QED BY <3>1, <3>2, OneAnswer
  <2> QED BY <2>1, <2>2, <1>1 DEF n
<1>11. CASE ExecTx(n)
  <2>1. RedisOK' BY <1>7, <1>11 DEF ExecTx, CloseTx, RedisOK
  <2>2. \E replies : Answered(n, replies)
    <3> DEFINE r == IF tx THEN [Says(n, "exec") EXCEPT !.results = queued]
                    ELSE Says(n, "error")
    <3>1. r \in Replies(n) BY <1>8, <1>9
    <3>2. Respond(<<r>>) /\ (subscribed' => subscribed) BY <1>11 DEF ExecTx
    <3> HIDE DEF r
    <3> QED BY <3>1, <3>2, OneAnswer
  <2> QED BY <2>1, <2>2, <1>1 DEF n
<1>12. CASE DiscardTx(n)
  <2>1. RedisOK' BY <1>7, <1>12 DEF DiscardTx, CloseTx, RedisOK
  <2>2. \E replies : Answered(n, replies)
    <3> DEFINE r == Says(n, IF tx THEN "ok" ELSE "error")
    <3>1. r \in Replies(n) BY <1>8, <1>9
    <3>2. Respond(<<r>>) /\ (subscribed' => subscribed) BY <1>12 DEF DiscardTx
    <3> HIDE DEF r
    <3> QED BY <3>1, <3>2, OneAnswer
  <2> QED BY <2>1, <2>2, <1>1 DEF n
<1>13. CASE ResetConn(n)
  <2>1. RedisOK' BY <1>7, <1>13 DEF ResetConn, CloseTx, RedisOK
  <2>2. Says(n, "ok") \in Replies(n) BY <1>8, <1>9
  <2>3. Respond(<<Says(n, "ok")>>) /\ (subscribed' => subscribed)
    BY <1>13 DEF ResetConn
  <2> QED BY <2>1, <2>2, <2>3, <1>1, OneAnswer DEF n
<1>14. CASE Queue(n, cmd)
  <2>1. RedisOK' BY <1>2, <1>5, <1>7, <1>14 DEF Queue, RedisOK
  <2>2. Says(n, "queued") \in Replies(n) BY <1>8, <1>9
  <2>3. Respond(<<Says(n, "queued")>>) /\ (subscribed' => subscribed)
    BY <1>14 DEF Queue
  <2> QED BY <2>1, <2>2, <2>3, <1>1, OneAnswer DEF n
<1>15. CASE Greet(n, cmd)
  <2>1. RedisOK' BY <1>5, <1>7, <1>15 DEF Greet, RedisOK
  <2>2. \E r \in Replies(n) : Respond(<<r>>)
    <3>1. CASE cmd.version # 0 /\ Respond(<<[Says(n, "ok") EXCEPT !.proto = cmd.version]>>)
      BY <3>1, <1>5, <1>8, <1>9
    <3>2. CASE Respond(<<Says(n, "error")>>) BY <3>2, <1>8, <1>9
    <3> QED BY <3>1, <3>2, <1>15 DEF Greet
  <2>3. subscribed' => subscribed BY <1>15 DEF Greet
  <2> QED BY <2>1, <2>2, <2>3, <1>1, OneAnswer DEF n
<1>16. CASE cmd.name = "SUBSCRIBE" /\ Subscribe(n)
  <2>1. RedisOK' BY <1>7, <1>16 DEF Subscribe, RedisOK
  <2>2. Says(n, "ok") \in Replies(n) /\ Says(n, "message") \in Replies(n)
    BY <1>8, <1>9
  <2>3. <<Says(n, "ok"), Says(n, "message")>> \in Seq(Replies(n)) BY <2>2
  <2>4. Answered(n, <<Says(n, "ok"), Says(n, "message")>>)
    BY <2>3, <1>16 DEF Answered, Subscribe, Respond, cmd
  <2> QED BY <2>1, <2>4, <1>1 DEF n
<1>17. CASE Serve(n)
  <2>1. RedisOK' BY <1>7, <1>17 DEF Serve, RedisOK, redis
  <2>2. \E replies : Answered(n, replies)
    <3> DEFINE r == Says(n, IF subscribed /\ proto = 2 THEN "error" ELSE "ok")
    <3>1. r \in Replies(n) BY <1>8, <1>9
    <3>2. Respond(<<r>>) /\ (subscribed' => subscribed) BY <1>17 DEF Serve, redis
    <3> HIDE DEF r
    <3> QED BY <3>1, <3>2, OneAnswer
  <2> QED BY <2>1, <2>2, <1>1 DEF n
<1> QED
  BY <1>10, <1>11, <1>12, <1>13, <1>14, <1>15, <1>16, <1>17 DEF Execute, n, cmd

-----------------------------------------------------------------------------
(* The steps. *)

LEMMA InitOK == Init => IInv
<1> SUFFICES ASSUME Init PROVE IInv OBVIOUS
<1> USE DEF Init
<1>1. /\ <<>> \in Seq(Commands) /\ <<>> \in Seq(Reply)
      /\ <<>> \in Seq(1..MaxCommands)
      /\ Len(<<>>) = 0 /\ DOMAIN <<>> = {}
  BY EmptyFacts
<1>2. TypeOK
  <2>1. engine \in Engine BY DEF Engine, PassThrough, RandomMiss
  <2>2. pc \in {"read", "await", "closed"} /\ resp3 \in BOOLEAN OBVIOUS
  <2>3. Len(asked) <= MaxCommands /\ Len(pending) <= 1
    BY <1>1, BoundsAssumption
  <2>4. /\ reached \in SUBSET (1..MaxCommands) /\ tx \in BOOLEAN
        /\ queued \in SUBSET (1..MaxCommands) /\ hello \in {0, 2, 3}
        /\ proto \in {2, 3} /\ subscribed \in BOOLEAN
    OBVIOUS
  <2>5. /\ asked \in Seq(Commands) /\ pending \in Seq(1..MaxCommands)
        /\ out \in Seq(Reply) /\ got \in Seq(Reply)
    BY <1>1
  <2> QED BY <2>1, <2>2, <2>3, <2>4, <2>5 DEF TypeOK
<1>3. Places BY <1>1 DEF Places
<1>4. Lockstep BY <1>1 DEF Lockstep, RepliesInOrder, Idle, OneUnderWay
<1>5. AnsweredOnce BY <1>1 DEF AnsweredOnce
<1> QED BY <1>2, <1>3, <1>4, <1>5 DEF IInv

\* Reading a command does not make a connection one of single replies.
LEMMA StillOneReply ==
    ASSUME TypeOK, Places, NEW cmd \in Commands, asked' = Append(asked, cmd),
           reached \subseteq reached'
    PROVE  OneReplyEach' => OneReplyEach
<1>1. \A n \in reached : asked'[n] = asked[n] BY AppendFacts DEF TypeOK, Places
<1> QED BY <1>1 DEF OneReplyEach

LEMMA ReadOK ==
    ASSUME IInv, NEW cmd \in Commands, Read(cmd)
    PROVE  IInv'
<1> DEFINE n == Len(asked) + 1
<1>1. /\ TypeOK /\ Places /\ Lockstep /\ AnsweredOnce BY DEF IInv
<1>2. /\ pc = "read" /\ asked' = Append(asked, cmd)
      /\ Len(asked) < MaxCommands
      /\ UNCHANGED <<engine, tx, queued, hello, proto, subscribed>>
  BY DEF Read, redis
<1>3. /\ asked \in Seq(Commands) /\ Len(asked) \in Nat
      /\ asked' \in Seq(Commands) /\ Len(asked') = n
      /\ \A i \in 1..Len(asked) : asked'[i] = asked[i]
      /\ asked'[n] = cmd
  BY <1>1, <1>2, AppendFacts DEF TypeOK
<1>4. n \in 1..MaxCommands /\ Len(asked') <= MaxCommands
  BY <1>2, <1>3, BoundsAssumption
<1>5. reached \subseteq reached' => (OneReplyEach' => OneReplyEach)
  BY <1>1, <1>2, StillOneReply
<1>6. CASE Drop
  <2>1. UNCHANGED <<pending, out, got, reached, resp3>> /\ pc' = "closed"
    BY <1>6 DEF Drop
  <2>2. TypeOK' BY <1>1, <1>2, <1>3, <1>4, <1>5, <2>1 DEF TypeOK
  <2>3. Places' BY <1>1, <1>3, <2>1 DEF Places
  <2>4. Lockstep' BY <1>1, <1>2, <1>5, <2>1 DEF Lockstep, RepliesInOrder
  <2>5. AnsweredOnce' BY <1>1, <2>1 DEF AnsweredOnce
  <2> QED BY <2>2, <2>3, <2>4, <2>5 DEF IInv
<1>7. ASSUME NEW r \in Reply, r.to = n, got' = Append(got, r),
             UNCHANGED <<pc, resp3, pending, out, reached>>
      PROVE  IInv'
  <2> DEFINE m == Len(got) + 1
  <2>1. /\ got' \in Seq(Reply) /\ Len(got') = m /\ DOMAIN got' = 1..m
        /\ DOMAIN got = 1..Len(got) /\ Len(got) \in Nat
        /\ \A i \in 1..Len(got) : got'[i] = got[i]
        /\ got'[m] = r
    BY <1>1, <1>7, AppendFacts DEF TypeOK
  <2>2. TypeOK' BY <1>1, <1>2, <1>3, <1>4, <1>5, <1>7, <2>1 DEF TypeOK
  <2>3. Places' BY <1>1, <1>3, <1>7, <2>1 DEF Places
  <2>4. ASSUME OneReplyEach' PROVE Len(got) = Len(asked) /\ Idle /\ RepliesInOrder /\ ~subscribed
    BY <1>1, <1>2, <1>5, <1>7, <2>4 DEF Lockstep, Idle
  <2>5. Lockstep'
    <3> SUFFICES ASSUME OneReplyEach'
                 PROVE  ~subscribed' /\ RepliesInOrder' /\ Idle' /\ pc' = "read"
      BY DEF Lockstep
    <3>1. Idle' BY <1>3, <1>7, <2>1, <2>4 DEF Idle
    <3>2. \A i \in DOMAIN got' : got'[i].to = i
      <4> TAKE i \in DOMAIN got'
      <4>1. CASE i \in 1..Len(got)
        BY <1>5, <1>7, <2>1, <2>4, <4>1 DEF RepliesInOrder
      <4>2. CASE i = m BY <1>7, <2>1, <2>4, <4>2
      <4> QED BY <2>1, <4>1, <4>2
    <3> QED BY <1>2, <1>7, <2>4, <3>1, <3>2 DEF RepliesInOrder
  <2>6. \A i \in DOMAIN got' : got'[i].kind = "nil" => got'[i].to \notin reached'
    <3> TAKE i \in DOMAIN got'
    <3>1. CASE i \in 1..Len(got) BY <1>1, <1>7, <2>1, <3>1 DEF AnsweredOnce
    <3>2. CASE i = m BY <1>1, <1>3, <1>7, <2>1, <3>2 DEF Places
    <3> QED BY <2>1, <3>1, <3>2
  <2>7. ASSUME NEW i \in 1..Len(asked')
        PROVE  i \in reached' \/ (\E j \in DOMAIN got' : got'[j].to = i) \/ pc' = "closed"
    <3>1. CASE i \in 1..Len(asked)
      <4>1. i \in reached \/ (\E j \in DOMAIN got : got[j].to = i) \/ pc = "closed"
        BY <1>1, <3>1 DEF AnsweredOnce
      <4>2. \A j \in DOMAIN got : j \in DOMAIN got' /\ got'[j] = got[j]
        BY <2>1
      <4> QED BY <1>7, <4>1, <4>2
    <3>2. CASE i = n
      <4>1. m \in DOMAIN got' /\ got'[m].to = i BY <1>7, <2>1, <3>2
      <4> QED BY <4>1
    <3> QED BY <1>3, <3>1, <3>2
  <2> QED BY <2>2, <2>3, <2>5, <2>6, <2>7 DEF IInv, AnsweredOnce
<1>8. CASE Reject(n)
  <2>1. "error" \in Kinds BY DEF Kinds
  <2>2. /\ [Answer(n, "error") EXCEPT !.proto = 2] \in Reply
        /\ [Answer(n, "error") EXCEPT !.proto = 2].to = n
    BY <1>1, <1>4, <2>1, AnswerFacts
  <2> QED BY <1>7, <1>8, <2>2 DEF Reject, handler
<1>9. CASE Miss(n)
  <2>1. "nil" \in Kinds BY DEF Kinds
  <2>2. Answer(n, "nil") \in Reply /\ Answer(n, "nil").to = n
    BY <1>1, <1>4, <2>1, AnswerFacts
  <2> QED BY <1>7, <1>9, <2>2 DEF Miss, handler
<1>10. CASE Forward(n)
  <2>1. /\ pc' = "await" /\ pending' = Append(pending, n)
        /\ reached' = reached \cup {n} /\ UNCHANGED <<resp3, out, got>>
    BY <1>10 DEF Forward
  <2>2. /\ pending' \in Seq(1..MaxCommands) /\ Len(pending') = Len(pending) + 1
        /\ DOMAIN pending' = 1..(Len(pending) + 1)
        /\ DOMAIN pending = 1..Len(pending) /\ Len(pending) \in Nat
        /\ \A i \in 1..Len(pending) : pending'[i] = pending[i]
        /\ pending'[Len(pending) + 1] = n
    BY <1>1, <1>4, <2>1, AppendFacts DEF TypeOK
  <2>3. ASSUME OneReplyEach' PROVE Idle /\ RepliesInOrder /\ ~subscribed /\ OneReplyEach
    BY <1>1, <1>2, <1>5, <2>1, <2>3 DEF Lockstep
  <2>4. ASSUME OneReplyEach' PROVE pending' = <<n>>
    BY <2>1, <2>3, <2>4 DEF Idle
  <2>5. TypeOK'
    <3>1. OneReplyEach' => Len(pending') <= 1
      <4> SUFFICES ASSUME OneReplyEach' PROVE Len(pending') <= 1 OBVIOUS
      <4>1. pending' = <<n>> BY <2>4
      <4>2. Len(pending') = 1 BY <4>1
      <4> QED BY <4>2
    <3> QED BY <1>1, <1>2, <1>3, <1>4, <2>1, <2>2, <3>1 DEF TypeOK
  <2>6. Places'
    <3>1. reached' \subseteq 1..Len(asked')
      <4>1. reached \subseteq 1..Len(asked) BY <1>1 DEF Places
      <4>2. 1..Len(asked) \subseteq 1..n /\ n \in 1..n BY <1>3
      <4> QED BY <1>3, <2>1, <4>1, <4>2
    <3>2. \A i \in DOMAIN pending' : pending'[i] \in reached'
      BY <1>1, <2>1, <2>2 DEF Places
    <3> QED BY <1>1, <1>3, <2>1, <3>1, <3>2 DEF Places
  <2>7. Lockstep'
    <3> SUFFICES ASSUME OneReplyEach'
                 PROVE  ~subscribed' /\ RepliesInOrder' /\ OneUnderWay'
      BY <2>1 DEF Lockstep
    <3>1. OneUnderWay'
      BY <1>3, <2>1, <2>3, <2>4 DEF Idle, OneUnderWay
    <3> QED BY <1>2, <2>1, <2>3, <3>1 DEF RepliesInOrder
  <2>8. AnsweredOnce'
    <3>1. \A i \in DOMAIN got : got[i].to # n BY <1>1, <1>3 DEF Places
    <3>2. \A i \in 1..Len(asked') : i \in 1..Len(asked) \/ i = n BY <1>3
    <3>3. pc # "closed" BY <1>2
    <3> QED BY <1>1, <2>1, <3>1, <3>2, <3>3 DEF AnsweredOnce
  <2> QED BY <2>5, <2>6, <2>7, <2>8 DEF IInv
<1>11. engine \in Engine BY <1>1 DEF TypeOK
<1> QED
  <2>1. Drop \/ Reject(n) \/ Miss(n) \/ Forward(n) BY <1>11, VerdictFacts DEF Read
  <2> QED BY <2>1, <1>6, <1>8, <1>9, <1>10

LEMMA RelayOK ==
    ASSUME IInv, Relay
    PROVE  IInv'
<1> DEFINE r == Head(out)
           m == Len(got) + 1
<1>1. /\ TypeOK /\ Places /\ Lockstep /\ AnsweredOnce BY DEF IInv
<1>2. /\ pc = "await" /\ pc' = "read" /\ out # <<>>
      /\ got' = Append(got, r) /\ out' = Tail(out)
      /\ resp3' = NewProtocol(asked[Len(asked)], r)
      /\ UNCHANGED <<engine, asked, pending, reached, tx, queued, hello, proto, subscribed>>
  BY DEF Relay, redis
<1>3. /\ r \in Reply /\ r = out[1] /\ 1 \in DOMAIN out /\ out' \in Seq(Reply)
      /\ Len(out') = Len(out) - 1
      /\ DOMAIN out' = 1..(Len(out) - 1) /\ DOMAIN out = 1..Len(out)
      /\ \A i \in 1..(Len(out) - 1) : out'[i] = out[i + 1]
  BY <1>1, <1>2, TailFacts DEF TypeOK
<1>4. /\ got' \in Seq(Reply) /\ Len(got') = m /\ DOMAIN got' = 1..m
      /\ DOMAIN got = 1..Len(got) /\ Len(got) \in Nat
      /\ \A i \in 1..Len(got) : got'[i] = got[i]
      /\ got'[m] = r
  BY <1>1, <1>2, <1>3, AppendFacts DEF TypeOK
<1>5. OneReplyEach' = OneReplyEach BY <1>2 DEF OneReplyEach
<1>6. TypeOK'
  <2>1. resp3' \in BOOLEAN BY <1>1, <1>2 DEF TypeOK, NewProtocol
  <2> QED BY <1>1, <1>2, <1>3, <1>4, <1>5, <2>1 DEF TypeOK
<1>7. r.kind # "nil" /\ r.to \in 0..Len(asked) BY <1>1, <1>3 DEF Places
<1>8. Places'
  <2>1. ASSUME NEW i \in DOMAIN out'
        PROVE  out'[i].kind # "nil" /\ out'[i].to \in 0..Len(asked')
    <3>1. Len(out) \in Nat BY <1>1 DEF TypeOK
    <3>2. i + 1 \in DOMAIN out /\ out'[i] = out[i + 1] BY <1>3, <3>1
    <3> QED BY <1>1, <1>2, <3>2 DEF Places
  <2>2. ASSUME NEW i \in DOMAIN got' PROVE got'[i].to \in 0..Len(asked')
    <3>1. CASE i \in 1..Len(got) BY <1>1, <1>2, <1>4, <3>1 DEF Places
    <3>2. CASE i = m BY <1>2, <1>4, <1>7, <3>2
    <3> QED BY <1>4, <3>1, <3>2
  <2> QED BY <1>1, <1>2, <2>1, <2>2 DEF Places
<1>9. Lockstep'
  <2> SUFFICES ASSUME OneReplyEach'
               PROVE  ~subscribed' /\ RepliesInOrder' /\ Idle'
    BY <1>2 DEF Lockstep
  <2>1. ~subscribed /\ RepliesInOrder /\ OneUnderWay
    BY <1>1, <1>2, <1>5 DEF Lockstep
  <2>2. /\ pending = <<>> /\ Len(out) = 1 /\ r.to = Len(asked)
        /\ Len(asked) = m
    BY <1>2, <1>3, <2>1 DEF OneUnderWay
  <2>3. Idle'
    <3>1. out' = <<>> BY <1>3, <2>2
    <3> QED BY <1>2, <1>4, <2>2, <3>1 DEF Idle
  <2>4. ASSUME NEW i \in DOMAIN got' PROVE got'[i].to = i
    <3>1. CASE i \in 1..Len(got)
      BY <1>4, <1>5, <2>1, <3>1 DEF RepliesInOrder
    <3>2. CASE i = m BY <1>4, <2>2, <3>2
    <3> QED BY <1>4, <3>1, <3>2
  <2> QED BY <1>2, <2>1, <2>3, <2>4 DEF RepliesInOrder
<1>10. AnsweredOnce'
  <2>1. ASSUME NEW i \in DOMAIN got', got'[i].kind = "nil"
        PROVE  got'[i].to \notin reached'
    <3>1. i \in 1..Len(got) BY <1>4, <1>7, <2>1
    <3> QED BY <1>1, <1>2, <1>4, <2>1, <3>1 DEF AnsweredOnce
  <2>2. ASSUME NEW i \in 1..Len(asked')
        PROVE  i \in reached' \/ (\E j \in DOMAIN got' : got'[j].to = i)
    <3>1. i \in reached \/ \E j \in DOMAIN got : got[j].to = i
      BY <1>1, <1>2 DEF AnsweredOnce
    <3>2. \A j \in DOMAIN got : j \in DOMAIN got' /\ got'[j] = got[j] BY <1>4
    <3> QED BY <1>2, <3>1, <3>2
  <2> QED BY <2>1, <2>2 DEF AnsweredOnce
<1> QED BY <1>6, <1>8, <1>9, <1>10 DEF IInv

LEMMA ExecuteOK ==
    ASSUME IInv, Execute
    PROVE  IInv'
<1> DEFINE n == Head(pending)
<1>1. /\ TypeOK /\ Places /\ Lockstep /\ AnsweredOnce BY DEF IInv
<1>2. /\ pending # <<>> /\ pending' = Tail(pending) /\ RedisOK'
      /\ UNCHANGED <<engine, pc, resp3, asked, got, reached>>
  BY <1>1, ExecuteEffect DEF Execute, handler
<1>3. PICK replies : Answered(n, replies) BY <1>1, ExecuteEffect
<1>4. /\ n = pending[1] /\ 1 \in DOMAIN pending /\ pending' \in Seq(1..MaxCommands)
      /\ Len(pending') = Len(pending) - 1
      /\ DOMAIN pending' = 1..(Len(pending) - 1)
      /\ DOMAIN pending = 1..Len(pending)
      /\ \A i \in 1..(Len(pending) - 1) : pending'[i] = pending[i + 1]
  BY <1>1, <1>2, TailFacts DEF TypeOK
<1>5. n \in reached /\ n \in 1..Len(asked) BY <1>1, <1>4 DEF Places
<1>6. replies \in Seq(Replies(n)) /\ replies \in Seq(Reply)
      /\ \A i \in DOMAIN replies : replies[i] \in Replies(n)
  BY <1>3 DEF Answered, Replies
<1>7. /\ out' = out \o replies
      /\ out' \in Seq(Reply) /\ Len(out') = Len(out) + Len(replies)
      /\ DOMAIN out' = 1..(Len(out) + Len(replies))
      /\ DOMAIN out = 1..Len(out) /\ DOMAIN replies = 1..Len(replies)
      /\ Len(out) \in Nat /\ Len(replies) \in Nat
      /\ \A i \in 1..Len(out) : out'[i] = out[i]
      /\ \A i \in 1..Len(replies) : out'[Len(out) + i] = replies[i]
      /\ out = <<>> => out' = replies
  BY <1>1, <1>3, <1>6, ConcatFacts DEF TypeOK, Answered
<1>8. OneReplyEach' = OneReplyEach BY <1>2 DEF OneReplyEach
<1>9. TypeOK'
  <2>1. OneReplyEach' => Len(pending') <= 1
    <3>1. Len(pending) \in Nat BY <1>1 DEF TypeOK
    <3> QED BY <1>1, <1>4, <1>8, <3>1 DEF TypeOK
  <2>2. /\ tx' \in BOOLEAN /\ queued' \in SUBSET (1..MaxCommands)
        /\ hello' \in {0, 2, 3} /\ proto' \in {2, 3} /\ subscribed' \in BOOLEAN
    BY <1>2 DEF RedisOK
  <2> QED BY <1>1, <1>2, <1>4, <1>7, <2>1, <2>2 DEF TypeOK
<1>10. Places'
  <2>1. ASSUME NEW i \in DOMAIN out'
        PROVE  out'[i].kind # "nil" /\ out'[i].to \in 0..Len(asked')
    <3>1. CASE i \in 1..Len(out) BY <1>1, <1>2, <1>7, <3>1 DEF Places
    <3>2. CASE i \in (Len(out) + 1)..(Len(out) + Len(replies))
      <4> DEFINE j == i - Len(out)
      <4>0. j \in 1..Len(replies) /\ i = Len(out) + j
        <5>1. Len(out) \in Nat /\ Len(replies) \in Nat BY <1>7
        <5> QED BY <3>2, <5>1
      <4> HIDE DEF j
      <4>1. j \in DOMAIN replies /\ out'[i] = replies[j] BY <1>7, <4>0
      <4>2. out'[i].to = n /\ out'[i].kind # "nil"
        BY <1>6, <4>1 DEF Replies
      <4>3. n \in 0..Len(asked) BY <1>5
      <4> QED BY <1>2, <4>2, <4>3
    <3>3. i \in 1..Len(out) \/ i \in (Len(out) + 1)..(Len(out) + Len(replies))
      <4>1. Len(out) \in Nat /\ Len(replies) \in Nat BY <1>7
      <4>2. i \in 1..(Len(out) + Len(replies)) BY <1>7
      <4> QED BY <4>1, <4>2
    <3> QED BY <3>1, <3>2, <3>3
  <2>2. ASSUME NEW i \in DOMAIN pending' PROVE pending'[i] \in reached'
    <3>1. Len(pending) \in Nat BY <1>1 DEF TypeOK
    <3>2. i + 1 \in DOMAIN pending /\ pending'[i] = pending[i + 1] BY <1>4, <3>1
    <3> QED BY <1>1, <1>2, <3>2 DEF Places
  <2> QED BY <1>1, <1>2, <2>1, <2>2 DEF Places
<1>11. Lockstep'
  <2> SUFFICES ASSUME OneReplyEach'
               PROVE  /\ ~subscribed' /\ RepliesInOrder'
                      /\ pc' = "read" => Idle'
                      /\ pc' = "await" => OneUnderWay'
    BY DEF Lockstep
  <2>1. /\ ~subscribed /\ RepliesInOrder
        /\ pc = "read" => Idle
        /\ pc = "await" => OneUnderWay
    BY <1>1, <1>8 DEF Lockstep
  <2>2. asked[n].name # "SUBSCRIBE" BY <1>5, <1>8 DEF OneReplyEach
  <2>3. Len(replies) = 1 /\ ~subscribed' BY <1>3, <2>1, <2>2 DEF Answered
  <2>4. pc # "read" BY <1>2, <2>1 DEF Idle
  <2>5. ASSUME pc = "await" PROVE OneUnderWay'
    <3>1. /\ Len(asked) = Len(got) + 1
          /\ pending = <<Len(asked)>> /\ out = <<>>
      BY <1>2, <2>1, <2>5 DEF OneUnderWay
    <3>2. n = Len(asked) /\ pending' = <<>> BY <1>2, <3>1
    <3>3. out' = replies BY <1>7, <3>1
    <3>4. replies[1].to = n BY <1>6, <1>7, <2>3 DEF Replies
    <3> QED BY <1>2, <2>3, <3>1, <3>2, <3>3, <3>4 DEF OneUnderWay
  <2>6. RepliesInOrder' BY <1>2, <1>8, <2>1 DEF RepliesInOrder
  <2>7. pc' = pc BY <1>2
  <2> QED BY <2>3, <2>4, <2>5, <2>6, <2>7
<1>12. AnsweredOnce' BY <1>1, <1>2 DEF AnsweredOnce
<1> QED BY <1>9, <1>10, <1>11, <1>12 DEF IInv

\* Messages come to connections with subscriptions only.
LEMMA PublishOK ==
    ASSUME IInv, Publish
    PROVE  IInv'
<1> DEFINE r == Says(0, "message")
<1>1. /\ TypeOK /\ Places /\ Lockstep /\ AnsweredOnce BY DEF IInv
<1>2. /\ subscribed /\ out' = out \o <<r>>
      /\ UNCHANGED <<engine, pc, resp3, asked, pending, got, reached>>
      /\ UNCHANGED <<tx, queued, hello, proto, subscribed>>
  BY DEF Publish, Respond, handler, redis
<1>3. r \in Reply /\ r.to = 0 /\ r.kind # "nil"
  <2>1. 0 \in 0..MaxCommands BY BoundsAssumption
  <2>2. "message" \in Kinds \ {"nil"} BY DEF Kinds
  <2>3. r \in Replies(0) BY <1>1, <2>1, <2>2, SaysFacts
  <2> QED BY <2>3 DEF Replies
<1>4. <<r>> \in Seq(Reply) /\ Len(<<r>>) = 1 /\ <<r>>[1] = r
  BY <1>3, SingletonFacts
<1>5. /\ out' \in Seq(Reply) /\ DOMAIN out' = 1..(Len(out) + 1)
      /\ DOMAIN out = 1..Len(out) /\ Len(out) \in Nat
      /\ \A i \in 1..Len(out) : out'[i] = out[i]
      /\ out'[Len(out) + 1] = r
  <2>1. \A i \in 1..Len(<<r>>) : (out \o <<r>>)[Len(out) + i] = <<r>>[i]
    BY <1>1, <1>4, ConcatFacts DEF TypeOK
  <2>2. (out \o <<r>>)[Len(out) + 1] = r BY <1>4, <2>1
  <2> QED BY <1>1, <1>2, <1>4, <2>2, ConcatFacts DEF TypeOK
<1>6. OneReplyEach' = OneReplyEach BY <1>2 DEF OneReplyEach
<1>7. ~OneReplyEach BY <1>1, <1>2 DEF Lockstep
<1>8. TypeOK' BY <1>1, <1>2, <1>5, <1>6 DEF TypeOK
<1>9. ASSUME NEW i \in DOMAIN out'
      PROVE  out'[i].kind # "nil" /\ out'[i].to \in 0..Len(asked')
  <2>1. CASE i \in 1..Len(out) BY <1>1, <1>2, <1>5, <2>1 DEF Places
  <2>2. CASE i = Len(out) + 1
    <3>1. Len(asked) \in Nat BY <1>1 DEF TypeOK
    <3>2. 0 \in 0..Len(asked') BY <1>2, <3>1
    <3> QED BY <1>3, <1>5, <2>2, <3>2
  <2> QED BY <1>5, <2>1, <2>2
<1>10. Places' BY <1>1, <1>2, <1>9 DEF Places
<1>11. Lockstep' BY <1>6, <1>7 DEF Lockstep
<1>12. AnsweredOnce' BY <1>1, <1>2 DEF AnsweredOnce
<1> QED BY <1>8, <1>10, <1>11, <1>12 DEF IInv

LEMMA StepOK == IInv /\ [Next]_vars => IInv'
<1> SUFFICES ASSUME IInv, [Next]_vars PROVE IInv' OBVIOUS
<1>1. ASSUME NEW e \in Engine, SetEngine(e) PROVE IInv'
  BY <1>1 DEF SetEngine, IInv, TypeOK, Places, Lockstep, OneReplyEach, Idle,
              OneUnderWay, RepliesInOrder, AnsweredOnce, handler, redis
<1>2. ASSUME NEW cmd \in Commands, Read(cmd) PROVE IInv' BY <1>2, ReadOK
<1>3. CASE Relay BY <1>3, RelayOK
<1>4. CASE Close
  BY <1>4 DEF Close, IInv, TypeOK, Places, Lockstep, OneReplyEach, Idle,
              OneUnderWay, RepliesInOrder, AnsweredOnce, redis
<1>5. CASE Execute BY <1>5, ExecuteOK
<1>6. CASE Publish BY <1>6, PublishOK
<1>7. CASE UNCHANGED vars
  BY <1>7, ZenonT(60) DEF vars, IInv, TypeOK, Places, Lockstep, OneReplyEach, Idle,
              OneUnderWay, RepliesInOrder, AnsweredOnce, handler, redis
<1> QED BY <1>1, <1>2, <1>3, <1>4, <1>5, <1>6, <1>7 DEF Next

LEMMA Invariance == Spec => []IInv
BY InitOK, StepOK, PTL DEF Spec

-----------------------------------------------------------------------------
\* handleConn's and Redis's state keeps its types, and the handler never has
\* two commands under way while each of them has one reply.
THEOREM TypeCorrect == Spec => []TypeOK
<1>1. IInv => TypeOK BY DEF IInv
<1> QED BY <1>1, Invariance, PTL

\* The replies the app reads answer its commands in their order, whatever mix
\* of handler and Redis wrote them, in conversations of any length.
THEOREM OrderCorrect == Spec => []RepliesInOrder
<1>1. IInv => RepliesInOrder BY DEF IInv, Lockstep, RepliesInOrder
<1> QED BY <1>1, Invariance, PTL

\* A synthetic miss never reached Redis, and no command is swallowed while the
\* connection lives.
THEOREM AnsweredCorrect == Spec => []AnsweredOnce
<1>1. IInv => AnsweredOnce BY DEF IInv
<1> QED BY <1>1, Invariance, PTL

-----------------------------------------------------------------------------
(* Transactions: what is open and queued in Redis, t and q, as the replies s *)
(* to the commands a tell it.                                                *)

MultiIn(s, a, n) == a[n].name = "MULTI" /\ s[n].kind = "ok"

\* The commands queued before n since the transaction began at first.
HeldSince(s, a, first, n) ==
    /\ MultiIn(s, a, first)
    /\ \A k \in (first + 1)..(n - 1) : ~MultiIn(s, a, k)
Held(s, first, n) == {k \in (first + 1)..(n - 1) : s[k].kind = "queued"}

Open(s, a, q) ==
    \E first \in 1..Len(s) :
        HeldSince(s, a, first, Len(s) + 1) /\ q = Held(s, first, Len(s) + 1)

TxState(s, a, t, q) ==
    /\ ~t => q = {}
    /\ t => Open(s, a, q)
    /\ \A n \in 1..Len(s) : s[n].kind = "exec" =>
            \E first \in 1..(n - 1) :
                HeldSince(s, a, first, n) /\ s[n].results = Held(s, first, n)

\* One more reply, r: what was executed so far stays as it was.
LEMMA ExecKept ==
    ASSUME NEW s \in Seq(Reply), NEW a, NEW b, NEW t, NEW q, NEW r \in Reply,
           TxState(s, a, t, q), \A k \in 1..Len(s) : b[k] = a[k],
           NEW n \in 1..Len(s), Append(s, r)[n].kind = "exec"
    PROVE  \E first \in 1..(n - 1) :
                /\ HeldSince(Append(s, r), b, first, n)
                /\ Append(s, r)[n].results = Held(Append(s, r), first, n)
<1> DEFINE s2 == Append(s, r)
<1>1. s2 \in Seq(Reply) /\ Len(s) \in Nat /\ \A k \in 1..Len(s) : s2[k] = s[k]
  BY AppendFacts
<1>2. PICK first \in 1..(n - 1) :
        HeldSince(s, a, first, n) /\ s[n].results = Held(s, first, n)
  BY <1>1 DEF TxState
<1> HIDE DEF s2
<1>4. HeldSince(s2, b, first, n) /\ Held(s2, first, n) = Held(s, first, n)
  <2>1. \A k \in 1..Len(s) : s2[k] = s[k] /\ b[k] = a[k] BY <1>1
  <2>2. \A k \in (first + 1)..(n - 1) : k \in 1..Len(s) BY <1>1
  <2>3. first \in 1..Len(s) BY <1>1
  <2> QED BY <1>2, <2>1, <2>2, <2>3 DEF HeldSince, Held, MultiIn
<1>5. s2[n].results = s[n].results BY <1>1
<1> QED BY <1>2, <1>4, <1>5 DEF s2

\* A transaction is open, and the reply queues its command or not.
LEMMA OpenKept ==
    ASSUME NEW s \in Seq(Reply), NEW a, NEW b, NEW q, NEW r \in Reply,
           Open(s, a, q), \A k \in 1..Len(s) : b[k] = a[k],
           ~(b[Len(s) + 1].name = "MULTI" /\ r.kind = "ok")
    PROVE  /\ r.kind = "queued" => Open(Append(s, r), b, q \cup {Len(s) + 1})
           /\ r.kind # "queued" => Open(Append(s, r), b, q)
<1> DEFINE s2 == Append(s, r)
           m == Len(s)
<1>1. /\ s2 \in Seq(Reply) /\ m \in Nat /\ Len(s2) = m + 1
      /\ (\A k \in 1..m : s2[k] = s[k]) /\ s2[m + 1] = r
  BY AppendFacts
<1>2. PICK first \in 1..m :
        HeldSince(s, a, first, m + 1) /\ q = Held(s, first, m + 1)
  BY DEF Open
<1> HIDE DEF s2, m
<1>4. HeldSince(s2, b, first, m + 1) /\ Held(s2, first, m + 1) = q
  <2>1. \A k \in 1..m : s2[k] = s[k] /\ b[k] = a[k] BY <1>1 DEF m
  <2>2. \A k \in (first + 1)..((m + 1) - 1) : k \in 1..m BY <1>1
  <2> QED BY <1>2, <2>1, <2>2 DEF HeldSince, Held, MultiIn
<1>5. \A k \in (first + 1)..((m + 2) - 1) : k \in (first + 1)..((m + 1) - 1) \/ k = m + 1
  BY <1>1
<1>6. \A k \in (first + 1)..((m + 1) - 1) : k \in (first + 1)..((m + 2) - 1) /\ k # m + 1
  BY <1>1
<1>7. m + 1 \in (first + 1)..((m + 2) - 1) BY <1>1
<1>8. HeldSince(s2, b, first, m + 2)
  <2>1. ~MultiIn(s2, b, m + 1) BY <1>1 DEF MultiIn, m
  <2> QED BY <1>4, <1>5, <2>1 DEF HeldSince
<1>9. Held(s2, first, m + 2) = IF r.kind = "queued" THEN q \cup {m + 1} ELSE q
  BY <1>1, <1>4, <1>5, <1>6, <1>7 DEF Held
<1>10. Len(s2) + 1 = m + 2 /\ first \in 1..Len(s2) BY <1>1
<1> QED BY <1>8, <1>9, <1>10 DEF Open, s2, m

\* The ways a reply changes what is open and queued.
LEMMA TxReplies ==
    ASSUME NEW s \in Seq(Reply), NEW a, NEW b, NEW t \in BOOLEAN, NEW q,
           NEW r \in Reply,
           TxState(s, a, t, q), \A k \in 1..Len(s) : b[k] = a[k]
    PROVE  LET s2 == Append(s, r)
               n == Len(s) + 1
               opens == b[n].name = "MULTI" /\ r.kind = "ok"
           IN  /\ r.kind \notin {"queued", "exec"} /\ ~opens => TxState(s2, b, t, q)
               /\ r.kind # "exec" => TxState(s2, b, FALSE, {})
               /\ t /\ r.kind = "queued" => TxState(s2, b, t, q \cup {n})
               /\ ~t /\ opens => TxState(s2, b, TRUE, q)
               /\ t /\ r.kind = "exec" /\ r.results = q => TxState(s2, b, FALSE, {})
<1> DEFINE s2 == Append(s, r)
           n == Len(s) + 1
           opens == b[n].name = "MULTI" /\ r.kind = "ok"
           execs == \A i \in 1..Len(s2) : s2[i].kind = "exec" =>
                        \E first \in 1..(i - 1) :
                            HeldSince(s2, b, first, i) /\ s2[i].results = Held(s2, first, i)
<1>1. /\ s2 \in Seq(Reply) /\ Len(s) \in Nat /\ Len(s2) = n
      /\ (\A k \in 1..Len(s) : s2[k] = s[k]) /\ s2[n] = r
  BY AppendFacts
<1>2. \A i \in 1..Len(s2) : i \in 1..Len(s) \/ i = n BY <1>1
<1>3. ASSUME NEW i \in 1..Len(s), s2[i].kind = "exec"
      PROVE  \E first \in 1..(i - 1) :
                HeldSince(s2, b, first, i) /\ s2[i].results = Held(s2, first, i)
  BY <1>3, ExecKept
<1>4. r.kind # "exec" => execs BY <1>1, <1>2, <1>3
<1>5. ASSUME r.kind \notin {"queued", "exec"}, ~opens PROVE TxState(s2, b, t, q)
  <2>1. t => Open(s2, b, q) BY <1>5, OpenKept DEF TxState
  <2>2. ~t => q = {} BY DEF TxState
  <2>3. execs BY <1>4, <1>5
  <2> HIDE DEF s2
  <2> QED BY <2>1, <2>2, <2>3 DEF TxState
<1>6. ASSUME r.kind # "exec" PROVE TxState(s2, b, FALSE, {})
  <2>1. execs BY <1>4, <1>6
  <2> HIDE DEF s2
  <2> QED BY <2>1 DEF TxState
<1>7. ASSUME t, r.kind = "queued" PROVE TxState(s2, b, t, q \cup {n})
  <2>0. r.kind # "ok" /\ r.kind # "exec" BY <1>7
  <2>1. Open(s2, b, q \cup {n}) BY <1>7, <2>0, OpenKept DEF TxState
  <2>2. execs BY <1>4, <2>0
  <2> HIDE DEF s2
  <2> QED BY <1>7, <2>1, <2>2 DEF TxState
<1>8. ASSUME ~t, opens PROVE TxState(s2, b, TRUE, q)
  <2>1. q = {} BY <1>8 DEF TxState
  <2>2. execs BY <1>4, <1>8
  <2> HIDE DEF s2, n
  <2>3. n \in 1..Len(s2) /\ Len(s2) + 1 = n + 1 BY <1>1 DEF n
  <2>4. n \in Nat BY <1>1 DEF n
  <2>5. (n + 1)..((n + 1) - 1) = {} BY <2>4
  <2>6. HeldSince(s2, b, n, n + 1) /\ q = Held(s2, n, n + 1)
    BY <1>1, <1>8, <2>1, <2>5 DEF HeldSince, Held, MultiIn
  <2> QED BY <2>2, <2>3, <2>6 DEF TxState, Open
<1>9. ASSUME t, r.kind = "exec", r.results = q PROVE TxState(s2, b, FALSE, {})
  <2>1. PICK first \in 1..Len(s) :
            HeldSince(s, a, first, n) /\ q = Held(s, first, n)
    BY <1>9 DEF TxState, Open
  <2>2. n \in 1..(Len(s) + 1) /\ first \in 1..(n - 1) BY <1>1
  <2>3. HeldSince(s2, b, first, n) /\ Held(s2, first, n) = Held(s, first, n)
    <3>1. \A k \in 1..Len(s) : s2[k] = s[k] /\ b[k] = a[k] BY <1>1
    <3> HIDE DEF s2, n
    <3>2. \A k \in (first + 1)..(n - 1) : k \in 1..Len(s) BY <1>1, <2>2
    <3>3. first \in 1..Len(s) BY <2>1
    <3> QED BY <2>1, <3>1, <3>2, <3>3 DEF HeldSince, Held, MultiIn
  <2> HIDE DEF s2
  <2>4. s2[n].results = Held(s2, first, n) BY <1>1, <1>9, <2>1, <2>3
  <2>5. execs BY <1>2, <1>3, <2>2, <2>3, <2>4
  <2> QED BY <2>5 DEF TxState
<1> QED BY <1>5, <1>6, <1>7, <1>8, <1>9

-----------------------------------------------------------------------------
(* The protocol: what the handler takes it for, p, as the replies s to the *)
(* commands a tell it.                                                     *)

HelloIn(s, a, n) == a[n].name = "HELLO" /\ a[n].version # 0 /\ s[n].kind = "ok"

SpeaksIn(s, a, n) ==
    \E m \in 1..(n - 1) :
        /\ HelloIn(s, a, m) /\ a[m].version = 3
        /\ \A k \in (m + 1)..(n - 1) : ~HelloIn(s, a, k)

UntrackedIn(s, a, n) ==
    \E m \in 1..(n - 1) :
        \/ a[m].name = "RESET"
        \/ a[m].name = "HELLO" /\ s[m].kind = "queued"

ProtoState(s, a, p) ==
    /\ ~UntrackedIn(s, a, Len(s) + 1) => (p <=> SpeaksIn(s, a, Len(s) + 1))
    /\ \A n \in 1..Len(s) : s[n].kind = "nil" /\ ~UntrackedIn(s, a, n) =>
            (s[n].proto = 3 <=> SpeaksIn(s, a, n))

LEMMA ProtoFacts ==
    ASSUME NEW s, NEW s2, NEW a, NEW b, NEW m \in Nat,
           \A k \in 1..m : s2[k] = s[k] /\ b[k] = a[k],
           NEW n \in 1..(m + 1)
    PROVE  /\ UntrackedIn(s2, b, n) <=> UntrackedIn(s, a, n)
           /\ SpeaksIn(s2, b, n) <=> SpeaksIn(s, a, n)
<1>1. \A k \in 1..(n - 1) : s2[k] = s[k] /\ b[k] = a[k] BY SMT
<1>2. \A k \in 1..(n - 1) : HelloIn(s2, b, k) <=> HelloIn(s, a, k)
  BY <1>1 DEF HelloIn
<1>3. UntrackedIn(s2, b, n) <=> UntrackedIn(s, a, n) BY <1>1 DEF UntrackedIn
<1>4. \A k \in 1..(n - 1) : \A j \in (k + 1)..(n - 1) : j \in 1..(n - 1) BY SMT
<1>5. SpeaksIn(s2, b, n) <=> SpeaksIn(s, a, n)
  BY <1>1, <1>2, <1>4 DEF SpeaksIn
<1> QED BY <1>3, <1>5

\* A HELLO sets the version, anything else leaves it.
LEMMA SpeaksNext ==
    ASSUME NEW s, NEW a, NEW n \in Nat \ {0}
    PROVE  SpeaksIn(s, a, n + 1) <=>
              IF HelloIn(s, a, n) THEN a[n].version = 3 ELSE SpeaksIn(s, a, n)
<1>1. n \in 1..((n + 1) - 1) /\ (n + 1)..((n + 1) - 1) = {} BY SMT
<1>2. CASE HelloIn(s, a, n)
  <2>1. a[n].version = 3 => SpeaksIn(s, a, n + 1) BY <1>1, <1>2 DEF SpeaksIn
  <2>2. ASSUME SpeaksIn(s, a, n + 1) PROVE a[n].version = 3
    <3>1. PICK m \in 1..((n + 1) - 1) :
            /\ a[m].version = 3
            /\ \A k \in (m + 1)..((n + 1) - 1) : ~HelloIn(s, a, k)
      BY <2>2 DEF SpeaksIn
    <3>2. m = n
      <4>1. m # n => n \in (m + 1)..((n + 1) - 1) BY SMT
      <4> QED BY <1>2, <3>1, <4>1
    <3> QED BY <3>1, <3>2
  <2> QED BY <1>2, <2>1, <2>2
<1>3. CASE ~HelloIn(s, a, n)
  <2>1. \A m \in 1..(n - 1) : /\ m \in 1..((n + 1) - 1)
                              /\ (m + 1)..((n + 1) - 1) = ((m + 1)..(n - 1)) \cup {n}
    BY SMT
  <2>2. \A m \in 1..((n + 1) - 1) : m \in 1..(n - 1) \/ m = n BY SMT
  <2>3. SpeaksIn(s, a, n) => SpeaksIn(s, a, n + 1) BY <1>3, <2>1 DEF SpeaksIn
  <2>4. SpeaksIn(s, a, n + 1) => SpeaksIn(s, a, n) BY <1>3, <2>1, <2>2 DEF SpeaksIn
  <2> QED BY <1>3, <2>3, <2>4
<1> QED BY <1>2, <1>3

LEMMA UntrackedNext ==
    ASSUME NEW s, NEW a, NEW n \in Nat \ {0}
    PROVE  UntrackedIn(s, a, n + 1) <=>
              \/ UntrackedIn(s, a, n)
              \/ a[n].name = "RESET"
              \/ a[n].name = "HELLO" /\ s[n].kind = "queued"
<1>1. \A m : m \in 1..((n + 1) - 1) <=> m \in 1..(n - 1) \/ m = n BY SMT
<1> QED BY <1>1 DEF UntrackedIn

\* What a reply r to command n has to be for the handler to go on as p2.
Follows(b, n, r, p, p2) ==
    /\ r.kind = "nil" => (r.proto = 3 <=> p)
    /\ IF b[n].name = "HELLO" /\ b[n].version # 0 /\ r.kind = "ok"
       THEN p2 <=> b[n].version = 3
       ELSE \/ p2 <=> p
            \/ b[n].name = "RESET"
            \/ b[n].name = "HELLO" /\ r.kind = "queued"

LEMMA ProtoReply ==
    ASSUME NEW s \in Seq(Reply), NEW a, NEW b, NEW p \in BOOLEAN, NEW p2 \in BOOLEAN,
           NEW r \in Reply, ProtoState(s, a, p),
           \A k \in 1..Len(s) : b[k] = a[k],
           Follows(b, Len(s) + 1, r, p, p2)
    PROVE  ProtoState(Append(s, r), b, p2)
<1> DEFINE s2 == Append(s, r)
           n == Len(s) + 1
<1>1. /\ Len(s) \in Nat /\ Len(s2) = n /\ s2[n] = r
      /\ \A k \in 1..Len(s) : s2[k] = s[k] /\ b[k] = a[k]
  BY AppendFacts
<1>2. n \in Nat \ {0} /\ n \in 1..(Len(s) + 1) BY <1>1
<1> HIDE DEF s2
<1>3. \A i \in 1..(Len(s) + 1) :
        /\ UntrackedIn(s2, b, i) <=> UntrackedIn(s, a, i)
        /\ SpeaksIn(s2, b, i) <=> SpeaksIn(s, a, i)
  BY <1>1, ProtoFacts
<1> HIDE DEF n
<1>4. /\ SpeaksIn(s2, b, n + 1) <=>
            IF HelloIn(s2, b, n) THEN b[n].version = 3 ELSE SpeaksIn(s2, b, n)
      /\ UntrackedIn(s2, b, n + 1) <=>
            \/ UntrackedIn(s2, b, n)
            \/ b[n].name = "RESET"
            \/ b[n].name = "HELLO" /\ s2[n].kind = "queued"
  BY <1>2, SpeaksNext, UntrackedNext
<1>5. ~UntrackedIn(s2, b, n) => (p <=> SpeaksIn(s2, b, n))
  BY <1>1, <1>2, <1>3 DEF ProtoState, n
<1>6. Follows(b, n, r, p, p2) BY DEF n
<1>7. ~UntrackedIn(s2, b, n + 1) => (p2 <=> SpeaksIn(s2, b, n + 1))
  BY <1>1, <1>4, <1>5, <1>6 DEF Follows, HelloIn
<1>8. ASSUME NEW i \in 1..Len(s2), s2[i].kind = "nil", ~UntrackedIn(s2, b, i)
      PROVE  s2[i].proto = 3 <=> SpeaksIn(s2, b, i)
  <2>1. CASE i \in 1..Len(s)
    <3>1. i \in 1..(Len(s) + 1) /\ s2[i] = s[i] BY <1>1, <2>1
    <3> QED BY <1>3, <1>8, <2>1, <3>1 DEF ProtoState
  <2>2. CASE i = n BY <1>1, <1>5, <1>6, <1>8, <2>2 DEF Follows
  <2>3. i \in 1..Len(s) \/ i = n BY <1>1 DEF n
  <2> QED BY <2>1, <2>2, <2>3
<1> QED BY <1>1, <1>7, <1>8 DEF ProtoState, s2

-----------------------------------------------------------------------------
(* The invariant. *)

\* What Redis has answered: a reply that is not read yet counts.
Told == IF out = <<>> THEN got ELSE Append(got, out[1])

HelloKinds == {"ok", "error", "queued"}

StateInv ==
    OneReplyEach =>
        /\ NilInProtocol /\ ExecMatchesQueued
        /\ pc # "closed" =>
            /\ TxState(Told, asked, tx, queued)
            /\ ProtoState(got, asked, resp3)
            /\ out # <<>> /\ asked[Len(asked)].name = "HELLO" =>
                    out[1].kind \in HelloKinds

\* What the app has read follows from the states of the two sides.
LEMMA TxMeans ==
    ASSUME TypeOK, TxState(Told, asked, tx, queued), out = <<>> \/ out[1] \in Reply
    PROVE  ExecMatchesQueued
<1>1. got \in Seq(Reply) BY DEF TypeOK
<1>2. \A k \in 1..Len(got) : Told[k] = got[k] BY <1>1, AppendFacts DEF Told
<1>3. 1..Len(got) \subseteq 1..Len(Told)
  <2>1. CASE out = <<>> BY <2>1 DEF Told
  <2>2. CASE out # <<>>
    <3>1. Len(Told) = Len(got) + 1 /\ Len(got) \in Nat
      BY <1>1, <2>2, AppendFacts DEF Told
    <3> QED BY <3>1
  <2> QED BY <2>1, <2>2
<1>4. ASSUME NEW n \in DOMAIN got, got[n].kind = "exec"
      PROVE  \E first \in 1..(n - 1) :
                /\ MultiAt(first)
                /\ \A k \in (first + 1)..(n - 1) : ~MultiAt(k)
                /\ got[n].results = {k \in (first + 1)..(n - 1) : got[k].kind = "queued"}
  <2>1. n \in 1..Len(got) /\ Len(got) \in Nat BY <1>1
  <2>2. PICK first \in 1..(n - 1) :
            HeldSince(Told, asked, first, n) /\ Told[n].results = Held(Told, first, n)
    BY <1>2, <1>3, <1>4, <2>1 DEF TxState
  <2>3. first \in 1..Len(got) /\ \A k \in (first + 1)..(n - 1) : k \in 1..Len(got)
    BY <2>1
  <2>4. MultiAt(first) /\ \A k \in (first + 1)..(n - 1) : ~MultiAt(k)
    BY <1>2, <2>2, <2>3 DEF HeldSince, MultiIn, MultiAt
  <2>5. Held(Told, first, n) = {k \in (first + 1)..(n - 1) : got[k].kind = "queued"}
    BY <1>2, <2>3 DEF Held
  <2> QED BY <1>2, <2>1, <2>2, <2>4, <2>5
<1> QED BY <1>4 DEF ExecMatchesQueued

LEMMA ProtoMeans ==
    ASSUME TypeOK, ProtoState(got, asked, resp3)
    PROVE  NilInProtocol
<1>1. DOMAIN got = 1..Len(got) BY DEF TypeOK
<1>2. ASSUME NEW n \in 1..Len(got)
      PROVE  /\ Speaks3(n) <=> SpeaksIn(got, asked, n)
             /\ Untracked(n) <=> UntrackedIn(got, asked, n)
  BY DEF Speaks3, SpeaksIn, HelloAt, HelloIn, Untracked, UntrackedIn
<1> QED BY <1>1, <1>2 DEF ProtoState, NilInProtocol

\* To show StateInv it is enough to show the states.
States ==
    /\ TypeOK /\ OneReplyEach
    /\ TxState(Told, asked, tx, queued) /\ ProtoState(got, asked, resp3)
    /\ out = <<>> \/ out[1] \in Reply
    /\ out # <<>> /\ asked[Len(asked)].name = "HELLO" => out[1].kind \in HelloKinds

LEMMA StatesSuffice == States => StateInv
BY TxMeans, ProtoMeans DEF StateInv, States

LEMMA StatesSufficeAfter == States' => StateInv'
BY StatesSuffice, PTL

LEMMA StateInit == Init => StateInv
<1> SUFFICES ASSUME Init PROVE StateInv OBVIOUS
<1>1. IInv BY InitOK
<1>2. TypeOK BY <1>1 DEF IInv
<1>3. /\ out = <<>> /\ got = <<>> /\ asked = <<>> /\ resp3 = FALSE
      /\ tx = FALSE /\ queued = {} /\ Len(got) = 0 /\ reached = {}
  BY EmptyFacts DEF Init
<1>4. TxState(Told, asked, tx, queued)
  <2>1. Told = got /\ 1..Len(got) = {} BY <1>3 DEF Told
  <2> QED BY <1>3, <2>1 DEF TxState
<1>5. ProtoState(got, asked, resp3)
  <2>1. 1..Len(got) = {} /\ 1..((Len(got) + 1) - 1) = {} BY <1>3
  <2> QED BY <1>3, <2>1 DEF ProtoState, SpeaksIn
<1>6. OneReplyEach BY <1>3 DEF OneReplyEach
<1> QED BY <1>2, <1>3, <1>4, <1>5, <1>6, StatesSuffice DEF States

\* While the connection lives and each command has one reply.
Live == IInv /\ StateInv /\ OneReplyEach /\ pc # "closed"

LEMMA LiveFacts ==
    ASSUME Live
    PROVE  /\ TypeOK /\ Places /\ Lockstep
           /\ TxState(Told, asked, tx, queued)
           /\ ProtoState(got, asked, resp3)
           /\ pc = "read" => Idle
           /\ pc = "await" => OneUnderWay
           /\ NilInProtocol /\ ExecMatchesQueued
BY DEF Live, StateInv, IInv, Lockstep

\* A step that leaves the conversation alone.
LEMMA StateKept ==
    ASSUME StateInv, pc' \in {pc, "closed"},
           UNCHANGED <<resp3, asked, out, got, reached, tx, queued>>
    PROVE  StateInv'
<1>1. /\ OneReplyEach' = OneReplyEach /\ Told' = Told
      /\ TxState(Told, asked, tx, queued)' = TxState(Told, asked, tx, queued)
      /\ ProtoState(got, asked, resp3)' = ProtoState(got, asked, resp3)
  BY DEF OneReplyEach, Told, TxState, Open, HeldSince, Held, MultiIn, ProtoState,
         SpeaksIn, UntrackedIn, HelloIn
<1>2. NilInProtocol' = NilInProtocol /\ ExecMatchesQueued' = ExecMatchesQueued
  BY <1>1 DEF NilInProtocol, ExecMatchesQueued, MultiAt, Untracked, Speaks3, HelloAt
<1> QED BY <1>1, <1>2 DEF StateInv

-----------------------------------------------------------------------------
(* The steps. *)

\* The commands after the last reply do not matter.
LEMMA StatesOfMore ==
    ASSUME NEW s \in Seq(Reply), NEW a, NEW b, NEW t, NEW q, NEW p,
           \A k \in 1..Len(s) : b[k] = a[k],
           TxState(s, a, t, q), ProtoState(s, a, p)
    PROVE  TxState(s, b, t, q) /\ ProtoState(s, b, p)
<1>1. Len(s) \in Nat /\ \A k \in 1..Len(s) : s[k] = s[k] /\ b[k] = a[k] OBVIOUS
<1>2. \A m \in 1..(Len(s) + 1) :
        /\ UntrackedIn(s, b, m) <=> UntrackedIn(s, a, m)
        /\ SpeaksIn(s, b, m) <=> SpeaksIn(s, a, m)
  BY <1>1, ProtoFacts
<1>3. /\ Len(s) + 1 \in 1..(Len(s) + 1)
      /\ \A m \in 1..Len(s) : m \in 1..(Len(s) + 1)
      /\ \A first \in 1..Len(s) : first \in 1..((Len(s) + 1) - 1)
  BY <1>1
<1>4. ProtoState(s, b, p) BY <1>2, <1>3 DEF ProtoState
<1>5. ASSUME NEW m \in 1..(Len(s) + 1), NEW first \in 1..(m - 1),
             HeldSince(s, a, first, m)
      PROVE  HeldSince(s, b, first, m)
  <2>1. first \in 1..Len(s) /\ \A k \in (first + 1)..(m - 1) : k \in 1..Len(s)
    BY <1>1
  <2> QED BY <1>1, <1>5, <2>1 DEF HeldSince, MultiIn
<1>6. \A first, m : Held(s, first, m) = Held(s, first, m) OBVIOUS
<1>7. t => Open(s, b, q)
  <2> SUFFICES ASSUME t PROVE Open(s, b, q) OBVIOUS
  <2>1. PICK first \in 1..Len(s) :
            HeldSince(s, a, first, Len(s) + 1) /\ q = Held(s, first, Len(s) + 1)
    BY DEF TxState, Open
  <2> QED BY <1>3, <1>5, <2>1 DEF Open
<1>8. \A n \in 1..Len(s) : s[n].kind = "exec" =>
        \E first \in 1..(n - 1) :
            HeldSince(s, b, first, n) /\ s[n].results = Held(s, first, n)
  BY <1>3, <1>5 DEF TxState
<1> QED BY <1>4, <1>7, <1>8 DEF TxState

LEMMA StateRead ==
    ASSUME IInv, IInv', StateInv, NEW cmd \in Commands, Read(cmd)
    PROVE  StateInv'
<1> DEFINE n == Len(asked) + 1
<1>1. /\ pc = "read" /\ asked' = Append(asked, cmd)
      /\ UNCHANGED <<engine, tx, queued, hello, proto, subscribed>>
      /\ Drop \/ Reject(n) \/ Miss(n) \/ Forward(n)
  BY DEF Read, redis
<1>2. /\ asked \in Seq(Commands) /\ Len(asked) \in Nat
      /\ \A k \in 1..Len(asked) : asked'[k] = asked[k]
      /\ Len(asked') = n /\ asked'[n] = cmd
  BY <1>1, AppendFacts DEF IInv, TypeOK
<1>3. reached \subseteq reached' BY <1>1 DEF Drop, Reject, Miss, Forward, handler
<1>4. OneReplyEach' => OneReplyEach
  <2>1. \A i \in reached : i \in 1..Len(asked) BY DEF IInv, Places
  <2> QED BY <1>2, <1>3, <2>1 DEF OneReplyEach
<1> SUFFICES ASSUME OneReplyEach' PROVE StateInv'
  BY DEF StateInv
<1>5. Live BY <1>1, <1>4 DEF Live
<1>6. /\ out = <<>> /\ Len(got) = Len(asked) /\ Told = got /\ got \in Seq(Reply)
      /\ TypeOK
      /\ TxState(got, asked, tx, queued) /\ ProtoState(got, asked, resp3)
      /\ NilInProtocol /\ ExecMatchesQueued
  BY <1>1, <1>5, LiveFacts DEF Idle, Told, TypeOK
<1>7. ASSUME NEW r \in Reply, r.kind \in {"nil", "error"},
             r.kind = "nil" => (r.proto = 3 <=> resp3),
             got' = Append(got, r), UNCHANGED <<pc, resp3, pending, out>>
      PROVE  StateInv'
  <2>1. r.kind \notin {"queued", "exec", "ok"} BY <1>7
  <2>2. tx \in BOOLEAN /\ resp3 \in BOOLEAN BY <1>6 DEF TypeOK
  <2>3. \A k \in 1..Len(got) : asked'[k] = asked[k] BY <1>2, <1>6
  <2>4. TxState(Append(got, r), asked', tx, queued)
    BY <1>6, <2>1, <2>2, <2>3, TxReplies
  <2>5. Follows(asked', Len(got) + 1, r, resp3, resp3) BY <1>7, <2>1 DEF Follows
  <2>6. ProtoState(Append(got, r), asked', resp3)
    BY <1>6, <2>2, <2>3, <2>5, ProtoReply
  <2>7. /\ TxState(Told, asked, tx, queued)' /\ ProtoState(got, asked, resp3)'
        /\ out' = <<>> /\ TypeOK'
    BY <1>1, <1>6, <1>7, <2>4, <2>6 DEF Told, IInv
  <2> HIDE DEF n
  <2> QED BY <2>7, StatesSufficeAfter DEF States
<1>8. ASSUME UNCHANGED <<got, out, resp3>> PROVE StateInv'
  <2>1. \A k \in 1..Len(got) : asked'[k] = asked[k] BY <1>2, <1>6
  <2>2. TxState(got, asked', tx, queued) /\ ProtoState(got, asked', resp3)
    BY <1>6, <2>1, StatesOfMore
  <2>3. /\ TxState(Told, asked, tx, queued)' /\ ProtoState(got, asked, resp3)'
        /\ out' = <<>> /\ TypeOK'
    BY <1>1, <1>6, <1>8, <2>2 DEF Told, IInv
  <2> HIDE DEF n
  <2> QED BY <2>3, StatesSufficeAfter DEF States
<1>9. \A kind \in Kinds :
        /\ Answer(n, kind) \in Reply
        /\ [Answer(n, kind) EXCEPT !.proto = 2] \in Reply
        /\ Answer(n, kind).kind = kind
        /\ [Answer(n, kind) EXCEPT !.proto = 2].kind = kind
  <2>1. n \in 1..MaxCommands BY <1>2, BoundsAssumption DEF IInv, TypeOK
  <2> HIDE DEF n
  <2> QED BY <1>6, <2>1, AnswerFacts
<1>10. {"nil", "error"} \subseteq Kinds BY DEF Kinds
<1>11. CASE Drop \/ Forward(n) BY <1>6, <1>8, <1>11 DEF Drop, Forward
<1>12. CASE Reject(n)
  <2> DEFINE r == [Answer(n, "error") EXCEPT !.proto = 2]
  <2>1. r \in Reply /\ r.kind = "error" BY <1>9, <1>10
  <2>2. got' = Append(got, r) /\ UNCHANGED <<pc, resp3, pending, out>>
    BY <1>12 DEF Reject, handler
  <2> HIDE DEF r
  <2> QED BY <1>7, <2>1, <2>2
<1>13. CASE Miss(n)
  <2> DEFINE r == Answer(n, "nil")
  <2>1. r \in Reply /\ r.kind = "nil" BY <1>9, <1>10
  <2>2. got' = Append(got, r) /\ UNCHANGED <<pc, resp3, pending, out>>
    BY <1>13 DEF Miss, handler
  <2>3. r.proto = 3 <=> resp3 BY <1>6 DEF Answer, TypeOK
  <2> HIDE DEF r
  <2> QED BY <1>7, <2>1, <2>2, <2>3
<1> QED BY <1>1, <1>11, <1>12, <1>13

\* The reply the handler waits for is read: both states are as they were told.
LEMMA StateRelay ==
    ASSUME IInv, IInv', StateInv, Relay
    PROVE  StateInv'
<1> DEFINE r == out[1]
           n == Len(asked)
<1>1. /\ pc = "await" /\ pc' = "read" /\ out # <<>>
      /\ got' = Append(got, Head(out)) /\ out' = Tail(out)
      /\ resp3' = NewProtocol(asked[n], Head(out))
      /\ UNCHANGED <<asked, reached, tx, queued>>
  BY DEF Relay, redis
<1>2. OneReplyEach' <=> OneReplyEach BY <1>1 DEF OneReplyEach
<1> SUFFICES ASSUME OneReplyEach' PROVE StateInv'
  BY DEF StateInv
<1>3. Live BY <1>1, <1>2 DEF Live
<1>4. /\ TypeOK /\ Places /\ OneUnderWay
      /\ TxState(Told, asked, tx, queued) /\ ProtoState(got, asked, resp3)
  BY <1>1, <1>3, LiveFacts
<1>5. Len(out) = 1 /\ n = Len(got) + 1 BY <1>1, <1>4 DEF OneUnderWay
<1>6. /\ r = Head(out) /\ r \in Reply /\ 1 \in DOMAIN out
      /\ Tail(out) \in Seq(Reply) /\ Len(Tail(out)) = 0
  BY <1>1, <1>4, <1>5, TailFacts DEF TypeOK
<1>7. out' = <<>> BY <1>1, <1>6
<1>8. TxState(Told, asked, tx, queued)'
  <2>1. Told = Append(got, r) /\ Told' = Append(got, r)
    BY <1>1, <1>6, <1>7 DEF Told
  <2> QED BY <1>1, <1>4, <2>1
<1>9. r.kind # "nil" BY <1>4, <1>6 DEF Places
<1>10. asked[n].name = "HELLO" => r.kind \in HelloKinds
  BY <1>1, <1>3 DEF Live, StateInv
<1>11. Follows(asked, n, r, resp3, resp3')
  <2>1. resp3' = IF asked[n].name = "HELLO" /\ asked[n].version # 0 /\ r.kind # "error"
                 THEN asked[n].version = 3 ELSE resp3
    BY <1>1, <1>6 DEF NewProtocol
  <2> HIDE DEF n, r
  <2> QED BY <1>9, <1>10, <2>1 DEF Follows, HelloKinds
<1>12. ProtoState(got, asked, resp3)'
  <2>1. got \in Seq(Reply) /\ resp3 \in BOOLEAN /\ resp3' \in BOOLEAN
    BY <1>4 DEF TypeOK, IInv
  <2>2. \A k \in 1..Len(got) : asked[k] = asked[k] OBVIOUS
  <2>3. Follows(asked, Len(got) + 1, r, resp3, resp3') BY <1>5, <1>11
  <2> HIDE DEF n, r
  <2>4. ProtoState(Append(got, r), asked, resp3')
    BY <1>4, <1>6, <2>1, <2>2, <2>3, ProtoReply
  <2> QED BY <1>1, <1>6, <2>4
<1>13. TypeOK' BY DEF IInv
<1> QED BY <1>7, <1>8, <1>12, <1>13, StatesSufficeAfter DEF States

\* Redis executes the command under way: what its reply says is what it did.
LEMMA ExecuteLive ==
    ASSUME Live, Execute
    PROVE  \E r \in Reply :
            /\ out' = <<r>>
            /\ TxState(Append(got, r), asked, tx', queued')
            /\ asked[Len(asked)].name = "HELLO" => r.kind \in HelloKinds
<1> DEFINE n == Len(asked)
           cmd == asked[n]
           Fits(r) == /\ TxState(Append(got, r), asked, tx', queued')
                      /\ cmd.name = "HELLO" => r.kind \in HelloKinds
<1>1. /\ TypeOK /\ Places /\ TxState(Told, asked, tx, queued) BY LiveFacts
<1>2. pending # <<>> BY DEF Execute
<1>3. OneUnderWay
  <2>1. pc \in {"read", "await"} BY <1>1 DEF Live, TypeOK
  <2> QED BY <1>2, <2>1, LiveFacts DEF Idle
<1>4. /\ pending = <<n>> /\ out = <<>> /\ n = Len(got) + 1 /\ Head(pending) = n
  BY <1>2, <1>3 DEF OneUnderWay
<1>5. /\ got \in Seq(Reply) /\ tx \in BOOLEAN /\ TxState(got, asked, tx, queued)
  BY <1>1, <1>4 DEF TypeOK, Told
<1>6. cmd.name # "SUBSCRIBE"
  <2>1. 1 \in DOMAIN pending /\ pending[1] = n BY <1>4
  <2>2. n \in reached BY <1>1, <2>1 DEF Places
  <2> QED BY <2>2 DEF Live, OneReplyEach
<1> HIDE DEF n, cmd
<1>7. \A kind \in Kinds \ {"nil"} :
        /\ Says(n, kind) \in Reply /\ Says(n, kind).kind = kind
        /\ [Says(n, kind) EXCEPT !.results = queued] \in Reply
        /\ [Says(n, kind) EXCEPT !.results = queued].kind = kind
        /\ [Says(n, kind) EXCEPT !.results = queued].results = queued
        /\ \A v \in {2, 3} : /\ [Says(n, kind) EXCEPT !.proto = v] \in Reply
                             /\ [Says(n, kind) EXCEPT !.proto = v].kind = kind
  <2>1. n \in 0..MaxCommands BY <1>1, <1>4, <1>5, BoundsAssumption DEF TypeOK, n
  <2>2. \A kind \in Kinds \ {"nil"} :
          /\ Says(n, kind) \in Reply
          /\ [Says(n, kind) EXCEPT !.results = queued] \in Reply
          /\ \A v \in {2, 3} : [Says(n, kind) EXCEPT !.proto = v] \in Reply
    BY <1>1, <2>1, SaysFacts DEF Replies
  <2> QED BY <2>2 DEF Says
<1>8. {"ok", "error", "queued", "exec"} \subseteq Kinds \ {"nil"} BY DEF Kinds
<1>9. ASSUME NEW r \in Reply
      PROVE  /\ r.kind \notin {"queued", "exec"} /\ ~(cmd.name = "MULTI" /\ r.kind = "ok")
                    => TxState(Append(got, r), asked, tx, queued)
             /\ r.kind # "exec" => TxState(Append(got, r), asked, FALSE, {})
             /\ tx /\ r.kind = "queued" => TxState(Append(got, r), asked, tx, queued \cup {n})
             /\ ~tx /\ cmd.name = "MULTI" /\ r.kind = "ok"
                    => TxState(Append(got, r), asked, TRUE, queued)
             /\ tx /\ r.kind = "exec" /\ r.results = queued
                    => TxState(Append(got, r), asked, FALSE, {})
  <2>1. \A k \in 1..Len(got) : asked[k] = asked[k] OBVIOUS
  <2> QED BY <1>4, <1>5, <2>1, TxReplies DEF cmd
<1>10. SUFFICES \E r \in Reply : Respond(<<r>>) /\ Fits(r)
  <2>1. \A r \in Reply : out \o <<r>> = <<r>> BY <1>4
  <2> QED BY <1>10, <2>1 DEF Respond, cmd, n
<1>11. CASE cmd.name = "MULTI" /\ OpenTx(n)
  <2> DEFINE r == Says(n, IF tx THEN "error" ELSE "ok")
  <2>1. r \in Reply /\ r.kind = IF tx THEN "error" ELSE "ok" BY <1>7, <1>8
  <2>2. Respond(<<r>>) /\ tx' = TRUE /\ queued' = queued BY <1>11 DEF OpenTx
  <2> HIDE DEF r
  <2>3. TxState(Append(got, r), asked, TRUE, queued)
    <3>1. CASE tx BY <1>5, <1>9, <2>1, <3>1
    <3>2. CASE ~tx BY <1>9, <1>11, <2>1, <3>2
    <3> QED BY <3>1, <3>2
  <2> QED BY <1>11, <2>1, <2>2, <2>3
<1>12. CASE cmd.name = "EXEC" /\ ExecTx(n)
  <2> DEFINE r == IF tx THEN [Says(n, "exec") EXCEPT !.results = queued]
                  ELSE Says(n, "error")
  <2>1. r \in Reply /\ (tx => r.kind = "exec" /\ r.results = queued)
        /\ (~tx => r.kind = "error")
    BY <1>7, <1>8
  <2>2. Respond(<<r>>) /\ tx' = FALSE /\ queued' = {} BY <1>12 DEF ExecTx, CloseTx
  <2> HIDE DEF r
  <2>3. TxState(Append(got, r), asked, FALSE, {}) BY <1>9, <2>1
  <2> QED BY <1>12, <2>1, <2>2, <2>3
<1>13. CASE cmd.name = "DISCARD" /\ DiscardTx(n)
  <2> DEFINE r == Says(n, IF tx THEN "ok" ELSE "error")
  <2>1. r \in Reply /\ r.kind # "exec" BY <1>7, <1>8
  <2>2. Respond(<<r>>) /\ tx' = FALSE /\ queued' = {} BY <1>13 DEF DiscardTx, CloseTx
  <2> HIDE DEF r
  <2> QED BY <1>9, <1>13, <2>1, <2>2
<1>14. CASE cmd.name = "RESET" /\ ResetConn(n)
  <2> DEFINE r == Says(n, "ok")
  <2>1. r \in Reply /\ r.kind # "exec" BY <1>7, <1>8
  <2>2. Respond(<<r>>) /\ tx' = FALSE /\ queued' = {} BY <1>14 DEF ResetConn, CloseTx
  <2> HIDE DEF r
  <2> QED BY <1>9, <1>14, <2>1, <2>2
<1>15. CASE tx /\ Queue(n, cmd)
  <2> DEFINE r == Says(n, "queued")
  <2>1. r \in Reply /\ r.kind = "queued" BY <1>7, <1>8
  <2>2. Respond(<<r>>) /\ tx' = tx /\ queued' = queued \cup {n} BY <1>15 DEF Queue
  <2> HIDE DEF r
  <2>3. TxState(Append(got, r), asked, tx, queued \cup {n}) BY <1>9, <1>15, <2>1
  <2> QED BY <2>1, <2>2, <2>3 DEF HelloKinds
<1>16. CASE cmd.name = "HELLO" /\ Greet(n, cmd)
  <2>1. PICK r \in Reply : Respond(<<r>>) /\ r.kind \in {"ok", "error"}
    <3>1. cmd.version \in {0, 2, 3}
      <4>1. n \in 1..Len(asked) BY <1>4, <1>5 DEF n
      <4>2. cmd \in Commands BY <1>1, <4>1 DEF TypeOK, cmd
      <4> QED BY <4>2, SessionAssumption DEF SessionCommand
    <3>2. CASE cmd.version # 0 /\ Respond(<<[Says(n, "ok") EXCEPT !.proto = cmd.version]>>)
      BY <1>7, <1>8, <3>1, <3>2
    <3>3. CASE Respond(<<Says(n, "error")>>) BY <1>7, <1>8, <3>3
    <3> QED BY <1>16, <3>2, <3>3 DEF Greet
  <2>2. tx' = tx /\ queued' = queued BY <1>16 DEF Greet
  <2>3. TxState(Append(got, r), asked, tx, queued) BY <1>9, <1>16, <2>1
  <2> QED BY <2>1, <2>2, <2>3 DEF HelloKinds
<1>17. CASE cmd.name \notin Immediate \cup {"HELLO", "SUBSCRIBE"} /\ Serve(n)
  <2> DEFINE r == Says(n, IF subscribed /\ proto = 2 THEN "error" ELSE "ok")
  <2>1. r \in Reply /\ r.kind \in {"ok", "error"} BY <1>7, <1>8
  <2>2. Respond(<<r>>) /\ tx' = tx /\ queued' = queued BY <1>17 DEF Serve, redis
  <2> HIDE DEF r
  <2>3. TxState(Append(got, r), asked, tx, queued) BY <1>9, <1>17, <2>1 DEF Immediate
  <2> QED BY <1>17, <2>1, <2>2, <2>3
<1> QED
  BY <1>4, <1>6, <1>11, <1>12, <1>13, <1>14, <1>15, <1>16, <1>17 DEF Execute, cmd, n

LEMMA StateExecute ==
    ASSUME IInv, IInv', StateInv, Execute
    PROVE  StateInv'
<1>1. UNCHANGED <<pc, resp3, asked, got, reached>> BY DEF Execute, handler
<1>2. OneReplyEach' <=> OneReplyEach BY <1>1 DEF OneReplyEach
<1> SUFFICES ASSUME OneReplyEach' PROVE StateInv'
  BY DEF StateInv
<1>3. CASE pc = "closed"
  <2>1. NilInProtocol' /\ ExecMatchesQueued'
    BY <1>1, <1>2 DEF StateInv, NilInProtocol, ExecMatchesQueued, MultiAt, Untracked,
                      Speaks3, HelloAt
  <2> QED BY <1>1, <1>3, <2>1 DEF StateInv
<1>4. CASE pc # "closed"
  <2>1. Live BY <1>2, <1>4 DEF Live
  <2>2. PICK r \in Reply :
            /\ out' = <<r>>
            /\ TxState(Append(got, r), asked, tx', queued')
            /\ asked[Len(asked)].name = "HELLO" => r.kind \in HelloKinds
    BY <2>1, ExecuteLive
  <2>3. out' # <<>> /\ out'[1] = r BY <2>2
  <2>4. TxState(Told, asked, tx, queued)' BY <1>1, <2>2, <2>3 DEF Told
  <2>5. ProtoState(got, asked, resp3)' BY <1>1, <2>1, LiveFacts
  <2>6. TypeOK' BY DEF IInv
  <2> QED BY <1>1, <2>2, <2>3, <2>4, <2>5, <2>6, StatesSufficeAfter DEF States
<1> QED BY <1>3, <1>4

LEMMA StateStep == IInv /\ IInv' /\ StateInv /\ [Next]_vars => StateInv'
<1> SUFFICES ASSUME IInv, IInv', StateInv, [Next]_vars PROVE StateInv' OBVIOUS
<1>1. ASSUME NEW e \in Engine, SetEngine(e) PROVE StateInv'
  BY <1>1, StateKept DEF SetEngine, handler, redis
<1>2. ASSUME NEW cmd \in Commands, Read(cmd) PROVE StateInv' BY <1>2, StateRead
<1>3. CASE Relay BY <1>3, StateRelay
<1>4. CASE Close BY <1>4, StateKept DEF Close, redis
<1>5. CASE Execute BY <1>5, StateExecute
<1>6. CASE Publish
  <2>1. ~OneReplyEach BY <1>6 DEF Publish, IInv, Lockstep
  <2>2. OneReplyEach' <=> OneReplyEach BY <1>6 DEF Publish, OneReplyEach
  <2> QED BY <2>1, <2>2 DEF StateInv
<1>7. CASE UNCHANGED vars BY <1>7, StateKept DEF vars, handler, redis
<1> QED BY <1>1, <1>2, <1>3, <1>4, <1>5, <1>6, <1>7 DEF Next

LEMMA StateInvariance == Spec => []StateInv
BY StateInit, StateStep, Invariance, PTL DEF Spec

-----------------------------------------------------------------------------
\* EXEC runs the commands the app was told are queued, no more and no fewer,
\* whatever faults came and went in conn.go's loop while the transaction was
\* open, for conversations of any length.
THEOREM ExecCorrect == Spec => []ExecMatchesQueued
<1>1. StateInv => ExecMatchesQueued BY DEF StateInv, ExecMatchesQueued
<1> QED BY <1>1, StateInvariance, PTL

\* resp3 of handleConn follows what Redis made of HELLO: a synthetic nil is in
\* the protocol the app speaks, for any order of HELLOs, refusals and faults.
THEOREM NilCorrect == Spec => []NilInProtocol
<1>1. StateInv => NilInProtocol BY DEF StateInv, NilInProtocol
<1> QED BY <1>1, StateInvariance, PTL
=============================================================================
