----------------------------- MODULE ProxySession -----------------------------
(***************************************************************************)
(* The conversation on one proxied connection: the commands the handler    *)
(* reads, the engine it decides each with, what Redis makes of those it    *)
(* gets, and the replies the app receives.  Proxy models the same handler  *)
(* with its sockets and its rivals; here it has neither, but its commands  *)
(* have meanings: transactions, the protocol version, subscriptions.       *)
(*                                                                         *)
(* Nothing looks at a command before the handler reads it, so a command of *)
(* a pipeline is chosen when it is read.  The part of Redis is external.   *)
(***************************************************************************)
EXTENDS Naturals, Sequences, FaultEngine

CONSTANTS
    Commands,     \* the commands the app may send
    MaxCommands,  \* bound: commands of the conversation
    MaxMessages   \* bound: replies that wait to be read from Redis

\* A command as FaultEngine sees it, and the version that HELLO asks for.
SessionCommand ==
    [name : STRING, key : Key \cup {NoKey}, version : {0, 2, 3}]

ASSUME SessionAssumption == Commands \subseteq SessionCommand
ASSUME BoundsAssumption == MaxCommands \in Nat /\ MaxMessages \in Nat

VARIABLES
    engine,     \* the proxy's engine
    pc,         \* the handler: "read", "await" or "closed"
    resp3,      \* the handler's idea of the protocol
    asked,      \* the commands read so far
    pending,    \* the commands written to Redis that it has not executed
    out,        \* the replies of Redis that the handler has not read
    got,        \* the replies the app received
    reached,    \* history: the commands written to Redis
    tx, queued, \* Redis: a transaction is open, and the commands it holds
    hello,      \* Redis: the version a queued HELLO will set, or 0
    proto,      \* Redis: the protocol of the connection
    subscribed  \* Redis: the connection has subscriptions

handler == <<pc, resp3>>
redis == <<tx, queued, hello, proto, subscribed>>
vars == <<engine, handler, asked, pending, out, got, reached, redis>>

Kinds == {"ok", "error", "queued", "exec", "nil", "message"}

\* A reply: the command it answers, what it says, the protocol it is written
\* in, and for EXEC the commands whose results it holds.
Reply == [to : 0..MaxCommands, kind : Kinds, proto : {2, 3},
          results : SUBSET (1..MaxCommands)]

\* The handler reads one reply for every command it forwards; SUBSCRIBE has
\* several, and messages without a command after them.
OneReplyEach == \A n \in reached : asked[n].name # "SUBSCRIBE"

\* Types, and that at most one command is under way to Redis while each of
\* them has one reply.
TypeOK ==
    /\ engine \in Engine
    /\ pc \in {"read", "await", "closed"}
    /\ resp3 \in BOOLEAN
    /\ asked \in Seq(Commands)
    /\ Len(asked) <= MaxCommands
    /\ pending \in Seq(1..MaxCommands)
    /\ OneReplyEach => Len(pending) <= 1
    /\ out \in Seq(Reply)
    /\ got \in Seq(Reply)
    /\ reached \in SUBSET (1..MaxCommands)
    /\ tx \in BOOLEAN
    /\ queued \in SUBSET (1..MaxCommands)
    /\ hello \in {0, 2, 3}
    /\ proto \in {2, 3}
    /\ subscribed \in BOOLEAN

\* The handler has dialled Redis and enters its loop.
Init ==
    /\ engine \in {PassThrough, RandomMiss}
    /\ pc = "read" /\ resp3 = FALSE
    /\ asked = <<>> /\ pending = <<>> /\ out = <<>> /\ got = <<>>
    /\ reached = {}
    /\ tx = FALSE /\ queued = {} /\ hello = 0
    /\ proto = 2 /\ subscribed = FALSE

-----------------------------------------------------------------------------
(* The handler. *)

SetEngine(e) ==
    /\ pc # "closed"
    /\ engine' = e
    /\ UNCHANGED <<handler, asked, pending, out, got, reached, redis>>

Answer(n, kind) ==
    [to |-> n, kind |-> kind, proto |-> IF resp3 THEN 3 ELSE 2, results |-> {}]

Drop ==
    /\ pc' = "closed"
    /\ UNCHANGED <<resp3, pending, out, got, reached>>

\* Mutant: the error is written, and the command is decided on all the same.
RejectForwards(n) ==
    /\ got' = Append(got, [Answer(n, "error") EXCEPT !.proto = 2])
    /\ pc' = "await"
    /\ pending' = Append(pending, n)
    /\ reached' = reached \cup {n}
    /\ UNCHANGED <<resp3, out>>

\* An error is written the same way in both protocols.
Reject(n) ==
    /\ got' = Append(got, [Answer(n, "error") EXCEPT !.proto = 2])
    /\ UNCHANGED <<handler, pending, out, reached>>

\* Mutant: the missed read is sent to Redis too, and its reply left there.
MissForwards(n) ==
    /\ got' = Append(got, Answer(n, "nil"))
    /\ pending' = Append(pending, n)
    /\ reached' = reached \cup {n}
    /\ UNCHANGED <<handler, out>>

Miss(n) ==
    /\ got' = Append(got, Answer(n, "nil"))
    /\ UNCHANGED <<handler, pending, out, reached>>

Forward(n) ==
    /\ pc' = "await"
    /\ pending' = Append(pending, n)
    /\ reached' = reached \cup {n}
    /\ UNCHANGED <<resp3, out, got>>

\* The next command is read and decided on.
Read(cmd) ==
    /\ pc = "read"
    /\ Len(asked) < MaxCommands
    /\ asked' = Append(asked, cmd)
    /\ LET n == Len(asked) + 1
           verdict == Verdict(engine, cmd)
       IN  \/ verdict = "drop" /\ Drop
           \/ verdict = "reject" /\ Reject(n)
           \/ verdict = "miss" /\ Miss(n)
           \/ verdict = "forward" /\ Forward(n)
    /\ UNCHANGED <<engine, redis>>

\* Mutant: a HELLO that Redis refused counts.
NewProtocolUnchecked(cmd, reply) ==
    IF cmd.name = "HELLO" /\ cmd.version # 0 THEN cmd.version = 3 ELSE resp3

\* helloProtocol, and the kind of the reply: any but an error counts.
NewProtocol(cmd, reply) ==
    IF cmd.name = "HELLO" /\ cmd.version # 0 /\ reply.kind # "error"
    THEN cmd.version = 3 ELSE resp3

\* One reply of Redis is read, passed on, and the handler is back in its loop.
Relay ==
    /\ pc = "await"
    /\ out # <<>>
    /\ got' = Append(got, Head(out))
    /\ out' = Tail(out)
    /\ resp3' = NewProtocol(asked[Len(asked)], Head(out))
    /\ pc' = "read"
    /\ UNCHANGED <<engine, asked, pending, reached, redis>>

\* Either side closes, or a read or a write fails.
Close ==
    /\ pc # "closed"
    /\ pc' = "closed"
    /\ UNCHANGED <<engine, resp3, asked, pending, out, got, reached, redis>>

-----------------------------------------------------------------------------
(* Redis, one connection of it. *)

Says(n, kind) == [to |-> n, kind |-> kind, proto |-> proto, results |-> {}]

Respond(replies) == out' = out \o replies

\* Commands that a transaction does not hold back.
Immediate == {"MULTI", "EXEC", "DISCARD", "RESET"}

OpenTx(n) ==
    /\ Respond(<<Says(n, IF tx THEN "error" ELSE "ok")>>)
    /\ tx' = TRUE
    /\ UNCHANGED <<queued, hello, proto, subscribed>>

CloseTx == tx' = FALSE /\ queued' = {} /\ hello' = 0

\* EXEC runs what is queued, a HELLO among it included.
ExecTx(n) ==
    /\ Respond(<<IF tx THEN [Says(n, "exec") EXCEPT !.results = queued]
                 ELSE Says(n, "error")>>)
    /\ proto' = IF hello # 0 THEN hello ELSE proto
    /\ CloseTx
    /\ UNCHANGED subscribed

DiscardTx(n) ==
    /\ Respond(<<Says(n, IF tx THEN "ok" ELSE "error")>>)
    /\ CloseTx
    /\ UNCHANGED <<proto, subscribed>>

\* RESET ends transaction and subscriptions and goes back to RESP2.
ResetConn(n) ==
    /\ Respond(<<Says(n, "ok")>>)
    /\ CloseTx
    /\ proto' = 2
    /\ subscribed' = FALSE

Queue(n, cmd) ==
    /\ Respond(<<Says(n, "queued")>>)
    /\ queued' = queued \cup {n}
    /\ hello' = IF cmd.name = "HELLO" /\ cmd.version # 0 THEN cmd.version ELSE hello
    /\ UNCHANGED <<tx, proto, subscribed>>

\* HELLO answers in the new protocol, or is refused.
Greet(n, cmd) ==
    /\ \/ /\ cmd.version # 0
          /\ proto' = cmd.version
          /\ Respond(<<[Says(n, "ok") EXCEPT !.proto = cmd.version]>>)
       \/ /\ Respond(<<Says(n, "error")>>)
          /\ UNCHANGED proto
    /\ UNCHANGED <<tx, queued, hello, subscribed>>

\* SUBSCRIBE to two channels is confirmed once for each.
Subscribe(n) ==
    /\ Respond(<<Says(n, "ok"), Says(n, "message")>>)
    /\ subscribed' = TRUE
    /\ UNCHANGED <<tx, queued, hello, proto>>

\* Other commands, refused on a RESP2 connection that has subscriptions.
Serve(n) ==
    /\ Respond(<<Says(n, IF subscribed /\ proto = 2 THEN "error" ELSE "ok")>>)
    /\ UNCHANGED redis

Execute ==
    /\ pending # <<>>
    /\ Len(out) <= MaxMessages
    /\ pending' = Tail(pending)
    /\ LET n == Head(pending)
           cmd == asked[n]
       IN  \/ cmd.name = "MULTI" /\ OpenTx(n)
           \/ cmd.name = "EXEC" /\ ExecTx(n)
           \/ cmd.name = "DISCARD" /\ DiscardTx(n)
           \/ cmd.name = "RESET" /\ ResetConn(n)
           \/ cmd.name \notin Immediate /\ tx /\ Queue(n, cmd)
           \/ cmd.name = "HELLO" /\ ~tx /\ Greet(n, cmd)
           \/ cmd.name = "SUBSCRIBE" /\ ~tx /\ Subscribe(n)
           \/ cmd.name \notin Immediate \cup {"HELLO", "SUBSCRIBE"} /\ ~tx /\ Serve(n)
    /\ UNCHANGED <<engine, handler, asked, got, reached>>

\* Somebody publishes to a channel of the connection.
Publish ==
    /\ subscribed
    /\ pc # "closed"
    /\ Len(out) < MaxMessages
    /\ Respond(<<Says(0, "message")>>)
    /\ UNCHANGED <<engine, handler, asked, pending, got, reached, redis>>

Next ==
    \/ \E e \in Engine : SetEngine(e)
    \/ \E cmd \in Commands : Read(cmd)
    \/ Relay \/ Close \/ Execute \/ Publish

Spec == Init /\ [][Next]_vars

\* Redis executes what it is sent, and the handler reads what it waits for.
FairSpec == Spec /\ WF_vars(Execute) /\ WF_vars(Relay)

-----------------------------------------------------------------------------
\* Replies to pipelined commands keep their order, whoever answers: the n-th
\* reply is the one to the n-th command (proxy_test.go:41).
RepliesInOrder == OneReplyEach => \A n \in DOMAIN got : got[n].to = n

\* A read the app was told is a miss was never written to Redis, whatever it
\* would have changed there (GETDEL, GETEX); and while the connection lives
\* every other command read has reached Redis or has its reply.
AnsweredOnce ==
    /\ \A n \in DOMAIN got : got[n].kind = "nil" => got[n].to \notin reached
    /\ \A n \in 1..Len(asked) :
        n \in reached \/ (\E m \in DOMAIN got : got[m].to = n) \/ pc = "closed"

\* HELLO answered at n set the version that command n asks for.
HelloAt(n) == asked[n].name = "HELLO" /\ asked[n].version # 0 /\ got[n].kind = "ok"

\* The protocol the app speaks before reply n: that of its last HELLO.
Speaks3(n) ==
    \E m \in 1..(n - 1) :
        /\ HelloAt(m) /\ asked[m].version = 3
        /\ \A k \in (m + 1)..(n - 1) : ~HelloAt(k)

\* RESET, or HELLO in a transaction: the handler does not follow these.
Untracked(n) ==
    \E m \in 1..(n - 1) :
        \/ asked[m].name = "RESET"
        \/ asked[m].name = "HELLO" /\ got[m].kind = "queued"

\* A synthetic nil is written in the protocol the app speaks by then, refused
\* HELLOs and engine switches between notwithstanding.
NilInProtocol ==
    OneReplyEach => \A n \in DOMAIN got :
        got[n].kind = "nil" /\ ~Untracked(n) => (got[n].proto = 3 <=> Speaks3(n))

\* Where a transaction that Redis accepted begins in the conversation.
MultiAt(n) == asked[n].name = "MULTI" /\ got[n].kind = "ok"

\* A transaction executes exactly the commands the app was told are queued,
\* even if a fault came and went while it was open and cut commands from it.
ExecMatchesQueued ==
    OneReplyEach => \A n \in DOMAIN got : got[n].kind = "exec" =>
        \E first \in 1..(n - 1) :
            /\ MultiAt(first)
            /\ \A k \in (first + 1)..(n - 1) : ~MultiAt(k)
            /\ got[n].results = {k \in (first + 1)..(n - 1) : got[k].kind = "queued"}

\* Whatever Redis sends is forwarded in the end, and leaves nothing behind for
\* a later command, whichever engines come and go.
ForwardsReplies ==
    (out # <<>>) ~> (out = <<>> \/ pc = "closed" \/ ~OneReplyEach)

\* README.md:50: "The proxy forwards normal traffic byte-for-byte in
\* pass-through mode".  What Redis sends then reaches the app in the end.
PassThroughForwards ==
    [](engine = PassThrough) => ((out # <<>>) ~> (out = <<>> \/ pc = "closed"))
=============================================================================
