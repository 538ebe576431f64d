-------------------------------- MODULE Proxy --------------------------------
(***************************************************************************)
(* The lifecycle of the TCP proxy (internal/proxy): the accept loop, one   *)
(* handler and one watcher goroutine per connection, and the controller    *)
(* that starts the proxy, switches engines, closes connections and shuts   *)
(* it down.  Every section under Proxy.mu is one step, every socket call   *)
(* that another goroutine can race with is one step, and purely local work *)
(* is folded into the step before it.                                      *)
(*                                                                         *)
(* A connection identifier stands for one TCP connection of the app.  The  *)
(* commands in flight are counted: which command was read matters only     *)
(* when the handler decides on it.  Redis and the app are external.        *)
(***************************************************************************)
EXTENDS Naturals, FiniteSets, FaultEngine

CONSTANTS
    Conn,         \* the app's TCP connections
    Commands,     \* the commands the app may send
    MaxPipeline   \* bound: commands sent on one connection

ASSUME ConnAssumption == IsFiniteSet(Conn)
ASSUME CommandsAssumption == Commands \subseteq CommandType
ASSUME PipelineAssumption == MaxPipeline \in Nat

VARIABLES
    \* Proxy fields
    engine,       \* the current fault engine
    listener,     \* the listening socket: "unset", "open" or "closed"
    conns,        \* the connections registered for CloseAllConns
    wg,           \* the counter of the WaitGroup
    ctxDone,      \* the run context is cancelled
    \* goroutines
    ctl,          \* where the controller is
    toClose,      \* the snapshot CloseAllConns still has to close
    severed,      \* CloseAllConns has run since SetEngine(Unavailable)
    acceptor,     \* where the accept loop is
    pc,           \* where each connection and its handler are
    watch,        \* the watcher goroutine of each connection
    \* sockets
    appOpen,      \* the proxy's end of the app connection is open
    upOpen,       \* the proxy's end of the upstream connection is open
    appGone,      \* the app has closed its end
    sock,         \* commands in the kernel's receive buffer
    buf,          \* commands in the handler's bufio.Reader
    sent,         \* commands the app has sent
    late          \* commands forwarded after appOpen became FALSE

proxyVars == <<engine, listener, conns, wg, ctxDone>>
ctlVars   == <<ctl, toClose, severed>>
dataVars  == <<sock, buf, sent, late>>
sockVars  == <<appOpen, upOpen, appGone>>
vars == <<proxyVars, ctlVars, acceptor, pc, watch, sockVars, dataVars>>

-----------------------------------------------------------------------------
(* Where a connection can be. *)

\* The app's side or the kernel holds it: no handler yet.
NoHandler == {"idle", "backlog", "accepted", "dropped"}

\* The handler has passed the admission check and not yet left its loop.
Admitted == {"dial", "ping", "loop", "read", "decide", "reject", "miss",
             "forward", "await", "reply"}

\* Between registerConn and unregisterConn.
Registered == {"check", "teardown", "unregister"} \cup Admitted

\* Counted in the WaitGroup.
Running == {"register", "release"} \cup Registered

Status == NoHandler \cup Running \cup {"done"}

CtlStatus == {"new", "failed", "idle", "closing", "unlisten", "sweep",
              "sweeping", "wait", "stopped", "timedout", "errored"}

Serving(c) == pc[c] \in Admitted
Live(c) == Serving(c) /\ appOpen[c]

TypeOK ==
    /\ engine \in Engine
    /\ listener \in {"unset", "open", "closed"}
    /\ conns \subseteq Conn
    /\ wg \in Nat
    /\ ctxDone \in BOOLEAN
    /\ ctl \in CtlStatus
    /\ toClose \subseteq Conn
    /\ severed \in BOOLEAN
    /\ acceptor \in {"off", "accept", "spawn", "ended"}
    /\ pc \in [Conn -> Status]
    /\ watch \in [Conn -> {"none", "waiting", "closing", "ended"}]
    /\ appOpen \in [Conn -> BOOLEAN]
    /\ upOpen \in [Conn -> BOOLEAN]
    /\ appGone \in [Conn -> BOOLEAN]
    /\ sock \in [Conn -> 0..MaxPipeline]
    /\ buf \in [Conn -> 0..MaxPipeline]
    /\ sent \in [Conn -> 0..MaxPipeline]
    /\ late \in [Conn -> Nat]

Init ==
    /\ engine = PassThrough
    /\ listener = "unset"
    /\ conns = {}
    /\ wg = 0
    /\ ctxDone = FALSE
    /\ ctl = "new"
    /\ toClose = {}
    /\ severed = FALSE
    /\ acceptor = "off"
    /\ pc = [c \in Conn |-> "idle"]
    /\ watch = [c \in Conn |-> "none"]
    /\ appOpen = [c \in Conn |-> FALSE]
    /\ upOpen = [c \in Conn |-> FALSE]
    /\ appGone = [c \in Conn |-> FALSE]
    /\ sock = [c \in Conn |-> 0]
    /\ buf = [c \in Conn |-> 0]
    /\ sent = [c \in Conn |-> 0]
    /\ late = [c \in Conn |-> 0]

-----------------------------------------------------------------------------
(* The controller: the orchestrator's goroutine. *)

\* A step that only moves the controller on.
CtlStep(from, to) ==
    /\ ctl = from
    /\ ctl' = to
    /\ UNCHANGED <<proxyVars, toClose, severed, acceptor, pc, watch, sockVars,
                   dataVars>>

\* Mutant: the accept loop is not counted in the WaitGroup.
StartUncounted ==
    /\ ctl = "new"
    /\ ~ctxDone
    /\ ctl' = "idle"
    /\ listener' = "open"
    /\ acceptor' = "accept"
    /\ UNCHANGED <<engine, conns, wg, ctxDone, toClose, severed, pc, watch,
                   sockVars, dataVars>>

Start ==
    /\ ctl = "new"
    /\ ~ctxDone
    /\ ctl' = "idle"
    /\ listener' = "open"
    /\ wg' = wg + 1
    /\ acceptor' = "accept"
    /\ UNCHANGED <<engine, conns, ctxDone, toClose, severed, pc, watch,
                   sockVars, dataVars>>

\* The context is already done, or net.Listen fails.
StartFails == CtlStep("new", "failed")

\* A signal cancels the context the run context is derived from.
ParentCancel ==
    /\ ~ctxDone
    /\ ctxDone' = TRUE
    /\ UNCHANGED <<engine, listener, conns, wg, ctlVars, acceptor, pc, watch,
                   sockVars, dataVars>>

SetEngine(e) ==
    /\ ctl = "idle"
    /\ engine' = e
    /\ severed' = (severed /\ e = Unavailable)
    /\ UNCHANGED <<listener, conns, wg, ctxDone, ctl, toClose, acceptor, pc,
                   watch, sockVars, dataVars>>

\* CloseAllConns takes its snapshot under the lock, in the middle of a
\* scenario ("closing") or of Shutdown ("sweeping") ...
SnapshotConns ==
    /\ \/ ctl = "idle" /\ ctl' = "closing"
       \/ ctl = "sweep" /\ ctl' = "sweeping"
    /\ toClose' = conns
    /\ UNCHANGED <<proxyVars, severed, acceptor, pc, watch, sockVars, dataVars>>

\* ... and closes the connections one by one without it.
CloseConn(c) ==
    /\ ctl \in {"closing", "sweeping"}
    /\ c \in toClose
    /\ toClose' = toClose \ {c}
    /\ appOpen' = [appOpen EXCEPT ![c] = FALSE]
    /\ UNCHANGED <<proxyVars, ctl, severed, acceptor, pc, watch, upOpen,
                   appGone, dataVars>>

ConnsClosed ==
    /\ toClose = {}
    /\ \/ /\ ctl = "closing"
          /\ ctl' = "idle"
          /\ severed' = (severed \/ engine = Unavailable)
       \/ /\ ctl = "sweeping"
          /\ ctl' = "wait"
          /\ UNCHANGED severed
    /\ UNCHANGED <<proxyVars, toClose, acceptor, pc, watch, sockVars, dataVars>>

\* Shutdown takes listener and cancel under the lock, then calls cancel().
BeginShutdown ==
    /\ ctl = "idle"
    /\ ctl' = "unlisten"
    /\ ctxDone' = TRUE
    /\ UNCHANGED <<engine, listener, conns, wg, toClose, severed, acceptor, pc,
                   watch, sockVars, dataVars>>

\* listener.Close: the kernel resets what is still in the backlog.  When the
\* call reports an error, Shutdown returns it at once.
CloseListener ==
    /\ ctl = "unlisten"
    /\ ctl' \in {"sweep", "errored"}
    /\ listener' = "closed"
    /\ pc' = [c \in Conn |-> IF pc[c] = "backlog" THEN "dropped" ELSE pc[c]]
    /\ appOpen' = [c \in Conn |-> appOpen[c] /\ pc[c] # "backlog"]
    /\ UNCHANGED <<engine, conns, wg, ctxDone, toClose, severed, acceptor,
                   watch, upOpen, appGone, dataVars>>

\* Mutant: Shutdown does not wait for the WaitGroup.
DrainedAtOnce == CtlStep("wait", "stopped")

\* The select in Shutdown: the WaitGroup drained, or its context expired.
Drained == wg = 0 /\ CtlStep("wait", "stopped")

DrainTimesOut == CtlStep("wait", "timedout")

-----------------------------------------------------------------------------
(* The accept loop. *)

Accept(c) ==
    /\ acceptor = "accept"
    /\ listener = "open"
    /\ pc[c] = "backlog"
    /\ acceptor' = "spawn"
    /\ pc' = [pc EXCEPT ![c] = "accepted"]
    /\ UNCHANGED <<proxyVars, ctlVars, watch, sockVars, dataVars>>

\* Mutant: the handler is started without wg.Add(1).
SpawnUncounted(c) ==
    /\ acceptor = "spawn"
    /\ pc[c] = "accepted"
    /\ acceptor' = "accept"
    /\ pc' = [pc EXCEPT ![c] = "register"]
    /\ UNCHANGED <<proxyVars, ctlVars, watch, sockVars, dataVars>>

\* wg.Add(1) and the go statement.
Spawn(c) ==
    /\ acceptor = "spawn"
    /\ pc[c] = "accepted"
    /\ acceptor' = "accept"
    /\ wg' = wg + 1
    /\ pc' = [pc EXCEPT ![c] = "register"]
    /\ UNCHANGED <<engine, listener, conns, ctxDone, ctlVars, watch, sockVars,
                   dataVars>>

\* Accept failed: the loop returns when the listener is closed, or on any
\* error once the context is done; otherwise it tries again.
AcceptReturns ==
    /\ acceptor = "accept"
    /\ listener = "closed" \/ ctxDone
    /\ acceptor' = "ended"
    /\ wg' = wg - 1
    /\ UNCHANGED <<engine, listener, conns, ctxDone, ctlVars, pc, watch,
                   sockVars, dataVars>>

-----------------------------------------------------------------------------
(* One handler per connection: handleConn. *)

Goto(c, from, to) == pc[c] = from /\ pc' = [pc EXCEPT ![c] = to]

\* A step that only moves the handler on.
Step(c, from, to) ==
    /\ Goto(c, from, to)
    /\ UNCHANGED <<proxyVars, ctlVars, acceptor, watch, sockVars, dataVars>>

\* Mutant: the connection is not registered.
RegisterNothing(c) == Step(c, "register", "check")

Register(c) ==
    /\ Goto(c, "register", "check")
    /\ conns' = conns \cup {c}
    /\ UNCHANGED <<engine, listener, wg, ctxDone, ctlVars, acceptor, watch,
                   sockVars, dataVars>>

\* Mutant: the refusal returns before the deferred calls are set up.
AdmitReturnsEarly(c) ==
    Step(c, "check", IF RefuseConnections(engine) THEN "done" ELSE "dial")

\* The admission check reads the engine under the lock.
Admit(c) ==
    Step(c, "check", IF RefuseConnections(engine) THEN "teardown" ELSE "dial")

\* resp.DialContext connects and, unless the context is done by then, sends
\* PING; a cancelled context ends the dial.
Dial(c) ==
    /\ \/ /\ ~ctxDone
          /\ Goto(c, "dial", "ping")
          /\ upOpen' = [upOpen EXCEPT ![c] = TRUE]
       \/ /\ Goto(c, "dial", "teardown")
          /\ UNCHANGED upOpen
    /\ UNCHANGED <<proxyVars, ctlVars, acceptor, watch, appOpen, appGone,
                   dataVars>>

\* The reply to PING, or its absence: the read has a deadline, and does not
\* notice that the context is cancelled.  On success the watcher starts.
Ping(c) ==
    /\ \/ /\ Goto(c, "ping", "loop")
          /\ watch' = [watch EXCEPT ![c] = "waiting"]
          /\ UNCHANGED upOpen
       \/ /\ Goto(c, "ping", "teardown")
          /\ upOpen' = [upOpen EXCEPT ![c] = FALSE]
          /\ UNCHANGED watch
    /\ UNCHANGED <<proxyVars, ctlVars, acceptor, appOpen, appGone, dataVars>>

\* The top of the loop looks at the context.
CheckContext(c) == Step(c, "loop", IF ctxDone THEN "teardown" ELSE "read")

\* resp.ReadCommand is served from the reader's buffer, whatever has become
\* of the socket ...
ReadBuffered(c) ==
    /\ Goto(c, "read", "decide")
    /\ buf[c] > 0
    /\ buf' = [buf EXCEPT ![c] = @ - 1]
    /\ UNCHANGED <<proxyVars, ctlVars, acceptor, watch, sockVars, sock, sent,
                   late>>

\* ... or fills the buffer first with some or all of what has arrived.
ReadSocket(c) ==
    /\ Goto(c, "read", "decide")
    /\ buf[c] = 0
    /\ appOpen[c]
    /\ \E n \in 1..sock[c] :
          /\ sock' = [sock EXCEPT ![c] = @ - n]
          /\ buf' = [buf EXCEPT ![c] = n - 1]
    /\ UNCHANGED <<proxyVars, ctlVars, acceptor, watch, sockVars, sent, late>>

\* The read fails: end of file, a closed or reset socket, or what arrived is
\* not a command.
ReadFails(c) ==
    /\ ~appOpen[c] \/ appGone[c] \/ buf[c] + sock[c] > 0
    /\ Step(c, "read", "teardown")

\* The handler takes the engine under the lock and keeps its verdict from
\* here on, whatever the engine becomes.
VerdictStatus(e, cmd) ==
    IF Verdict(e, cmd) = "drop" THEN "teardown" ELSE Verdict(e, cmd)

DecideCommand(c) ==
    \E cmd \in Commands : Step(c, "decide", VerdictStatus(engine, cmd))

\* The refusal of an unsupported command: a failed write is only logged.
WriteReject(c) == Step(c, "reject", "loop")

\* forwardCommand: write upstream, read one reply, write it to the app.
WriteUpstream(c) ==
    /\ upOpen[c]
    /\ Goto(c, "forward", "await")
    /\ late' = IF appOpen[c] THEN late ELSE [late EXCEPT ![c] = @ + 1]
    /\ UNCHANGED <<proxyVars, ctlVars, acceptor, watch, sockVars, sock, buf,
                   sent>>

ReadReply(c) == upOpen[c] /\ Step(c, "await", "reply")

\* The upstream write or read fails.
UpstreamFails(c) == \E at \in {"forward", "await"} : Step(c, at, "teardown")

\* The app gets the synthetic nil, or the reply of Redis.
WriteApp(c) ==
    appOpen[c] /\ \E at \in {"miss", "reply"} : Step(c, at, "loop")

\* Mutant: the failed write is logged and the loop goes on.
AppWriteFailsLogged(c) ==
    /\ ~appOpen[c] \/ appGone[c]
    /\ \E at \in {"miss", "reply"} : Step(c, at, "loop")

\* That write fails: the socket is closed at either end.
AppWriteFails(c) ==
    /\ ~appOpen[c] \/ appGone[c]
    /\ \E at \in {"miss", "reply"} : Step(c, at, "teardown")

\* Mutant: client.Close is not deferred.
CloseAppOnly(c) ==
    /\ Goto(c, "teardown", "unregister")
    /\ appOpen' = [appOpen EXCEPT ![c] = FALSE]
    /\ UNCHANGED <<proxyVars, ctlVars, acceptor, watch, upOpen, appGone,
                   dataVars>>

\* The deferred calls, last first: close(stopWatch), client.Close,
\* appConn.Close ...
CloseSockets(c) ==
    /\ Goto(c, "teardown", "unregister")
    /\ upOpen' = [upOpen EXCEPT ![c] = FALSE]
    /\ appOpen' = [appOpen EXCEPT ![c] = FALSE]
    /\ UNCHANGED <<proxyVars, ctlVars, acceptor, watch, appGone, dataVars>>

\* ... unregisterConn under the lock ...
Unregister(c) ==
    /\ Goto(c, "unregister", "release")
    /\ conns' = conns \ {c}
    /\ UNCHANGED <<engine, listener, wg, ctxDone, ctlVars, acceptor, watch,
                   sockVars, dataVars>>

\* ... and wg.Done.
Release(c) ==
    /\ Goto(c, "release", "done")
    /\ wg' = wg - 1
    /\ UNCHANGED <<engine, listener, conns, ctxDone, ctlVars, acceptor, watch,
                   sockVars, dataVars>>

-----------------------------------------------------------------------------
(* The watcher goroutine of a connection: it waits for the cancellation,   *)
(* then closes the app's socket and after it the upstream one, or ends     *)
(* when the handler's teardown has closed stopWatch.                       *)

StopWatchClosed(c) == pc[c] \in {"unregister", "release", "done"}

WatcherClosesApp(c) ==
    /\ watch[c] = "waiting"
    /\ ctxDone
    /\ watch' = [watch EXCEPT ![c] = "closing"]
    /\ appOpen' = [appOpen EXCEPT ![c] = FALSE]
    /\ UNCHANGED <<proxyVars, ctlVars, acceptor, pc, upOpen, appGone, dataVars>>

\* Mutant: the watcher closes the app's socket only.
WatcherForgetsUpstream(c) ==
    /\ watch[c] = "closing"
    /\ watch' = [watch EXCEPT ![c] = "ended"]
    /\ UNCHANGED <<proxyVars, ctlVars, acceptor, pc, sockVars, dataVars>>

WatcherClosesUpstream(c) ==
    /\ watch[c] = "closing"
    /\ watch' = [watch EXCEPT ![c] = "ended"]
    /\ upOpen' = [upOpen EXCEPT ![c] = FALSE]
    /\ UNCHANGED <<proxyVars, ctlVars, acceptor, pc, appOpen, appGone, dataVars>>

WatcherStopped(c) ==
    /\ watch[c] = "waiting"
    /\ StopWatchClosed(c)
    /\ watch' = [watch EXCEPT ![c] = "ended"]
    /\ UNCHANGED <<proxyVars, ctlVars, acceptor, pc, sockVars, dataVars>>

-----------------------------------------------------------------------------
(* The app.  It may send and close as soon as it is connected; nothing looks
   at the data or the end of file before the handler is in its loop, so here
   it does so from that moment on. *)

InLoop(c) == pc[c] \in Admitted \ {"dial", "ping"}

Connect(c) ==
    /\ listener = "open"
    /\ Goto(c, "idle", "backlog")
    /\ appOpen' = [appOpen EXCEPT ![c] = TRUE]
    /\ UNCHANGED <<proxyVars, ctlVars, acceptor, watch, upOpen, appGone,
                   dataVars>>

Send(c) ==
    /\ InLoop(c)
    /\ appOpen[c]
    /\ ~appGone[c]
    /\ sent[c] < MaxPipeline
    /\ sent' = [sent EXCEPT ![c] = @ + 1]
    /\ sock' = [sock EXCEPT ![c] = @ + 1]
    /\ UNCHANGED <<proxyVars, ctlVars, acceptor, pc, watch, sockVars, buf, late>>

AppCloses(c) ==
    /\ InLoop(c)
    /\ appOpen[c]
    /\ ~appGone[c]
    /\ appGone' = [appGone EXCEPT ![c] = TRUE]
    /\ UNCHANGED <<proxyVars, ctlVars, acceptor, pc, watch, appOpen, upOpen,
                   dataVars>>

-----------------------------------------------------------------------------
Controller ==
    \/ Start \/ StartFails \/ ParentCancel
    \/ \E e \in Engine : SetEngine(e)
    \/ SnapshotConns \/ (\E c \in Conn : CloseConn(c)) \/ ConnsClosed
    \/ BeginShutdown \/ CloseListener \/ Drained \/ DrainTimesOut

AcceptLoop == (\E c \in Conn : Accept(c) \/ Spawn(c)) \/ AcceptReturns

Handler(c) ==
    \/ Register(c) \/ Admit(c) \/ Dial(c) \/ Ping(c) \/ CheckContext(c)
    \/ ReadBuffered(c) \/ ReadSocket(c) \/ ReadFails(c)
    \/ DecideCommand(c) \/ WriteReject(c)
    \/ WriteUpstream(c) \/ ReadReply(c) \/ UpstreamFails(c)
    \/ WriteApp(c) \/ AppWriteFails(c)
    \/ CloseSockets(c) \/ Unregister(c) \/ Release(c)

Watcher(c) == WatcherClosesApp(c) \/ WatcherClosesUpstream(c) \/ WatcherStopped(c)

App(c) == Connect(c) \/ Send(c) \/ AppCloses(c)

Next ==
    \/ Controller
    \/ AcceptLoop
    \/ \E c \in Conn : Handler(c) \/ Watcher(c) \/ App(c)

Spec == Init /\ [][Next]_vars

-----------------------------------------------------------------------------
(* Fairness: the Go scheduler runs every goroutine that can run, and the   *)
(* kernel reports a closed socket.  Nothing is assumed of Redis beyond the *)
(* deadlines DialContext sets, nor that a write ever finds room, nor that  *)
(* anybody cancels, sends, connects or shuts down.                         *)

Progress(c) ==
    \/ Register(c) \/ Admit(c) \/ Dial(c) \/ Ping(c) \/ CheckContext(c)
    \/ ReadBuffered(c) \/ ReadSocket(c) \/ ReadFails(c)
    \/ DecideCommand(c)
    \/ ((~appOpen[c] \/ appGone[c]) /\ WriteReject(c))
    \/ AppWriteFails(c)
    \/ (~upOpen[c] /\ UpstreamFails(c))
    \/ CloseSockets(c) \/ Unregister(c) \/ Release(c)

Fairness ==
    /\ WF_vars(\E c \in Conn : Spawn(c))
    /\ WF_vars(listener = "closed" /\ AcceptReturns)
    /\ \A c \in Conn : WF_vars(Progress(c)) /\ WF_vars(Watcher(c))

FairSpec == Spec /\ Fairness

\* A Redis that reads what it is sent, and one that also answers.
ReadingRedis == \A c \in Conn : WF_vars(WriteUpstream(c))
AnsweringRedis == ReadingRedis /\ \A c \in Conn : WF_vars(ReadReply(c))
ReadingSpec == FairSpec /\ ReadingRedis

-----------------------------------------------------------------------------
(* Properties. *)

\* sync.WaitGroup: the counter is the accept loop plus the handlers between
\* the go statement and their wg.Done; a handler lost from it would let
\* Shutdown return while it still serves, one counted twice would hang it.
WaitGroupCount ==
    wg = Cardinality({c \in Conn : pc[c] \in Running})
         + (IF acceptor \in {"accept", "spawn"} THEN 1 ELSE 0)

\* redis_unavailable: once CloseAllConns has run under the unavailable engine,
\* no admitted connection is open to the app, although the accept loop and
\* the handlers never stopped and CloseAllConns works from a snapshot.
UnavailableSevers == severed => \A c \in Conn : ~Live(c)

\* Shutdown that returns nil has left nothing behind: no handler, no
\* registered connection, no socket, and no accept loop that could make one.
CleanShutdown ==
    ctl = "stopped" =>
        /\ acceptor = "ended"
        /\ conns = {}
        /\ \A c \in Conn : pc[c] \notin Running /\ ~upOpen[c] /\ ~appOpen[c]

\* After the app's connection is closed under a handler, commands already in
\* its reader may still be decided on, but at most one reaches Redis: the
\* failed write of its reply ends the handler.
ClosedForwardsAtMostOne == \A c \in Conn : late[c] <= 1

\* sync.WaitGroup forbids an Add that raises the counter from zero while a
\* Wait may be running: past Start, no step does.
NoAddAfterDrain == [][wg = 0 /\ wg' > wg => ctl = "new"]_vars

\* Whatever Redis and the app do, once the listener is closed every handler,
\* the accept loop and every watcher end: nothing outlives the proxy, even
\* when Shutdown itself timed out.
Quiet == wg = 0 /\ \A c \in Conn : watch[c] \notin {"waiting", "closing"}
Quiesces == (listener = "closed") ~> Quiet

\* README: "active Redis connections are closed".  The connection to Redis
\* of a severed app connection is eventually closed (or the cut ends): so
\* when Redis answers, not when a command blocks there.
SeverReleasesUpstream ==
    severed ~> (~severed \/ \A c \in Conn : upOpen[c] => appOpen[c])

\* With a Redis that reads and answers what it is sent, a cut does reach Redis.
AnsweredSeverReleases == AnsweringRedis => SeverReleasesUpstream

-----------------------------------------------------------------------------
(* The proxy implements its contract. *)

phaseBar ==
    CASE ctl \in {"new", "failed"}   -> "down"
      [] ctl \in {"idle", "closing"} -> "up"
      [] ctl = "stopped"             -> "stopped"
      [] OTHER                       -> "stopping"

gateBar ==
    IF engine # Unavailable THEN "open" ELSE IF severed THEN "cut" ELSE "closing"

liveBar == {c \in Conn : Live(c)}

Contract == INSTANCE ProxyContract
                WITH phase <- phaseBar, gate <- gateBar, live <- liveBar

\* Every step of the code is a step the contract allows, or invisible: the
\* gate holds from SetEngine on, and "cut" and "stopped" mean what they say.
ImplementsContract == Contract!Spec
=============================================================================
