----------------------------- MODULE ProxyProofs -----------------------------
(***************************************************************************)
(* Proofs about Proxy, for every set of connections and every bound.       *)
(*                                                                         *)
(* None of the safety properties is inductive on its own: what CloseAll-   *)
(* Conns closes depends on who is registered, what Shutdown waits for on   *)
(* who is counted.  IInv below is their inductive strengthening, one named *)
(* part per relation between two pieces of the state.                      *)
(***************************************************************************)
EXTENDS Proxy, FiniteSetTheorems, TLAPS

\* conns holds exactly the connections between registerConn and unregisterConn.
RegisteredInv == \A c \in Conn : c \in conns <=> pc[c] \in Registered

\* The accept loop holds at most one accepted connection, and spawns it.
AcceptorInv ==
    /\ \A c \in Conn : pc[c] = "accepted" => acceptor = "spawn"
    /\ \A c, d \in Conn : pc[c] = "accepted" /\ pc[d] = "accepted" => c = d
    /\ acceptor = "off" <=> ctl \in {"new", "failed"}

\* The listener is open from Start to Shutdown, and the backlog needs it.
ListenerInv ==
    /\ ctl \in {"new", "failed"} => listener = "unset"
    /\ ctl \in {"sweep", "sweeping", "wait", "stopped"} => listener = "closed"
    /\ \A c \in Conn : pc[c] = "backlog" => listener = "open"

\* Where a handler may hold an open socket.
SocketInv ==
    \A c \in Conn :
        /\ upOpen[c] => pc[c] \in Admitted \cup {"teardown"}
        /\ appOpen[c] => pc[c] \notin {"idle", "dropped", "unregister",
                                       "release", "done"}

\* The cut: under the unavailable engine no live connection escapes the
\* snapshot while CloseAllConns works through it, and none is left after.
SeverInv ==
    /\ severed => engine = Unavailable
    /\ severed => \A c \in Conn : ~Live(c)
    /\ ctl = "closing" /\ engine = Unavailable =>
           \A c \in Conn : Live(c) => c \in toClose

\* Before Start and after Drained nobody is left who could raise the counter.
StoppedInv == ctl \in {"new", "failed", "stopped"} => wg = 0

\* A forward after the close is the last one of its handler.
LateInv ==
    \A c \in Conn :
        /\ late[c] <= 1
        /\ late[c] > 0 => /\ ~appOpen[c]
                          /\ pc[c] \in {"await", "reply", "teardown",
                                        "unregister", "release", "done"}

\* What is buffered on a connection was sent on it.
PipelineInv == \A c \in Conn : sock[c] + buf[c] <= sent[c]

IInv ==
    /\ TypeOK
    /\ PipelineInv
    /\ WaitGroupCount
    /\ RegisteredInv
    /\ AcceptorInv
    /\ ListenerInv
    /\ SocketInv
    /\ SeverInv
    /\ StoppedInv
    /\ LateInv

-----------------------------------------------------------------------------
(* What the steps do to pc and to the counter. *)

Runners(p) == {c \in Conn : p[c] \in Running}

LEMMA RunnersFinite ==
    ASSUME NEW p
    PROVE  IsFiniteSet(Runners(p)) /\ Cardinality(Runners(p)) \in Nat
BY ConnAssumption, FS_Subset, FS_CardinalityType DEF Runners

\* Moving one connection changes the set of runners by that one at most.
LEMMA RunnersMove ==
    ASSUME NEW p \in [Conn -> Status], NEW c \in Conn, NEW x \in Status
    PROVE  LET q == [p EXCEPT ![c] = x]
           IN  /\ (p[c] \in Running <=> x \in Running) => Runners(q) = Runners(p)
               /\ p[c] \notin Running /\ x \in Running =>
                      Cardinality(Runners(q)) = Cardinality(Runners(p)) + 1
               /\ p[c] \in Running /\ x \notin Running =>
                      Cardinality(Runners(q)) = Cardinality(Runners(p)) - 1
<1> DEFINE q == [p EXCEPT ![c] = x]
<1>1. (p[c] \in Running <=> x \in Running) => Runners(q) = Runners(p)
  BY DEF Runners
<1>2. ASSUME p[c] \notin Running, x \in Running
      PROVE  Cardinality(Runners(q)) = Cardinality(Runners(p)) + 1
  <2>1. Runners(q) = Runners(p) \cup {c} /\ c \notin Runners(p)
    BY <1>2 DEF Runners
  <2> QED
    BY <2>1, RunnersFinite, FS_AddElement
<1>3. ASSUME p[c] \in Running, x \notin Running
      PROVE  Cardinality(Runners(q)) = Cardinality(Runners(p)) - 1
  <2>1. Runners(q) = Runners(p) \ {c} /\ c \in Runners(p)
    BY <1>3 DEF Runners
  <2> QED
    BY <2>1, RunnersFinite, FS_RemoveElement
<1> QED
  BY <1>1, <1>2, <1>3

\* What the handler does next with a command it has decided on.
LEMMA VerdictStatusType ==
    ASSUME NEW e \in Engine, NEW cmd
    PROVE  /\ VerdictStatus(e, cmd) \in {"teardown", "reject", "miss", "forward"}
           /\ e = Unavailable => VerdictStatus(e, cmd) = "teardown"
<1> USE DEF VerdictStatus, Verdict, Decide, RefuseConnections, Engine,
            PassThrough, RandomMiss, Unavailable
<1>1. CASE e = Unavailable
  BY <1>1
<1>2. CASE e = PassThrough
  BY <1>2
<1>3. CASE e = RandomMiss
  <2>1. Decide(e, cmd) \in {"miss", "forward"}
    BY <1>3
  <2>2. Verdict(e, cmd) \in {"reject", Decide(e, cmd)}
    BY <1>3
  <2> QED
    BY <2>1, <2>2, <1>3
<1> QED
  BY <1>1, <1>2, <1>3

\* Every handler step but the last keeps its connection running, and leaves
\* the counter and the accept loop alone.
LEMMA HandlerMoves ==
    ASSUME TypeOK, NEW c \in Conn, Handler(c), ~Release(c)
    PROVE  /\ \E x \in Running : pc[c] \in Running /\ pc' = [pc EXCEPT ![c] = x]
           /\ UNCHANGED <<wg, acceptor>>
<1> USE DEF proxyVars, ctlVars, sockVars, dataVars, Running, Registered,
            Admitted, Goto, Step, TypeOK
<1>1. CASE Register(c) \/ Admit(c) \/ Dial(c) \/ Ping(c) \/ CheckContext(c)
  BY <1>1 DEF Register, Admit, Dial, Ping, CheckContext
<1>2. CASE ReadBuffered(c) \/ ReadSocket(c) \/ ReadFails(c)
  BY <1>2 DEF ReadBuffered, ReadSocket, ReadFails
<1>3. CASE DecideCommand(c)
  BY <1>3, VerdictStatusType DEF DecideCommand
<1>4. CASE WriteReject(c) \/ WriteUpstream(c) \/ ReadReply(c)
           \/ UpstreamFails(c) \/ WriteApp(c) \/ AppWriteFails(c)
  BY <1>4 DEF WriteReject, WriteUpstream, ReadReply, UpstreamFails,
              WriteApp, AppWriteFails
<1>5. CASE CloseSockets(c) \/ Unregister(c)
  BY <1>5 DEF CloseSockets, Unregister
<1> QED
  BY <1>1, <1>2, <1>3, <1>4, <1>5 DEF Handler

-----------------------------------------------------------------------------
(* The inductive step, part by part. *)

LEMMA TypeStep ==
    ASSUME TypeOK, WaitGroupCount', PipelineInv, [Next]_vars
    PROVE  TypeOK'
<1> USE DEF TypeOK, proxyVars, ctlVars, sockVars, dataVars
<1>1. wg' \in Nat
  <2>1. wg' = Cardinality(Runners(pc')) +
                (IF acceptor' \in {"accept", "spawn"} THEN 1 ELSE 0)
    BY DEF WaitGroupCount, Runners
  <2>2. Cardinality(Runners(pc')) \in Nat
    BY RunnersFinite
  <2> QED
    BY <2>1, <2>2
<1>2. CASE Controller
  <2> USE <1>1 DEF CtlStatus, Engine, PassThrough, RandomMiss, Unavailable
  <2>1. CASE Start \/ StartFails \/ ParentCancel
    <3>1. CASE Start
      BY <3>1 DEF Start
    <3>2. CASE StartFails
      BY <3>2 DEF StartFails, CtlStep
    <3>3. CASE ParentCancel
      BY <3>3 DEF ParentCancel
    <3> QED
      BY <2>1, <3>1, <3>2, <3>3
  <2>2. CASE \E e \in Engine : SetEngine(e)
    BY <2>2 DEF SetEngine
  <2>3. CASE SnapshotConns \/ (\E c \in Conn : CloseConn(c)) \/ ConnsClosed
    <3>1. CASE SnapshotConns
      BY <3>1 DEF SnapshotConns
    <3>2. CASE \E c \in Conn : CloseConn(c)
      BY <3>2 DEF CloseConn
    <3>3. CASE ConnsClosed
      BY <3>3 DEF ConnsClosed
    <3> QED
      BY <2>3, <3>1, <3>2, <3>3
  <2>4. CASE BeginShutdown \/ Drained \/ DrainTimesOut
    BY <2>4 DEF CtlStep, BeginShutdown, Drained, DrainTimesOut
  <2>5. CASE CloseListener
    BY <2>5 DEF CloseListener, Status, NoHandler
  <2> QED
    BY <1>2, <2>1, <2>2, <2>3, <2>4, <2>5 DEF Controller
<1>3. CASE AcceptLoop
  BY <1>1, <1>3 DEF AcceptLoop, Accept, Spawn, AcceptReturns, Goto, Step, Status,
                    NoHandler, Running
<1>4. ASSUME NEW c \in Conn, Handler(c)
      PROVE  TypeOK'
  <2> USE <1>1
  <2>1. pc' \in [Conn -> Status]
    <3>1. CASE Release(c)
      BY <3>1 DEF Release, Goto, Step, Status
    <3>2. CASE ~Release(c)
      BY <3>2, <1>4, HandlerMoves DEF Status
    <3> QED
      BY <3>1, <3>2
  <2> HIDE DEF Status
  <2>2. CASE Register(c) \/ Admit(c) \/ Unregister(c) \/ Release(c) \/ CheckContext(c)
    BY <2>1, <2>2 DEF Goto, Step, Register, Admit, Unregister, Release, CheckContext
  <2>3. CASE Dial(c) \/ Ping(c) \/ CloseSockets(c)
    BY <2>1, <2>3 DEF Dial, Ping, CloseSockets
  <2>4. CASE ReadBuffered(c) \/ ReadSocket(c) \/ ReadFails(c)
    <3> USE PipelineAssumption
    <3>1. CASE ReadBuffered(c)
      BY <2>1, <3>1 DEF ReadBuffered
    <3>2. CASE ReadSocket(c)
      <4>1. PICK n \in 1..sock[c] : /\ sock' = [sock EXCEPT ![c] = @ - n]
                                    /\ buf' = [buf EXCEPT ![c] = n - 1]
        BY <3>2 DEF ReadSocket
      <4>2. sock[c] - n \in 0..MaxPipeline /\ n - 1 \in 0..MaxPipeline
        OBVIOUS
      <4> QED
        BY <2>1, <3>2, <4>1, <4>2 DEF ReadSocket
    <3>3. CASE ReadFails(c)
      BY <2>1, <3>3 DEF Step, ReadFails
    <3> QED
      BY <2>4, <3>1, <3>2, <3>3
  <2>5. CASE DecideCommand(c) \/ WriteReject(c) \/ ReadReply(c)
             \/ UpstreamFails(c) \/ WriteApp(c) \/ AppWriteFails(c)
    BY <2>1, <2>5 DEF Step, DecideCommand, WriteReject, ReadReply,
                      UpstreamFails, WriteApp, AppWriteFails
  <2>6. CASE WriteUpstream(c)
    BY <2>1, <2>6 DEF WriteUpstream
  <2> QED
    BY <1>4, <2>2, <2>3, <2>4, <2>5, <2>6 DEF Handler
<1>5. ASSUME NEW c \in Conn, Watcher(c)
      PROVE  TypeOK'
  BY <1>5 DEF Watcher, WatcherClosesApp, WatcherClosesUpstream, WatcherStopped
<1>6. ASSUME NEW c \in Conn, App(c)
      PROVE  TypeOK'
  <2>1. CASE Connect(c)
    BY <2>1 DEF Connect, Goto, Step, Status, NoHandler
  <2>2. CASE Send(c)
    <3>1. sent[c] + 1 \in 0..MaxPipeline /\ sock[c] + 1 \in 0..MaxPipeline
      BY <2>2, PipelineAssumption DEF Send, PipelineInv
    <3> QED
      BY <2>2, <3>1 DEF Send
  <2>3. CASE AppCloses(c)
    BY <2>3 DEF AppCloses
  <2> QED
    BY <1>6, <2>1, <2>2, <2>3 DEF App
<1>7. CASE UNCHANGED vars
  BY <1>7 DEF vars
<1> QED
  BY <1>2, <1>3, <1>4, <1>5, <1>6, <1>7 DEF Next

LEMMA WaitGroupStep ==
    ASSUME TypeOK, WaitGroupCount, ctl = "new" => acceptor = "off", [Next]_vars
    PROVE  WaitGroupCount'
<1> USE DEF proxyVars, ctlVars, sockVars, dataVars
<1> DEFINE loop(a) == IF a \in {"accept", "spawn"} THEN 1 ELSE 0
<1>0. /\ wg = Cardinality(Runners(pc)) + loop(acceptor)
      /\ Cardinality(Runners(pc)) \in Nat
      /\ pc \in [Conn -> Status]
  BY RunnersFinite DEF WaitGroupCount, Runners, TypeOK
<1> SUFFICES wg' = Cardinality(Runners(pc')) + loop(acceptor')
  BY DEF WaitGroupCount, Runners
<1>1. ASSUME UNCHANGED <<wg, pc>>, loop(acceptor') = loop(acceptor)
      PROVE  wg' = Cardinality(Runners(pc')) + loop(acceptor')
  BY <1>0, <1>1
<1> HIDE DEF loop
<1>2. CASE Controller
  <2>1. CASE Start
    BY <1>0, <2>1 DEF Start, loop
  <2>2. CASE CloseListener
    <3>1. Runners(pc') = Runners(pc)
      BY <1>0, <2>2 DEF CloseListener, Runners, Running, Registered, Admitted
    <3> QED
      BY <1>0, <2>2, <3>1 DEF CloseListener
  <2>3. CASE StartFails \/ ParentCancel \/ (\E e \in Engine : SetEngine(e))
             \/ SnapshotConns \/ (\E c \in Conn : CloseConn(c)) \/ ConnsClosed
             \/ BeginShutdown \/ Drained \/ DrainTimesOut
    BY <1>1, <2>3 DEF StartFails, CtlStep, ParentCancel, SetEngine, SnapshotConns,
           CloseConn, ConnsClosed, BeginShutdown, Drained, DrainTimesOut
  <2> QED
    BY <1>2, <2>1, <2>2, <2>3 DEF Controller
<1>3. CASE AcceptLoop
  <2>1. ASSUME NEW c \in Conn, Accept(c)
        PROVE  wg' = Cardinality(Runners(pc')) + loop(acceptor')
    <3>1. Runners(pc') = Runners(pc)
      BY <1>0, <2>1 DEF Accept, Runners, Running, Registered, Admitted
    <3> QED
      BY <1>0, <2>1, <3>1 DEF Accept, loop
  <2>2. ASSUME NEW c \in Conn, Spawn(c)
        PROVE  wg' = Cardinality(Runners(pc')) + loop(acceptor')
    <3>1. /\ pc' = [pc EXCEPT ![c] = "register"]
          /\ pc[c] \notin Running
          /\ "register" \in Running /\ "register" \in Status
      BY <2>2 DEF Spawn, Running, Registered, Admitted, Status
    <3>2. Cardinality(Runners(pc')) = Cardinality(Runners(pc)) + 1
      BY <1>0, <3>1, RunnersMove
    <3> QED
      BY <1>0, <2>2, <3>2 DEF Spawn, loop
  <2>3. CASE AcceptReturns
    BY <1>0, <2>3 DEF AcceptReturns, loop
  <2> QED
    BY <1>3, <2>1, <2>2, <2>3 DEF AcceptLoop
<1>4. ASSUME NEW c \in Conn, Handler(c)
      PROVE  wg' = Cardinality(Runners(pc')) + loop(acceptor')
  <2>1. CASE Release(c)
    <3>1. /\ pc' = [pc EXCEPT ![c] = "done"]
          /\ pc[c] \in Running
          /\ "done" \notin Running /\ "done" \in Status
      BY <2>1 DEF Release, Goto, Step, Running, Registered, Admitted, Status
    <3>2. Cardinality(Runners(pc')) = Cardinality(Runners(pc)) - 1
      BY <1>0, <3>1, RunnersMove
    <3> QED
      BY <1>0, <2>1, <3>2 DEF Release, loop
  <2>2. CASE ~Release(c)
    <3>1. PICK x \in Running : /\ pc[c] \in Running
                               /\ pc' = [pc EXCEPT ![c] = x]
                               /\ UNCHANGED <<wg, acceptor>>
      BY <1>4, <2>2, HandlerMoves
    <3>2. x \in Status
      BY DEF Status
    <3>3. Runners(pc') = Runners(pc)
      BY <1>0, <3>1, <3>2, RunnersMove
    <3> QED
      BY <1>0, <3>1, <3>3
  <2> QED
    BY <2>1, <2>2
<1>5. ASSUME NEW c \in Conn, Watcher(c)
      PROVE  wg' = Cardinality(Runners(pc')) + loop(acceptor')
  BY <1>1, <1>5 DEF Watcher, WatcherClosesApp, WatcherClosesUpstream,
                    WatcherStopped
<1>6. ASSUME NEW c \in Conn, App(c)
      PROVE  wg' = Cardinality(Runners(pc')) + loop(acceptor')
  <2>1. CASE Connect(c)
    <3>1. Runners(pc') = Runners(pc)
      BY <1>0, <2>1 DEF Connect, Goto, Step, Runners, Running, Registered, Admitted
    <3> QED
      BY <1>0, <2>1, <3>1 DEF Connect
  <2>2. CASE Send(c) \/ AppCloses(c)
    BY <1>1, <2>2 DEF Send, AppCloses
  <2> QED
    BY <1>6, <2>1, <2>2 DEF App
<1>7. CASE UNCHANGED vars
  BY <1>1, <1>7 DEF vars
<1> QED
  BY <1>2, <1>3, <1>4, <1>5, <1>6, <1>7 DEF Next

LEMMA PipelineStep ==
    ASSUME TypeOK, PipelineInv, [Next]_vars
    PROVE  PipelineInv'
<1> USE DEF TypeOK, PipelineInv
<1>1. ASSUME NEW c \in Conn, ReadBuffered(c) \/ Send(c)
      PROVE  PipelineInv'
  BY <1>1, PipelineAssumption DEF ReadBuffered, Send
<1>2. ASSUME NEW c \in Conn, ReadSocket(c)
      PROVE  PipelineInv'
  <2>1. PICK n \in 1..sock[c] : /\ sock' = [sock EXCEPT ![c] = @ - n]
                                /\ buf' = [buf EXCEPT ![c] = n - 1]
                                /\ buf[c] = 0
                                /\ UNCHANGED sent
    BY <1>2 DEF ReadSocket
  <2> QED
    BY <2>1, PipelineAssumption
<1>3. ASSUME NEW c \in Conn, WriteUpstream(c)
      PROVE  PipelineInv'
  BY <1>3 DEF WriteUpstream
<1>4. CASE UNCHANGED dataVars
  BY <1>4 DEF dataVars
<1>5. CASE Controller
  BY <1>4, <1>5 DEF Controller, Start, StartFails, CtlStep, ParentCancel, SetEngine,
         SnapshotConns, CloseConn, ConnsClosed, BeginShutdown, CloseListener,
         Drained, DrainTimesOut
<1>6. CASE AcceptLoop
  BY <1>4, <1>6 DEF AcceptLoop, Accept, Spawn, AcceptReturns
<1>7. ASSUME NEW c \in Conn, Handler(c)
      PROVE  PipelineInv'
  BY <1>1, <1>2, <1>3, <1>4, <1>7 DEF Handler, Goto, Step, Register, Admit, Dial, Ping,
         CheckContext, ReadFails, DecideCommand, WriteReject,
         ReadReply, UpstreamFails, WriteApp, AppWriteFails, CloseSockets,
         Unregister, Release
<1>8. ASSUME NEW c \in Conn, Watcher(c) \/ App(c)
      PROVE  PipelineInv'
  BY <1>1, <1>4, <1>8 DEF Watcher, WatcherClosesApp, WatcherClosesUpstream,
         WatcherStopped, App, Connect, AppCloses
<1> QED
  BY <1>4, <1>5, <1>6, <1>7, <1>8 DEF Next, vars

LEMMA RegisteredStep ==
    ASSUME TypeOK, RegisteredInv, [Next]_vars
    PROVE  RegisteredInv'
<1> USE DEF TypeOK, RegisteredInv, Registered, Admitted, proxyVars
<1>1. CASE UNCHANGED <<conns, pc>>
  BY <1>1
<1>2. CASE Controller
  <2>1. CASE CloseListener
    BY <2>1 DEF CloseListener
  <2> QED
    BY <1>1, <1>2, <2>1 DEF Controller, Start, StartFails, CtlStep, ParentCancel,
           SetEngine, SnapshotConns, CloseConn, ConnsClosed, BeginShutdown,
           Drained, DrainTimesOut
<1>3. CASE AcceptLoop
  BY <1>1, <1>3 DEF AcceptLoop, Accept, Spawn, AcceptReturns
<1>4. ASSUME NEW c \in Conn, Handler(c)
      PROVE  RegisteredInv'
  <2> USE DEF Goto, Step
  <2>1. CASE Register(c)
    BY <2>1 DEF Register
  <2>2. CASE Admit(c) \/ Dial(c) \/ Ping(c) \/ CheckContext(c)
    BY <2>2 DEF Admit, Dial, Ping, CheckContext
  <2>3. CASE ReadBuffered(c) \/ ReadSocket(c) \/ ReadFails(c)
    BY <2>3 DEF ReadBuffered, ReadSocket, ReadFails
  <2>4. CASE DecideCommand(c)
    BY <2>4, VerdictStatusType DEF DecideCommand
  <2>5. CASE WriteReject(c) \/ WriteUpstream(c) \/ ReadReply(c)
             \/ UpstreamFails(c) \/ WriteApp(c) \/ AppWriteFails(c)
    BY <2>5 DEF WriteReject, WriteUpstream, ReadReply, UpstreamFails,
                WriteApp, AppWriteFails
  <2>6. CASE CloseSockets(c)
    BY <2>6 DEF CloseSockets
  <2>7. CASE Unregister(c)
    BY <2>7 DEF Unregister
  <2>8. CASE Release(c)
    BY <2>8 DEF Release
  <2> QED
    BY <1>4, <2>1, <2>2, <2>3, <2>4, <2>5, <2>6, <2>7, <2>8 DEF Handler
<1>5. ASSUME NEW c \in Conn, Watcher(c)
      PROVE  RegisteredInv'
  BY <1>1, <1>5 DEF Watcher, WatcherClosesApp, WatcherClosesUpstream,
                    WatcherStopped
<1>6. ASSUME NEW c \in Conn, App(c)
      PROVE  RegisteredInv'
  BY <1>1, <1>6 DEF App, Connect, Goto, Step, Send, AppCloses
<1> QED
  BY <1>1, <1>2, <1>3, <1>4, <1>5, <1>6 DEF Next, vars

LEMMA AcceptorStep ==
    ASSUME TypeOK, AcceptorInv, [Next]_vars
    PROVE  AcceptorInv'
<1> USE DEF TypeOK, AcceptorInv
<1>1. CASE UNCHANGED <<acceptor, pc, ctl>>
  BY <1>1
<1>2. CASE Controller
  <2>1. CASE Start \/ StartFails
    BY <2>1 DEF Start, StartFails, CtlStep
  <2>2. CASE CloseListener
    BY <2>2 DEF CloseListener
  <2>3. CASE SnapshotConns \/ ConnsClosed \/ BeginShutdown \/ Drained
             \/ DrainTimesOut
    BY <2>3 DEF SnapshotConns, ConnsClosed, BeginShutdown, Drained, CtlStep, DrainTimesOut
  <2> QED
    BY <1>1, <1>2, <2>1, <2>2, <2>3
    DEF Controller, ParentCancel, SetEngine, CloseConn, ctlVars
<1>3. CASE AcceptLoop
  BY <1>3 DEF AcceptLoop, Accept, Spawn, AcceptReturns, ctlVars
<1>4. ASSUME NEW c \in Conn, Handler(c)
      PROVE  AcceptorInv'
  <2>1. UNCHANGED <<acceptor, ctl>>
    BY <1>4 DEF Handler, Goto, Step, Register, Admit, Dial, Ping, CheckContext,
           ReadBuffered, ReadSocket, ReadFails, DecideCommand, WriteReject,
           WriteUpstream, ReadReply, UpstreamFails, WriteApp,
           AppWriteFails, CloseSockets, Unregister, Release, ctlVars
  <2>2. \E x \in Running \cup {"done"} : pc' = [pc EXCEPT ![c] = x]
    <3>1. CASE Release(c)
      BY <3>1 DEF Release, Goto, Step
    <3> QED
      BY <3>1, <1>4, HandlerMoves
  <2> QED
    BY <2>1, <2>2 DEF Running, Registered, Admitted
<1>5. ASSUME NEW c \in Conn, Watcher(c)
      PROVE  AcceptorInv'
  BY <1>1, <1>5 DEF Watcher, WatcherClosesApp, WatcherClosesUpstream,
                    WatcherStopped, ctlVars
<1>6. ASSUME NEW c \in Conn, App(c)
      PROVE  AcceptorInv'
  BY <1>1, <1>6 DEF App, Connect, Goto, Step, Send, AppCloses, ctlVars
<1> QED
  BY <1>1, <1>2, <1>3, <1>4, <1>5, <1>6 DEF Next, vars, ctlVars

LEMMA ListenerStep ==
    ASSUME TypeOK, ListenerInv, [Next]_vars
    PROVE  ListenerInv'
<1> USE DEF TypeOK, ListenerInv
<1>1. CASE UNCHANGED <<listener, pc, ctl>>
  BY <1>1
<1>2. CASE Controller
  <2>1. CASE Start \/ StartFails
    BY <2>1 DEF Start, StartFails, CtlStep, proxyVars
  <2>2. CASE CloseListener
    BY <2>2 DEF CloseListener
  <2>3. CASE SnapshotConns \/ ConnsClosed \/ BeginShutdown \/ Drained
             \/ DrainTimesOut
    BY <2>3 DEF SnapshotConns, ConnsClosed, BeginShutdown, Drained, CtlStep,
                DrainTimesOut, proxyVars
  <2> QED
    BY <1>1, <1>2, <2>1, <2>2, <2>3
    DEF Controller, ParentCancel, SetEngine, CloseConn, ctlVars, proxyVars
<1>3. CASE AcceptLoop
  BY <1>3 DEF AcceptLoop, Accept, Spawn, AcceptReturns, ctlVars, proxyVars
<1>4. ASSUME NEW c \in Conn, Handler(c)
      PROVE  ListenerInv'
  <2>1. UNCHANGED <<listener, ctl>>
    BY <1>4 DEF Handler, Goto, Step, Register, Admit, Dial, Ping, CheckContext,
           ReadBuffered, ReadSocket, ReadFails, DecideCommand, WriteReject,
           WriteUpstream, ReadReply, UpstreamFails, WriteApp,
           AppWriteFails, CloseSockets, Unregister, Release, ctlVars, proxyVars
  <2>2. \E x \in Running \cup {"done"} : pc' = [pc EXCEPT ![c] = x]
    <3>1. CASE Release(c)
      BY <3>1 DEF Release, Goto, Step
    <3> QED
      BY <3>1, <1>4, HandlerMoves
  <2> QED
    BY <2>1, <2>2 DEF Running, Registered, Admitted
<1>5. ASSUME NEW c \in Conn, Watcher(c)
      PROVE  ListenerInv'
  BY <1>1, <1>5 DEF Watcher, WatcherClosesApp, WatcherClosesUpstream,
                    WatcherStopped, ctlVars, proxyVars
<1>6. ASSUME NEW c \in Conn, App(c)
      PROVE  ListenerInv'
  BY <1>1, <1>6 DEF App, Connect, Goto, Step, Send, AppCloses, ctlVars, proxyVars
<1> QED
  BY <1>1, <1>2, <1>3, <1>4, <1>5, <1>6 DEF Next, vars, ctlVars, proxyVars

LEMMA SocketStep ==
    ASSUME TypeOK, SocketInv, [Next]_vars
    PROVE  SocketInv'
<1> USE DEF TypeOK, SocketInv, Admitted, sockVars
<1>1. CASE UNCHANGED <<pc, appOpen, upOpen>>
  BY <1>1
<1>2. CASE Controller
  <2>1. CASE \E c \in Conn : CloseConn(c)
    BY <2>1 DEF CloseConn
  <2>2. CASE CloseListener
    BY <2>2 DEF CloseListener
  <2> QED
    BY <1>1, <1>2, <2>1, <2>2 DEF Controller, Start, StartFails, CtlStep, ParentCancel,
           SetEngine, SnapshotConns, ConnsClosed, BeginShutdown, Drained,
           DrainTimesOut
<1>3. CASE AcceptLoop
  BY <1>1, <1>3 DEF AcceptLoop, Accept, Spawn, AcceptReturns
<1>4. ASSUME NEW c \in Conn, Handler(c)
      PROVE  SocketInv'
  <2> USE DEF Goto, Step
  <2>1. CASE Register(c) \/ Admit(c)
    BY <2>1 DEF Register, Admit
  <2>2. CASE Dial(c) \/ Ping(c) \/ CheckContext(c)
    BY <2>2 DEF Dial, Ping, CheckContext
  <2>3. CASE ReadBuffered(c) \/ ReadSocket(c) \/ ReadFails(c)
    BY <2>3 DEF ReadBuffered, ReadSocket, ReadFails
  <2>4. CASE DecideCommand(c)
    BY <2>4, VerdictStatusType DEF DecideCommand
  <2>5. CASE WriteReject(c) \/ WriteUpstream(c) \/ ReadReply(c)
             \/ UpstreamFails(c) \/ WriteApp(c) \/ AppWriteFails(c)
    BY <2>5 DEF WriteReject, WriteUpstream, ReadReply, UpstreamFails,
                WriteApp, AppWriteFails
  <2>6. CASE CloseSockets(c)
    BY <2>6 DEF CloseSockets
  <2>7. CASE Unregister(c) \/ Release(c)
    BY <2>7 DEF Unregister, Release
  <2> QED
    BY <1>4, <2>1, <2>2, <2>3, <2>4, <2>5, <2>6, <2>7 DEF Handler
<1>5. ASSUME NEW c \in Conn, Watcher(c)
      PROVE  SocketInv'
  BY <1>5 DEF Watcher, WatcherClosesApp, WatcherClosesUpstream, WatcherStopped
<1>6. ASSUME NEW c \in Conn, App(c)
      PROVE  SocketInv'
  BY <1>6 DEF App, Connect, Goto, Step, Send, AppCloses
<1> QED
  BY <1>1, <1>2, <1>3, <1>4, <1>5, <1>6 DEF Next, vars

\* The heart of the cut: a connection becomes live only in Admit, which
\* refuses under the unavailable engine, and every other step can only end
\* lives.
LEMMA LiveGrowsByAdmission ==
    ASSUME TypeOK, SocketInv, [Next]_vars, NEW d \in Conn,
           Live(d)', ~Live(d)
    PROVE  /\ Admit(d)
           /\ engine # Unavailable
           /\ UNCHANGED <<engine, ctl, severed, toClose>>
<1> USE DEF TypeOK, Live, Serving, Admitted, sockVars
<1>1. ASSUME UNCHANGED pc, \A c \in Conn : appOpen'[c] => appOpen[c]
      PROVE  FALSE
  BY <1>1
<1>2. ~Controller
  <2>1. ~CloseListener
    BY DEF CloseListener
  <2> QED
    BY <1>1, <2>1 DEF Controller, Start, StartFails, CtlStep, ParentCancel, SetEngine,
           SnapshotConns, CloseConn, ConnsClosed, BeginShutdown, Drained,
           DrainTimesOut
<1>3. ~AcceptLoop
  BY <1>1 DEF AcceptLoop, Accept, Spawn, AcceptReturns
<1>4. ASSUME NEW c \in Conn, Handler(c)
      PROVE  Admit(d) /\ engine # Unavailable
  <2> USE DEF Goto, Step
  <2>1. CASE Admit(c)
    BY <2>1 DEF Admit, RefuseConnections
  <2>2. CASE Register(c) \/ Dial(c) \/ Ping(c) \/ CheckContext(c)
    BY <2>2 DEF Register, Dial, Ping, CheckContext
  <2>3. CASE ReadBuffered(c) \/ ReadSocket(c) \/ ReadFails(c)
    BY <2>3 DEF ReadBuffered, ReadSocket, ReadFails
  <2>4. CASE DecideCommand(c)
    BY <2>4 DEF DecideCommand
  <2>5. CASE WriteReject(c) \/ WriteUpstream(c) \/ ReadReply(c)
             \/ UpstreamFails(c) \/ WriteApp(c) \/ AppWriteFails(c)
    BY <2>5 DEF WriteReject, WriteUpstream, ReadReply, UpstreamFails,
                WriteApp, AppWriteFails
  <2>6. CASE CloseSockets(c) \/ Unregister(c) \/ Release(c)
    BY <2>6 DEF CloseSockets, Unregister, Release
  <2> QED
    BY <1>4, <2>1, <2>2, <2>3, <2>4, <2>5, <2>6 DEF Handler
<1>5. ASSUME NEW c \in Conn, Watcher(c)
      PROVE  FALSE
  BY <1>1, <1>5 DEF Watcher, WatcherClosesApp, WatcherClosesUpstream,
                    WatcherStopped
<1>6. ASSUME NEW c \in Conn, App(c)
      PROVE  FALSE
  BY <1>1, <1>6 DEF App, Connect, Goto, Step, Send, AppCloses
<1>7. CASE UNCHANGED vars
  BY <1>1, <1>7 DEF vars
<1> QED
  BY <1>2, <1>3, <1>4, <1>5, <1>6, <1>7
  DEF Next, Admit, Step, proxyVars, ctlVars

LEMMA SeverStep ==
    ASSUME TypeOK, SeverInv, RegisteredInv, SocketInv, [Next]_vars
    PROVE  SeverInv'
<1>1. \A d \in Conn : Live(d)' =>
          \/ Live(d)
          \/ engine # Unavailable /\ UNCHANGED <<engine, ctl, severed, toClose>>
  BY LiveGrowsByAdmission
<1> HIDE DEF Live
<1>2. CASE \E e \in Engine : SetEngine(e)
  BY <1>1, <1>2 DEF SetEngine, SeverInv
<1>3. CASE SnapshotConns
  <2>1. \A d \in Conn : Live(d) => d \in conns
    BY DEF Live, Serving, RegisteredInv, Registered
  <2> QED
    BY <1>1, <1>3, <2>1 DEF SnapshotConns, SeverInv, proxyVars
<1>4. CASE \E c \in Conn : CloseConn(c)
  <2>1. PICK c \in Conn : CloseConn(c)
    BY <1>4
  <2>2. ~Live(c)'
    BY <2>1 DEF CloseConn, Live, TypeOK
  <2> QED
    BY <1>1, <2>1, <2>2 DEF CloseConn, SeverInv, proxyVars
<1>5. CASE ConnsClosed
  <2>1. ctl' \in {"idle", "wait"} /\ ctl' # ctl /\ engine' = engine /\ toClose = {}
    BY <1>5 DEF ConnsClosed, proxyVars
  <2>2. \A d \in Conn : Live(d)' => Live(d)
    BY <1>1, <2>1
  <2>3. CASE ctl = "closing"
    <3>1. severed' = (severed \/ engine = Unavailable)
      BY <1>5, <2>3 DEF ConnsClosed
    <3>2. severed' => engine = Unavailable
      BY <3>1 DEF SeverInv
    <3>3. severed' => \A d \in Conn : ~Live(d)
      BY <2>1, <2>3, <3>2 DEF SeverInv
    <3> QED
      BY <2>1, <2>2, <3>2, <3>3 DEF SeverInv
  <2>4. CASE ctl # "closing"
    BY <1>5, <2>1, <2>2, <2>4 DEF ConnsClosed, SeverInv
  <2> QED
    BY <2>3, <2>4
<1>6. CASE /\ UNCHANGED <<engine, severed, toClose>>
           /\ ctl' = ctl \/ ctl' # "closing"
  BY <1>1, <1>6 DEF SeverInv
<1>7. CASE Controller
  BY <1>2, <1>3, <1>4, <1>5, <1>6, <1>7
  DEF Controller, Start, StartFails, CtlStep, ParentCancel, BeginShutdown, CloseListener,
      Drained, DrainTimesOut, proxyVars, ctlVars
<1>8. CASE AcceptLoop
  BY <1>6, <1>8 DEF AcceptLoop, Accept, Spawn, AcceptReturns, proxyVars, ctlVars
<1>9. ASSUME NEW c \in Conn, Handler(c)
      PROVE  SeverInv'
  BY <1>6, <1>9 DEF Handler, Goto, Step, Register, Admit, Dial, Ping, CheckContext,
         ReadBuffered, ReadSocket, ReadFails, DecideCommand, WriteReject,
         WriteUpstream, ReadReply, UpstreamFails, WriteApp,
         AppWriteFails, CloseSockets, Unregister, Release, proxyVars, ctlVars
<1>10. ASSUME NEW c \in Conn, Watcher(c) \/ App(c)
       PROVE  SeverInv'
  BY <1>6, <1>10 DEF Watcher, WatcherClosesApp, WatcherClosesUpstream,
         WatcherStopped, App, Connect, Send, AppCloses, proxyVars, ctlVars
<1>11. CASE UNCHANGED vars
  BY <1>6, <1>11 DEF vars, proxyVars, ctlVars
<1> QED
  BY <1>7, <1>8, <1>9, <1>10, <1>11 DEF Next

LEMMA DrainedMeansNobody ==
    ASSUME TypeOK, WaitGroupCount, wg = 0
    PROVE  acceptor \notin {"accept", "spawn"} /\ \A c \in Conn : pc[c] \notin Running
<1>1. wg = Cardinality(Runners(pc)) + (IF acceptor \in {"accept", "spawn"} THEN 1 ELSE 0)
  BY DEF WaitGroupCount, Runners
<1>2. Cardinality(Runners(pc)) \in Nat /\ IsFiniteSet(Runners(pc))
  BY RunnersFinite
<1>3. acceptor \notin {"accept", "spawn"} /\ Cardinality(Runners(pc)) = 0
  BY <1>1, <1>2
<1>4. Runners(pc) = {}
  BY <1>2, <1>3, FS_EmptySet
<1> QED
  BY <1>3, <1>4 DEF Runners

LEMMA StoppedStep ==
    ASSUME TypeOK, WaitGroupCount, StoppedInv, [Next]_vars
    PROVE  StoppedInv'
<1>1. CASE UNCHANGED <<ctl, wg>>
  BY <1>1 DEF StoppedInv
<1>2. CASE Controller
  BY <1>1, <1>2 DEF Controller, Start, StartFails, CtlStep, ParentCancel, SetEngine,
         SnapshotConns, CloseConn, ConnsClosed, BeginShutdown, CloseListener,
         Drained, DrainTimesOut, StoppedInv, proxyVars, ctlVars
<1>3. CASE AcceptLoop
  BY <1>1, <1>3, DrainedMeansNobody
  DEF AcceptLoop, Accept, Spawn, AcceptReturns, StoppedInv, proxyVars, ctlVars
<1>4. ASSUME NEW c \in Conn, Handler(c)
      PROVE  StoppedInv'
  <2>1. UNCHANGED ctl
    BY <1>4 DEF Handler, Goto, Step, Register, Admit, Dial, Ping, CheckContext,
           ReadBuffered, ReadSocket, ReadFails, DecideCommand, WriteReject,
           WriteUpstream, ReadReply, UpstreamFails, WriteApp,
           AppWriteFails, CloseSockets, Unregister, Release, ctlVars
  <2>2. CASE Release(c)
    <3>1. pc[c] \in Running
      BY <2>2 DEF Release, Goto, Step, Running
    <3> QED
      BY <2>1, <3>1, DrainedMeansNobody DEF StoppedInv
  <2>3. CASE ~Release(c)
    BY <1>1, <1>4, <2>1, <2>3, HandlerMoves
  <2> QED
    BY <2>2, <2>3
<1>5. ASSUME NEW c \in Conn, Watcher(c) \/ App(c)
      PROVE  StoppedInv'
  BY <1>1, <1>5 DEF Watcher, WatcherClosesApp, WatcherClosesUpstream,
         WatcherStopped, App, Connect, Send, AppCloses, proxyVars, ctlVars
<1> QED
  BY <1>1, <1>2, <1>3, <1>4, <1>5 DEF Next, vars, proxyVars, ctlVars

LEMMA LateStep ==
    ASSUME TypeOK, SocketInv, LateInv, [Next]_vars
    PROVE  LateInv'
<1> USE DEF TypeOK, LateInv
<1>1. CASE UNCHANGED <<pc, appOpen, late>>
  BY <1>1
<1>2. CASE Controller
  <2>1. CASE \E c \in Conn : CloseConn(c)
    BY <2>1 DEF CloseConn, dataVars
  <2>2. CASE CloseListener
    BY <2>2 DEF CloseListener, dataVars
  <2> QED
    BY <1>1, <1>2, <2>1, <2>2 DEF Controller, Start, StartFails, CtlStep, ParentCancel,
           SetEngine, SnapshotConns, ConnsClosed, BeginShutdown, Drained,
           DrainTimesOut, sockVars, dataVars
<1>3. CASE AcceptLoop
  BY <1>3 DEF AcceptLoop, Accept, Spawn, AcceptReturns, sockVars, dataVars
<1>4. ASSUME NEW c \in Conn, Handler(c)
      PROVE  LateInv'
  <2> USE DEF Goto, Step, sockVars, dataVars
  <2>1. CASE WriteUpstream(c)
    <3>1. pc[c] = "forward" /\ late[c] = 0
      BY <2>1 DEF WriteUpstream
    <3> QED
      BY <2>1, <3>1 DEF WriteUpstream
  <2>2. CASE ReadReply(c) \/ UpstreamFails(c) \/ WriteApp(c) \/ AppWriteFails(c)
    BY <2>2 DEF ReadReply, UpstreamFails, WriteApp, AppWriteFails
  <2>3. CASE CloseSockets(c) \/ Unregister(c) \/ Release(c)
    BY <2>3 DEF CloseSockets, Unregister, Release
  <2>4. CASE Register(c) \/ Admit(c) \/ Dial(c) \/ Ping(c) \/ CheckContext(c)
    BY <2>4 DEF Register, Admit, Dial, Ping, CheckContext
  <2>5. CASE ReadBuffered(c) \/ ReadSocket(c) \/ ReadFails(c)
    BY <2>5 DEF ReadBuffered, ReadSocket, ReadFails
  <2>6. CASE DecideCommand(c) \/ WriteReject(c)
    BY <2>6 DEF DecideCommand, WriteReject
  <2> QED
    BY <1>4, <2>1, <2>2, <2>3, <2>4, <2>5, <2>6 DEF Handler
<1>5. ASSUME NEW c \in Conn, Watcher(c)
      PROVE  LateInv'
  BY <1>5 DEF Watcher, WatcherClosesApp, WatcherClosesUpstream, WatcherStopped,
              sockVars, dataVars
<1>6. ASSUME NEW c \in Conn, App(c)
      PROVE  LateInv'
  BY <1>6 DEF App, Connect, Goto, Step, Send, AppCloses, sockVars, dataVars
<1> QED
  BY <1>1, <1>2, <1>3, <1>4, <1>5, <1>6 DEF Next, vars, sockVars, dataVars

-----------------------------------------------------------------------------
(* The theorems. *)

LEMMA InitIInv == Init => IInv
<1> SUFFICES ASSUME Init PROVE IInv
  OBVIOUS
<1> USE DEF Init
<1>1. TypeOK
  <2>1. 0 \in 0..MaxPipeline
    BY PipelineAssumption
  <2> QED
    BY <2>1 DEF TypeOK, Engine, PassThrough, CtlStatus, Status, NoHandler
<1>2. WaitGroupCount
  <2>1. Runners(pc) = {}
    BY DEF Runners, Running, Registered, Admitted
  <2> QED
    BY <2>1, FS_EmptySet DEF WaitGroupCount, Runners
<1>3. PipelineInv /\ RegisteredInv /\ AcceptorInv /\ ListenerInv
  BY DEF PipelineInv, RegisteredInv, AcceptorInv, ListenerInv, Registered, Admitted
<1>4. SocketInv /\ SeverInv /\ StoppedInv /\ LateInv
  BY DEF SocketInv, SeverInv, StoppedInv, LateInv
<1> QED
  BY <1>1, <1>2, <1>3, <1>4 DEF IInv

LEMMA StepIInv == IInv /\ [Next]_vars => IInv'
<1> SUFFICES ASSUME IInv, [Next]_vars PROVE IInv'
  OBVIOUS
<1> USE DEF IInv
<1>1. WaitGroupCount'
  BY WaitGroupStep DEF AcceptorInv
<1>2. TypeOK'
  BY <1>1, TypeStep
<1>3. PipelineInv' /\ RegisteredInv' /\ AcceptorInv' /\ ListenerInv' /\ SocketInv'
  BY PipelineStep, RegisteredStep, AcceptorStep, ListenerStep, SocketStep
<1>4. SeverInv' /\ StoppedInv' /\ LateInv'
  BY SeverStep, StoppedStep, LateStep
<1> QED
  BY <1>1, <1>2, <1>3, <1>4

\* The inductive invariant holds in every reachable state.
THEOREM Invariance == Spec => []IInv
BY InitIInv, StepIInv, PTL DEF Spec

\* Every variable keeps its type.
THEOREM TypeCorrect == Spec => []TypeOK
<1>1. IInv => TypeOK
  BY DEF IInv
<1> QED
  BY <1>1, Invariance, PTL

\* The WaitGroup counts the accept loop and the running handlers, exactly.
THEOREM WaitGroupCorrect == Spec => []WaitGroupCount
<1>1. IInv => WaitGroupCount
  BY DEF IInv
<1> QED
  BY <1>1, Invariance, PTL

\* After CloseAllConns under the unavailable engine nobody is connected.
THEOREM CutCorrect == Spec => []UnavailableSevers
<1>1. IInv => UnavailableSevers
  BY DEF IInv, SeverInv, UnavailableSevers
<1> QED
  BY <1>1, Invariance, PTL

\* A Shutdown that returns nil has left nothing behind.
THEOREM ShutdownCorrect == Spec => []CleanShutdown
<1>1. IInv => CleanShutdown
  <2> SUFFICES ASSUME IInv, ctl = "stopped" PROVE
        /\ acceptor = "ended"
        /\ conns = {}
        /\ \A c \in Conn : pc[c] \notin Running /\ ~upOpen[c] /\ ~appOpen[c]
    BY DEF CleanShutdown
  <2>1. wg = 0 /\ TypeOK
    BY DEF IInv, StoppedInv
  <2>2. acceptor \notin {"accept", "spawn"} /\ \A c \in Conn : pc[c] \notin Running
    BY <2>1, DrainedMeansNobody DEF IInv
  <2>3. acceptor = "ended"
    BY <2>1, <2>2 DEF IInv, AcceptorInv, TypeOK
  <2>4. conns = {}
    BY <2>1, <2>2 DEF IInv, RegisteredInv, Running, TypeOK
  <2>5. ASSUME NEW c \in Conn
        PROVE  ~upOpen[c] /\ ~appOpen[c]
    <3>1. pc[c] \notin {"backlog", "accepted"}
      BY <2>2 DEF IInv, AcceptorInv, ListenerInv
    <3>2. pc[c] \in {"idle", "dropped", "done"}
      BY <2>1, <2>2, <3>1 DEF TypeOK, Status, NoHandler
    <3> QED
      BY <3>2 DEF IInv, SocketInv, Admitted
  <2> QED
    BY <2>2, <2>3, <2>4, <2>5
<1> QED
  BY <1>1, Invariance, PTL

\* At most one command of a closed connection reaches Redis.
THEOREM LateCorrect == Spec => []ClosedForwardsAtMostOne
<1>1. IInv => ClosedForwardsAtMostOne
  BY DEF IInv, LateInv, ClosedForwardsAtMostOne
<1> QED
  BY <1>1, Invariance, PTL

\* The WaitGroup rule: past Start the counter never leaves zero.
THEOREM NoAddCorrect == Spec => NoAddAfterDrain
<1>1. IInv /\ [Next]_vars => [wg = 0 /\ wg' > wg => ctl = "new"]_vars
  <2> SUFFICES ASSUME IInv, [Next]_vars, wg = 0, wg' > wg PROVE ctl = "new"
    OBVIOUS
  <2>1. TypeOK /\ wg' # wg /\ wg \in Nat
    BY DEF IInv, TypeOK
  <2>2. acceptor \notin {"accept", "spawn"} /\ \A c \in Conn : pc[c] \notin Running
    BY <2>1, DrainedMeansNobody DEF IInv
  <2>3. CASE Controller
    BY <2>1, <2>3 DEF Controller, Start, StartFails, CtlStep, ParentCancel, SetEngine,
           SnapshotConns, CloseConn, ConnsClosed, BeginShutdown, CloseListener,
           Drained, DrainTimesOut, proxyVars
  <2>4. CASE AcceptLoop
    BY <2>1, <2>2, <2>4 DEF AcceptLoop, Accept, Spawn, AcceptReturns, proxyVars
  <2>5. ASSUME NEW c \in Conn, Handler(c)
        PROVE  FALSE
    <3>1. ~Release(c)
      BY <2>2 DEF Release, Goto, Step, Running
    <3> QED
      BY <2>1, <2>5, <3>1, HandlerMoves
  <2>6. ASSUME NEW c \in Conn, Watcher(c) \/ App(c)
        PROVE  FALSE
    BY <2>1, <2>6 DEF Watcher, WatcherClosesApp, WatcherClosesUpstream,
           WatcherStopped, App, Connect, Send, AppCloses, proxyVars
  <2> QED
    BY <2>1, <2>3, <2>4, <2>5, <2>6 DEF Next, vars, proxyVars
<1> QED
  BY <1>1, Invariance, PTL DEF Spec, NoAddAfterDrain

-----------------------------------------------------------------------------
(* The proxy implements ProxyContract. *)

\* A step of one connection concerns no other, nor the controller.
LEMMA LiveFrame ==
    ASSUME TypeOK, NEW c \in Conn, Handler(c) \/ Watcher(c) \/ App(c)
    PROVE  /\ \A d \in Conn : d # c => (Live(d)' <=> Live(d))
           /\ UNCHANGED <<engine, ctl, severed>>
<1> USE DEF TypeOK, Live, Serving, Goto, Step, proxyVars, ctlVars, sockVars
<1>1. CASE Watcher(c)
  BY <1>1 DEF Watcher, WatcherClosesApp, WatcherClosesUpstream, WatcherStopped
<1>2. CASE App(c)
  BY <1>2 DEF App, Connect, Send, AppCloses
<1>3. CASE Handler(c)
  <2>1. CASE Register(c) \/ Admit(c) \/ Dial(c) \/ Ping(c) \/ CheckContext(c)
    BY <2>1 DEF Register, Admit, Dial, Ping, CheckContext
  <2>2. CASE ReadBuffered(c) \/ ReadSocket(c) \/ ReadFails(c) \/ DecideCommand(c)
    BY <2>2 DEF ReadBuffered, ReadSocket, ReadFails, DecideCommand
  <2>3. CASE WriteReject(c) \/ WriteUpstream(c) \/ ReadReply(c)
             \/ UpstreamFails(c) \/ WriteApp(c) \/ AppWriteFails(c)
    BY <2>3 DEF WriteReject, WriteUpstream, ReadReply, UpstreamFails,
                WriteApp, AppWriteFails
  <2>4. CASE CloseSockets(c) \/ Unregister(c) \/ Release(c)
    BY <2>4 DEF CloseSockets, Unregister, Release
  <2> QED
    BY <1>3, <2>1, <2>2, <2>3, <2>4 DEF Handler
<1> QED
  BY <1>1, <1>2, <1>3

LEMMA InitRefines == Init => Contract!Init
BY DEF Init, Contract!Init, phaseBar, gateBar, liveBar, Live, Serving, Admitted,
       PassThrough, Unavailable

LEMMA StepRefines == IInv /\ [Next]_vars => [Contract!Next]_(Contract!vars)
<1> SUFFICES ASSUME IInv, [Next]_vars
             PROVE  Contract!Next \/ UNCHANGED Contract!vars
  OBVIOUS
<1> USE DEF IInv, Contract!vars
<1>1. ASSUME UNCHANGED <<phaseBar, gateBar, liveBar>>
      PROVE  UNCHANGED Contract!vars
  BY <1>1
<1>2. ASSUME UNCHANGED <<pc, appOpen>>
      PROVE  liveBar' = liveBar
  BY <1>2 DEF liveBar, Live, Serving
<1>3. ASSUME UNCHANGED <<engine, severed>>
      PROVE  gateBar' = gateBar
  BY <1>3 DEF gateBar
<1>4. CASE Controller
  <2>1. CASE Start
    <3>1. phaseBar = "down" /\ phaseBar' = "up" /\ UNCHANGED <<gateBar, liveBar>>
      BY <2>1, <1>2, <1>3 DEF Start, phaseBar, sockVars
    <3> QED
      BY <3>1 DEF Contract!Next, Contract!StartUp
  <2>2. CASE StartFails \/ ParentCancel \/ SnapshotConns \/ DrainTimesOut
    <3>1. UNCHANGED <<phaseBar, gateBar, liveBar>>
      BY <2>2, <1>2, <1>3 DEF StartFails, CtlStep, ParentCancel, SnapshotConns,
             DrainTimesOut, phaseBar, proxyVars, ctlVars, sockVars
    <3> QED
      BY <3>1, <1>1
  <2>3. ASSUME NEW e \in Engine, SetEngine(e)
        PROVE  Contract!Next \/ UNCHANGED Contract!vars
    <3>1. phaseBar = "up" /\ phaseBar' = phaseBar /\ liveBar' = liveBar
      BY <2>3, <1>2 DEF SetEngine, phaseBar, sockVars
    <3>2. CASE e # Unavailable
      <4>1. gateBar' = "open"
        BY <2>3, <3>2 DEF SetEngine, gateBar
      <4> QED
        BY <3>1, <4>1 DEF Contract!Next, Contract!OpenGate
    <3>3. CASE e = Unavailable
      <4>1. CASE engine = Unavailable
        <5>1. gateBar' = gateBar
          BY <2>3, <3>3, <4>1 DEF SetEngine, gateBar
        <5> QED
          BY <1>1, <3>1, <5>1
      <4>2. CASE engine # Unavailable
        <5>1. gateBar = "open" /\ gateBar' = "closing"
          BY <2>3, <3>3, <4>2 DEF SetEngine, gateBar, SeverInv
        <5> QED
          BY <3>1, <5>1 DEF Contract!Next, Contract!CloseGate
      <4> QED
        BY <4>1, <4>2
    <3> QED
      BY <3>2, <3>3
  <2>4. ASSUME NEW c \in Conn, CloseConn(c)
        PROVE  Contract!Next \/ UNCHANGED Contract!vars
    <3>1. UNCHANGED <<phaseBar, gateBar>>
      BY <2>4, <1>3 DEF CloseConn, phaseBar, proxyVars
    <3>2. liveBar' = liveBar \ {c}
      BY <2>4 DEF CloseConn, liveBar, Live, Serving, TypeOK
    <3> QED
      BY <3>1, <3>2 DEF Contract!Next, Contract!Drop
  <2>5. CASE ConnsClosed
    <3>1. UNCHANGED <<engine, phaseBar, liveBar>> /\ toClose = {}
      BY <2>5, <1>2 DEF ConnsClosed, phaseBar, proxyVars, sockVars
    <3>2. CASE ctl = "closing" /\ engine = Unavailable /\ ~severed
      <4>1. severed'
        BY <2>5, <3>2 DEF ConnsClosed
      <4>2. gateBar = "closing" /\ gateBar' = "cut" /\ phaseBar = "up"
        BY <3>1, <3>2, <4>1 DEF gateBar, phaseBar
      <4>3. liveBar = {}
        BY <3>1, <3>2 DEF liveBar, SeverInv
      <4> QED
        BY <3>1, <4>2, <4>3 DEF Contract!Next, Contract!Cut
    <3>3. CASE ~(ctl = "closing" /\ engine = Unavailable /\ ~severed)
      <4>1. severed' = severed
        BY <2>5, <3>3 DEF ConnsClosed, TypeOK
      <4> QED
        BY <1>1, <1>3, <3>1, <4>1
    <3> QED
      BY <3>2, <3>3
  <2>6. CASE BeginShutdown
    <3>1. phaseBar = "up" /\ phaseBar' = "stopping" /\ UNCHANGED <<gateBar, liveBar>>
      BY <2>6, <1>2, <1>3 DEF BeginShutdown, phaseBar, sockVars
    <3> QED
      BY <3>1 DEF Contract!Next, Contract!BeginStop
  <2>7. CASE CloseListener
    <3>1. UNCHANGED <<phaseBar, gateBar>>
      BY <2>7, <1>3 DEF CloseListener, phaseBar
    <3>2. liveBar' = liveBar
      BY <2>7 DEF CloseListener, liveBar, Live, Serving, Admitted, TypeOK
    <3> QED
      BY <1>1, <3>1, <3>2
  <2>8. CASE Drained
    <3>1. phaseBar = "stopping" /\ phaseBar' = "stopped" /\ UNCHANGED <<gateBar, liveBar>>
      BY <2>8, <1>2, <1>3 DEF Drained, CtlStep, phaseBar, proxyVars, sockVars
    <3>2. liveBar = {}
      BY <2>8, DrainedMeansNobody
      DEF Drained, liveBar, Live, Serving, Running, Registered
    <3> QED
      BY <3>1, <3>2 DEF Contract!Next, Contract!Stop
  <2> QED
    BY <1>4, <2>1, <2>2, <2>3, <2>4, <2>5, <2>6, <2>7, <2>8 DEF Controller
<1>5. CASE AcceptLoop
  <2>1. UNCHANGED <<engine, ctl, severed>>
    BY <1>5 DEF AcceptLoop, Accept, Spawn, AcceptReturns, proxyVars, ctlVars
  <2>2. liveBar' = liveBar
    BY <1>5 DEF AcceptLoop, Accept, Spawn, AcceptReturns, liveBar, Live, Serving,
                Admitted, TypeOK, sockVars
  <2> QED
    BY <1>1, <1>3, <2>1, <2>2 DEF phaseBar
<1>6. ASSUME NEW c \in Conn, Handler(c) \/ Watcher(c) \/ App(c)
      PROVE  Contract!Next \/ UNCHANGED Contract!vars
  <2>1. UNCHANGED <<phaseBar, gateBar>>
    BY <1>3, <1>6, LiveFrame DEF phaseBar
  <2>2. CASE Live(c)' /\ ~Live(c)
    <3>1. Admit(c) /\ engine # Unavailable
      BY <2>2, LiveGrowsByAdmission
    <3>2. liveBar' = liveBar \cup {c} /\ gateBar = "open"
      BY <1>6, <2>2, <3>1, LiveFrame DEF liveBar, gateBar
    <3>3. wg # 0
      BY <3>1, DrainedMeansNobody DEF Admit, Goto, Step, Running, Registered
    <3>4. phaseBar \in {"up", "stopping"}
      BY <3>3 DEF phaseBar, StoppedInv, TypeOK, CtlStatus
    <3> QED
      BY <2>1, <3>2, <3>4 DEF Contract!Next, Contract!Serve
  <2>3. CASE Live(c) /\ ~Live(c)'
    <3>1. liveBar' = liveBar \ {c}
      BY <1>6, <2>3, LiveFrame DEF liveBar
    <3> QED
      BY <2>1, <3>1 DEF Contract!Next, Contract!Drop
  <2>4. CASE Live(c)' <=> Live(c)
    <3>1. liveBar' = liveBar
      BY <1>6, <2>4, LiveFrame DEF liveBar
    <3> QED
      BY <1>1, <2>1, <3>1
  <2> QED
    BY <2>2, <2>3, <2>4
<1>7. CASE UNCHANGED vars
  BY <1>1, <1>2, <1>3, <1>7 DEF vars, proxyVars, ctlVars, sockVars, phaseBar
<1> QED
  BY <1>4, <1>5, <1>6, <1>7 DEF Next

\* The lifecycle of the code is one its users can rely on.
THEOREM Refinement == Spec => ImplementsContract
BY InitRefines, StepRefines, Invariance, PTL DEF Spec, ImplementsContract, Contract!Spec

=============================================================================
