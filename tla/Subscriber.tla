----------------------------- MODULE Subscriber -----------------------------
(***************************************************************************)
(* The controller's subscriber, mbus/subscriber.go, working on the real    *)
(* address table, with the NATS client it uses and the part of main that   *)
(* stops both.                                                             *)
(*                                                                         *)
(* Four kinds of goroutine meet here: the one that executes RunOnce, step  *)
(* by step; the one on which the NATS client runs the connection callbacks *)
(* one after the other; one per subscription, so that register and         *)
(* unregister messages are each handled in order but not with respect to   *)
(* each other; and main, which closes the client on a signal.              *)
(*                                                                         *)
(* The NATS client is a library outside the repository's own code and is   *)
(* modelled from what the subscriber relies on: callbacks are queued in    *)
(* the order of the events, publishing while reconnecting is buffered or   *)
(* refused, messages arrive at most once and only over a live socket.      *)
(* Metrics and logging are left out.                                       *)
(***************************************************************************)
EXTENDS AddressTable

CONSTANTS WarmingDuration,
          NoHost,        \* the value of a missing "host" field
          Messages,      \* what may arrive on the three subjects
          MaxQueue,      \* bound: messages waiting in a subscription
          MaxCallbacks   \* bound: callbacks waiting in the client

Subjects == {"greet", "register", "unregister"}

VARIABLES runPc,           \* where RunOnce, and then Run, is
          natsClient,      \* s.natsClient # nil
          warmTimer,       \* clock.After(warmingDuration)
          mainPc,          \* how far main's reaction to a signal has come
          panicked,        \* a goroutine panicked: the process is gone
          conn,            \* the client's status
          socket,          \* whether its TCP connection really works
          callbacks,       \* its queue of callbacks, the running one first
          subs,            \* the subjects it is subscribed to
          inbox,           \* the messages waiting in each subscription
          pendingStart,    \* a start message is in the reconnect buffer
          announced        \* the server got a start message on this socket

runVars    == <<runPc, natsClient, warmTimer, mainPc>>
clientVars == <<conn, socket, callbacks, subs, inbox, pendingStart, announced>>
subVars    == <<runVars, panicked, clientVars>>
vars       == <<tableVars, subVars>>

\* A message on one of the subjects: whether it parses, and its fields.
RegistryMessage ==
  [subject: Subjects, json: BOOLEAN, host: IPs \cup {NoHost},
   uris: SUBSET Hostname]

ASSUME MessagesAssumption ==
  /\ NoHost \notin IPs
  /\ WarmingDuration \in Nat
  /\ MaxQueue \in Nat \ {0}
  /\ MaxCallbacks \in Nat \ {0}
  /\ Messages \subseteq RegistryMessage

-----------------------------------------------------------------------------
(* The NATS client.                                                        *)

\* Publishing a start message, and whether it succeeds.  A write to a broken
\* socket may go unnoticed or fail.
PublishStart(ok) ==
  \/ /\ conn \in {"none", "closed"} /\ ~ok
     /\ UNCHANGED <<pendingStart, announced>>
  \/ /\ conn = "reconnecting"
     /\ pendingStart' = (pendingStart \/ ok)
     /\ UNCHANGED announced
  \/ /\ conn = "connected" /\ (socket => ok)
     /\ announced' = socket
     /\ UNCHANGED pendingStart

Front(queue) == IF queue = <<>> THEN <<>> ELSE <<Head(queue)>>

\* Closing drops what waits in the subscriptions, except a message whose
\* handler has already been entered.
CloseClient ==
  \/ /\ conn \in {"none", "closed"}
     /\ UNCHANGED clientVars
  \/ /\ conn \in {"connected", "reconnecting"}
     /\ conn' = "closed"
     /\ socket' = FALSE
     /\ callbacks' = callbacks \o (IF conn = "connected"
                                   THEN <<"disconnected", "closed">>
                                   ELSE <<"closed">>)
     /\ subs' = {}
     /\ \E entered \in SUBSET Subjects :
          inbox' = [s \in Subjects |-> IF s \in entered
                                       THEN Front(inbox[s]) ELSE <<>>]
     /\ pendingStart' = FALSE
     /\ announced' = FALSE

SocketBreaks ==
  /\ ~panicked
  /\ conn = "connected" /\ socket
  /\ socket' = FALSE
  /\ announced' = FALSE
  /\ UNCHANGED <<tableVars, runVars, panicked, conn, callbacks, subs, inbox, pendingStart>>

\* The client notices, and queues the disconnect callback.
LoseConnection ==
  /\ ~panicked
  /\ conn = "connected" /\ ~socket
  /\ Len(callbacks) < MaxCallbacks
  /\ conn' = "reconnecting"
  /\ callbacks' = Append(callbacks, "disconnected")
  /\ UNCHANGED <<tableVars, runVars, panicked, socket, subs, inbox, pendingStart, announced>>

\* MaxReconnects(-1): it tries for ever.  The buffer is flushed first.
RegainConnection ==
  /\ ~panicked
  /\ conn = "reconnecting"
  /\ Len(callbacks) < MaxCallbacks
  /\ conn' = "connected"
  /\ socket' = TRUE
  /\ callbacks' = Append(callbacks, "reconnected")
  /\ announced' = pendingStart
  /\ pendingStart' = FALSE
  /\ UNCHANGED <<tableVars, runVars, panicked, subs, inbox>>

\* The client gives up by itself, on an error the server reports or on one it
\* cannot recover from.  Nothing in the process reconnects it: the closed
\* callback only logs "unexpected close", and RunOnce runs once.
UnexpectedClose ==
  /\ ~panicked
  /\ conn \in {"connected", "reconnecting"}
  /\ CloseClient
  /\ UNCHANGED <<tableVars, runVars, panicked>>

\* Somebody publishes a message and it reaches its subscription.
Deliver(m) ==
  /\ ~panicked
  /\ conn = "connected" /\ socket
  /\ m.subject \in subs
  /\ Len(inbox[m.subject]) < MaxQueue
  /\ inbox' = [inbox EXCEPT ![m.subject] = Append(@, m)]
  /\ UNCHANGED <<tableVars, runVars, panicked, conn, socket, callbacks, subs,
                 pendingStart, announced>>

-----------------------------------------------------------------------------
(* RunOnce, the body of once.Do, then the select of Run.                   *)

RunStep(from, to) ==
  /\ ~panicked
  /\ runPc = from
  /\ runPc' = to
  /\ UNCHANGED <<tableVars, mainPc, panicked>>

Connect ==
  \/ /\ RunStep("connect", "assign")
     /\ conn' = "connected"
     /\ socket' = TRUE
     /\ UNCHANGED <<natsClient, warmTimer, callbacks, subs, inbox, pendingStart, announced>>
  \/ /\ RunStep("connect", "close")
     /\ UNCHANGED <<natsClient, warmTimer, clientVars>>

\* Mutant: the client is assigned to a new variable of the same name.
AssignClient_Shadowed ==
  /\ RunStep("assign", "start")
  /\ UNCHANGED <<natsClient, warmTimer, clientVars>>

AssignClient ==
  /\ RunStep("assign", "start")
  /\ natsClient' = TRUE
  /\ UNCHANGED <<warmTimer, clientVars>>

sendStartMessage ==
  \E ok \in BOOLEAN :
    /\ RunStep("start", IF ok THEN "greet" ELSE "close")
    /\ PublishStart(ok)
    /\ UNCHANGED <<natsClient, warmTimer, conn, socket, callbacks, subs, inbox>>

\* Subscribe fails only on a closed client; while reconnecting it is
\* remembered and sent later.
Subscribe(from, subject, to) ==
  /\ RunStep(from, IF conn = "closed" THEN "close" ELSE to)
  /\ subs' = IF conn = "closed" THEN subs ELSE subs \cup {subject}
  /\ UNCHANGED <<natsClient, warmTimer, conn, socket, callbacks, inbox, pendingStart,
                 announced>>

setupGreetMsgHandler == Subscribe("greet", "greet", "flush")

\* Mutant: Flush waits for the server without a limit.
FlushGreet_NoTimeout ==
  /\ conn = "connected" /\ socket /\ RunStep("flush", "register")
  /\ UNCHANGED <<natsClient, warmTimer, clientVars>>

\* Flush waits for the server's answer, for at most a minute.
FlushGreet ==
  /\ \/ conn = "connected" /\ socket /\ RunStep("flush", "register")
     \/ RunStep("flush", "close")
  /\ UNCHANGED <<natsClient, warmTimer, clientVars>>

setupAddressMessageHandler ==
  \/ Subscribe("register", "register", "unregister")
  \/ Subscribe("unregister", "unregister", "warm")

NotStarted == -1

\* Mutant: the table is warm at once.
StartWarmTimer_Elapsed ==
  /\ RunStep("warm", "ready")
  /\ warmTimer' = WarmingDuration
  /\ UNCHANGED <<natsClient, clientVars>>

StartWarmTimer ==
  /\ RunStep("warm", "ready")
  /\ warmTimer' = 0
  /\ UNCHANGED <<natsClient, clientVars>>

\* Mutant: the connection is left open when a step of RunOnce fails.
CloseAfterError_Forgotten ==
  /\ RunStep("close", "failed")
  /\ UNCHANGED <<natsClient, warmTimer, clientVars>>

\* After an error RunOnce closes the client, if it ever got one.
CloseAfterError ==
  /\ RunStep("close", "failed")
  /\ IF natsClient THEN CloseClient ELSE UNCHANGED clientVars
  /\ UNCHANGED <<natsClient, warmTimer>>

\* Run receives a signal from the group's monitor, which listens to the same
\* signals as main and gets them from main as well.
StopRun ==
  /\ RunStep("ready", "stopped")
  /\ CloseClient
  /\ UNCHANGED <<natsClient, warmTimer>>

\* Mutant: a table is only warmed over a live connection.
WarmUp_NeedsConnection ==
  /\ ~panicked
  /\ warmTimer = WarmingDuration
  /\ conn = "connected"
  /\ SetWarm
  /\ warmTimer' = WarmingDuration + 1
  /\ UNCHANGED <<runPc, natsClient, mainPc, panicked, clientVars>>

\* The goroutine RunOnce leaves behind.
WarmUp ==
  /\ ~panicked
  /\ warmTimer = WarmingDuration
  /\ SetWarm
  /\ warmTimer' = WarmingDuration + 1
  /\ UNCHANGED <<runPc, natsClient, mainPc, panicked, clientVars>>

-----------------------------------------------------------------------------
(* The connection callbacks.                                               *)

Running(callback) == ~panicked /\ callbacks # <<>> /\ Head(callbacks) = callback

\* Mutant: the disconnect is only logged.
DisconnectHandler_LogsOnly ==
  /\ Running("disconnected")
  /\ callbacks' = Tail(callbacks)
  /\ UNCHANGED <<tableVars, runVars, panicked, conn, socket, subs, inbox, pendingStart,
                 announced>>

DisconnectHandler ==
  /\ Running("disconnected")
  /\ PausePruning
  /\ callbacks' = Tail(callbacks)
  /\ UNCHANGED <<runVars, panicked, conn, socket, subs, inbox, pendingStart, announced>>

\* Mutant: pruning is not resumed.
ReconnectHandler_NoResume ==
  /\ Running("reconnected")
  /\ callbacks' = <<"sendStart">> \o Tail(callbacks)
  /\ UNCHANGED <<tableVars, runVars, panicked, conn, socket, subs, inbox, pendingStart,
                 announced>>

\* First ResumePruning, then, with other goroutines in between, the start
\* message, whose error is ignored.
ReconnectHandler ==
  /\ Running("reconnected")
  /\ ResumePruning
  /\ callbacks' = <<"sendStart">> \o Tail(callbacks)
  /\ UNCHANGED <<runVars, panicked, conn, socket, subs, inbox, pendingStart, announced>>

\* Mutant: the start message is not sent.
ReconnectSendsStart_Forgotten ==
  /\ Running("sendStart")
  /\ callbacks' = Tail(callbacks)
  /\ UNCHANGED <<tableVars, runVars, panicked, conn, socket, subs, inbox, pendingStart,
                 announced>>

\* s.natsClient may still be nil: RunOnce assigns it after Connection has
\* returned, when callbacks already run.  The call then panics.
ReconnectSendsStart ==
  /\ Running("sendStart")
  /\ \/ /\ natsClient
        /\ \E ok \in BOOLEAN : PublishStart(ok)
        /\ callbacks' = Tail(callbacks)
        /\ UNCHANGED panicked
     \/ /\ ~natsClient
        /\ panicked' = TRUE
        /\ UNCHANGED <<callbacks, pendingStart, announced>>
  /\ UNCHANGED <<tableVars, runVars, conn, socket, subs, inbox>>

\* The closed callback only logs, whoever closed the client.
ClosedHandler ==
  /\ Running("closed")
  /\ callbacks' = Tail(callbacks)
  /\ UNCHANGED <<tableVars, runVars, panicked, conn, socket, subs, inbox, pendingStart,
                 announced>>

-----------------------------------------------------------------------------
(* The message handlers.                                                   *)

Handles(subject) ==
  /\ ~panicked
  /\ inbox[subject] # <<>>
  /\ inbox' = [inbox EXCEPT ![subject] = Tail(@)]
  /\ UNCHANGED <<runVars, panicked, conn, socket, callbacks, subs, pendingStart, announced>>

\* It answers with the same options; the answer touches no state here.
HandleGreet == Handles("greet") /\ UNCHANGED tableVars

\* Mutant: a message without a host is registered.
MalformedRegister_NoHostCheck(m) == ~m.json \/ m.uris = {}

MalformedRegister(m) == ~m.json \/ m.host = NoHost \/ m.uris = {}

HandleRegister ==
  LET m == Head(inbox["register"])
  IN  /\ Handles("register")
      /\ IF MalformedRegister(m) THEN UNCHANGED tableVars
         ELSE Add(m.uris, m.host)

\* The host is not looked at.
MalformedUnregister(m) == ~m.json \/ m.uris = {}

HandleUnregister ==
  LET m == Head(inbox["unregister"])
  IN  /\ Handles("unregister")
      /\ IF MalformedUnregister(m) THEN UNCHANGED tableVars
         ELSE Remove(m.uris, m.host)

-----------------------------------------------------------------------------
(* main on a signal: subscriber.Close, addressTable.Shutdown, then the     *)
(* signal for the group.                                                   *)

\* main looks at its signals only after ifrit.Invoke, which waits until Run is
\* ready or has returned (module Daemon).
StopSubscriber ==
  /\ ~panicked
  /\ mainPc = "running"
  /\ runPc \in {"ready", "stopped", "failed"}
  /\ mainPc' = "closed"
  /\ IF natsClient THEN CloseClient ELSE UNCHANGED clientVars
  /\ UNCHANGED <<tableVars, runPc, natsClient, warmTimer, panicked>>

StopTable ==
  /\ ~panicked
  /\ mainPc = "closed"
  /\ mainPc' = "signalled"
  /\ Shutdown
  /\ UNCHANGED <<runPc, natsClient, warmTimer, panicked, clientVars>>

-----------------------------------------------------------------------------
TablePruner == ~panicked /\ Pruner /\ UNCHANGED subVars

Tick ==
  /\ ~panicked
  /\ TableTick
  /\ warmTimer' = IF warmTimer \in 0..(WarmingDuration - 1) THEN warmTimer + 1
                  ELSE warmTimer
  /\ UNCHANGED <<runPc, natsClient, mainPc, panicked, clientVars>>

Init ==
  /\ TableInit
  /\ runPc = "connect"
  /\ natsClient = FALSE
  /\ warmTimer = NotStarted
  /\ mainPc = "running"
  /\ panicked = FALSE
  /\ conn = "none"
  /\ socket = FALSE
  /\ callbacks = <<>>
  /\ subs = {}
  /\ inbox = [s \in Subjects |-> <<>>]
  /\ pendingStart = FALSE
  /\ announced = FALSE

RunOnce ==
  \/ Connect \/ AssignClient \/ sendStartMessage \/ setupGreetMsgHandler
  \/ FlushGreet \/ setupAddressMessageHandler \/ StartWarmTimer \/ CloseAfterError

Callback == DisconnectHandler \/ ReconnectHandler \/ ReconnectSendsStart \/ ClosedHandler

Next ==
  \/ RunOnce \/ StopRun \/ WarmUp
  \/ Callback
  \/ HandleGreet \/ HandleRegister \/ HandleUnregister
  \/ StopSubscriber \/ StopTable
  \/ SocketBreaks \/ LoseConnection \/ RegainConnection \/ UnexpectedClose
  \/ \E m \in Messages : Deliver(m)
  \/ TablePruner \/ Tick

Spec == Init /\ [][Next]_vars

\* Goroutines that can run do run, timers expire, Flush times out and a dead
\* socket is noticed.  RunOnce and the warm timer have finitely many steps to
\* take, so one condition does for both.  Nothing is assumed of the server, of
\* who publishes, of the message handlers or of the signal.
FairSpec ==
  /\ Spec
  /\ WF_vars(RunOnce \/ WarmUp)
  /\ WF_vars(Callback)
  /\ WF_vars(LoseConnection)
  /\ WF_vars(Tick)
  /\ WF_vars(TablePruner)

-----------------------------------------------------------------------------
(* Properties.                                                             *)

RunPcs == {"connect", "assign", "start", "greet", "flush", "register", "unregister",
           "warm", "ready", "stopped", "close", "failed"}

\* The state of the subscriber and its client has its type, and the table it
\* drives keeps its own: no message puts an entry without a host into it.
TypeOK ==
  /\ TableTypeOK
  /\ runPc \in RunPcs
  /\ natsClient \in BOOLEAN
  /\ warmTimer \in NotStarted..(WarmingDuration + 1)
  /\ mainPc \in {"running", "closed", "signalled"}
  /\ panicked \in BOOLEAN
  /\ conn \in {"none", "connected", "reconnecting", "closed"}
  /\ socket \in BOOLEAN
  /\ callbacks \in Seq({"disconnected", "reconnected", "sendStart", "closed"})
  /\ Len(callbacks) <= MaxCallbacks + 2
  /\ subs \subseteq Subjects
  /\ inbox \in [Subjects -> Seq(Messages)]
  /\ pendingStart \in BOOLEAN
  /\ announced \in BOOLEAN

\* Whenever the callback queue is empty, pruning is paused exactly if the
\* connection is not up: however outages, reconnects and Close interleave
\* with the callbacks, the pause never gets stuck and is never missed.
PauseTracksConnection ==
  callbacks = <<>> /\ conn # "none" => (pausedPruning <=> conn # "connected")

Announcing == {"greet", "flush", "register", "unregister", "warm", "ready"}

\* Once RunOnce has sent its start message, a working connection whose
\* callbacks have run has carried a start message on this very socket: no
\* reconnect goes by without the emitters being asked for their routes.
AnnouncedWhenConnected ==
  runPc \in Announcing /\ conn = "connected" /\ socket /\ callbacks = <<>> => announced

\* A RunOnce that returned an error leaves no connection behind and never
\* warms the table, whichever step failed and whatever the client did
\* meanwhile.
FailureLeavesNothing ==
  runPc = "failed" => conn \in {"none", "closed"} /\ subs = {} /\ warmTimer = NotStarted

\* Whatever arrives and however the goroutines interleave, the subscriber uses
\* the table only as AddressTable describes: every step is one of its steps,
\* with hostnames and an ip it may be given, or none.  What is proved of the
\* table alone therefore holds of the table in the running controller.
RefinesTable == TableSpec

\* A reconnect handler sends a start message (subscriber_test.go: "should
\* send a start message"): it never ends in a panic.
ReconnectSends == ~panicked

\* What remains of it: only a reconnect between the return of Connection and
\* the assignment of s.natsClient can end in a panic.  No later one does,
\* whatever outages, failures of RunOnce and Close come between.
LateReconnectsSend == panicked => runPc = "assign"

\* RunOnce returns, unless the process panics first.
RunOnceReturns == <>(runPc \in {"ready", "stopped", "failed"} \/ panicked)

\* A table whose subscriber is set up becomes warm, even if NATS is away.
EventuallyWarm == runPc = "ready" ~> warm \/ panicked

\* During an outage that does not end, and after the client was closed or has
\* given up by itself, the table comes to rest: pruning is paused, and every
\* route that was there is there for good.
OutageFreezesTable ==
  <>[](conn \in {"reconnecting", "closed"} /\ ~panicked) =>
     /\ <>[]pausedPruning
     /\ \A h \in Fqdns(Hostname), ip \in IPs :
          <>[]Listed(h, ip) \/ <>[]~Listed(h, ip)

\* When NATS is back for good pruning is resumed, and stale routes go.
RecoveryResumesPruning ==
  <>[](conn = "connected" /\ socket /\ ~panicked /\ mainPc = "running") =>
     /\ <>[]~pausedPruning
     /\ \A h \in Fqdns(Hostname), ip \in IPs : []<>~Stale(h, ip)

=============================================================================
