------------------------------- MODULE Daemon -------------------------------
(***************************************************************************)
(* The two daemons as processes: how service-discovery-controller and      *)
(* bosh-dns-adapter come up, what happens when a part of them fails or a   *)
(* signal arrives, at any moment, and how they end.                        *)
(*                                                                         *)
(* main reads the configuration, builds its parts, and runs them as an     *)
(* ordered group (OrderedGroup); a goroutine of its own waits for the      *)
(* group's end, and main for a signal, which the group's monitor gets from *)
(* the operating system as well.  The controller's endpoint and message    *)
(* handlers feed the recorders (MetricsRecorders) that the metrics emitter *)
(* reads.                                                                  *)
(*                                                                         *)
(* The subscriber's start is one step here, and so is the end of its NATS  *)
(* client; module Subscriber has the parts and the outages in between.     *)
(* The log-level server and the metrics emitter are library code.          *)
(***************************************************************************)
EXTENDS Integers, Sequences

CONSTANTS TransitTimes,  \* what RecordMessageTransitTime may measure
          MaxRequests    \* bound: requests answered

ASSUME DaemonAssumption ==
  /\ TransitTimes \subseteq Int
  /\ MaxRequests \in Nat

VARIABLES program,      \* which of the two this process is
          mainPc,       \* where main is
          exit,         \* the exit status, NoExit while the process runs
          mainSignal,   \* a signal waits in signalChannel
          signalSent,   \* history: the process was sent a signal
          members, member, wasReady, told, group, groupSignal,  \* the group
          serve,        \* the goroutine with the HTTP server
          natsClient,   \* the subscriber's client, with its subscriptions
          warm,         \* the address table is warm
          answering,    \* handlers that have answered and not recorded it yet
          emitter,      \* where the metrics emitter is
          held,         \* the count it has read and not sent yet
          requestCount, currentMax,  \* the recorders
          answered,     \* history: requests answered
          reported,     \* history: requests counted in metrics sent
          since         \* history: transit times above zero since the last reading

Group     == INSTANCE OrderedGroup
Recorders == INSTANCE MetricsRecorders

groupVars   == <<members, member, wasReady, told, group, groupSignal>>
mainVars    == <<program, mainPc, exit, mainSignal, signalSent>>
serverVars  == <<serve, natsClient, warm>>
metricsVars == <<answering, emitter, held, requestCount, currentMax, answered,
                 reported, since>>
vars        == <<mainVars, groupVars, serverVars, metricsVars>>

NoExit  == -1
Running == exit = NoExit

\* Mutant: the endpoint comes up before the subscriber.
ControllerMembers_ServerFirst ==
  <<"routes-server", "metrics-emitter", "log-level-server", "subscriber">>

\* The members of the group, in the order of their start.
ControllerMembers ==
  <<"subscriber", "metrics-emitter", "log-level-server", "routes-server">>

AdapterMembers == <<"metrics-emitter", "log-level-server">>

MembersOf(p) == IF p = "controller" THEN ControllerMembers ELSE AdapterMembers

-----------------------------------------------------------------------------
(* main, up to the group.                                                  *)

Passes(p, from, to) ==
  /\ Running /\ program = p
  /\ mainPc = from
  /\ mainPc' = to
  /\ UNCHANGED <<program, exit, mainSignal, signalSent>>

Fails(p, at, status) ==
  /\ Running /\ program = p
  /\ mainPc = at
  /\ exit' = status
  /\ UNCHANGED <<program, mainPc, mainSignal, signalSent>>

\* A configuration file: it may be missing, no JSON, or miss a required field.
ConfigFiles == {"missing", "garbage", "invalid", "valid"}

NewConfig(file)        == file = "valid"
AdapterNewConfig(file) == file = "valid"

\* mainWithError returns errors to main, which exits with status 2; the
\* address table is built on the way.
readConfig ==
  /\ \E file \in ConfigFiles :
       IF NewConfig(file) THEN Passes("controller", "config", "dropsonde")
       ELSE Fails("controller", "config", 2)
  /\ UNCHANGED <<groupVars, serverVars, metricsVars>>

InitializeDropsonde ==
  /\ \/ Passes("controller", "dropsonde", "subscriber")
     \/ Fails("controller", "dropsonde", 2)
  /\ UNCHANGED <<groupVars, serverVars, metricsVars>>

\* A UUID, then the local ip address.
buildSubscriber ==
  /\ \/ Passes("controller", "subscriber", "localip")
     \/ Fails("controller", "subscriber", 2)
  /\ UNCHANGED <<groupVars, serverVars, metricsVars>>

LocalIP ==
  /\ \/ Passes("controller", "localip", "invoke")
     \/ Fails("controller", "localip", 2)
  /\ UNCHANGED <<groupVars, serverVars, metricsVars>>

AdapterConfig ==
  /\ \E file \in ConfigFiles :
       IF AdapterNewConfig(file) THEN Passes("adapter", "config", "listen")
       ELSE Fails("adapter", "config", 2)
  /\ UNCHANGED <<groupVars, serverVars, metricsVars>>

Listen ==
  /\ \/ Passes("adapter", "listen", "dropsonde") /\ serve' = "up"
     \/ Fails("adapter", "listen", 1) /\ UNCHANGED serve
  /\ UNCHANGED <<groupVars, natsClient, warm, metricsVars>>

AdapterDropsonde ==
  /\ \/ Passes("adapter", "dropsonde", "client")
     \/ Fails("adapter", "dropsonde", 1)
  /\ UNCHANGED <<groupVars, serverVars, metricsVars>>

CAFiles == {"missing", "garbage", "certificate"}

\* Its CA file must hold a certificate, and the key must fit its own.
NewServiceDiscoveryClient(ca, keyPair) == ca = "certificate" /\ keyPair

CreateClient ==
  /\ \E ca \in CAFiles, keyPair \in BOOLEAN :
       IF NewServiceDiscoveryClient(ca, keyPair) THEN Passes("adapter", "client", "invoke")
       ELSE Fails("adapter", "client", 1)
  /\ UNCHANGED <<groupVars, serverVars, metricsVars>>

-----------------------------------------------------------------------------
(* main and the group.                                                     *)

\* ifrit.Invoke starts the group ...
Invoke ==
  /\ Passes(program, "invoke", "wait")
  /\ group' = "starting"
  /\ UNCHANGED <<members, member, wasReady, told, groupSignal, serverVars, metricsVars>>

\* Mutant: main goes on only when the group is ready.
InvokeReturns_ReadyOnly ==
  /\ "group" \in wasReady
  /\ Passes(program, "wait", "select")
  /\ UNCHANGED <<groupVars, serverVars, metricsVars>>

\* ... and returns when it is ready or has ended.
InvokeReturns ==
  /\ "group" \in wasReady \/ group \in {"ok", "error"}
  /\ Passes(program, "wait", "select")
  /\ UNCHANGED <<groupVars, serverVars, metricsVars>>

AfterInvoke == {"select", "close", "shutdown", "signal", "closeListener", "return"}

\* The controller panics in logger.Fatal, the adapter calls os.Exit.
FailureStatus == IF program = "controller" THEN 2 ELSE 1

\* Mutant: the group's end is taken for a failure, whatever it returned.
WatchGroup_AnyEnd ==
  /\ Running
  /\ mainPc \in AfterInvoke
  /\ group \in {"ok", "error"}
  /\ exit' = FailureStatus
  /\ UNCHANGED <<program, mainPc, mainSignal, signalSent, groupVars, serverVars, metricsVars>>

\* Mutant: the error is only logged.
WatchGroup_LogsOnly == FALSE /\ UNCHANGED vars

\* The goroutine on monitor.Wait.
WatchGroup ==
  /\ Running
  /\ mainPc \in AfterInvoke
  /\ group = "error"
  /\ exit' = FailureStatus
  /\ UNCHANGED <<program, mainPc, mainSignal, signalSent, groupVars, serverVars, metricsVars>>

\* SIGINT or SIGTERM: for main, and for the monitor once it listens.
SignalArrives ==
  /\ Running
  /\ ~signalSent
  /\ signalSent' = TRUE
  /\ mainSignal' = TRUE
  /\ groupSignal' = (group # "none")
  /\ UNCHANGED <<program, mainPc, exit, members, member, wasReady, told, group,
                 serverVars, metricsVars>>

SelectSignal ==
  /\ Running
  /\ mainPc = "select"
  /\ mainSignal
  /\ mainSignal' = FALSE
  /\ mainPc' = IF program = "controller" THEN "close" ELSE "signal"
  /\ UNCHANGED <<program, exit, signalSent, groupVars, serverVars, metricsVars>>

\* Subscriber.Close: a client that is closed already stays as it is.
Close == natsClient' = IF natsClient = "subscribed" THEN "closed" ELSE natsClient

\* The controller: subscriber.Close and addressTable.Shutdown, then the signal.
CloseSubscriber ==
  /\ Passes("controller", "close", "shutdown")
  /\ Close
  /\ UNCHANGED <<groupVars, serve, warm, metricsVars>>

ShutdownTable ==
  /\ Passes("controller", "shutdown", "signal")
  /\ UNCHANGED <<groupVars, serverVars, metricsVars>>

\* monitor.Signal does not wait.
SignalGroup ==
  /\ \/ Passes("controller", "signal", "return")
     \/ Passes("adapter", "signal", "closeListener")
  /\ groupSignal' = TRUE
  /\ UNCHANGED <<members, member, wasReady, told, group, serverVars, metricsVars>>

CloseListener ==
  /\ Passes("adapter", "closeListener", "return")
  /\ serve' = IF serve = "up" THEN "closed" ELSE serve
  /\ UNCHANGED <<groupVars, natsClient, warm, metricsVars>>

Return ==
  /\ Fails(program, "return", 0)
  /\ UNCHANGED <<groupVars, serverVars, metricsVars>>

-----------------------------------------------------------------------------
(* The members' Run.                                                       *)

\* RunOnce succeeds or not.
RunSubscriber ==
  /\ Running
  /\ \/ Group!BecomesReady("subscriber") /\ natsClient' = "subscribed"
     \/ Group!ReturnsError("subscriber", "starting") /\ UNCHANGED natsClient
     \/ Group!ReceivesSignal("subscriber") /\ Close
  /\ UNCHANGED <<mainVars, serve, warm, metricsVars>>

\* The client closes by itself.  The closed callback only logs this, Run goes
\* on waiting for its signal, and no client takes the place of this one.
ClosedHandler ==
  /\ Running
  /\ natsClient = "subscribed"
  /\ natsClient' = "lost"
  /\ UNCHANGED <<mainVars, groupVars, serve, warm, metricsVars>>

RunMetricsEmitter ==
  /\ Running
  /\ Group!BecomesReady("metrics-emitter") \/ Group!ReceivesSignal("metrics-emitter")
  /\ UNCHANGED <<mainVars, serverVars, metricsVars>>

\* It is ready before it is known whether its port is free.
RunLogLevelServer ==
  /\ Running
  /\ \/ Group!BecomesReady("log-level-server")
     \/ Group!ReturnsError("log-level-server", "ready")
     \/ Group!ReceivesSignal("log-level-server")
  /\ UNCHANGED <<mainVars, serverVars, metricsVars>>

\* A CA file without a certificate is not noticed.
buildTLSServerConfig(ca, keyPair) == ca # "missing" /\ keyPair

\* Run of the routes server: it starts the goroutine that serves, and is
\* ready a microsecond later, bound or not.
StartRoutesServer ==
  /\ Running
  /\ member["routes-server"] = "starting"
  /\ \/ /\ serve = "none"
        /\ \E ca \in CAFiles, keyPair \in BOOLEAN :
             IF buildTLSServerConfig(ca, keyPair)
             THEN serve' = "binding" /\ UNCHANGED groupVars
             ELSE Group!ReturnsError("routes-server", "starting") /\ UNCHANGED serve
     \/ serve # "none" /\ Group!BecomesReady("routes-server") /\ UNCHANGED serve
  /\ UNCHANGED <<mainVars, natsClient, warm, metricsVars>>

\* ListenAndServeTLS binds, also after Close (as of Go 1.10), or fails, and
\* may return later on; http.Serve of the adapter likewise.
ServeHTTP ==
  /\ Running
  /\ \/ serve = "binding" /\ serve' \in {"up", "error"}
     \/ serve = "up" /\ serve' = "error"
  /\ UNCHANGED <<mainVars, groupVars, natsClient, warm, metricsVars>>

\* The select of Run; Close ends a server that is up.
RoutesServerEnds ==
  /\ Running
  /\ \/ /\ serve = "error"
        /\ Group!ReturnsError("routes-server", "ready")
        /\ UNCHANGED serve
     \/ /\ Group!ReceivesSignal("routes-server")
        /\ serve' = IF serve = "up" THEN "closed" ELSE serve
  /\ UNCHANGED <<mainVars, natsClient, warm, metricsVars>>

-----------------------------------------------------------------------------
(* Requests, messages and metrics of the controller.                       *)

WarmUp ==
  /\ Running
  /\ ~warm /\ "subscriber" \in wasReady
  /\ warm' = TRUE
  /\ UNCHANGED <<mainVars, groupVars, serve, natsClient, metricsVars>>

\* handleRegistrationRequest writes its answer ...
AnswerRequest ==
  /\ Running /\ program = "controller"
  /\ serve = "up"
  /\ warm
  /\ answered < MaxRequests
  /\ answered' = answered + 1
  /\ answering' = answering + 1
  /\ UNCHANGED <<mainVars, groupVars, serverVars, emitter, held, requestCount,
                 currentMax, reported, since>>

\* ... and then records it, although the server may be closed by now.
RecordAnswer ==
  /\ Running
  /\ answering > 0
  /\ answering' = answering - 1
  /\ Recorders!RecordRequest
  /\ UNCHANGED <<mainVars, groupVars, serverVars, emitter, held, answered, reported, since>>

\* A register message is handled.
RecordTransit ==
  /\ Running
  /\ natsClient = "subscribed"
  /\ \E stamped \in BOOLEAN, diff \in TransitTimes :
       /\ Recorders!RecordMessageTransitTime(stamped, diff)
       /\ since' = IF stamped /\ diff > 0 THEN since \cup {diff} ELSE since
  /\ UNCHANGED <<mainVars, groupVars, serverVars, answering, emitter, held, answered, reported>>

\* At every interval the emitter reads and sends one source after the other.
EmitMetrics ==
  /\ Running /\ program = "controller"
  /\ member["metrics-emitter"] = "ready"
  /\ \/ /\ emitter = "count"
        /\ \E count \in 0..MaxRequests : Recorders!Getter(count) /\ held' = count
        /\ emitter' = "send"
        /\ UNCHANGED <<reported, since>>
     \/ /\ emitter = "send"
        /\ reported' = reported + held
        /\ held' = 0
        /\ emitter' = "max"
        /\ UNCHANGED <<requestCount, currentMax, since>>
     \/ /\ emitter = "max"
        /\ \E max \in TransitTimes \cup {0} : Recorders!GetMaxSinceLastInterval(max)
        /\ since' = {}
        /\ emitter' = "count"
        /\ UNCHANGED <<held, reported>>
  /\ UNCHANGED <<mainVars, groupVars, serverVars, answering, answered>>

-----------------------------------------------------------------------------
Init ==
  /\ program \in {"controller", "adapter"}
  /\ mainPc = "config"
  /\ exit = NoExit
  /\ mainSignal = FALSE
  /\ signalSent = FALSE
  /\ members = MembersOf(program)
  /\ member = [m \in {"subscriber", "metrics-emitter", "log-level-server",
                      "routes-server"} |-> "new"]
  /\ wasReady = {}
  /\ told = {}
  /\ group = "none"
  /\ groupSignal = FALSE
  /\ serve = "none"
  /\ natsClient = "none"
  /\ warm = FALSE
  /\ answering = 0
  /\ emitter = "count"
  /\ held = 0
  /\ Recorders!Init
  /\ answered = 0
  /\ reported = 0
  /\ since = {}

StartUp ==
  \/ readConfig \/ InitializeDropsonde \/ buildSubscriber \/ LocalIP
  \/ AdapterConfig \/ Listen \/ AdapterDropsonde \/ CreateClient

Main ==
  \/ StartUp \/ Invoke \/ InvokeReturns
  \/ SelectSignal \/ CloseSubscriber \/ ShutdownTable \/ SignalGroup \/ CloseListener \/ Return

GroupStep == Running /\ Group!GroupStep /\ UNCHANGED <<mainVars, serverVars, metricsVars>>

Next ==
  \/ Main \/ WatchGroup \/ SignalArrives
  \/ GroupStep
  \/ RunSubscriber \/ ClosedHandler \/ RunMetricsEmitter \/ RunLogLevelServer
  \/ StartRoutesServer \/ ServeHTTP \/ RoutesServerEnds
  \/ WarmUp \/ AnswerRequest \/ RecordAnswer \/ RecordTransit \/ EmitMetrics

Spec == Init /\ [][Next]_vars

\* What the Go scheduler sees to: main and its goroutines, the group, and the
\* members' Run, of which RunOnce returns (RunOnceReturns of module Subscriber)
\* and the log-level server may run for ever.
Scheduled ==
  \/ Main \/ WatchGroup \/ GroupStep
  \/ RunSubscriber \/ RunMetricsEmitter \/ StartRoutesServer \/ RoutesServerEnds
  \/ RunLogLevelServer /\ member'["log-level-server"] # "failed"

\* Each of these has finitely many steps to take, so that none waits for ever
\* as long as some of them go on.  Nothing is assumed of signals, of requests
\* or of whether anything fails.
FairSpec == Spec /\ WF_vars(Scheduled)

-----------------------------------------------------------------------------
(* Properties.                                                             *)

Statuses == {"new", "starting", "ready", "stopped", "failed"}

\* The state of the process has its type.
TypeOK ==
  /\ program \in {"controller", "adapter"}
  /\ mainPc \in {"config", "listen", "dropsonde", "subscriber", "localip", "client",
                 "invoke", "wait"} \cup AfterInvoke
  /\ exit \in {NoExit, 0, 1, 2}
  /\ mainSignal \in BOOLEAN /\ signalSent \in BOOLEAN /\ groupSignal \in BOOLEAN
  /\ members = MembersOf(program)
  /\ \A m \in DOMAIN member : member[m] \in Statuses
  /\ wasReady \subseteq DOMAIN member \cup {"group"}
  /\ told \subseteq DOMAIN member
  /\ group \in {"none", "starting", "ready", "stopping", "ok", "error"}
  /\ serve \in {"none", "binding", "up", "closed", "error"}
  /\ natsClient \in {"none", "subscribed", "closed", "lost"}
  /\ warm \in BOOLEAN
  /\ emitter \in {"count", "send", "max"}
  /\ {answering, held, requestCount, answered, reported} \subseteq 0..MaxRequests
  /\ currentMax \in TransitTimes \cup {0}
  /\ since \subseteq TransitTimes

\* The group takes its members down, and Run of the routes server has returned.
ServerLeftBehind ==
  group \in {"stopping", "ok", "error"} /\ member["routes-server"] = "stopped"

\* The controller never serves before its subscriptions are made.  When it
\* serves, it has them, unless the NATS client has closed by itself, which
\* the code only logs, or the process is on its way out: main has closed the
\* client on a signal, or the server has come to bind after its own Run had
\* closed it and returned, and has outlasted the subscriber in the group.
ServesSubscribed ==
  Running /\ program = "controller" /\ serve = "up" =>
    \/ natsClient \in {"subscribed", "lost"}
    \/ /\ natsClient = "closed"
       /\ mainPc \in {"shutdown", "signal", "return"} \/ ServerLeftBehind

\* A controller that serves although its subscriptions have been given up
\* does not stay: also a server that was closed before it was bound, and came
\* up when the group was being taken down, goes with the process.  (One whose
\* client has closed by itself does stay.)
UnfedServerEnds ==
  program = "controller" /\ serve = "up" /\ natsClient = "closed" ~> ~Running

\* The exit status says why the process ended: success only after a signal,
\* an error only if a step of main or a member failed.
ExitTellsWhy ==
  /\ exit = 0 => signalSent
  /\ exit > 0 => mainPc \notin AfterInvoke \/ \E m \in DOMAIN member : member[m] = "failed"

\* The failure of a single member ends the whole process, in time and with
\* an error, unless a signal ends it first (main_test.go: "when the log level
\* endpoint fails to start successfully" it "exits").
FailureEnds ==
  (\E m \in DOMAIN member : member[m] = "failed") ~> exit > 0 \/ (exit = 0 /\ signalSent)

\* A signal ends the process, whatever it was doing, from its first step on
\* (main_test.go: "accepts interrupt signals and shuts down").
SignalEnds == signalSent ~> ~Running

\* Every answer is counted once: however the handlers interleave with the
\* emitter's reading and with the server's end, it is still to be recorded,
\* in the counter, in the emitter's hand or in a metric that was sent.
AnswersCounted == answered = answering + requestCount + held + reported

\* The recorder holds the longest transit time since it was last asked
\* (metrics_recorder_test.go: "should return the highest value since the last
\* time it was asked"), and nothing for clocks that are ahead.
LongestTransit ==
  /\ currentMax \in since \cup {0}
  /\ \A diff \in since \cup {0} : diff <= currentMax

=============================================================================
