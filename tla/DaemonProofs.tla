---------------------------- MODULE DaemonProofs ----------------------------
(***************************************************************************)
(* Theorems about Daemon, for any number of requests and any set of        *)
(* transit times: every answer is counted once, the recorder holds the     *)
(* longest time, the exit status tells why the process ended, who closed   *)
(* the NATS client of a controller that serves, and the state keeps its    *)
(* type.                                                                   *)
(***************************************************************************)
EXTENDS Daemon, TLAPS

-----------------------------------------------------------------------------
(* The metrics.  Four actions touch them; all others leave them alone.     *)

\* Between two intervals the emitter holds nothing, and every answer is in
\* exactly one place.
CountInv ==
  /\ answering \in Nat /\ requestCount \in Nat /\ held \in Nat
  /\ answered \in Nat /\ reported \in Nat
  /\ emitter # "send" => held = 0
  /\ AnswersCounted

TransitInv ==
  /\ since \in SUBSET Int
  /\ currentMax \in Int
  /\ LongestTransit

\* Every step but those of the handlers and the emitter leaves the metrics
\* alone.
LEMMA MetricsSteps ==
  [Next]_vars => \/ UNCHANGED metricsVars
                 \/ AnswerRequest \/ RecordAnswer \/ RecordTransit \/ EmitMetrics
<1> SUFFICES ASSUME Next
             PROVE  \/ UNCHANGED metricsVars
                    \/ AnswerRequest \/ RecordAnswer \/ RecordTransit \/ EmitMetrics
  BY DEF vars
<1>1. CASE Main
  BY <1>1 DEF Main, StartUp, readConfig, InitializeDropsonde, buildSubscriber, LocalIP,
       AdapterConfig, Listen, AdapterDropsonde, CreateClient, Invoke, InvokeReturns,
       SelectSignal, CloseSubscriber, ShutdownTable, SignalGroup, CloseListener, Return
<1>2. CASE WatchGroup \/ SignalArrives \/ GroupStep
  BY <1>2 DEF WatchGroup, SignalArrives, GroupStep
<1>3. CASE RunSubscriber \/ ClosedHandler \/ RunMetricsEmitter \/ RunLogLevelServer
  BY <1>3 DEF RunSubscriber, ClosedHandler, RunMetricsEmitter, RunLogLevelServer
<1>4. CASE StartRoutesServer \/ ServeHTTP \/ RoutesServerEnds \/ WarmUp
  BY <1>4 DEF StartRoutesServer, ServeHTTP, RoutesServerEnds, WarmUp
<1> QED
  BY <1>1, <1>2, <1>3, <1>4 DEF Next

LEMMA CountInit == Init => CountInv
BY DEF Init, CountInv, AnswersCounted, Recorders!Init

LEMMA CountStep == CountInv /\ [Next]_vars => CountInv'
<1> SUFFICES ASSUME CountInv, [Next]_vars PROVE CountInv'
  OBVIOUS
<1> USE DEF CountInv, AnswersCounted
<1>1. CASE UNCHANGED metricsVars
  BY <1>1 DEF metricsVars
<1>2. CASE AnswerRequest
  BY <1>2 DEF AnswerRequest
<1>3. CASE RecordAnswer
  BY <1>3 DEF RecordAnswer, Recorders!RecordRequest
<1>4. CASE RecordTransit
  BY <1>4 DEF RecordTransit, Recorders!RecordMessageTransitTime
<1>5. CASE EmitMetrics
  BY <1>5 DEF EmitMetrics, Recorders!Getter, Recorders!GetMaxSinceLastInterval
<1> QED
  BY <1>1, <1>2, <1>3, <1>4, <1>5, MetricsSteps

\* Every answer of the registration endpoint is counted exactly once, however
\* handlers, emitter and shutdown interleave (Getter reads and resets under
\* one lock).
THEOREM EveryAnswerCounted == Spec => []AnswersCounted
<1>1. CountInv => AnswersCounted
  BY DEF CountInv
<1> QED
  BY <1>1, CountInit, CountStep, PTL DEF Spec

LEMMA TransitInit == Init => TransitInv
BY DEF Init, TransitInv, LongestTransit, Recorders!Init

LEMMA TransitStep == TransitInv /\ [Next]_vars => TransitInv'
<1> SUFFICES ASSUME TransitInv, [Next]_vars PROVE TransitInv'
  OBVIOUS
<1> USE DEF TransitInv, LongestTransit
<1>1. CASE UNCHANGED metricsVars
  BY <1>1 DEF metricsVars
<1>2. CASE AnswerRequest
  BY <1>2 DEF AnswerRequest
<1>3. CASE RecordAnswer
  BY <1>3 DEF RecordAnswer, Recorders!RecordRequest
<1>4. CASE RecordTransit
  <2>1. PICK stamped \in BOOLEAN, diff \in TransitTimes :
          /\ Recorders!RecordMessageTransitTime(stamped, diff)
          /\ since' = IF stamped /\ diff > 0 THEN since \cup {diff} ELSE since
    BY <1>4 DEF RecordTransit
  <2>2. diff \in Int
    BY DaemonAssumption
  <2> QED
    BY <2>1, <2>2 DEF Recorders!RecordMessageTransitTime
<1>5. CASE EmitMetrics
  <2>1. \/ UNCHANGED <<currentMax, since>>
        \/ currentMax' = 0 /\ since' = {}
    BY <1>5 DEF EmitMetrics, Recorders!Getter, Recorders!GetMaxSinceLastInterval
  <2>2. CASE UNCHANGED <<currentMax, since>>
    BY <2>2
  <2>3. CASE currentMax' = 0 /\ since' = {}
    BY <2>3
  <2> QED
    BY <2>1, <2>2, <2>3
<1> QED
  BY <1>1, <1>2, <1>3, <1>4, <1>5, MetricsSteps

\* The recorder holds the longest transit time since it was last asked, and
\* never one below zero, for all times that clocks out of step may give.
THEOREM LongestTransitHeld == Spec => []LongestTransit
<1>1. TransitInv => LongestTransit
  BY DEF TransitInv
<1> QED
  BY <1>1, TransitInit, TransitStep, PTL DEF Spec

-----------------------------------------------------------------------------
(* The life of the process.                                                *)

Names == {"subscriber", "metrics-emitter", "log-level-server", "routes-server"}

\* Members end once; the endpoint is launched after the subscriber was ready,
\* which is told to stop only when the endpoint has ended.
GroupInv ==
  /\ program \in {"controller", "adapter"}
  /\ members = MembersOf(program)
  /\ member \in [Names -> Statuses]
  /\ program = "adapter" => member["subscriber"] = "new" /\ member["routes-server"] = "new"
  /\ member["routes-server"] # "new" => "subscriber" \in wasReady
  /\ "subscriber" \in wasReady => member["subscriber"] \in {"ready", "stopped"}
  /\ member["subscriber"] = "stopped" => "subscriber" \in told
  /\ "subscriber" \in told =>
       /\ group \in {"stopping", "ok", "error"}
       /\ member["routes-server"] \in {"new", "stopped", "failed"}
  /\ group = "error" => \E m \in Names : member[m] = "failed"

\* main goes past its select on a signal only.
MainInv ==
  /\ mainSignal => signalSent
  /\ mainPc \in AfterInvoke \ {"select"} => signalSent
  /\ group # "none" => mainPc \in AfterInvoke \cup {"wait"}
  /\ ExitTellsWhy

\* While the subscriber's Run waits, its client is closed by main on a signal,
\* if it does not close by itself; when Run has returned it is closed.
ClientInv ==
  /\ member["subscriber"] = "ready" =>
       \/ natsClient \in {"subscribed", "lost"}
       \/ natsClient = "closed" /\ mainPc \in {"shutdown", "signal", "return"}
  /\ member["subscriber"] = "stopped" => natsClient \in {"closed", "lost"}

\* The controller's server is started by Run of its member, which returns an
\* error only without a server or after its end.
ServerInv ==
  program = "controller" =>
    /\ member["routes-server"] = "new" => serve = "none"
    /\ member["routes-server"] = "failed" => serve \in {"none", "error"}

LifeInv == GroupInv /\ MainInv /\ ClientInv /\ ServerInv

LEMMA LifeInit == Init => LifeInv
<1> SUFFICES ASSUME Init PROVE LifeInv
  OBVIOUS
<1>1. GroupInv
  BY DEF Init, GroupInv, Names, Statuses
<1>2. MainInv
  BY DEF Init, MainInv, AfterInvoke, ExitTellsWhy, NoExit
<1>3. ClientInv /\ ServerInv
  BY DEF Init, ClientInv, ServerInv
<1> QED
  BY <1>1, <1>2, <1>3 DEF LifeInv

\* The names of the members, as the group reads them.
LEMMA MemberNames ==
  ASSUME GroupInv
  PROVE  /\ DOMAIN member = Names
         /\ \A i \in DOMAIN members : members[i] \in Names
         /\ program = "controller" =>
              /\ Len(members) = 4 /\ DOMAIN members = 1..4
              /\ members[1] = "subscriber" /\ members[4] = "routes-server"
              /\ members[2] = "metrics-emitter" /\ members[3] = "log-level-server"
         /\ program = "adapter" =>
              \A i \in DOMAIN members : members[i] \notin {"subscriber", "routes-server"}
BY DEF GroupInv, Names, MembersOf, ControllerMembers, AdapterMembers


\* What a step of the group or of another member leaves alone: it makes the
\* subscriber neither ready nor stopped, and the routes server not failed.
KeepsEnds ==
  /\ member'["subscriber"] \in {"ready", "stopped"} =>
       member'["subscriber"] = member["subscriber"]
  /\ member'["routes-server"] \in {"new", "failed"} =>
       member'["routes-server"] = member["routes-server"]

\* The steps of the group itself.
LEMMA GroupStepKeeps ==
  ASSUME GroupInv, Group!GroupStep, UNCHANGED program
  PROVE  /\ GroupInv'
         /\ group # "none"
         /\ KeepsEnds
<1> USE DEF GroupInv, KeepsEnds
<1>0. /\ DOMAIN member = Names
      /\ \A i \in DOMAIN members : members[i] \in Names
      /\ "subscriber" \in Names /\ "routes-server" \in Names
  BY MemberNames DEF Names
<1>1. ASSUME NEW i \in DOMAIN members, Group!Launch(i)
      PROVE  GroupInv' /\ KeepsEnds
  <2>1. /\ member' = [member EXCEPT ![members[i]] = "starting"]
        /\ member[members[i]] = "new"
        /\ group = "starting"
        /\ \A j \in 1..(i - 1) : members[j] \in wasReady
        /\ UNCHANGED <<members, wasReady, told, group, groupSignal>>
    BY <1>1 DEF Group!Launch, Group!Launched
  <2>2. members[i] = "routes-server" => "subscriber" \in wasReady
    BY <2>1, MemberNames
  <2>3. program = "adapter" => members[i] \notin {"subscriber", "routes-server"}
    BY MemberNames
  <2>4. member' \in [Names -> Statuses]
    BY <2>1, <1>0 DEF Statuses
  <2> QED
    BY <2>1, <2>2, <2>3, <2>4, <1>0
<1>2. ASSUME NEW i \in DOMAIN members, Group!Tell(i)
      PROVE  GroupInv' /\ KeepsEnds
  <2>1. /\ group = "stopping"
        /\ told' = told \cup {members[i]}
        /\ \A j \in (i + 1)..Len(members) :
             member[members[j]] # "new" => member[members[j]] \in {"stopped", "failed"}
        /\ UNCHANGED <<members, member, wasReady, group, groupSignal>>
    BY <1>2 DEF Group!Tell, Group!Launched, Group!Ended
  <2>2. members[i] = "subscriber" => member["routes-server"] \in {"new", "stopped", "failed"}
    BY <2>1, MemberNames
  <2> QED
    BY <2>1, <2>2
<1>3. CASE Group!GroupReady
  BY <1>3 DEF Group!GroupReady
<1>4. CASE Group!BeginStop
  BY <1>4 DEF Group!BeginStop
<1>5. CASE Group!GroupExits
  BY <1>5, <1>0 DEF Group!GroupExits
<1>6. group # "none"
  BY DEF Group!GroupStep, Group!Launch, Group!Tell, Group!GroupReady, Group!BeginStop,
       Group!GroupExits
<1> QED
  BY <1>1, <1>2, <1>3, <1>4, <1>5, <1>6 DEF Group!GroupStep

\* What the Run of a member does to the group.
LEMMA RunKeeps ==
  ASSUME GroupInv, UNCHANGED program,
         NEW m \in Names, NEW from \in {"starting", "ready"},
         \/ Group!BecomesReady(m)
         \/ Group!ReturnsError(m, from) /\ (m = "subscriber" => from = "starting")
         \/ Group!ReceivesSignal(m)
  PROVE  GroupInv'
<1> USE DEF GroupInv
<1>0. "subscriber" \in Names /\ "routes-server" \in Names
  BY DEF Names
<1>1. CASE Group!BecomesReady(m)
  BY <1>1, <1>0 DEF Group!BecomesReady, Statuses
<1>2. CASE Group!ReturnsError(m, from) /\ (m = "subscriber" => from = "starting")
  BY <1>2, <1>0 DEF Group!ReturnsError, Statuses
<1>3. CASE Group!ReceivesSignal(m)
  BY <1>3, <1>0 DEF Group!ReceivesSignal, Statuses
<1> QED
  BY <1>1, <1>2, <1>3


\* The steps of main leave the members alone; some of them begin the group or
\* pass a signal on to it.
LEMMA MainKeeps ==
  ASSUME LifeInv, Main \/ WatchGroup \/ SignalArrives
  PROVE  LifeInv'
<1> USE DEF LifeInv, GroupInv, ClientInv, ServerInv
<1>0. DOMAIN member = Names
  BY MemberNames
<1>1. CASE StartUp
  <2>1. /\ Running
        /\ mainPc \notin AfterInvoke \cup {"wait"} /\ mainPc' \notin AfterInvoke
        /\ exit' \in {NoExit, 1, 2}
        /\ UNCHANGED <<program, mainSignal, signalSent, groupVars, natsClient>>
        /\ program = "controller" => UNCHANGED serve
    BY <1>1 DEF StartUp, readConfig, InitializeDropsonde, buildSubscriber, LocalIP,
         AdapterConfig, Listen, AdapterDropsonde, CreateClient, Passes, Fails, Running,
         AfterInvoke, serverVars
  <2>2. GroupInv'
    BY <2>1 DEF groupVars
  <2>3. MainInv'
    BY <2>1 DEF MainInv, ExitTellsWhy, AfterInvoke, groupVars, NoExit
  <2>4. ClientInv' /\ ServerInv'
    BY <2>1 DEF groupVars, AfterInvoke
  <2> QED
    BY <2>2, <2>3, <2>4
<1>2. CASE Invoke \/ InvokeReturns
  BY <1>2 DEF Invoke, InvokeReturns, Passes, Running, NoExit, serverVars, groupVars,
       MainInv, ExitTellsWhy, AfterInvoke
<1>3. CASE SelectSignal
  BY <1>3 DEF SelectSignal, Running, NoExit, serverVars, groupVars, MainInv, ExitTellsWhy,
       AfterInvoke
<1>4. CASE CloseSubscriber \/ ShutdownTable
  BY <1>4 DEF CloseSubscriber, ShutdownTable, Close, Passes, Running, NoExit, serverVars,
       groupVars, MainInv, ExitTellsWhy, AfterInvoke
<1>5. CASE SignalGroup \/ CloseListener
  BY <1>5 DEF SignalGroup, CloseListener, Passes, Running, NoExit, serverVars, groupVars,
       MainInv, ExitTellsWhy, AfterInvoke
<1>6. CASE Return
  BY <1>6 DEF Return, Fails, serverVars, groupVars, MainInv, ExitTellsWhy, AfterInvoke
<1>7. CASE WatchGroup
  BY <1>0, <1>7 DEF WatchGroup, FailureStatus, serverVars, groupVars, MainInv, ExitTellsWhy
<1>8. CASE SignalArrives
  BY <1>8 DEF SignalArrives, Running, NoExit, serverVars, MainInv, ExitTellsWhy
<1> QED
  BY <1>1, <1>2, <1>3, <1>4, <1>5, <1>6, <1>7, <1>8 DEF Main

\* The members' Run and the handlers.
LEMMA MembersKeep ==
  ASSUME LifeInv,
         \/ RunSubscriber \/ ClosedHandler \/ RunMetricsEmitter \/ RunLogLevelServer
         \/ StartRoutesServer \/ ServeHTTP \/ RoutesServerEnds \/ WarmUp
  PROVE  LifeInv'
<1> USE DEF LifeInv, mainVars, serverVars
<1>0. /\ GroupInv
      /\ member \in [Names -> Statuses]
      /\ {"subscriber", "metrics-emitter", "log-level-server", "routes-server"} \subseteq Names
  BY DEF Names, GroupInv
<1>1. CASE RunSubscriber
  <2>1. GroupInv'
    BY <1>0, <1>1, RunKeeps DEF RunSubscriber
  <2>2. MainInv'
    BY <1>0, <1>1 DEF RunSubscriber, MainInv, ExitTellsWhy, Running, NoExit,
         Group!BecomesReady, Group!ReturnsError, Group!ReceivesSignal
  <2>3. ClientInv' /\ ServerInv'
    BY <1>0, <1>1 DEF RunSubscriber, ClientInv, ServerInv, Close,
         Group!BecomesReady, Group!ReturnsError, Group!ReceivesSignal
  <2> QED
    BY <2>1, <2>2, <2>3
<1>2. CASE RunMetricsEmitter \/ RunLogLevelServer
  <2>1. GroupInv'
    BY <1>0, <1>2, RunKeeps DEF RunMetricsEmitter, RunLogLevelServer
  <2>2. MainInv'
    BY <1>0, <1>2 DEF RunMetricsEmitter, RunLogLevelServer, MainInv, ExitTellsWhy,
         Running, NoExit, Group!BecomesReady, Group!ReturnsError, Group!ReceivesSignal
  <2>3. ClientInv' /\ ServerInv'
    BY <1>0, <1>2 DEF RunMetricsEmitter, RunLogLevelServer, ClientInv, ServerInv,
         Group!BecomesReady, Group!ReturnsError, Group!ReceivesSignal
  <2> QED
    BY <2>1, <2>2, <2>3
<1>3. CASE StartRoutesServer \/ RoutesServerEnds
  <2>1. /\ Running
        /\ UNCHANGED <<mainVars, natsClient>>
        /\ \/ UNCHANGED groupVars
           \/ Group!BecomesReady("routes-server")
           \/ \E from \in {"starting", "ready"} : Group!ReturnsError("routes-server", from)
           \/ Group!ReceivesSignal("routes-server")
    BY <1>3 DEF StartRoutesServer, RoutesServerEnds
  <2>2. GroupInv'
    <3>1. CASE UNCHANGED groupVars
      BY <1>0, <2>1, <3>1 DEF groupVars, GroupInv
    <3>2. CASE ~UNCHANGED groupVars
      BY <1>0, <2>1, <3>2, RunKeeps
    <3> QED
      BY <3>1, <3>2
  <2>3. MainInv' /\ ClientInv'
    BY <1>0, <2>1 DEF MainInv, ClientInv, ExitTellsWhy, Running, NoExit, groupVars,
         Group!BecomesReady, Group!ReturnsError, Group!ReceivesSignal
  <2>4. ServerInv'
    BY <1>0, <1>3 DEF ServerInv, StartRoutesServer, RoutesServerEnds, groupVars,
         Group!BecomesReady, Group!ReturnsError, Group!ReceivesSignal
  <2> QED
    BY <2>2, <2>3, <2>4
<1>4. CASE ServeHTTP \/ WarmUp \/ ClosedHandler
  BY <1>4 DEF ServeHTTP, WarmUp, ClosedHandler, groupVars, GroupInv, MainInv, ClientInv,
       ServerInv, ExitTellsWhy
<1> QED
  BY <1>1, <1>2, <1>3, <1>4

LEMMA LifeStep == LifeInv /\ [Next]_vars => LifeInv'
<1> SUFFICES ASSUME LifeInv, [Next]_vars PROVE LifeInv'
  OBVIOUS
<1>1. CASE Main \/ WatchGroup \/ SignalArrives
  BY <1>1, MainKeeps
<1>2. CASE GroupStep
  <2>1. /\ Running /\ UNCHANGED <<mainVars, serverVars>>
        /\ Group!GroupStep /\ GroupInv /\ UNCHANGED program
    BY <1>2 DEF GroupStep, LifeInv, mainVars
  <2>2. GroupInv' /\ group # "none" /\ KeepsEnds
    BY <2>1, GroupStepKeeps
  <2>3. MainInv'
    BY <2>1, <2>2 DEF LifeInv, MainInv, ExitTellsWhy, Running, NoExit, mainVars, serverVars
  <2>4. ClientInv' /\ ServerInv'
    BY <2>1, <2>2 DEF LifeInv, ClientInv, ServerInv, KeepsEnds, mainVars, serverVars
  <2> QED
    BY <2>2, <2>3, <2>4 DEF LifeInv
<1>3. CASE \/ RunSubscriber \/ ClosedHandler \/ RunMetricsEmitter \/ RunLogLevelServer
           \/ StartRoutesServer \/ ServeHTTP \/ RoutesServerEnds \/ WarmUp
  BY <1>3, MembersKeep
<1>4. CASE AnswerRequest \/ RecordAnswer \/ RecordTransit \/ EmitMetrics \/ UNCHANGED vars
  <2>1. UNCHANGED <<mainVars, groupVars, serverVars>>
    BY <1>4 DEF AnswerRequest, RecordAnswer, RecordTransit, EmitMetrics, vars
  <2> QED
    BY <2>1 DEF mainVars, groupVars, serverVars, LifeInv, GroupInv, MainInv, ClientInv,
      ServerInv, ExitTellsWhy
<1> QED
  BY <1>1, <1>2, <1>3, <1>4 DEF Next

\* The process ends with success only after a signal, and with an error only
\* if a step of main failed or a member of the group did.
THEOREM ExitExplained == Spec => []ExitTellsWhy
<1>1. LifeInv => ExitTellsWhy
  BY DEF LifeInv, MainInv
<1> QED
  BY <1>1, LifeInit, LifeStep, PTL DEF Spec

\* The controller never serves before its subscriptions are made, and without
\* them only if the NATS client has closed by itself, main has closed it on a
\* signal, or the server is one that came up after its own Run had returned,
\* in a group that is being taken down.
THEOREM EndpointIsFed == Spec => []ServesSubscribed
<1>1. LifeInv => ServesSubscribed
  <2> SUFFICES ASSUME LifeInv, program = "controller", serve = "up"
               PROVE  \/ natsClient \in {"subscribed", "lost"}
                      \/ /\ natsClient = "closed"
                         /\ \/ mainPc \in {"shutdown", "signal", "return"}
                            \/ ServerLeftBehind
    BY DEF ServesSubscribed
  <2>1. /\ member["routes-server"] \notin {"new", "failed"}
        /\ member["subscriber"] \in {"ready", "stopped"}
    BY DEF LifeInv, GroupInv, ServerInv
  <2>2. CASE member["subscriber"] = "ready"
    BY <2>2 DEF LifeInv, ClientInv
  <2>3. CASE member["subscriber"] = "stopped"
    BY <2>1, <2>3 DEF LifeInv, GroupInv, ClientInv, ServerLeftBehind
  <2> QED
    BY <2>1, <2>2, <2>3
<1> QED
  BY <1>1, LifeInit, LifeStep, PTL DEF Spec

-----------------------------------------------------------------------------
(* Types.  The bounds on the counters follow from AnswersCounted: what is  *)
(* counted anywhere is part of what was answered.                          *)

MainTypes ==
  /\ mainPc \in {"config", "listen", "dropsonde", "subscriber", "localip", "client",
                 "invoke", "wait"} \cup AfterInvoke
  /\ exit \in {NoExit, 0, 1, 2}
  /\ mainSignal \in BOOLEAN /\ signalSent \in BOOLEAN

GroupTypes ==
  /\ groupSignal \in BOOLEAN
  /\ wasReady \subseteq Names \cup {"group"}
  /\ told \subseteq Names
  /\ group \in {"none", "starting", "ready", "stopping", "ok", "error"}

ServerTypes ==
  /\ serve \in {"none", "binding", "up", "closed", "error"}
  /\ natsClient \in {"none", "subscribed", "closed", "lost"}
  /\ warm \in BOOLEAN

MetricsTypes ==
  /\ emitter \in {"count", "send", "max"}
  /\ answered <= MaxRequests
  /\ since \subseteq TransitTimes

Types == MainTypes /\ GroupTypes /\ ServerTypes /\ MetricsTypes

LEMMA TypesInit == Init => Types
<1> SUFFICES ASSUME Init PROVE Types
  OBVIOUS
<1>1. MainTypes
  BY DEF Init, MainTypes, NoExit
<1>2. GroupTypes /\ ServerTypes
  BY DEF Init, GroupTypes, ServerTypes
<1>3. MetricsTypes
  BY DaemonAssumption DEF Init, MetricsTypes
<1> QED
  BY <1>1, <1>2, <1>3 DEF Types

\* The steps of main, and those that begin or end the process.
LEMMA MainTypesKept ==
  ASSUME Types, Main \/ WatchGroup \/ SignalArrives
  PROVE  MainTypes' /\ GroupTypes' /\ ServerTypes'
<1> USE DEF Types
<1>1. CASE StartUp
  <2>1. MainTypes'
    BY <1>1 DEF MainTypes, StartUp, readConfig, InitializeDropsonde, buildSubscriber,
         LocalIP, AdapterConfig, Listen, AdapterDropsonde, CreateClient, Passes, Fails
  <2>2. UNCHANGED groupVars /\ ServerTypes'
    BY <1>1 DEF ServerTypes, StartUp, readConfig, InitializeDropsonde, buildSubscriber,
         LocalIP, AdapterConfig, Listen, AdapterDropsonde, CreateClient, serverVars
  <2> QED
    BY <2>1, <2>2 DEF GroupTypes, groupVars
<1>2. CASE Main /\ ~StartUp
  <2>1. MainTypes'
    BY <1>2 DEF MainTypes, AfterInvoke, Main, Invoke, InvokeReturns, SelectSignal,
         CloseSubscriber, ShutdownTable, SignalGroup, CloseListener, Return, Passes, Fails
  <2>2. GroupTypes'
    BY <1>2 DEF GroupTypes, groupVars, Main, Invoke, InvokeReturns, SelectSignal,
         CloseSubscriber, ShutdownTable, SignalGroup, CloseListener, Return
  <2>3. ServerTypes'
    BY <1>2 DEF ServerTypes, serverVars, Main, Invoke, InvokeReturns, SelectSignal,
         CloseSubscriber, Close, ShutdownTable, SignalGroup, CloseListener, Return
  <2> QED
    BY <2>1, <2>2, <2>3
<1>3. CASE WatchGroup
  BY <1>3 DEF WatchGroup, FailureStatus, MainTypes, GroupTypes, ServerTypes, groupVars,
       serverVars
<1>4. CASE SignalArrives
  BY <1>4 DEF SignalArrives, MainTypes, GroupTypes, ServerTypes, serverVars
<1> QED
  BY <1>1, <1>2, <1>3, <1>4

\* The steps of the group and of its members.
LEMMA GroupTypesKept ==
  ASSUME Types, GroupInv,
         \/ GroupStep \/ RunSubscriber \/ ClosedHandler \/ RunMetricsEmitter \/ RunLogLevelServer
         \/ StartRoutesServer \/ ServeHTTP \/ RoutesServerEnds \/ WarmUp
  PROVE  UNCHANGED mainVars /\ GroupTypes' /\ ServerTypes'
<1> USE DEF Types
<1>0. /\ \A i \in DOMAIN members : members[i] \in Names
      /\ {"subscriber", "metrics-emitter", "log-level-server", "routes-server"} \subseteq Names
  BY MemberNames DEF Names
<1>1. CASE GroupStep
  <2>1. UNCHANGED <<mainVars, serverVars>> /\ Group!GroupStep
    BY <1>1 DEF GroupStep
  <2>2. GroupTypes'
    BY <1>0, <2>1 DEF GroupTypes, Group!GroupStep, Group!Launch, Group!Tell,
         Group!GroupReady, Group!BeginStop, Group!GroupExits
  <2> QED
    BY <2>1, <2>2 DEF ServerTypes, serverVars
<1>2. CASE RunSubscriber \/ RunMetricsEmitter \/ RunLogLevelServer
  <2>1. UNCHANGED mainVars /\ ServerTypes'
    BY <1>2 DEF RunSubscriber, Close, RunMetricsEmitter, RunLogLevelServer, ServerTypes,
      serverVars
  <2>2. GroupTypes'
    BY <1>0, <1>2 DEF RunSubscriber, RunMetricsEmitter, RunLogLevelServer, GroupTypes,
         Group!BecomesReady, Group!ReturnsError, Group!ReceivesSignal
  <2> QED
    BY <2>1, <2>2
<1>3. CASE StartRoutesServer \/ RoutesServerEnds
  <2>1. UNCHANGED mainVars /\ ServerTypes'
    BY <1>3 DEF StartRoutesServer, RoutesServerEnds, ServerTypes
  <2>2. GroupTypes'
    BY <1>0, <1>3 DEF StartRoutesServer, RoutesServerEnds, GroupTypes, groupVars,
         Group!BecomesReady, Group!ReturnsError, Group!ReceivesSignal
  <2> QED
    BY <2>1, <2>2
<1>4. CASE ServeHTTP \/ WarmUp \/ ClosedHandler
  BY <1>4 DEF ServeHTTP, WarmUp, ClosedHandler, GroupTypes, ServerTypes, groupVars
<1> QED
  BY <1>1, <1>2, <1>3, <1>4

LEMMA MetricsTypesKept ==
  ASSUME MetricsTypes, CountInv, [Next]_vars
  PROVE  MetricsTypes'
<1> USE DEF MetricsTypes
<1>1. CASE UNCHANGED metricsVars
  BY <1>1 DEF metricsVars
<1>2. CASE AnswerRequest
  BY <1>2, DaemonAssumption DEF AnswerRequest, CountInv
<1>3. CASE RecordAnswer
  BY <1>3 DEF RecordAnswer
<1>4. CASE RecordTransit
  BY <1>4 DEF RecordTransit
<1>5. CASE EmitMetrics
  BY <1>5 DEF EmitMetrics
<1> QED
  BY <1>1, <1>2, <1>3, <1>4, <1>5, MetricsSteps

LEMMA TypesStep == Types /\ CountInv /\ LifeInv /\ [Next]_vars => Types'
<1> SUFFICES ASSUME Types, CountInv, LifeInv, [Next]_vars PROVE Types'
  OBVIOUS
<1>1. MetricsTypes'
  BY MetricsTypesKept DEF Types
<1>2. CASE Main \/ WatchGroup \/ SignalArrives
  BY <1>1, <1>2, MainTypesKept DEF Types
<1>3. CASE \/ GroupStep \/ RunSubscriber \/ ClosedHandler \/ RunMetricsEmitter \/ RunLogLevelServer
           \/ StartRoutesServer \/ ServeHTTP \/ RoutesServerEnds \/ WarmUp
  BY <1>1, <1>3, GroupTypesKept DEF Types, MainTypes, mainVars, LifeInv
<1>4. CASE AnswerRequest \/ RecordAnswer \/ RecordTransit \/ EmitMetrics \/ UNCHANGED vars
  <2>1. UNCHANGED <<mainVars, groupVars, serverVars>>
    BY <1>4 DEF AnswerRequest, RecordAnswer, RecordTransit, EmitMetrics, vars
  <2> QED
    BY <1>1, <2>1 DEF Types, mainVars, groupVars, serverVars, MainTypes, GroupTypes,
      ServerTypes
<1> QED
  BY <1>2, <1>3, <1>4 DEF Next

\* The state of both daemons keeps its type, and no counter of the metrics
\* ever exceeds the number of requests answered.
THEOREM DaemonTypeCorrect == Spec => []TypeOK
<1>1. Types /\ CountInv /\ TransitInv /\ LifeInv => TypeOK
  <2> SUFFICES ASSUME Types, CountInv, TransitInv, LifeInv PROVE TypeOK
    OBVIOUS
  <2>1. {answering, held, requestCount, answered, reported} \subseteq 0..MaxRequests
    BY DaemonAssumption DEF Types, MetricsTypes, CountInv, AnswersCounted
  <2>2. currentMax \in TransitTimes \cup {0}
    BY DEF Types, MetricsTypes, TransitInv, LongestTransit
  <2>3. /\ program \in {"controller", "adapter"}
        /\ members = MembersOf(program)
        /\ DOMAIN member = Names
        /\ \A m \in DOMAIN member : member[m] \in Statuses
    BY DEF LifeInv, GroupInv
  <2> QED
    BY <2>1, <2>2, <2>3 DEF TypeOK, Types, MainTypes, GroupTypes, ServerTypes, MetricsTypes
<1> QED
  BY <1>1, TypesInit, TypesStep, CountInit, CountStep, TransitInit, TransitStep, LifeInit,
     LifeStep, PTL DEF Spec

=============================================================================
