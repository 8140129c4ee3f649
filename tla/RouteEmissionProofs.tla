------------------------ MODULE RouteEmissionProofs ------------------------
(* Proofs about the emitter, the subscriber and the table in real time, for *)
(* every set of apps and every duration.                                   *)
EXTENDS RouteEmission, SubscriberProofs

-----------------------------------------------------------------------------
(* The steps of the controller's process, and its restart.                 *)

\* A step of the emission is one of the subscriber's, or a restart.
LEMMA EmissionSteps ==
  ASSUME [EmissionNext]_emissionVars
  PROVE  [Next]_vars \/ Restart
<1>1. ASSUME NEW ip \in IPs, Emit(ip) \/ AppStarts(ip) \/ AppStops(ip)
      PROVE  [Next]_vars
  <2>1. Register(ip) \in Messages /\ Unregister(ip) \in Messages
    BY EmissionAssumption
  <2>2. \A m \in Messages : Send(m) => [Next]_vars
    BY DEF Send, Next
  <2> QED
    BY <1>1, <2>1, <2>2 DEF Emit, AppStarts, AppStops
<1>2. CASE SubscriberRuns \/ Handler
  BY <1>2 DEF SubscriberRuns, Handler, Next
<1>3. CASE Goroutines \/ NatsBreaks \/ NatsRecovers \/ NatsCloses
  BY <1>3 DEF Goroutines, NatsBreaks, NatsRecovers, NatsCloses, Next
<1>4. CASE ClockTick
  BY <1>4 DEF ClockTick, Next
<1>5. CASE UNCHANGED emissionVars
  BY <1>5 DEF emissionVars
<1> QED
  BY <1>1, <1>2, <1>3, <1>4, <1>5 DEF EmissionNext

\* A restarted process begins as the first one did.
LEMMA RestartInv ==
  ASSUME mainPc = "running", Restart
  PROVE  SubInv'
<1>1. Init'
  BY DEF Restart, Init, TableInit
<1>2. Init' => SubInv'
  BY SubInitInv, PTL
<1> QED
  BY <1>1, <1>2

-----------------------------------------------------------------------------
(* The types.                                                              *)

AppTypes ==
  /\ alive \subseteq IPs
  /\ registered \subseteq alive
  /\ steady \subseteq alive

ClockTypes ==
  /\ sinceEmit \in [IPs -> 0..EmitInterval]
  /\ sinceBreak \in 0..DetectionDelay
  /\ deadFor \in [IPs -> 0..(StalenessThreshold + PruningInterval + 1)]
  /\ calmFor \in 0..(PruningInterval + 1)

\* main does not stop the process and the ticker.
NotStopped == mainPc = "running" /\ ~ticker.stopped /\ runPc # "stopped"

\* The durations are numbers.
LEMMA Durations ==
  /\ StalenessThreshold \in Nat \ {0} /\ PruningInterval \in Nat \ {0}
  /\ ResumePruningDelay \in Nat /\ EmitInterval \in Nat \ {0}
  /\ DetectionDelay \in Nat /\ WarmingDuration \in Nat /\ Expired = StalenessThreshold + 1
BY ConfigAssumption, MessagesAssumption, EmissionAssumption
   DEF Expired

\* A saturating clock stays in its range.
LEMMA UpToType ==
  ASSUME NEW limit \in Nat, NEW t \in 0..limit
  PROVE  UpTo(limit, t) \in 0..limit /\ t <= UpTo(limit, t) /\ UpTo(limit, t) <= t + 1
BY DEF UpTo

\* The sets of apps stay in their types.
LEMMA AppTypesStep ==
  ASSUME AppTypes, [EmissionNext]_emissionVars
  PROVE  AppTypes'
<1>1. ASSUME NEW ip \in IPs, Emit(ip) \/ AppStarts(ip) \/ AppStops(ip)
      PROVE  AppTypes'
  BY <1>1 DEF AppTypes, Emit, AppStarts, AppStops, history
<1>2. CASE SubscriberRuns \/ Handler
  BY <1>2 DEF AppTypes, SubscriberRuns, Handler
<1>3. CASE Goroutines \/ NatsBreaks \/ NatsRecovers \/ NatsCloses \/ Restart
  BY <1>3 DEF AppTypes, Goroutines, NatsBreaks, NatsRecovers, NatsCloses, Restart, history
<1>4. CASE ClockTick \/ UNCHANGED emissionVars
  BY <1>4 DEF AppTypes, ClockTick, emissionVars, history
<1> QED
  BY <1>1, <1>2, <1>3, <1>4 DEF EmissionNext

\* So do the clocks.
LEMMA ClockTypesStep ==
  ASSUME AppTypes, ClockTypes, [EmissionNext]_emissionVars
  PROVE  ClockTypes'
<1> USE Durations
<1>1. ASSUME EmitterHears
      PROVE  sinceEmit' \in [IPs -> 0..EmitInterval]
  BY <1>1 DEF EmitterHears, ClockTypes
<1>2. ASSUME NEW ip \in IPs, Emit(ip) \/ AppStarts(ip) \/ AppStops(ip)
      PROVE  ClockTypes'
  BY <1>2 DEF ClockTypes, Emit, AppStarts, AppStops, history
<1>3. CASE SubscriberRuns \/ Handler \/ Goroutines \/ NatsRecovers \/ NatsCloses
  BY <1>1, <1>3 DEF ClockTypes, SubscriberRuns, Handler, Goroutines, NatsRecovers, NatsCloses,
                     history
<1>4. CASE NatsBreaks \/ Restart \/ UNCHANGED emissionVars
  BY <1>4 DEF ClockTypes, NatsBreaks, Restart, emissionVars, history
<1>5. CASE ClockTick
  <2>1. \A ip \in IPs : UpTo(EmitInterval, sinceEmit[ip]) \in 0..EmitInterval
    BY UpToType DEF ClockTypes
  <2>2. UpTo(DetectionDelay, sinceBreak) \in 0..DetectionDelay
    BY UpToType DEF ClockTypes
  <2>3. \A ip \in IPs : UpTo(StalenessThreshold + PruningInterval + 1, deadFor[ip])
                          \in 0..(StalenessThreshold + PruningInterval + 1)
    BY UpToType DEF ClockTypes
  <2>4. UpTo(PruningInterval + 1, calmFor) \in 0..(PruningInterval + 1)
    BY UpToType DEF ClockTypes
  <2> QED
    BY <1>5, <2>1, <2>2, <2>3, <2>4 DEF ClockTypes, ClockTick
<1> QED
  BY <1>2, <1>3, <1>4, <1>5 DEF EmissionNext

\* Nothing here stops the process for good.
LEMMA NotStoppedStep ==
  ASSUME ticker \in Tickers, NotStopped, [EmissionNext]_emissionVars
  PROVE  NotStopped'
<1>1. ASSUME NEW ip \in IPs, Emit(ip) \/ AppStarts(ip) \/ AppStops(ip)
      PROVE  NotStopped'
  BY <1>1 DEF NotStopped, Emit, AppStarts, AppStops, Send, Deliver, vars, subVars, runVars,
              tableVars
<1>2. CASE SubscriberRuns
  BY <1>2 DEF NotStopped, SubscriberRuns, RunOnce, Connect, AssignClient, sendStartMessage,
              setupGreetMsgHandler, FlushGreet, setupAddressMessageHandler, StartWarmTimer,
              CloseAfterError, Subscribe, RunStep, tableVars
<1>3. CASE Handler
  BY <1>3 DEF NotStopped, Handler, HandleRegister, HandleUnregister, Handles, Add, Remove,
              runVars, tableVars
<1>4. CASE Goroutines
  <2>1. CASE Callback \/ WarmUp
    BY <2>1 DEF NotStopped, Callback, DisconnectHandler, ReconnectHandler,
                ReconnectSendsStart, ClosedHandler, PausePruning, ResumePruning, WarmUp, SetWarm,
                runVars, tableVars
  <2>2. CASE TablePruner
    BY <2>2 DEF NotStopped, TablePruner, Pruner, PruneCheck, FindStale, PruneStale, subVars,
                runVars, Tickers
  <2> QED
    BY <1>4, <2>1, <2>2 DEF Goroutines
<1>5. CASE NatsBreaks \/ NatsRecovers \/ NatsCloses
  BY <1>5 DEF NotStopped, NatsBreaks, NatsRecovers, NatsCloses, SocketBreaks, LoseConnection,
              RegainConnection, UnexpectedClose, runVars, tableVars
<1>6. CASE Restart
  BY <1>6 DEF NotStopped, Restart
<1>7. CASE ClockTick
  BY <1>7 DEF NotStopped, ClockTick, Tick, TableTick, TickerElapse, Tickers
<1>8. CASE UNCHANGED emissionVars
  BY <1>8 DEF NotStopped, emissionVars, vars, subVars, runVars, tableVars
<1> QED
  BY <1>1, <1>2, <1>3, <1>4, <1>5, <1>6, <1>7, <1>8 DEF EmissionNext

-----------------------------------------------------------------------------
(* Who can be heard.                                                       *)

\* RunOnce has subscribed to the register messages.
Hearing == runPc \in {"unregister", "warm", "ready"}

\* Nothing is heard before; after it, the subscription lasts as long as the
\* client does.  A closed client hears nobody, but what was heard remains.
HearingFacts ==
  /\ Hearing => conn # "none" /\ (conn # "closed" => "register" \in subs)
  /\ ~Hearing /\ conn # "closed" => /\ "register" \notin subs /\ inbox["register"] = <<>>
                                    /\ registered = {} /\ steady = {}
  /\ conn = "closed" => steady = {}

\* Only a connected client has a socket that works, and a start message is
\* only known to have arrived over one.
SocketFacts ==
  /\ socket => conn = "connected"
  /\ announced => socket

\* The table is warm when the timer has been served.
WarmFacts == warm => warmTimer = WarmingDuration + 1

\* What is known of the socket stays so.
LEMMA SocketStep ==
  ASSUME SubInv, NotStopped, SocketFacts, [EmissionNext]_emissionVars
  PROVE  SocketFacts'
<1> USE DEF SubInv
<1>1. ASSUME NEW ip \in IPs, Emit(ip) \/ AppStarts(ip) \/ AppStops(ip)
      PROVE  SocketFacts'
  BY <1>1 DEF SocketFacts, Emit, AppStarts, AppStops, Send, Deliver, vars, subVars, runVars,
              clientVars
<1>2. CASE SubscriberRuns
  <2>1. CASE Connect \/ AssignClient \/ FlushGreet \/ StartWarmTimer
    BY <2>1 DEF SocketFacts, RunFacts, Connect, AssignClient, FlushGreet, StartWarmTimer,
                RunStep, clientVars
  <2>2. CASE sendStartMessage
    BY <2>2 DEF SocketFacts, sendStartMessage, RunStep, PublishStart
  <2>3. CASE setupGreetMsgHandler \/ setupAddressMessageHandler
    BY <2>3 DEF SocketFacts, setupGreetMsgHandler, setupAddressMessageHandler, Subscribe,
                RunStep
  <2>4. CASE CloseAfterError
    BY <2>4 DEF SocketFacts, CloseAfterError, CloseClient, RunStep, clientVars
  <2> QED
    BY <1>2, <2>1, <2>2, <2>3, <2>4 DEF SubscriberRuns, RunOnce
<1>3. CASE Handler
  BY <1>3 DEF SocketFacts, Handler, HandleRegister, HandleUnregister, Handles, runVars
<1>4. CASE Goroutines
  <2>1. CASE DisconnectHandler \/ ReconnectHandler \/ ClosedHandler \/ WarmUp
    BY <2>1 DEF SocketFacts, DisconnectHandler, ReconnectHandler, ClosedHandler, WarmUp,
                runVars, clientVars
  <2>2. CASE ReconnectSendsStart
    BY <2>2 DEF SocketFacts, ReconnectSendsStart, PublishStart, runVars
  <2>3. CASE TablePruner
    BY <2>3 DEF SocketFacts, TablePruner, subVars, runVars, clientVars
  <2> QED
    BY <1>4, <2>1, <2>2, <2>3 DEF Goroutines, Callback
<1>5. CASE NatsBreaks \/ NatsRecovers \/ NatsCloses
  BY <1>5 DEF SocketFacts, NatsBreaks, NatsRecovers, NatsCloses, SocketBreaks, LoseConnection,
              RegainConnection, UnexpectedClose, CloseClient
<1>6. CASE Restart
  BY <1>6 DEF SocketFacts, Restart
<1>7. CASE ClockTick \/ UNCHANGED emissionVars
  BY <1>7 DEF SocketFacts, ClockTick, Tick, emissionVars, vars, subVars, runVars, clientVars
<1> QED
  BY <1>1, <1>2, <1>3, <1>4, <1>5, <1>6, <1>7 DEF EmissionNext

\* No step warms the table but the one the timer asks for.
LEMMA WarmStep ==
  ASSUME SubInv, WarmFacts, [EmissionNext]_emissionVars
  PROVE  WarmFacts'
<1> USE DEF SubInv
<1>1. ASSUME NEW ip \in IPs, Emit(ip) \/ AppStarts(ip) \/ AppStops(ip)
      PROVE  WarmFacts'
  BY <1>1 DEF WarmFacts, Emit, AppStarts, AppStops, Send, Deliver, vars, subVars, runVars,
              tableVars
<1>2. CASE SubscriberRuns
  <2>1. CASE StartWarmTimer
    <3>1. warmTimer = NotStarted
      BY <2>1 DEF StartWarmTimer, RunStep, RunFacts
    <3> QED
      BY <2>1, <3>1, Durations DEF WarmFacts, StartWarmTimer, RunStep, tableVars, NotStarted
  <2>2. CASE ~StartWarmTimer
    BY <1>2, <2>2
       DEF WarmFacts, SubscriberRuns, RunOnce, Connect, AssignClient, sendStartMessage,
           setupGreetMsgHandler, FlushGreet, setupAddressMessageHandler, CloseAfterError,
           Subscribe, RunStep, tableVars
  <2> QED
    BY <2>1, <2>2
<1>3. CASE Handler
  BY <1>3 DEF WarmFacts, Handler, HandleRegister, HandleUnregister, Handles, Add, Remove,
              runVars, tableVars
<1>4. CASE Goroutines
  <2>1. CASE Callback \/ WarmUp
    BY <2>1 DEF WarmFacts, Callback, DisconnectHandler, ReconnectHandler,
                ReconnectSendsStart, ClosedHandler, PausePruning, ResumePruning, WarmUp,
                runVars, tableVars
  <2>2. CASE TablePruner
    BY <2>2 DEF WarmFacts, TablePruner, Pruner, PruneCheck, FindStale, PruneStale, subVars,
                runVars, fieldVars
  <2> QED
    BY <1>4, <2>1, <2>2 DEF Goroutines
<1>5. CASE NatsBreaks \/ NatsRecovers \/ NatsCloses
  BY <1>5 DEF WarmFacts, NatsBreaks, NatsRecovers, NatsCloses, SocketBreaks, LoseConnection,
              RegainConnection, UnexpectedClose, runVars, tableVars
<1>6. CASE Restart
  BY <1>6 DEF WarmFacts, Restart
<1>7. CASE ClockTick
  BY <1>7, Durations DEF WarmFacts, ClockTick, Tick, TableTick
<1>8. CASE UNCHANGED emissionVars
  BY <1>8 DEF WarmFacts, emissionVars, vars, subVars, runVars, tableVars
<1> QED
  BY <1>1, <1>2, <1>3, <1>4, <1>5, <1>6, <1>7, <1>8 DEF EmissionNext

\* Nothing is heard of an app before the subscription, nor lost after it.
LEMMA HearingStep ==
  ASSUME SubInv, NotStopped, SocketFacts, HearingFacts, [EmissionNext]_emissionVars
  PROVE  HearingFacts'
<1> USE DEF SubInv
<1>a. inbox \in [Subjects -> Seq(Messages)]
  BY DEF LocalTypes, InboxType
<1>1. ASSUME NEW ip \in IPs, Emit(ip) \/ AppStarts(ip) \/ AppStops(ip)
      PROVE  HearingFacts'
  <2>1. UNCHANGED <<runPc, conn, subs>>
    BY <1>1 DEF Emit, AppStarts, AppStops, Send, Deliver, vars, subVars, runVars, clientVars
  <2>2. registered' \subseteq registered /\ steady' \subseteq steady
    BY <1>1 DEF Emit, AppStarts, AppStops, history
  <2>3. ~Hearing => inbox'["register"] = inbox["register"]
    BY <1>1, <1>a DEF HearingFacts, Emit, AppStarts, AppStops, Send, Deliver, Register,
                      Unregister, vars, subVars, clientVars, Subjects
  <2> QED
    BY <2>1, <2>2, <2>3 DEF HearingFacts, Hearing
<1>2. CASE SubscriberRuns
  <2>0. UNCHANGED registered
    BY <1>2 DEF SubscriberRuns
  <2>1. CASE setupAddressMessageHandler
    <3>1. conn # "none" /\ UNCHANGED conn
      BY <2>1 DEF setupAddressMessageHandler, Subscribe, RunStep, RunFacts
    <3>2. CASE conn = "closed"
      <4>1. UNCHANGED subs /\ ~Hearing'
        BY <2>1, <3>2 DEF setupAddressMessageHandler, Subscribe, RunStep, Hearing
      <4>2. UNCHANGED steady
        BY <1>2, <4>1 DEF SubscriberRuns
      <4> QED
        BY <3>1, <3>2, <4>1, <4>2 DEF HearingFacts
    <3>3. CASE conn # "closed"
      <4>1. Hearing' /\ "register" \in subs'
        BY <2>1, <3>3 DEF setupAddressMessageHandler, Subscribe, RunStep, Hearing,
                          HearingFacts
      <4> QED
        BY <3>1, <3>3, <4>1 DEF HearingFacts
    <3> QED
      BY <3>2, <3>3
  <2>2. CASE setupGreetMsgHandler
    <3>1. ~Hearing /\ ~Hearing' /\ UNCHANGED <<inbox, conn>>
      BY <2>2 DEF setupGreetMsgHandler, Subscribe, RunStep, Hearing
    <3>2. "register" \in subs' => "register" \in subs
      BY <2>2 DEF setupGreetMsgHandler, Subscribe
    <3>3. steady' = steady
      BY <1>2, <3>2 DEF SubscriberRuns
    <3> QED
      BY <2>0, <3>1, <3>2, <3>3 DEF HearingFacts
  <2>3. CASE Connect \/ AssignClient \/ sendStartMessage \/ FlushGreet
    <3>1. /\ UNCHANGED <<subs, inbox>> /\ ~Hearing /\ ~Hearing'
          /\ conn' = conn \/ (conn # "closed" /\ conn' # "closed")
      BY <2>3 DEF Connect, AssignClient, sendStartMessage, FlushGreet, RunStep, Hearing,
                  clientVars, RunFacts
    <3>2. UNCHANGED steady
      BY <1>2, <3>1 DEF SubscriberRuns
    <3> QED
      BY <2>0, <3>1, <3>2 DEF HearingFacts
  <2>4. CASE StartWarmTimer
    <3>1. UNCHANGED <<subs, conn>> /\ Hearing /\ Hearing'
      BY <2>4 DEF StartWarmTimer, RunStep, Hearing, clientVars
    <3>2. UNCHANGED steady
      BY <1>2, <3>1 DEF SubscriberRuns
    <3> QED
      BY <3>1, <3>2 DEF HearingFacts
  <2>5. CASE CloseAfterError
    <3>1. ~Hearing /\ ~Hearing'
      BY <2>5 DEF CloseAfterError, RunStep, Hearing
    <3>2. subs' \subseteq subs
      BY <2>5 DEF CloseAfterError, CloseClient, clientVars
    <3>3. UNCHANGED steady
      BY <1>2, <3>2 DEF SubscriberRuns
    <3>4. conn' = "closed" \/ UNCHANGED <<conn, subs, inbox>>
      BY <2>5 DEF CloseAfterError, CloseClient, clientVars
    <3> QED
      BY <2>0, <3>1, <3>2, <3>3, <3>4 DEF HearingFacts
  <2> QED
    BY <1>2, <2>1, <2>2, <2>3, <2>4, <2>5 DEF SubscriberRuns, RunOnce
<1>3. CASE Handler
  <2>1. UNCHANGED <<runPc, conn, subs>>
    BY <1>3 DEF Handler, HandleRegister, HandleUnregister, Handles, runVars
  <2>a. steady' \subseteq steady
    BY <1>3 DEF Handler
  <2>2. CASE Hearing \/ conn = "closed"
    BY <2>1, <2>2, <2>a DEF HearingFacts, Hearing
  <2>3. CASE ~Hearing /\ conn # "closed"
    <3>1. HandleUnregister /\ ~HandleRegister
      BY <1>3, <2>3 DEF Handler, HandleRegister, Handles, HearingFacts
    <3>2. inbox'["register"] = inbox["register"]
      BY <1>a, <3>1 DEF HandleUnregister, Handles, Subjects
    <3>3. Heard("register") = {}
      BY <3>2 DEF Heard
    <3>4. registered' \subseteq registered /\ steady' \subseteq steady
      BY <1>3, <3>3 DEF Handler
    <3> QED
      BY <2>1, <2>3, <3>2, <3>4 DEF HearingFacts, Hearing
  <2> QED
    BY <2>2, <2>3
<1>4. CASE Goroutines
  <2>1. UNCHANGED <<runPc, conn, subs, inbox>>
    BY <1>4 DEF Goroutines, Callback, DisconnectHandler, ReconnectHandler,
                ReconnectSendsStart, ClosedHandler, WarmUp, TablePruner, subVars, runVars,
                clientVars
  <2> QED
    BY <1>4, <2>1 DEF Goroutines, HearingFacts, Hearing
<1>5. CASE NatsBreaks \/ NatsRecovers
  <2>1. UNCHANGED <<runPc, subs, inbox, registered>> /\ steady' \subseteq steady
    BY <1>5 DEF NatsBreaks, NatsRecovers, SocketBreaks, LoseConnection, RegainConnection,
                runVars, history
  <2>2. conn \in {"connected", "reconnecting"} /\ conn' \in {"connected", "reconnecting"}
    BY <1>5 DEF NatsBreaks, NatsRecovers, SocketBreaks, LoseConnection, RegainConnection
  <2> QED
    BY <2>1, <2>2 DEF HearingFacts, Hearing
<1>5a. CASE NatsCloses
  <2>1. conn' = "closed" /\ steady' = {} /\ UNCHANGED runPc
    BY <1>5a DEF NatsCloses, UnexpectedClose, CloseClient, runVars
  <2> QED
    BY <2>1 DEF HearingFacts
<1>6. CASE Restart
  BY <1>6 DEF HearingFacts, Hearing, Restart, Subjects
<1>7. CASE ClockTick \/ UNCHANGED emissionVars
  BY <1>7 DEF HearingFacts, Hearing, ClockTick, Tick, emissionVars, vars, subVars, runVars,
              clientVars, history
<1> QED
  BY <1>1, <1>2, <1>3, <1>4, <1>5, <1>5a, <1>6, <1>7 DEF EmissionNext

-----------------------------------------------------------------------------
(* The messages on their way.                                              *)

\* What a queue holds, and what adding and taking one element do to that.
LEMMA QueueElements ==
  ASSUME NEW S, NEW q \in Seq(S)
  PROVE  /\ q = <<>> => Elements(q) = {}
         /\ \A x \in S : Elements(Append(q, x)) = Elements(q) \cup {x}
         /\ q # <<>> =>
              /\ Head(q) \in S
              /\ Tail(q) # q
              /\ Elements(q) = {Head(q)} \cup Elements(Tail(q))
              /\ \A x \in S : Elements(<<x>> \o Tail(q)) = {x} \cup Elements(Tail(q))
<1>1. q = <<>> => Elements(q) = {}
  BY DEF Elements
<1>2. ASSUME NEW x \in S
      PROVE  Elements(Append(q, x)) = Elements(q) \cup {x}
  <2>1. PICK n \in Nat : n = Len(q)
    BY LenProperties
  <2>2. PICK a : a = Append(q, x)
    OBVIOUS
  <2>3. DOMAIN q = 1..n /\ DOMAIN a = 1..(n + 1) /\ a[n + 1] = x /\ \A i \in 1..n : a[i] = q[i]
    BY <2>1, <2>2, QueueAppend
  <2>4. Elements(a) \subseteq Elements(q) \cup {x}
    BY <2>3 DEF Elements
  <2>5. Elements(q) \cup {x} \subseteq Elements(a)
    BY <2>3 DEF Elements
  <2> QED
    BY <2>2, <2>4, <2>5
<1>3. ASSUME q # <<>>
      PROVE  /\ Head(q) \in S
             /\ Tail(q) # q
             /\ Elements(q) = {Head(q)} \cup Elements(Tail(q))
             /\ \A x \in S : Elements(<<x>> \o Tail(q)) = {x} \cup Elements(Tail(q))
  <2>1. PICK n \in Nat \ {0} : n = Len(q)
    BY <1>3, QueueTail
  <2>2. PICK t : t = Tail(q)
    OBVIOUS
  <2>3. /\ DOMAIN q = 1..n /\ DOMAIN t = 1..(n - 1) /\ Head(q) = q[1] /\ Head(q) \in S
        /\ Len(t) = n - 1 /\ \A i \in 1..(n - 1) : t[i] = q[i + 1]
    BY <1>3, <2>1, <2>2, QueueTail
  <2>4. \A i \in 2..n : i - 1 \in 1..(n - 1) /\ (i - 1) + 1 = i
    OBVIOUS
  <2>5. Elements(q) \subseteq {q[1]} \cup Elements(t)
    <3> SUFFICES ASSUME NEW i \in 1..n, i # 1
                 PROVE  q[i] \in Elements(t)
      BY <2>3 DEF Elements
    <3>1. i - 1 \in 1..(n - 1) /\ t[i - 1] = q[i]
      BY <2>3, <2>4
    <3> QED
      BY <2>3, <3>1 DEF Elements
  <2>6. {q[1]} \cup Elements(t) \subseteq Elements(q)
    BY <2>3 DEF Elements
  <2>7. ASSUME NEW x \in S
        PROVE  Elements(<<x>> \o Tail(q)) = {x} \cup Elements(t)
    <3>1. PICK r : r = <<x>> \o Tail(q)
      OBVIOUS
    <3>2. DOMAIN r = 1..n /\ r[1] = x /\ \A i \in 2..n : r[i] = q[i]
      BY <1>3, <2>1, <2>3, <3>1, QueueReplace
    <3>3. Elements(r) \subseteq {x} \cup Elements(t)
      <4> SUFFICES ASSUME NEW i \in 1..n, i # 1
                   PROVE  r[i] \in Elements(t)
        BY <3>2 DEF Elements
      <4>1. i - 1 \in 1..(n - 1) /\ t[i - 1] = r[i]
        BY <2>3, <2>4, <3>2
      <4> QED
        BY <2>3, <4>1 DEF Elements
    <3>4. \A i \in 1..(n - 1) : t[i] = r[i + 1] /\ i + 1 \in 1..n
      BY <2>3, <3>2
    <3>5. {x} \cup Elements(t) \subseteq Elements(r)
      <4>1. 1 \in DOMAIN r /\ x = r[1]
        BY <3>2
      <4>2. \A i \in DOMAIN t : i + 1 \in DOMAIN r /\ t[i] = r[i + 1]
        BY <2>3, <3>2, <3>4
      <4> QED
        BY <4>1, <4>2 DEF Elements
    <3> QED
      BY <3>1, <3>3, <3>5
  <2> QED
    BY <2>1, <2>2, <2>3, <2>5, <2>6, <2>7
<1> QED
  BY <1>1, <1>2, <1>3

\* Only the emitter adds to what waits in a subscription: a registration of
\* a running app, or the unregistration of one that stops.
LEMMA InboxChanges ==
  ASSUME InboxType, [EmissionNext]_emissionVars, NEW s \in Subjects
  PROVE  \/ Elements(inbox'[s]) \subseteq Elements(inbox[s])
         \/ \E ip \in IPs : /\ s = "register" /\ Emit(ip)
                            /\ Elements(inbox'[s]) = Elements(inbox[s]) \cup {Register(ip)}
         \/ \E ip \in IPs : /\ s = "unregister" /\ AppStops(ip)
                            /\ Elements(inbox'[s]) = Elements(inbox[s]) \cup {Unregister(ip)}
<1>0. inbox \in [Subjects -> Seq(Messages)] /\ inbox[s] \in Seq(Messages)
  BY DEF InboxType
<1>1. ASSUME NEW m \in Messages, Deliver(m)
      PROVE  \/ inbox'[s] = inbox[s]
             \/ m.subject = s /\ Elements(inbox'[s]) = Elements(inbox[s]) \cup {m}
  <2>1. CASE m.subject = s
    <3>1. inbox'[s] = Append(inbox[s], m)
      BY <1>0, <1>1, <2>1 DEF Deliver
    <3> QED
      BY <1>0, <2>1, <3>1, QueueElements
  <2>2. CASE m.subject # s
    BY <1>0, <1>1, <2>2 DEF Deliver
  <2> QED
    BY <2>1, <2>2
<1>2. ASSUME NEW m \in Messages, Send(m)
      PROVE  \/ inbox'[s] = inbox[s]
             \/ m.subject = s /\ Elements(inbox'[s]) = Elements(inbox[s]) \cup {m}
  BY <1>1, <1>2 DEF Send, vars, subVars, clientVars
<1>3. ASSUME NEW ip \in IPs
      PROVE  /\ Register(ip) \in Messages /\ Register(ip).subject = "register"
             /\ Unregister(ip) \in Messages /\ Unregister(ip).subject = "unregister"
  BY EmissionAssumption DEF Register, Unregister
<1>4. ASSUME NEW ip \in IPs, Emit(ip)
      PROVE  \/ inbox'[s] = inbox[s]
             \/ /\ s = "register"
                /\ Elements(inbox'[s]) = Elements(inbox[s]) \cup {Register(ip)}
  BY <1>2, <1>3, <1>4 DEF Emit
<1>5. ASSUME NEW ip \in IPs, AppStops(ip)
      PROVE  \/ inbox'[s] = inbox[s]
             \/ /\ s = "unregister"
                /\ Elements(inbox'[s]) = Elements(inbox[s]) \cup {Unregister(ip)}
  BY <1>2, <1>3, <1>5 DEF AppStops, vars, subVars, clientVars
<1>6. ASSUME NEW ip \in IPs, AppStarts(ip)
      PROVE  inbox'[s] = inbox[s]
  BY <1>6 DEF AppStarts, vars, subVars, clientVars
<1>7. ASSUME CloseAfterError \/ NatsCloses
      PROVE  Elements(inbox'[s]) \subseteq Elements(inbox[s])
  <2>1. inbox'[s] \in {inbox[s], <<>>, Front(inbox[s])}
    BY <1>7 DEF CloseAfterError, NatsCloses, UnexpectedClose, CloseClient, clientVars
  <2>2. Elements(<<>>) = {}
    BY DEF Elements
  <2>3. ASSUME inbox[s] # <<>>
        PROVE  Elements(Front(inbox[s])) \subseteq Elements(inbox[s])
    <3>1. PICK x : x = Head(inbox[s])
      OBVIOUS
    <3>2. x \in Elements(inbox[s])
      BY <1>0, <2>3, <3>1, QueueElements
    <3>3. Front(inbox[s]) = <<x>>
      BY <2>3, <3>1 DEF Front
    <3>4. Elements(<<x>>) = {x}
      BY DEF Elements
    <3> QED
      BY <3>2, <3>3, <3>4
  <2>4. inbox[s] = <<>> => Front(inbox[s]) = <<>>
    BY DEF Front
  <2> QED
    BY <2>1, <2>2, <2>3, <2>4
<1>8. CASE SubscriberRuns
  <2>1. CloseAfterError \/ UNCHANGED inbox
    BY <1>8 DEF SubscriberRuns, RunOnce, Connect, AssignClient, sendStartMessage,
                setupGreetMsgHandler, FlushGreet, setupAddressMessageHandler, StartWarmTimer,
                Subscribe, clientVars
  <2> QED
    BY <1>7, <2>1
<1>9. CASE Handler
  <2>1. PICK u \in Subjects : Handles(u)
    BY <1>9 DEF Handler, HandleRegister, HandleUnregister, Subjects
  <2>2. CASE u = s
    <3>1. inbox[s] # <<>> /\ inbox'[s] = Tail(inbox[s])
      BY <1>0, <2>1, <2>2 DEF Handles
    <3> QED
      BY <1>0, <3>1, QueueElements
  <2>3. CASE u # s
    BY <1>0, <2>1, <2>3 DEF Handles
  <2> QED
    BY <2>2, <2>3
<1>10. CASE Goroutines \/ NatsBreaks \/ NatsRecovers \/ ClockTick \/ UNCHANGED emissionVars
  <2>1. UNCHANGED inbox
    BY <1>10 DEF Goroutines, Callback, DisconnectHandler, ReconnectHandler,
                 ReconnectSendsStart, ClosedHandler, WarmUp, TablePruner, NatsBreaks,
                 NatsRecovers, SocketBreaks, LoseConnection, RegainConnection, ClockTick, Tick,
                 emissionVars, vars, subVars, clientVars
  <2> QED
    BY <2>1
<1>11. CASE Restart
  BY <1>11 DEF Restart, Elements
<1> QED
  BY <1>4, <1>5, <1>6, <1>7, <1>8, <1>9, <1>10, <1>11 DEF EmissionNext

\* A registration on its way is of an app that has not been stopped for any
\* time yet, and nothing but the emitter's messages is on its way.
RegistersSent ==
  \A m \in Elements(inbox["register"]) : \E ip \in IPs : m = Register(ip) /\ deadFor[ip] = 0

UnregistersSent ==
  \A m \in Elements(inbox["unregister"]) : \E ip \in IPs : m = Unregister(ip)

DeadFacts == \A ip \in alive : deadFor[ip] = 0

MessageFacts == RegistersSent /\ UnregistersSent /\ DeadFacts

\* The messages on their way remain the emitter's.
LEMMA MessageStep ==
  ASSUME InboxType, AppTypes, ClockTypes, MessageFacts, [EmissionNext]_emissionVars
  PROVE  MessageFacts'
<1> USE DEF MessageFacts
<1>0. "register" \in Subjects /\ "unregister" \in Subjects
  BY DEF Subjects
<1>1. UnregistersSent'
  BY <1>0, InboxChanges DEF UnregistersSent
<1>2. CASE ClockTick
  <2>1. inbox["register"] = <<>> /\ UNCHANGED <<inbox, alive>>
    BY <1>0, <1>2 DEF ClockTick, NothingDue, Tick, clientVars
  <2>2. RegistersSent'
    BY <2>1 DEF RegistersSent, Elements
  <2>3. DeadFacts'
    BY <1>2, <2>1 DEF DeadFacts, ClockTick, AppTypes
  <2> QED
    BY <1>1, <2>2, <2>3
<1>3. CASE ~ClockTick
  <2>1. \A ip \in IPs : deadFor[ip] = 0 => deadFor'[ip] = 0
    BY <1>3 DEF EmissionNext, Emit, AppStarts, AppStops, SubscriberRuns, Handler, Goroutines,
                NatsBreaks, NatsRecovers, NatsCloses, Restart, emissionVars, history, ClockTypes
  <2>2. DeadFacts'
    <3>1. CASE \E ip \in IPs : AppStarts(ip)
      BY <2>1, <3>1 DEF DeadFacts, AppStarts, ClockTypes, AppTypes
    <3>2. CASE ~\E ip \in IPs : AppStarts(ip)
      <4>1. alive' \subseteq alive
        BY <1>3, <3>2 DEF EmissionNext, Emit, AppStops, SubscriberRuns, Handler, Goroutines,
                          NatsBreaks, NatsRecovers, NatsCloses, Restart, emissionVars, history
      <4> QED
        BY <2>1, <4>1 DEF DeadFacts, AppTypes
    <3> QED
      BY <3>1, <3>2
  <2>3. RegistersSent'
    <3>1. \A ip \in IPs : Emit(ip) => deadFor'[ip] = 0
      BY <2>1 DEF Emit, DeadFacts
    <3> QED
      BY <1>0, <2>1, <3>1, InboxChanges DEF RegistersSent
  <2> QED
    BY <1>1, <2>2, <2>3
<1> QED
  BY <1>2, <1>3

-----------------------------------------------------------------------------
(* The entries of the apps, all under one key.                             *)

Key == fqdn(Name)

Entries == At(addresses, Key)

\* The apps have one hostname, and so one key.
LEMMA KeyFacts == {Name} \in HostnameLists /\ Fqdns({Name}) = {Key}
BY EmissionAssumption DEF HostnameLists, Hostname, Fqdns, Key

\* A route is listed if it has an entry.
LEMMA RouteEntry ==
  ASSUME NEW ip
  PROVE  /\ RouteListed(ip) <=> \E x \in Entries : x.ip = ip
         /\ RouteListed(ip)' <=> \E x \in Entries' : x.ip = ip
BY ListedAt DEF RouteListed, Entries, Key

\* An entry is one of an app, with an age.
LEMMA EntryTypes ==
  ASSUME TableInv
  PROVE  \A x \in Entries : x \in Entry /\ x.ip \in IPs /\ x.age \in 0..Expired
<1>1. ASSUME Key \in DOMAIN addresses
      PROVE  \A i \in DOMAIN addresses[Key] : addresses[Key][i] \in Entry
  <2>1. addresses[Key] \in Seq(Entry)
    BY <1>1 DEF TableInv, GoodTable, GoodList
  <2> QED
    BY <2>1, LenProperties, ElementOfSeq
<1>2. Entries \subseteq Entry
  BY <1>1 DEF Entries, At, Elements
<1> QED
  BY <1>2 DEF Entry

\* A handler takes one of the emitter's messages, and leaves the others.
LEMMA Handled ==
  ASSUME InboxType, NEW s \in {"register", "unregister"}, NEW ip \in IPs, NEW m,
         Handles(s), m = Head(inbox[s]), m.host = ip
  PROVE  /\ m \in Elements(inbox[s])
         /\ Heard(s) = {ip}
         /\ \A u \in {"register", "unregister"} \ {s} :
              inbox'[u] = inbox[u] /\ Heard(u) = {}
         /\ \A n \in Elements(inbox[s]) : n # m => n \in Elements(inbox'[s])
<1>1. inbox \in [Subjects -> Seq(Messages)] /\ s \in Subjects /\ inbox[s] \in Seq(Messages)
  BY DEF InboxType, Subjects
<1>2. inbox[s] # <<>> /\ inbox'[s] = Tail(inbox[s])
  BY <1>1 DEF Handles
<1>3. Elements(inbox[s]) = {m} \cup Elements(inbox'[s]) /\ inbox'[s] # inbox[s]
  BY <1>1, <1>2, QueueElements
<1>4. Heard(s) = {ip}
  BY <1>3 DEF Heard
<1>5. ASSUME NEW u \in {"register", "unregister"} \ {s}
      PROVE  inbox'[u] = inbox[u] /\ Heard(u) = {}
  <2>1. inbox'[u] = inbox[u]
    BY <1>1 DEF Handles, Subjects
  <2> QED
    BY <2>1 DEF Heard
<1> QED
  BY <1>3, <1>4, <1>5

\* The register handler puts a new entry for an app that has not been dead
\* for any time.
LEMMA RegisterHandled ==
  ASSUME TableInv, InboxType, RegistersSent, HandleRegister
  PROVE  \E ip \in IPs :
           /\ deadFor[ip] = 0
           /\ Heard("register") = {ip} /\ Heard("unregister") = {}
           /\ \A j \in IPs \ {ip} : Register(j) \in Elements(inbox["register"])
                                      => Register(j) \in Elements(inbox'["register"])
           /\ Entries' = {x \in Entries : x.ip # ip} \cup {NewEntry(ip)}
           /\ UNCHANGED <<pausedPruning, sinceResume, warm, ticker, prunePc, staleAddresses>>
<1>1. PICK m : m = Head(inbox["register"])
  OBVIOUS
<1>2. inbox["register"] \in Seq(Messages) /\ inbox["register"] # <<>>
  BY DEF InboxType, Subjects, HandleRegister, Handles
<1>3. m \in Elements(inbox["register"])
  BY <1>1, <1>2, QueueElements
<1>4. PICK ip \in IPs : m = Register(ip) /\ deadFor[ip] = 0
  BY <1>3 DEF RegistersSent
<1>5. m.json = TRUE /\ m.host = ip /\ m.uris = {Name} /\ ip # NoHost
  BY <1>4, MessagesAssumption DEF Register
<1>6. Add({Name}, ip) /\ Handles("register")
  BY <1>1, <1>5 DEF HandleRegister, MalformedRegister
<1>7. Entries' = {x \in Entries : x.ip # ip} \cup {NewEntry(ip)}
  BY <1>6, KeyFacts, AddChanges DEF TableInv, Entries
<1>8. UNCHANGED <<pausedPruning, sinceResume, warm, ticker, prunePc, staleAddresses>>
  BY <1>6 DEF Add, prunerVars
<1>9. \A j \in IPs \ {ip} : Register(j) # m
  BY <1>5 DEF Register
<1>10. /\ Heard("register") = {ip} /\ Heard("unregister") = {}
       /\ \A n \in Elements(inbox["register"]) : n # m => n \in Elements(inbox'["register"])
  BY <1>1, <1>5, <1>6, Handled
<1> QED
  BY <1>4, <1>7, <1>8, <1>9, <1>10

\* The unregister handler takes an app's entry away.
LEMMA UnregisterHandled ==
  ASSUME TableInv, InboxType, UnregistersSent, HandleUnregister
  PROVE  \E ip \in IPs :
           /\ Heard("unregister") = {ip} /\ Heard("register") = {}
           /\ inbox'["register"] = inbox["register"]
           /\ Entries' = {x \in Entries : x.ip # ip}
           /\ UNCHANGED <<pausedPruning, sinceResume, warm, ticker, prunePc, staleAddresses>>
<1>1. PICK m : m = Head(inbox["unregister"])
  OBVIOUS
<1>2. inbox["unregister"] \in Seq(Messages) /\ inbox["unregister"] # <<>>
  BY DEF InboxType, Subjects, HandleUnregister, Handles
<1>3. m \in Elements(inbox["unregister"])
  BY <1>1, <1>2, QueueElements
<1>4. PICK ip \in IPs : m = Unregister(ip)
  BY <1>3 DEF UnregistersSent
<1>5. m.json = TRUE /\ m.host = ip /\ m.uris = {Name}
  BY <1>4 DEF Unregister
<1>6. Remove({Name}, ip) /\ Handles("unregister")
  BY <1>1, <1>5 DEF HandleUnregister, MalformedUnregister
<1>7. Entries' = {x \in Entries : x.ip # ip}
  BY <1>6, KeyFacts, RemoveChanges DEF TableInv, Entries
<1>8. UNCHANGED <<pausedPruning, sinceResume, warm, ticker, prunePc, staleAddresses>>
  BY <1>6 DEF Remove, prunerVars
<1>9. /\ Heard("unregister") = {ip} /\ Heard("register") = {}
      /\ inbox'["register"] = inbox["register"]
  BY <1>1, <1>5, <1>6, Handled
<1> QED
  BY <1>7, <1>8, <1>9

\* The other steps of the controller leave the table alone.
LEMMA TableKept ==
  ASSUME \/ \E ip \in IPs : Emit(ip) \/ AppStarts(ip) \/ AppStops(ip)
         \/ SubscriberRuns \/ NatsBreaks \/ NatsRecovers \/ NatsCloses
         \/ UNCHANGED emissionVars
  PROVE  UNCHANGED tableVars
<1>1. ASSUME NEW ip \in IPs, Emit(ip) \/ AppStarts(ip) \/ AppStops(ip)
      PROVE  UNCHANGED tableVars
  BY <1>1 DEF Emit, AppStarts, AppStops, Send, Deliver, vars
<1>2. CASE SubscriberRuns
  BY <1>2 DEF SubscriberRuns, RunOnce, Connect, AssignClient, sendStartMessage,
              setupGreetMsgHandler, FlushGreet, setupAddressMessageHandler, StartWarmTimer,
              CloseAfterError, Subscribe, RunStep
<1>3. CASE NatsBreaks \/ NatsRecovers \/ NatsCloses \/ UNCHANGED emissionVars
  BY <1>3 DEF NatsBreaks, NatsRecovers, NatsCloses, SocketBreaks, LoseConnection,
              RegainConnection, UnexpectedClose, emissionVars, vars
<1> QED
  BY <1>1, <1>2, <1>3

\* The entries are a part of the addresses.
LEMMA EntriesKept ==
  ASSUME UNCHANGED addresses
  PROVE  Entries' = Entries /\ \A ip : RouteListed(ip)' = RouteListed(ip)
BY DEF Entries, At, Elements, RouteListed, Listed

\* What a clock step does to the entries and the ticker.
LEMMA ClockEntries ==
  ASSUME TableInv, NotStopped, ClockTick
  PROVE  /\ Entries' = {Aged(x) : x \in Entries}
         /\ \A x \in Entries : /\ Aged(x).ip = x.ip
                               /\ Aged(x).age = Elapse(x.age, Expired)
         /\ IF ticker.left = 1
            THEN ticker'.left = PruningInterval /\ ticker'.fired
            ELSE ticker'.left = ticker.left - 1 /\ ticker'.fired = ticker.fired
         /\ sinceResume' = Elapse(sinceResume, ResumePruningDelay)
         /\ UNCHANGED <<pausedPruning, warm, prunePc, staleAddresses>>
<1>1. TableTick
  BY DEF ClockTick, Tick
<1>2. Entries' = {Aged(x) : x \in Entries}
  BY <1>1, TickChanges DEF TableInv, Entries
<1>3. \A x \in Entries : Aged(x).ip = x.ip /\ Aged(x).age = Elapse(x.age, Expired)
  BY EntryTypes DEF Aged, Entry
<1>4. ticker \in Tickers /\ ~ticker.stopped
  BY DEF TableInv, ControlOK, NotStopped
<1>5. IF ticker.left = 1
      THEN ticker'.left = PruningInterval /\ ticker'.fired
      ELSE ticker'.left = ticker.left - 1 /\ ticker'.fired = ticker.fired
  <2>1. CASE ticker.left = 1
    <3>1. ticker' = [ticker EXCEPT !.left = PruningInterval, !.fired = TRUE]
      BY <1>1, <1>4, <2>1 DEF TableTick, TickerElapse
    <3> QED
      BY <1>4, <2>1, <3>1 DEF Tickers
  <2>2. CASE ticker.left # 1
    <3>1. ticker' = [ticker EXCEPT !.left = ticker.left - 1]
      BY <1>1, <1>4, <2>2 DEF TableTick, TickerElapse
    <3> QED
      BY <1>4, <2>2, <3>1 DEF Tickers
  <2> QED
    BY <2>1, <2>2
<1> QED
  BY <1>1, <1>2, <1>3, <1>5 DEF TableTick, prunerVars

\* What the goroutines do to the entries: only the second pass of the pruner
\* changes them.
LEMMA GoroutineEntries ==
  ASSUME TableInv, Goroutines
  PROVE  \/ /\ Callback \/ WarmUp
            /\ UNCHANGED <<addresses, ticker, prunePc, staleAddresses>>
         \/ PruneCheck /\ UNCHANGED <<addresses, pausedPruning, sinceResume, warm, subVars>>
         \/ FindStale /\ UNCHANGED <<addresses, pausedPruning, sinceResume, warm, ticker, subVars>>
         \/ /\ PruneStale /\ UNCHANGED <<pausedPruning, sinceResume, warm, ticker, subVars>>
            /\ Entries' = IF Key \in staleAddresses
                          THEN {x \in Entries : ~IsStale(x)} ELSE Entries
<1>1. CASE Callback \/ WarmUp
  BY <1>1 DEF Callback, DisconnectHandler, ReconnectHandler, ReconnectSendsStart,
              ClosedHandler, WarmUp, SetWarm, PausePruning, ResumePruning, tableVars, prunerVars
<1>2. CASE TablePruner
  <2>1. CASE PruneStale
    <3>1. Entries' = IF Key \in staleAddresses
                     THEN {x \in Entries : ~IsStale(x)} ELSE Entries
      BY <2>1, PruneChanges DEF TableInv, Entries
    <3> QED
      BY <1>2, <2>1, <3>1 DEF PruneStale, TablePruner
  <2>2. CASE PruneCheck \/ FindStale
    BY <1>2, <2>2 DEF PruneCheck, FindStale, TablePruner, fieldVars
  <2> QED
    BY <1>2, <2>1, <2>2 DEF TablePruner, Pruner
<1> QED
  BY <1>1, <1>2 DEF Goroutines

\* A restarted table is empty.
LEMMA RestartEntries ==
  ASSUME Restart
  PROVE  Entries' = {}
BY DEF Restart, Entries, At

-----------------------------------------------------------------------------
(* Stopped apps.                                                           *)

\* An entry is at least as old as its app has been stopped.
AgeFacts == \A x \in Entries : x.age >= deadFor[x.ip] \/ x.age = Expired

\* Entries age with the clock, and only a running app renews its own.
LEMMA AgeStep ==
  ASSUME TableInv, InboxType, NotStopped, AppTypes, ClockTypes, MessageFacts, AgeFacts,
         [EmissionNext]_emissionVars
  PROVE  AgeFacts'
<1> USE DEF MessageFacts
<1>0. \A x \in Entries : x.ip \in IPs /\ x.age \in 0..Expired
  BY EntryTypes
<1>1. CASE \/ \E ip \in IPs : Emit(ip) \/ AppStarts(ip) \/ AppStops(ip)
           \/ SubscriberRuns \/ NatsBreaks \/ NatsRecovers \/ NatsCloses
           \/ UNCHANGED emissionVars
  <2>1. Entries' = Entries
    BY <1>1, TableKept, EntriesKept DEF tableVars
  <2>2. \A ip \in IPs : deadFor'[ip] \in {0, deadFor[ip]}
    BY <1>1 DEF Emit, AppStarts, AppStops, SubscriberRuns, NatsBreaks, NatsRecovers, NatsCloses,
                emissionVars, history, ClockTypes
  <2> QED
    BY <1>0, <2>1, <2>2 DEF AgeFacts
<1>2. CASE HandleRegister /\ Handler
  <2>1. PICK ip \in IPs : /\ deadFor[ip] = 0
                          /\ Entries' = {x \in Entries : x.ip # ip} \cup {NewEntry(ip)}
    BY <1>2, RegisterHandled
  <2>2. UNCHANGED deadFor /\ NewEntry(ip).ip = ip /\ NewEntry(ip).age = 0
    BY <1>2 DEF Handler, NewEntry
  <2> QED
    BY <2>1, <2>2 DEF AgeFacts
<1>3. CASE HandleUnregister /\ Handler
  <2>1. Entries' \subseteq Entries
    BY <1>3, UnregisterHandled
  <2>2. UNCHANGED deadFor
    BY <1>3 DEF Handler
  <2> QED
    BY <2>1, <2>2 DEF AgeFacts
<1>4. CASE Goroutines
  <2>1. Entries' \subseteq Entries
    BY <1>4, GoroutineEntries, EntriesKept
  <2>2. UNCHANGED deadFor
    BY <1>4 DEF Goroutines
  <2> QED
    BY <2>1, <2>2 DEF AgeFacts
<1>5. CASE Restart
  BY <1>5, RestartEntries DEF AgeFacts
<1>6. CASE ClockTick
  <2>1. Entries' = {Aged(x) : x \in Entries}
    BY <1>6, ClockEntries
  <2>2. \A x \in Entries : Aged(x).ip = x.ip /\ Aged(x).age = Elapse(x.age, Expired)
    BY <1>6, ClockEntries
  <2>3. \A ip \in IPs : /\ deadFor[ip] \in Nat /\ deadFor'[ip] \in Nat
                        /\ deadFor'[ip] <= deadFor[ip] + 1
    BY <1>6, Durations DEF ClockTick, UpTo, ClockTypes
  <2>4. ASSUME NEW x \in Entries
        PROVE  Aged(x).age >= deadFor'[Aged(x).ip] \/ Aged(x).age = Expired
    BY <1>0, <2>2, <2>3, Durations DEF Elapse, AgeFacts
  <2> QED
    BY <2>1, <2>4 DEF AgeFacts
<1> QED
  BY <1>1, <1>2, <1>3, <1>4, <1>5, <1>6 DEF EmissionNext, Handler

\* While time counts as calm, pruning is allowed.
CalmFacts == calmFor >= 1 => ~pausedPruning /\ sinceResume = ResumePruningDelay

\* Whatever stops pruning ends the calm.
LEMMA CalmStep ==
  ASSUME TableInv, InboxType, NotStopped, ClockTypes, MessageFacts, CalmFacts,
         TableInv', ClockTypes', [EmissionNext]_emissionVars
  PROVE  CalmFacts'
<1> USE DEF MessageFacts
<1>0. sinceResume' \in 0..ResumePruningDelay /\ ResumePruningDelay \in Nat
  BY Durations DEF TableInv, ControlOK
<1>1. CASE \/ \E ip \in IPs : Emit(ip) \/ AppStarts(ip) \/ AppStops(ip)
           \/ SubscriberRuns \/ NatsBreaks \/ NatsRecovers \/ NatsCloses
           \/ UNCHANGED emissionVars
  <2>1. UNCHANGED <<pausedPruning, sinceResume>>
    BY <1>1, TableKept DEF tableVars
  <2>2. UNCHANGED calmFor
    BY <1>1 DEF Emit, AppStarts, AppStops, SubscriberRuns, NatsBreaks, NatsRecovers, NatsCloses,
                emissionVars, history
  <2> QED
    BY <2>1, <2>2 DEF CalmFacts
<1>2. CASE Handler
  <2>1. UNCHANGED <<pausedPruning, sinceResume>>
    BY <1>2, RegisterHandled, UnregisterHandled DEF Handler
  <2> QED
    BY <1>2, <2>1 DEF CalmFacts, Handler
<1>3. CASE Goroutines
  BY <1>0, <1>3 DEF CalmFacts, Goroutines
<1>4. CASE Restart
  BY <1>4 DEF CalmFacts, Restart
<1>5. CASE ClockTick
  <2>1. UNCHANGED pausedPruning
    BY <1>5, ClockEntries
  <2> QED
    BY <1>0, <1>5, <2>1 DEF CalmFacts, ClockTick
<1> QED
  BY <1>1, <1>2, <1>3, <1>4, <1>5 DEF EmissionNext

\* The pruner is about to look at the apps' key.
Pending == ticker.fired \/ prunePc = "scan" \/ (prunePc = "prune" /\ Key \in staleAddresses)

\* The app has been stale, or pruning allowed, for no longer than that.
Within(ip, d) == deadFor[ip] - StalenessThreshold <= d \/ calmFor <= d

\* A stale route that may be pruned waits for the next tick of the pruner,
\* or for the pass that tick has begun.
GhostFacts ==
  \A ip \in IPs :
    RouteListed(ip) /\ deadFor[ip] > StalenessThreshold /\ calmFor >= 1 =>
      \/ Within(ip, PruningInterval - ticker.left)
      \/ Pending /\ Within(ip, PruningInterval)

\* A stale route is pruned in the pass after the next tick.
LEMMA GhostStep ==
  ASSUME TableInv, InboxType, NotStopped, AppTypes, ClockTypes, MessageFacts, AgeFacts,
         CalmFacts, GhostFacts, ClockTypes', [EmissionNext]_emissionVars
  PROVE  GhostFacts'
<1> USE DEF MessageFacts
<1> SUFFICES ASSUME NEW ip \in IPs, RouteListed(ip)', deadFor'[ip] > StalenessThreshold,
                    calmFor' >= 1
             PROVE  \/ Within(ip, PruningInterval - ticker.left)'
                    \/ Pending' /\ Within(ip, PruningInterval)'
  BY DEF GhostFacts
<1>0. /\ ticker \in Tickers /\ ticker.left \in 1..PruningInterval
      /\ deadFor[ip] \in Nat /\ deadFor'[ip] \in Nat /\ calmFor \in Nat /\ calmFor' \in Nat
  BY DEF TableInv, ControlOK, Tickers, ClockTypes
<1>1. CASE \/ \E j \in IPs : Emit(j) \/ AppStarts(j) \/ AppStops(j)
           \/ SubscriberRuns \/ NatsBreaks \/ NatsRecovers \/ NatsCloses
           \/ UNCHANGED emissionVars
  <2>1. UNCHANGED <<addresses, ticker, prunePc, staleAddresses>>
    BY <1>1, TableKept DEF tableVars
  <2>2. RouteListed(ip)
    BY <2>1, EntriesKept
  <2>3. deadFor'[ip] = deadFor[ip] /\ calmFor' = calmFor
    BY <1>0, <1>1, Durations DEF Emit, AppStarts, AppStops, SubscriberRuns, NatsBreaks,
                NatsRecovers, NatsCloses, emissionVars, history, ClockTypes
  <2> QED
    BY <2>1, <2>2, <2>3 DEF GhostFacts, Within, Pending
<1>2. CASE Handler
  <2>1. UNCHANGED <<deadFor, calmFor>>
    BY <1>2 DEF Handler
  <2>2. UNCHANGED <<ticker, prunePc, staleAddresses>>
    BY <1>2, RegisterHandled, UnregisterHandled DEF Handler
  <2>3. \E x \in Entries' : x.ip = ip
    BY RouteEntry
  <2>4. RouteListed(ip)
    <3>1. CASE HandleRegister
      <4>1. PICK j \in IPs : /\ deadFor[j] = 0
                             /\ Entries' = {x \in Entries : x.ip # j} \cup {NewEntry(j)}
        BY <3>1, RegisterHandled
      <4>2. j # ip
        BY <2>1, <4>1, Durations
      <4>3. NewEntry(j).ip = j
        BY DEF NewEntry
      <4> QED
        BY <2>3, <4>1, <4>2, <4>3, RouteEntry
    <3>2. CASE HandleUnregister
      <4>1. Entries' \subseteq Entries
        BY <3>2, UnregisterHandled
      <4> QED
        BY <2>3, <4>1, RouteEntry
    <3> QED
      BY <1>2, <3>1, <3>2 DEF Handler
  <2> QED
    BY <2>1, <2>2, <2>4 DEF GhostFacts, Within, Pending
<1>3. CASE Goroutines
  <2>1. UNCHANGED <<deadFor, calmFor>> /\ ~pausedPruning /\ sinceResume = ResumePruningDelay
    BY <1>3 DEF Goroutines, CalmFacts
  <2>2. \E x \in Entries' : x.ip = ip
    BY RouteEntry
  <2>3. \A x \in Entries : x.ip = ip => IsStale(x)
    BY <1>0, <2>1, EntryTypes, Durations DEF AgeFacts, IsStale
  <2>4. CASE UNCHANGED <<addresses, ticker, prunePc, staleAddresses>>
    BY <2>1, <2>4, EntriesKept DEF GhostFacts, Within, Pending
  <2>5. CASE PruneCheck /\ UNCHANGED addresses
    <3>1. prunePc' = "scan" /\ ticker.fired /\ ticker'.left = ticker.left
      BY <1>0, <2>1, <2>5, Durations DEF PruneCheck, Tickers
    <3>2. RouteListed(ip)
      BY <2>5, EntriesKept
    <3> QED
      BY <2>1, <3>1, <3>2 DEF GhostFacts, Within, Pending
  <2>6. CASE FindStale /\ UNCHANGED <<addresses, ticker>>
    <3>1. RouteListed(ip)
      BY <2>6, EntriesKept
    <3>2. PICK x \in Entries : x.ip = ip
      BY <3>1, RouteEntry
    <3>3. Key \in DOMAIN addresses /\ AnyStale(addresses[Key])
      BY <2>3, <3>2 DEF Entries, At, Elements, AnyStale
    <3>4. prunePc' = "prune" /\ Key \in staleAddresses' /\ prunePc = "scan"
      BY <2>6, <3>3 DEF FindStale
    <3> QED
      BY <2>1, <2>6, <3>1, <3>4 DEF GhostFacts, Within, Pending
  <2>7. CASE /\ PruneStale /\ UNCHANGED ticker
             /\ Entries' = IF Key \in staleAddresses
                           THEN {x \in Entries : ~IsStale(x)} ELSE Entries
    <3>1. Key \notin staleAddresses /\ Entries' = Entries
      BY <2>2, <2>3, <2>7
    <3>2. RouteListed(ip)
      BY <2>2, <3>1, RouteEntry
    <3>3. prunePc = "prune"
      BY <2>7 DEF PruneStale
    <3> QED
      BY <2>1, <2>7, <3>1, <3>2, <3>3 DEF GhostFacts, Within, Pending
  <2> QED
    BY <1>3, <2>4, <2>5, <2>6, <2>7, GoroutineEntries
<1>4. CASE Restart
  BY <1>4 DEF Restart
<1>5. CASE ClockTick
  <2>1. ~Pending
    BY <1>5 DEF ClockTick, NothingDue, Pending
  <2>2. RouteListed(ip)
    <3>1. \E x \in Entries' : x.ip = ip
      BY RouteEntry
    <3> QED
      BY <1>5, <3>1, ClockEntries, RouteEntry
  <2>3. deadFor'[ip] <= deadFor[ip] + 1 /\ calmFor' <= calmFor + 1
    BY <1>0, <1>5, Durations DEF ClockTick, UpTo, ClockTypes
  <2>4. \/ deadFor[ip] - StalenessThreshold <= PruningInterval - ticker.left
        \/ calmFor <= PruningInterval - ticker.left
    <3>1. CASE deadFor[ip] > StalenessThreshold /\ calmFor >= 1
      BY <2>1, <2>2, <3>1 DEF GhostFacts, Within
    <3>2. CASE ~(deadFor[ip] > StalenessThreshold /\ calmFor >= 1)
      BY <1>0, <3>2, Durations
    <3> QED
      BY <3>1, <3>2
  <2>5. CASE ticker.left = 1
    <3>1. ticker'.fired
      BY <1>5, <2>5, ClockEntries
    <3>2. Within(ip, PruningInterval)'
      BY <1>0, <2>3, <2>4, <2>5, Durations DEF Within
    <3> QED
      BY <3>1, <3>2 DEF Pending
  <2>6. CASE ticker.left # 1
    <3>1. ticker'.left = ticker.left - 1
      BY <1>5, <2>6, ClockEntries
    <3> QED
      BY <1>0, <2>3, <2>4, <3>1, Durations DEF Within
  <2> QED
    BY <2>5, <2>6
<1> QED
  BY <1>1, <1>2, <1>3, <1>4, <1>5 DEF EmissionNext

-----------------------------------------------------------------------------
(* Running apps.                                                           *)

\* Among the entries E is one for the ip, no older than d.
Young(E, ip, d) == \E x \in E : x.ip = ip /\ x.age <= d

\* A registration of the app waits for its handler.
Coming(ip) == Register(ip) \in Elements(inbox["register"])

\* A reconnect handler waits: pruning will be put off once more.
Resuming == "reconnected" \in Elements(callbacks)

\* The pruner is at rest and would not start a pass.
Blocked == prunePc = "wait" /\ (pausedPruning \/ sinceResume < ResumePruningDelay)

\* The route cannot be pruned now.
Safe(ip) ==
  \/ Young(Entries, ip, StalenessThreshold)
  \/ Blocked /\ \E x \in Entries : x.ip = ip

\* Over a socket that works: the route was registered when it was last sent,
\* or was sent before the last reconnect only, and then pruning has not been
\* resumed for longer than since the emitter was to answer.
HeardRecently(ip) ==
  \/ Coming(ip)
  \/ Young(Entries, ip, sinceEmit[ip])
  \/ /\ Resuming \/ sinceResume <= IF AnswersStart THEN 0 ELSE sinceEmit[ip]
     /\ AnswersStart /\ announced => sinceEmit[ip] = EmitInterval

\* Over a broken socket that has not been noticed: the same, and the time
\* since it broke.
HeardBeforeBreak(ip) ==
  \/ Coming(ip)
  \/ Young(Entries, ip, EmitInterval + sinceBreak)
  \/ Resuming
  \/ sinceResume <= (IF AnswersStart THEN 0 ELSE EmitInterval) + sinceBreak

Covered(ip) ==
  /\ conn = "connected" /\ socket => HeardRecently(ip)
  /\ conn = "connected" /\ ~socket => HeardBeforeBreak(ip)

LiveFacts == \A ip \in registered : Safe(ip) /\ Covered(ip)

\* Sending adds to what is coming.
LEMMA ComingGrows ==
  ASSUME InboxType, NEW j \in IPs, Emit(j) \/ AppStarts(j) \/ AppStops(j)
  PROVE  /\ \A ip \in IPs : Coming(ip) => Coming(ip)'
         /\ Emit(j) /\ conn = "connected" /\ socket /\ "register" \in subs => Coming(j)'
<1>0. inbox \in [Subjects -> Seq(Messages)] /\ "register" \in Subjects
  BY DEF InboxType, Subjects
<1>1. /\ Register(j) \in Messages /\ Register(j).subject = "register"
      /\ Unregister(j) \in Messages /\ Unregister(j).subject = "unregister"
  BY EmissionAssumption DEF Register, Unregister
<1>2. \/ inbox'["register"] = inbox["register"]
      \/ inbox'["register"] = Append(inbox["register"], Register(j))
  BY <1>0, <1>1 DEF Emit, AppStarts, AppStops, Send, Deliver, vars, subVars, clientVars
<1>3. ASSUME Emit(j), conn = "connected", socket, "register" \in subs
      PROVE  inbox'["register"] = Append(inbox["register"], Register(j))
  BY <1>0, <1>1, <1>3 DEF Emit, Send, Deliver
<1>4. Elements(Append(inbox["register"], Register(j)))
        = Elements(inbox["register"]) \cup {Register(j)}
  BY <1>0, <1>1, QueueElements
<1> QED
  BY <1>2, <1>3, <1>4 DEF Coming

\* A callback may end the pause, and then it starts the delay.
LEMMA CallbackEffects ==
  ASSUME CallbacksType, TableInv, ResumePruningDelay > 0, Callback \/ WarmUp
  PROVE  /\ UNCHANGED <<conn, socket, inbox>>
         /\ pausedPruning \/ sinceResume < ResumePruningDelay =>
              pausedPruning' \/ sinceResume' < ResumePruningDelay
         /\ sinceResume' \in {sinceResume, 0}
         /\ Resuming => Resuming' \/ sinceResume' = 0
<1>0. callbacks \in Seq(Callbacks) /\ "sendStart" \in Callbacks
  BY DEF CallbacksType, Callbacks
<1>1. CASE WarmUp
  BY <1>1 DEF WarmUp, SetWarm, clientVars, Resuming
<1>2. CASE ReconnectHandler
  BY <1>2, Durations DEF ReconnectHandler, ResumePruning
<1>3. ASSUME callbacks # <<>>, Head(callbacks) # "reconnected", callbacks' = Tail(callbacks)
      PROVE  Resuming => Resuming'
  BY <1>0, <1>3, QueueElements DEF Resuming
<1>4. CASE DisconnectHandler
  BY <1>3, <1>4 DEF DisconnectHandler, PausePruning, Running
<1>5. CASE ClosedHandler
  BY <1>3, <1>5 DEF ClosedHandler, Running, tableVars
<1>6. CASE ReconnectSendsStart
  <2>1. Resuming => Resuming'
    BY <1>3, <1>6 DEF ReconnectSendsStart, Running, Resuming
  <2> QED
    BY <1>6, <2>1 DEF ReconnectSendsStart, tableVars
<1> QED
  BY <1>1, <1>2, <1>4, <1>5, <1>6 DEF Callback

\* What the emitter does about a start message.
LEMMA HearsEffect ==
  ASSUME ClockTypes, EmitterHears, NEW ip \in IPs
  PROVE  /\ sinceEmit[ip] \in 0..EmitInterval /\ sinceEmit'[ip] \in 0..EmitInterval
         /\ sinceEmit[ip] <= sinceEmit'[ip]
         /\ AnswersStart /\ announced' => \/ sinceEmit'[ip] = EmitInterval
                                          \/ announced /\ sinceEmit'[ip] = sinceEmit[ip]
BY Durations DEF ClockTypes, EmitterHears

\* What the clock steps below need of the durations.
LEMMA KeepingUp ==
  ASSUME KeepsUp, ClockTypes
  PROVE  /\ EmitInterval + sinceBreak \in 0..StalenessThreshold
         /\ \A ip \in IPs : sinceEmit[ip] \in 0..StalenessThreshold
         /\ EmitInterval + DetectionDelay <= StalenessThreshold
         /\ (IF AnswersStart THEN 0 ELSE EmitInterval) + DetectionDelay < ResumePruningDelay
         /\ (IF AnswersStart THEN 0 ELSE EmitInterval) \in 0..EmitInterval
BY Durations DEF KeepsUp, ClockTypes

\* A step that keeps the entries, the connection and the pause keeps what is
\* known of a running app.
LEMMA CoveredKept ==
  ASSUME NEW ip \in IPs, Safe(ip), Covered(ip), Coming(ip) => Coming(ip)',
         UNCHANGED <<Entries, callbacks, conn, socket, announced, sinceResume, pausedPruning,
                     prunePc, sinceBreak>>,
         sinceEmit'[ip] = sinceEmit[ip]
  PROVE  Safe(ip)' /\ Covered(ip)'
<1>1. Resuming' = Resuming /\ Blocked' = Blocked
  BY DEF Resuming, Blocked
<1> QED
  BY <1>1 DEF Safe, Covered, HeardRecently, HeardBeforeBreak

\* The emitter sends, apps come and go.
LEMMA LiveApps ==
  ASSUME SubInv, HearingFacts, AppTypes, ClockTypes, LiveFacts,
         NEW j \in IPs, Emit(j) \/ AppStarts(j) \/ AppStops(j)
  PROVE  LiveFacts'
<1> SUFFICES ASSUME NEW ip \in registered'
             PROVE  Safe(ip)' /\ Covered(ip)'
  BY DEF LiveFacts
<1>1. ip \in registered /\ ip \in alive /\ ip \in IPs /\ Safe(ip) /\ Covered(ip)
  BY DEF Emit, AppStarts, AppStops, history, AppTypes, LiveFacts
<1>2. UNCHANGED <<conn, socket, callbacks, announced, subs>>
  BY DEF Emit, AppStarts, AppStops, Send, Deliver, vars, subVars, clientVars
<1>3. UNCHANGED tableVars
  BY TableKept
<1>4. UNCHANGED Entries
  BY <1>3, EntriesKept DEF tableVars
<1>5. UNCHANGED sinceBreak
  BY DEF Emit, AppStarts, AppStops
<1>6. InboxType
  BY DEF SubInv, LocalTypes
<1>7. Coming(ip) => Coming(ip)'
  BY <1>1, <1>6, ComingGrows
<1>8. CASE ~(Emit(j) /\ j = ip)
  <2>1. sinceEmit'[ip] = sinceEmit[ip]
    BY <1>1, <1>8 DEF Emit, AppStarts, AppStops, ClockTypes
  <2> QED
    BY <1>1, <1>2, <1>3, <1>4, <1>5, <1>7, <2>1, CoveredKept DEF tableVars
<1>9. CASE Emit(j) /\ j = ip
  <2>1. Blocked' = Blocked /\ Resuming' = Resuming
    BY <1>2, <1>3 DEF Blocked, Resuming, tableVars
  <2>2. Safe(ip)'
    BY <1>1, <1>4, <2>1 DEF Safe
  <2>3. conn = "connected" => "register" \in subs
    BY <1>1 DEF HearingFacts
  <2>4. conn = "connected" /\ socket => Coming(ip)'
    BY <1>6, <1>9, <2>3, ComingGrows
  <2> QED
    BY <1>1, <1>2, <1>3, <1>4, <1>5, <1>7, <2>1, <2>2, <2>4
       DEF Covered, HeardRecently, HeardBeforeBreak, tableVars
<1> QED
  BY <1>8, <1>9

\* RunOnce has nothing left to do to the connection, or finds it closed.
LEMMA LiveRuns ==
  ASSUME RunFacts, HearingFacts, AppTypes, LiveFacts, SubscriberRuns
  PROVE  LiveFacts'
<1> SUFFICES ASSUME NEW ip \in registered'
             PROVE  Safe(ip)' /\ Covered(ip)'
  BY DEF LiveFacts
<1>1. /\ ip \in registered /\ ip \in IPs /\ Safe(ip) /\ Covered(ip)
      /\ Hearing \/ conn = "closed"
  BY DEF SubscriberRuns, AppTypes, LiveFacts, HearingFacts
<1>2. UNCHANGED <<conn, socket, callbacks, inbox>> /\ (Hearing => UNCHANGED announced)
  BY <1>1 DEF SubscriberRuns, RunOnce, Connect, AssignClient, sendStartMessage,
              setupGreetMsgHandler, FlushGreet, setupAddressMessageHandler, StartWarmTimer,
              CloseAfterError, CloseClient, Subscribe, RunStep, Hearing, RunFacts, clientVars
<1>3. UNCHANGED tableVars /\ UNCHANGED sinceBreak
  BY TableKept DEF SubscriberRuns
<1>4. UNCHANGED Entries
  BY <1>3, EntriesKept DEF tableVars
<1>5. CASE Hearing
  <2>1. UNCHANGED sinceEmit
    BY <1>2, <1>5 DEF SubscriberRuns, EmitterHears
  <2>2. Coming(ip) => Coming(ip)'
    BY <1>2 DEF Coming
  <2> QED
    BY <1>1, <1>2, <1>3, <1>4, <1>5, <2>1, <2>2, CoveredKept DEF tableVars
<1>6. CASE conn = "closed"
  <2>1. Blocked' = Blocked
    BY <1>3 DEF Blocked, tableVars
  <2> QED
    BY <1>1, <1>2, <1>4, <1>6, <2>1 DEF Safe, Covered
<1> QED
  BY <1>1, <1>5, <1>6

\* A handled message registers its app, or takes it off the list.
LEMMA LiveHandler ==
  ASSUME SubInv, KeepsUp, AppTypes, ClockTypes, MessageFacts, LiveFacts, Handler
  PROVE  LiveFacts'
<1> USE DEF MessageFacts
<1> SUFFICES ASSUME NEW ip \in registered'
             PROVE  Safe(ip)' /\ Covered(ip)'
  BY DEF LiveFacts
<1>1. ip \in IPs
  BY DEF Handler, AppTypes
<1>2. TableInv /\ InboxType
  BY DEF SubInv, LocalTypes
<1>3. UNCHANGED <<conn, socket, callbacks, announced, sinceEmit, sinceBreak>>
  BY DEF Handler, HandleRegister, HandleUnregister, Handles
<1>4. CASE HandleRegister
  <2>1. PICK j \in IPs :
          /\ Heard("register") = {j} /\ Heard("unregister") = {}
          /\ \A k \in IPs \ {j} : Register(k) \in Elements(inbox["register"])
                                    => Register(k) \in Elements(inbox'["register"])
          /\ Entries' = {x \in Entries : x.ip # j} \cup {NewEntry(j)}
          /\ UNCHANGED <<pausedPruning, sinceResume, warm, ticker, prunePc, staleAddresses>>
    BY <1>2, <1>4, RegisterHandled
  <2>2. NewEntry(j).ip = j /\ NewEntry(j).age = 0
    BY DEF NewEntry
  <2>3. CASE j = ip
    <3>1. \A d \in Nat : Young(Entries', ip, d)
      BY <2>1, <2>2, <2>3 DEF Young
    <3>2. /\ StalenessThreshold \in Nat /\ sinceEmit'[ip] \in Nat
          /\ EmitInterval + sinceBreak' \in Nat
      BY <1>1, <1>3, KeepingUp, Durations
    <3>3. Young(Entries', ip, sinceEmit'[ip]) /\ Young(Entries', ip, EmitInterval + sinceBreak')
      BY <3>1, <3>2
    <3>4. Young(Entries', ip, StalenessThreshold)
      BY <3>1, <3>2
    <3> QED
      BY <3>3, <3>4 DEF Safe, Covered, HeardRecently, HeardBeforeBreak
  <2>4. CASE j # ip
    <3>1. ip \in registered /\ Safe(ip) /\ Covered(ip)
      BY <2>1, <2>4 DEF Handler, LiveFacts
    <3>2. Coming(ip) => Coming(ip)'
      BY <1>1, <2>1, <2>4 DEF Coming
    <3>3. \A d : Young(Entries, ip, d) => Young(Entries', ip, d)
      BY <2>1, <2>4 DEF Young
    <3>4. (\E x \in Entries : x.ip = ip) => \E x \in Entries' : x.ip = ip
      BY <2>1, <2>4
    <3>5. Blocked' = Blocked /\ Resuming' = Resuming
      BY <1>3, <2>1 DEF Blocked, Resuming
    <3> QED
      BY <1>3, <2>1, <3>1, <3>2, <3>3, <3>4, <3>5
         DEF Safe, Covered, HeardRecently, HeardBeforeBreak
  <2> QED
    BY <2>3, <2>4
<1>5. CASE HandleUnregister
  <2>1. PICK j \in IPs :
          /\ Heard("unregister") = {j} /\ Heard("register") = {}
          /\ inbox'["register"] = inbox["register"]
          /\ Entries' = {x \in Entries : x.ip # j}
          /\ UNCHANGED <<pausedPruning, sinceResume, warm, ticker, prunePc, staleAddresses>>
    BY <1>2, <1>5, UnregisterHandled
  <2>2. j # ip /\ ip \in registered /\ Safe(ip) /\ Covered(ip)
    BY <2>1 DEF Handler, LiveFacts
  <2>3. Coming(ip) => Coming(ip)'
    BY <2>1 DEF Coming
  <2>4. \A d : Young(Entries, ip, d) => Young(Entries', ip, d)
    BY <2>1, <2>2 DEF Young
  <2>5. (\E x \in Entries : x.ip = ip) => \E x \in Entries' : x.ip = ip
    BY <2>1, <2>2
  <2>6. Blocked' = Blocked /\ Resuming' = Resuming
    BY <1>3, <2>1 DEF Blocked, Resuming
  <2> QED
    BY <1>3, <2>1, <2>2, <2>3, <2>4, <2>5, <2>6
       DEF Safe, Covered, HeardRecently, HeardBeforeBreak
<1> QED
  BY <1>4, <1>5 DEF Handler

\* A fresh enough entry outlives the pruner; a callback that ends the pause
\* starts the delay.
LEMMA LiveGoroutines ==
  ASSUME SubInv, KeepsUp, AppTypes, ClockTypes, LiveFacts, Goroutines
  PROVE  LiveFacts'
<1> SUFFICES ASSUME NEW ip \in registered'
             PROVE  Safe(ip)' /\ Covered(ip)'
  BY DEF LiveFacts
<1>1. ip \in IPs /\ ip \in registered /\ Safe(ip) /\ Covered(ip)
  BY DEF Goroutines, AppTypes, LiveFacts
<1>2. TableInv /\ CallbacksType
  BY DEF SubInv, LocalTypes
<1>3. UNCHANGED sinceBreak
  BY DEF Goroutines
<1>4. /\ sinceEmit[ip] \in 0..EmitInterval /\ sinceEmit'[ip] \in 0..EmitInterval
      /\ sinceEmit[ip] <= sinceEmit'[ip]
      /\ AnswersStart /\ announced' => \/ sinceEmit'[ip] = EmitInterval
                                       \/ announced /\ sinceEmit'[ip] = sinceEmit[ip]
  BY <1>1, HearsEffect DEF Goroutines
<1>5. \A x \in Entries : x.age \in 0..Expired
  BY <1>2, EntryTypes
<1>6. sinceResume \in Nat
  BY <1>2, Durations DEF TableInv, ControlOK
<1>7. CASE (Callback \/ WarmUp) /\ UNCHANGED <<addresses, ticker, prunePc, staleAddresses>>
  <2>1. UNCHANGED Entries
    BY <1>7, EntriesKept
  <2>2. /\ UNCHANGED <<conn, socket, inbox>>
        /\ pausedPruning \/ sinceResume < ResumePruningDelay =>
             pausedPruning' \/ sinceResume' < ResumePruningDelay
        /\ sinceResume' \in {sinceResume, 0}
        /\ Resuming => Resuming' \/ sinceResume' = 0
    BY <1>2, <1>7, CallbackEffects, KeepingUp, Durations
  <2>3. Blocked => Blocked'
    BY <1>7, <2>2 DEF Blocked
  <2>4. Safe(ip)'
    BY <1>1, <2>1, <2>3 DEF Safe
  <2>5. Coming(ip)' = Coming(ip)
    BY <2>2 DEF Coming
  <2>6. Young(Entries, ip, sinceEmit[ip]) => Young(Entries', ip, sinceEmit'[ip])
    BY <1>4, <1>5, <2>1, Durations DEF Young
  <2>7. ASSUME conn = "connected", socket
        PROVE  HeardRecently(ip)'
    <3>1. HeardRecently(ip)
      BY <1>1, <2>7 DEF Covered
    <3>2. CASE Coming(ip) \/ Young(Entries, ip, sinceEmit[ip])
      BY <2>5, <2>6, <3>2 DEF HeardRecently
    <3>3. CASE /\ Resuming \/ sinceResume <= IF AnswersStart THEN 0 ELSE sinceEmit[ip]
               /\ AnswersStart /\ announced => sinceEmit[ip] = EmitInterval
      <4>1. AnswersStart /\ announced' => sinceEmit'[ip] = EmitInterval
        BY <1>4, <3>3
      <4>2. Resuming' \/ sinceResume' <= IF AnswersStart THEN 0 ELSE sinceEmit'[ip]
        BY <1>4, <1>6, <2>2, <3>3, Durations
      <4> QED
        BY <4>1, <4>2 DEF HeardRecently
    <3> QED
      BY <3>1, <3>2, <3>3 DEF HeardRecently
  <2>8. ASSUME conn = "connected", ~socket
        PROVE  HeardBeforeBreak(ip)'
    <3>1. HeardBeforeBreak(ip)
      BY <1>1, <2>8 DEF Covered
    <3>2. sinceBreak \in Nat /\ (IF AnswersStart THEN 0 ELSE EmitInterval) \in Nat
      BY Durations DEF ClockTypes
    <3>3. 0 <= (IF AnswersStart THEN 0 ELSE EmitInterval) + sinceBreak
      BY <3>2
    <3> QED
      BY <1>3, <2>1, <2>2, <2>5, <3>1, <3>3 DEF HeardBeforeBreak
  <2> QED
    BY <2>2, <2>4, <2>7, <2>8 DEF Covered
<1>8. ASSUME UNCHANGED <<sinceResume, pausedPruning, subVars>>,
             \A d \in 0..StalenessThreshold : Young(Entries, ip, d) => Young(Entries', ip, d)
      PROVE  Covered(ip)'
  <2>1. UNCHANGED <<conn, socket, callbacks, inbox, announced>>
    BY <1>8 DEF subVars, clientVars
  <2>2. Coming(ip)' = Coming(ip) /\ Resuming' = Resuming
    BY <2>1 DEF Coming, Resuming
  <2>3. sinceEmit' = sinceEmit
    BY <2>1 DEF Goroutines, EmitterHears
  <2>4. /\ sinceEmit[ip] \in 0..StalenessThreshold
        /\ EmitInterval + sinceBreak \in 0..StalenessThreshold
    BY <1>1, KeepingUp
  <2>5. /\ Young(Entries, ip, sinceEmit[ip]) => Young(Entries', ip, sinceEmit[ip])
        /\ Young(Entries, ip, EmitInterval + sinceBreak)
             => Young(Entries', ip, EmitInterval + sinceBreak)
    BY <1>8, <2>4
  <2> QED
    BY <1>1, <1>3, <1>8, <2>1, <2>2, <2>3, <2>5 DEF Covered, HeardRecently, HeardBeforeBreak
<1>9. CASE PruneCheck /\ UNCHANGED <<addresses, pausedPruning, sinceResume, warm, subVars>>
  <2>1. UNCHANGED Entries
    BY <1>9, EntriesKept
  <2>2. Blocked => Blocked'
    BY <1>9 DEF PruneCheck, Blocked
  <2>3. Safe(ip)'
    BY <1>1, <2>1, <2>2 DEF Safe
  <2> QED
    BY <1>8, <1>9, <2>1, <2>3
<1>10. CASE FindStale /\ UNCHANGED <<addresses, pausedPruning, sinceResume, warm, ticker, subVars>>
  <2>1. UNCHANGED Entries
    BY <1>10, EntriesKept
  <2>2. ~Blocked
    BY <1>10 DEF FindStale, Blocked
  <2>3. Safe(ip)'
    BY <1>1, <2>1, <2>2 DEF Safe
  <2> QED
    BY <1>8, <1>10, <2>1, <2>3
<1>11. CASE /\ PruneStale /\ UNCHANGED <<pausedPruning, sinceResume, warm, ticker, subVars>>
            /\ Entries' = IF Key \in staleAddresses
                          THEN {x \in Entries : ~IsStale(x)} ELSE Entries
  <2>1. ASSUME NEW d \in 0..StalenessThreshold, Young(Entries, ip, d)
        PROVE  Young(Entries', ip, d)
    <3>1. PICK x \in Entries : x.ip = ip /\ x.age <= d
      BY <2>1 DEF Young
    <3>2. ~IsStale(x)
      BY <1>5, <2>1, <3>1, Durations DEF IsStale
    <3> QED
      BY <1>11, <3>1, <3>2 DEF Young
  <2>2. ~Blocked
    BY <1>11 DEF PruneStale, Blocked
  <2>3. StalenessThreshold \in 0..StalenessThreshold
    BY Durations
  <2>4. Safe(ip)'
    BY <1>1, <2>1, <2>2, <2>3 DEF Safe
  <2> QED
    BY <1>8, <1>11, <2>1, <2>4
<1> QED
  BY <1>2, <1>7, <1>9, <1>10, <1>11, GoroutineEntries

\* A break starts its clock; a reconnect comes with a callback, and with the
\* start message if one was buffered; a client that closes stays closed.
LEMMA LiveNats ==
  ASSUME SubInv, SocketFacts, AppTypes, ClockTypes, LiveFacts,
         NatsBreaks \/ NatsRecovers \/ NatsCloses
  PROVE  LiveFacts'
<1> SUFFICES ASSUME NEW ip \in registered'
             PROVE  Safe(ip)' /\ Covered(ip)'
  BY DEF LiveFacts
<1>1. ip \in IPs /\ ip \in registered /\ Safe(ip) /\ Covered(ip)
  BY DEF NatsBreaks, NatsRecovers, NatsCloses, history, AppTypes, LiveFacts
<1>2. UNCHANGED tableVars
  BY TableKept
<1>3. UNCHANGED Entries
  BY <1>2, EntriesKept DEF tableVars
<1>4. Blocked' = Blocked
  BY <1>2 DEF Blocked, tableVars
<1>5. Safe(ip)'
  BY <1>1, <1>3, <1>4 DEF Safe
<1>6. callbacks \in Seq(Callbacks) /\ "reconnected" \in Callbacks
  BY DEF SubInv, LocalTypes, CallbacksType, Callbacks
<1>7. CASE NatsBreaks
  <2>1. /\ conn = "connected" /\ socket /\ ~socket' /\ sinceBreak' = 0
        /\ UNCHANGED <<conn, callbacks, inbox, sinceEmit, sinceResume>>
    BY <1>2, <1>7 DEF NatsBreaks, SocketBreaks, tableVars
  <2>2. Coming(ip)' = Coming(ip) /\ Resuming' = Resuming
    BY <2>1 DEF Coming, Resuming
  <2>3. sinceEmit[ip] \in 0..EmitInterval /\ sinceResume \in Nat
    BY <1>1, Durations DEF ClockTypes, SubInv, TableInv, ControlOK
  <2>4. \A x \in Entries : x.age \in 0..Expired
    BY EntryTypes DEF SubInv
  <2>5. Young(Entries, ip, sinceEmit[ip]) => Young(Entries', ip, EmitInterval + sinceBreak')
    BY <1>3, <2>1, <2>3, <2>4, Durations DEF Young
  <2>6. HeardRecently(ip)
    BY <1>1, <2>1 DEF Covered
  <2>7. sinceResume <= (IF AnswersStart THEN 0 ELSE sinceEmit[ip])
          => sinceResume' <= (IF AnswersStart THEN 0 ELSE EmitInterval) + sinceBreak'
    BY <2>1, <2>3, Durations
  <2>8. HeardBeforeBreak(ip)'
    BY <2>2, <2>5, <2>6, <2>7 DEF HeardRecently, HeardBeforeBreak
  <2> QED
    BY <1>5, <2>1, <2>8 DEF Covered
<1>8. CASE LoseConnection \/ NatsCloses
  BY <1>5, <1>8 DEF LoseConnection, NatsCloses, UnexpectedClose, CloseClient, Covered
<1>9. CASE RegainConnection /\ NatsRecovers
  <2>1. socket' /\ callbacks' = Append(callbacks, "reconnected") /\ ~announced
    BY <1>9 DEF RegainConnection, UnexpectedClose, SocketFacts
  <2>2. Resuming'
    BY <1>6, <2>1, QueueElements DEF Resuming
  <2>3. AnswersStart /\ announced' => sinceEmit'[ip] = EmitInterval
    BY <1>1, <1>9, <2>1, HearsEffect DEF NatsRecovers
  <2> QED
    BY <1>5, <2>1, <2>2, <2>3 DEF Covered, HeardRecently
<1> QED
  BY <1>7, <1>8, <1>9 DEF NatsRecovers

\* Time passes.  Nothing waits, so the pause agrees with the connection and
\* the emitter has been asked; with the durations it keeps up with, either
\* the entry is fresh still or pruning is not allowed.
LEMMA LiveClock ==
  ASSUME SubInv, KeepsUp, NotStopped, HearingFacts, AppTypes, ClockTypes, LiveFacts, ClockTick
  PROVE  LiveFacts'
<1> SUFFICES ASSUME NEW ip \in registered'
             PROVE  Safe(ip)' /\ Covered(ip)'
  BY DEF LiveFacts
<1>1. ip \in IPs /\ ip \in alive /\ Safe(ip) /\ Covered(ip)
  BY DEF ClockTick, AppTypes, LiveFacts
<1>2. conn # "none" /\ (conn # "closed" => Hearing)
  BY DEF ClockTick, HearingFacts
<1>3. /\ callbacks = <<>> /\ inbox["register"] = <<>> /\ prunePc = "wait"
      /\ sinceEmit[ip] < EmitInterval
      /\ conn = "connected" /\ ~socket => sinceBreak < DetectionDelay
  BY <1>1 DEF ClockTick, NothingDue, Subjects
<1>4. ~Coming(ip) /\ ~Resuming
  BY <1>3 DEF Coming, Resuming, Elements
<1>5. UNCHANGED <<conn, socket, callbacks, inbox, announced>>
  BY DEF ClockTick, Tick, clientVars
<1>6. pausedPruning <=> conn # "connected"
  <2>1. DOMAIN callbacks = {}
    BY <1>3
  <2> QED
    BY <1>2, <2>1 DEF SubInv, PauseFollows
<1>7. conn = "connected" /\ socket => announced
  <2>1. ~StartWaits
    BY <1>3 DEF StartWaits
  <2> QED
    BY <1>2, <2>1 DEF SubInv, StartFollows, Hearing, Announcing
<1>8. /\ Entries' = {Aged(x) : x \in Entries}
      /\ \A x \in Entries : Aged(x).ip = x.ip /\ Aged(x).age = Elapse(x.age, Expired)
      /\ sinceResume' = Elapse(sinceResume, ResumePruningDelay)
      /\ UNCHANGED <<pausedPruning, warm, prunePc, staleAddresses>>
  BY ClockEntries DEF SubInv
<1>9. \A x \in Entries : x.age \in 0..Expired
  BY EntryTypes DEF SubInv
<1>10. ASSUME NEW d \in Nat, NEW e \in Nat, d + 1 <= e, Young(Entries, ip, d)
       PROVE  Young(Entries', ip, e)
  <2>1. PICK x \in Entries : x.ip = ip /\ x.age <= d
    BY <1>10 DEF Young
  <2>2. Aged(x) \in Entries' /\ Aged(x).ip = ip /\ Aged(x).age = Elapse(x.age, Expired)
    BY <1>8, <2>1
  <2>3. Elapse(x.age, Expired) <= e
    BY <1>9, <1>10, <2>1, Durations DEF Elapse
  <2> QED
    BY <2>2, <2>3 DEF Young
<1>11. \E x \in Entries' : x.ip = ip
  <2>1. PICK x \in Entries : x.ip = ip
    BY <1>1 DEF Safe, Young
  <2> QED
    BY <1>8, <2>1
<1>12. /\ sinceEmit[ip] \in Nat /\ sinceEmit'[ip] = sinceEmit[ip] + 1
       /\ sinceEmit'[ip] <= StalenessThreshold /\ sinceEmit'[ip] <= EmitInterval
  <2>1. sinceEmit[ip] \in 0..EmitInterval
    BY <1>1 DEF ClockTypes
  <2>2. sinceEmit'[ip] = UpTo(EmitInterval, sinceEmit[ip])
    BY <1>1 DEF ClockTick
  <2>3. EmitInterval \in Nat /\ StalenessThreshold \in Nat
    BY Durations
  <2>4. EmitInterval <= StalenessThreshold
    BY <2>3, KeepingUp, Durations
  <2> QED
    BY <1>3, <2>1, <2>2, <2>3, <2>4 DEF UpTo
<1>13. /\ sinceResume \in Nat /\ sinceResume' <= sinceResume + 1 /\ sinceResume' \in Nat
  BY <1>8, Durations DEF SubInv, TableInv, ControlOK, Elapse
<1>14. CASE conn # "connected"
  <2>1. Blocked'
    BY <1>3, <1>6, <1>8, <1>14 DEF Blocked
  <2> QED
    BY <1>5, <1>11, <1>14, <2>1 DEF Safe, Covered
<1>15. CASE conn = "connected" /\ socket
  <2>1. HeardRecently(ip) /\ announced
    BY <1>1, <1>7, <1>15 DEF Covered
  <2>2. CASE Young(Entries, ip, sinceEmit[ip])
    <3>1. Young(Entries', ip, sinceEmit'[ip]) /\ Young(Entries', ip, StalenessThreshold)
      BY <1>10, <1>12, <2>2, Durations
    <3> QED
      BY <1>5, <1>15, <3>1 DEF Safe, Covered, HeardRecently
  <2>3. CASE ~Young(Entries, ip, sinceEmit[ip])
    <3>1. /\ sinceResume <= IF AnswersStart THEN 0 ELSE sinceEmit[ip]
          /\ AnswersStart /\ announced => sinceEmit[ip] = EmitInterval
      BY <1>4, <2>1, <2>3 DEF HeardRecently
    <3>2. ~AnswersStart /\ sinceResume <= sinceEmit[ip]
      BY <1>3, <1>12, <2>1, <3>1, Durations
    <3>3. sinceResume' <= sinceEmit'[ip] /\ sinceResume' < ResumePruningDelay
      BY <1>12, <1>13, <3>2, KeepingUp, Durations
    <3>4. Blocked'
      BY <1>3, <1>8, <3>3 DEF Blocked
    <3> QED
      BY <1>5, <1>11, <1>15, <3>2, <3>3, <3>4 DEF Safe, Covered, HeardRecently
  <2> QED
    BY <2>2, <2>3
<1>16. CASE conn = "connected" /\ ~socket
  <2>1. HeardBeforeBreak(ip) /\ sinceBreak < DetectionDelay
    BY <1>1, <1>3, <1>16 DEF Covered
  <2>2. /\ sinceBreak \in Nat /\ sinceBreak' = sinceBreak + 1
        /\ EmitInterval + sinceBreak' <= StalenessThreshold
    <3>1. sinceBreak \in 0..DetectionDelay
      BY DEF ClockTypes
    <3>2. sinceBreak' = UpTo(DetectionDelay, sinceBreak)
      BY <1>16 DEF ClockTick
    <3> QED
      BY <2>1, <3>1, <3>2, KeepingUp, Durations DEF UpTo
  <2>3. CASE Young(Entries, ip, EmitInterval + sinceBreak)
    <3>1. /\ Young(Entries', ip, EmitInterval + sinceBreak')
          /\ Young(Entries', ip, StalenessThreshold)
      BY <1>10, <2>2, <2>3, Durations
    <3> QED
      BY <1>5, <1>16, <3>1 DEF Safe, Covered, HeardBeforeBreak
  <2>4. CASE ~Young(Entries, ip, EmitInterval + sinceBreak)
    <3>1. sinceResume <= (IF AnswersStart THEN 0 ELSE EmitInterval) + sinceBreak
      BY <1>4, <2>1, <2>4 DEF HeardBeforeBreak
    <3>2. /\ sinceResume' <= (IF AnswersStart THEN 0 ELSE EmitInterval) + sinceBreak'
          /\ sinceResume' < ResumePruningDelay
      BY <1>13, <2>1, <2>2, <3>1, KeepingUp, Durations
    <3>3. Blocked'
      BY <1>3, <1>8, <3>2 DEF Blocked
    <3> QED
      BY <1>5, <1>11, <1>16, <3>2, <3>3 DEF Safe, Covered, HeardBeforeBreak
  <2> QED
    BY <2>3, <2>4
<1> QED
  BY <1>14, <1>15, <1>16

\* What is known of the running apps holds after every step.
LEMMA LiveStep ==
  ASSUME SubInv, KeepsUp, NotStopped, HearingFacts, SocketFacts, AppTypes, ClockTypes,
         MessageFacts, LiveFacts, [EmissionNext]_emissionVars
  PROVE  LiveFacts'
<1>1. CASE Restart
  BY <1>1 DEF Restart, LiveFacts
<1>2. CASE UNCHANGED emissionVars
  <2>1. UNCHANGED <<registered, conn, socket, callbacks, announced, inbox, sinceEmit, sinceBreak>>
    BY <1>2 DEF emissionVars, history, vars, subVars, clientVars
  <2>2. UNCHANGED tableVars
    BY <1>2, TableKept
  <2>3. UNCHANGED Entries
    BY <2>2, EntriesKept DEF tableVars
  <2>4. ASSUME NEW ip \in registered
        PROVE  Safe(ip)' /\ Covered(ip)'
    <3>1. Coming(ip) => Coming(ip)'
      BY <2>1 DEF Coming
    <3>2. ip \in IPs /\ Safe(ip) /\ Covered(ip)
      BY <2>4 DEF AppTypes, LiveFacts
    <3> QED
      BY <2>1, <2>2, <2>3, <3>1, <3>2, CoveredKept DEF tableVars
  <2> QED
    BY <2>1, <2>4 DEF LiveFacts
<1> QED
  BY <1>1, <1>2, LiveApps, LiveRuns, LiveHandler, LiveGoroutines, LiveNats, LiveClock
     DEF EmissionNext, SubInv

-----------------------------------------------------------------------------
(* A warm table.                                                           *)

\* Until its route is registered, an app that can be heard since the
\* subscription has sent it, or has had no occasion to: the warming has not
\* gone on for longer than since it last did.
SteadyFacts ==
  \A ip \in steady :
    /\ conn = "connected" /\ socket
    /\ \/ ip \in registered
       \/ warmTimer <= EmitInterval /\ (Coming(ip) \/ warmTimer <= sinceEmit[ip])

\* So does what is known of the apps that can be heard.
LEMMA SteadyStep ==
  ASSUME SubInv, HearingFacts, AppTypes, ClockTypes, MessageFacts, SteadyFacts,
         EmitInterval < WarmingDuration, [EmissionNext]_emissionVars
  PROVE  SteadyFacts'
<1> USE DEF MessageFacts
<1> SUFFICES ASSUME NEW ip \in steady'
             PROVE  /\ conn' = "connected" /\ socket'
                    /\ \/ ip \in registered'
                       \/ /\ warmTimer' <= EmitInterval
                          /\ Coming(ip)' \/ warmTimer' <= sinceEmit'[ip]
  BY DEF SteadyFacts
<1>0. TableInv /\ InboxType
  BY DEF SubInv, LocalTypes
<1>a. warmTimer \in Int
  BY Durations DEF SubInv, LocalTypes, FlagTypes, NotStarted
<1>b. \A j \in IPs : sinceEmit[j] \in 0..EmitInterval /\ sinceEmit[j] \in Nat
  BY Durations DEF ClockTypes
<1>c. \A j \in steady : j \in IPs /\ j \in alive /\ conn = "connected" /\ socket /\ Hearing
  BY DEF AppTypes, SteadyFacts, HearingFacts
<1>1. ASSUME NEW j \in IPs, Emit(j) \/ AppStarts(j) \/ AppStops(j)
      PROVE  /\ conn' = "connected" /\ socket'
             /\ \/ ip \in registered'
                \/ /\ warmTimer' <= EmitInterval
                   /\ Coming(ip)' \/ warmTimer' <= sinceEmit'[ip]
  <2>1. UNCHANGED <<conn, socket, warmTimer>>
    BY <1>1 DEF Emit, AppStarts, AppStops, Send, Deliver, vars, subVars, runVars, clientVars
  <2>2. ip \in steady /\ (ip \in registered => ip \in registered')
    BY <1>1 DEF Emit, AppStarts, AppStops, history
  <2>3. Coming(ip) => Coming(ip)'
    BY <1>0, <1>1, <1>c, <2>2, ComingGrows
  <2>4. CASE Emit(j) /\ j = ip
    <3>1. "register" \in subs
      BY <1>c, <2>2 DEF HearingFacts
    <3>2. Coming(ip)'
      BY <1>0, <1>1, <1>c, <2>2, <2>4, <3>1, ComingGrows
    <3> QED
      BY <2>1, <2>2, <3>2 DEF SteadyFacts
  <2>5. CASE ~(Emit(j) /\ j = ip)
    <3>1. sinceEmit'[ip] = sinceEmit[ip]
      BY <1>1, <1>c, <2>2, <2>5 DEF Emit, AppStarts, AppStops, ClockTypes
    <3> QED
      BY <2>1, <2>2, <2>3, <3>1 DEF SteadyFacts
  <2> QED
    BY <2>4, <2>5
<1>2. CASE SubscriberRuns
  <2>1. UNCHANGED <<registered, alive>> /\ EmitterHears
    BY <1>2 DEF SubscriberRuns
  <2>2. ip \in IPs
    BY <1>2, <1>c DEF SubscriberRuns, AppTypes
  <2>3. sinceEmit'[ip] >= sinceEmit[ip] /\ sinceEmit'[ip] \in 0..EmitInterval
    BY <2>1, <2>2, HearsEffect
  <2>4. CASE "register" \in subs' \ subs
    <3>1. /\ RunStep("register", "unregister") /\ UNCHANGED <<conn, socket, warmTimer>>
          /\ conn # "closed"
      BY <1>2, <2>4 DEF SubscriberRuns, RunOnce, Connect, AssignClient, sendStartMessage,
                        setupGreetMsgHandler, FlushGreet, setupAddressMessageHandler,
                        StartWarmTimer, CloseAfterError, CloseClient, Subscribe, clientVars,
                        RunStep
    <3>2. warmTimer = NotStarted
      BY <3>1 DEF SubInv, RunFacts, RunStep
    <3>3. ~Hearing
      BY <3>1 DEF RunStep, Hearing
    <3>4. steady = {}
      BY <3>1, <3>3 DEF HearingFacts
    <3>5. conn = "connected" /\ socket
      BY <1>2, <3>4 DEF SubscriberRuns
    <3> QED
      BY <2>3, <3>1, <3>2, <3>5, Durations DEF NotStarted
  <2>5. CASE "register" \notin subs' \ subs
    <3>1. ip \in steady
      BY <1>2, <2>5 DEF SubscriberRuns
    <3>2. UNCHANGED <<conn, socket, inbox>> /\ warmTimer' \in {warmTimer, 0}
      BY <1>2, <1>c, <3>1
         DEF SubscriberRuns, RunOnce, Connect, AssignClient, sendStartMessage,
             setupGreetMsgHandler, FlushGreet, setupAddressMessageHandler, StartWarmTimer,
             CloseAfterError, Subscribe, RunStep, Hearing, clientVars
    <3>3. Coming(ip)' = Coming(ip)
      BY <3>2 DEF Coming
    <3>4. CASE ip \in registered
      BY <1>c, <2>1, <3>1, <3>2, <3>4
    <3>5. CASE ip \notin registered
      <4>1. warmTimer <= EmitInterval /\ (Coming(ip) \/ warmTimer <= sinceEmit[ip])
        BY <3>1, <3>5 DEF SteadyFacts
      <4> QED
        BY <1>a, <1>b, <1>c, <2>2, <2>3, <3>1, <3>2, <3>3, <4>1, Durations
    <3> QED
      BY <3>4, <3>5
  <2> QED
    BY <2>4, <2>5
<1>3. CASE Handler
  <2>1. /\ UNCHANGED <<conn, socket, warmTimer, sinceEmit>>
        /\ ip \in steady /\ ip \notin Heard("unregister")
    BY <1>3 DEF Handler, HandleRegister, HandleUnregister, Handles, runVars
  <2>2. ip \in registered => ip \in registered'
    BY <1>3, <2>1 DEF Handler
  <2>3. CASE HandleRegister
    <3>1. PICK j \in IPs :
            /\ Heard("register") = {j}
            /\ \A k \in IPs \ {j} : Register(k) \in Elements(inbox["register"])
                                      => Register(k) \in Elements(inbox'["register"])
      BY <1>0, <2>3, RegisterHandled
    <3>2. CASE j = ip
      BY <1>3, <1>c, <2>1, <3>1, <3>2 DEF Handler
    <3>3. CASE j # ip
      <4>1. Coming(ip) => Coming(ip)'
        BY <1>c, <2>1, <3>1, <3>3 DEF Coming
      <4> QED
        BY <2>1, <2>2, <4>1 DEF SteadyFacts
    <3> QED
      BY <3>2, <3>3
  <2>4. CASE HandleUnregister
    <3>1. inbox'["register"] = inbox["register"]
      BY <1>0, <2>4, UnregisterHandled
    <3>2. Coming(ip)' = Coming(ip)
      BY <3>1 DEF Coming
    <3> QED
      BY <2>1, <2>2, <3>2 DEF SteadyFacts
  <2> QED
    BY <1>3, <2>3, <2>4 DEF Handler
<1>4. CASE Goroutines
  <2>1. UNCHANGED <<conn, socket, inbox, steady, registered>> /\ ip \in steady
    BY <1>4 DEF Goroutines, Callback, DisconnectHandler, ReconnectHandler,
                ReconnectSendsStart, ClosedHandler, WarmUp, TablePruner, subVars, clientVars
  <2>2. Coming(ip)' = Coming(ip)
    BY <2>1 DEF Coming
  <2>3. sinceEmit'[ip] >= sinceEmit[ip] /\ sinceEmit'[ip] \in 0..EmitInterval
    BY <1>4, <1>c, <2>1, HearsEffect DEF Goroutines
  <2>4. warmTimer' = warmTimer \/ warmTimer = WarmingDuration
    BY <1>4 DEF Goroutines, Callback, DisconnectHandler, ReconnectHandler,
                ReconnectSendsStart, ClosedHandler, WarmUp, TablePruner, subVars, runVars
  <2> QED
    BY <1>a, <1>b, <1>c, <2>1, <2>2, <2>3, <2>4, Durations DEF SteadyFacts
<1>5. CASE NatsBreaks \/ NatsCloses
  BY <1>5 DEF NatsBreaks, NatsCloses
<1>6. CASE NatsRecovers
  <2>1. ip \in steady
    BY <1>6 DEF NatsRecovers, NatsCloses, history
  <2> QED
    BY <1>6, <1>c, <2>1 DEF NatsRecovers, NatsCloses, LoseConnection, RegainConnection
<1>7. CASE Restart
  BY <1>7 DEF Restart
<1>8. CASE ClockTick
  <2>1. UNCHANGED <<conn, socket, steady, registered>> /\ ip \in steady
    BY <1>8 DEF ClockTick, Tick, clientVars
  <2>2. inbox["register"] = <<>> /\ sinceEmit[ip] < EmitInterval
    BY <1>8, <1>c, <2>1 DEF ClockTick, NothingDue, Subjects
  <2>3. ~Coming(ip)
    BY <2>2 DEF Coming, Elements
  <2>4. sinceEmit'[ip] = sinceEmit[ip] + 1
    BY <1>8, <1>c, <2>1, <2>2 DEF ClockTick, UpTo
  <2>5. warmTimer' \in {warmTimer, warmTimer + 1}
    BY <1>8 DEF ClockTick, Tick
  <2> QED
    BY <1>a, <1>b, <1>c, <2>1, <2>2, <2>3, <2>4, <2>5, Durations DEF SteadyFacts
<1>9. CASE UNCHANGED emissionVars
  <2>1. UNCHANGED <<steady, registered, conn, socket, warmTimer, sinceEmit, inbox>>
    BY <1>9 DEF emissionVars, history, vars, subVars, runVars, clientVars
  <2>2. Coming(ip)' = Coming(ip)
    BY <2>1 DEF Coming
  <2> QED
    BY <2>1, <2>2 DEF SteadyFacts
<1> QED
  BY <1>1, <1>2, <1>3, <1>4, <1>5, <1>6, <1>7, <1>8, <1>9 DEF EmissionNext

-----------------------------------------------------------------------------
(* The theorems.                                                           *)

EmissionInv ==
  /\ SubInv /\ NotStopped /\ AppTypes /\ ClockTypes
  /\ HearingFacts /\ SocketFacts /\ WarmFacts /\ MessageFacts
  /\ AgeFacts /\ CalmFacts /\ GhostFacts
  /\ KeepsUp => LiveFacts
  /\ EmitInterval < WarmingDuration => SteadyFacts

\* The invariant holds at first.
LEMMA EmissionInitInv == EmissionInit => EmissionInv
<1> SUFFICES ASSUME EmissionInit PROVE EmissionInv
  OBVIOUS
<1>1. SubInv
  BY SubInitInv DEF EmissionInit
<1>2. NotStopped /\ WarmFacts /\ SocketFacts
  BY DEF EmissionInit, Init, TableInit, NotStopped, WarmFacts, SocketFacts
<1>3. AppTypes /\ ClockTypes
  BY Durations DEF EmissionInit, AppTypes, ClockTypes
<1>4. HearingFacts
  BY DEF EmissionInit, Init, HearingFacts, Hearing, Subjects
<1>5. MessageFacts
  BY DEF EmissionInit, Init, MessageFacts, RegistersSent, UnregistersSent, DeadFacts, Elements,
         Subjects
<1>6. Entries = {}
  BY DEF EmissionInit, Init, TableInit, Entries, At
<1>7. AgeFacts /\ CalmFacts /\ GhostFacts
  BY <1>6 DEF EmissionInit, AgeFacts, CalmFacts, GhostFacts
<1>8. LiveFacts /\ SteadyFacts
  BY DEF EmissionInit, LiveFacts, SteadyFacts
<1> QED
  BY <1>1, <1>2, <1>3, <1>4, <1>5, <1>7, <1>8 DEF EmissionInv

\* Every step, a restart too, keeps it.
LEMMA EmissionNextInv == EmissionInv /\ [EmissionNext]_emissionVars => EmissionInv'
<1> SUFFICES ASSUME EmissionInv, [EmissionNext]_emissionVars PROVE EmissionInv'
  OBVIOUS
<1> USE DEF EmissionInv
<1>1. SubInv'
  BY EmissionSteps, RestartInv, SubNextInv DEF NotStopped
<1>2. TableInv /\ TableInv' /\ InboxType /\ ticker \in Tickers
  BY <1>1 DEF SubInv, LocalTypes, TableInv, ControlOK
<1>3. NotStopped' /\ AppTypes' /\ ClockTypes'
  BY <1>2, NotStoppedStep, AppTypesStep, ClockTypesStep
<1>4. HearingFacts' /\ SocketFacts' /\ WarmFacts' /\ MessageFacts'
  BY <1>2, HearingStep, SocketStep, WarmStep, MessageStep
<1>5. AgeFacts' /\ CalmFacts' /\ GhostFacts'
  BY <1>2, <1>3, AgeStep, CalmStep, GhostStep
<1>6. KeepsUp => LiveFacts'
  BY LiveStep
<1>7. EmitInterval < WarmingDuration => SteadyFacts'
  BY SteadyStep
<1> QED
  BY <1>1, <1>3, <1>4, <1>5, <1>6, <1>7

\* So it holds in every reachable state.
LEMMA EmissionInvariance == EmissionSpec => []EmissionInv
  BY EmissionInitInv, EmissionNextInv, PTL DEF EmissionSpec

\* The route of a running app the controller has heard of stays listed for
\* all durations the emitter can keep up with, however outages begin, go
\* unnoticed, end and follow each other.
THEOREM LiveRoutesKept == EmissionSpec => []LiveRoutesStay
<1>1. ASSUME EmissionInv, KeepsUp, NEW ip \in registered
      PROVE  RouteListed(ip)
  <2>1. Safe(ip)
    BY <1>1 DEF EmissionInv, LiveFacts
  <2> QED
    BY <2>1, RouteEntry DEF Safe, Young
<1>2. EmissionInv => LiveRoutesStay
  BY <1>1 DEF LiveRoutesStay
<1> QED
  BY <1>2, EmissionInvariance, PTL

\* A table that calls itself warm has the route of every app that could be
\* heard since the subscription, also in a restarted controller.
THEOREM WarmIsComplete == EmissionSpec => []WarmTableComplete
<1>1. ASSUME EmissionInv, KeepsUp, EmitInterval < WarmingDuration, warm, NEW ip \in steady
      PROVE  RouteListed(ip)
  <2>1. warmTimer = WarmingDuration + 1
    BY <1>1 DEF EmissionInv, WarmFacts
  <2>2. ip \in registered
    BY <1>1, <2>1, Durations DEF EmissionInv, SteadyFacts
  <2>3. Safe(ip)
    BY <1>1, <2>2 DEF EmissionInv, LiveFacts
  <2> QED
    BY <2>3, RouteEntry DEF Safe, Young
<1>2. EmissionInv => WarmTableComplete
  BY <1>1 DEF WarmTableComplete
<1> QED
  BY <1>2, EmissionInvariance, PTL

\* The route of an app that has been stopped for the staleness threshold and
\* one pruning interval is gone once pruning has been allowed for an
\* interval, whichever messages were lost or overtook each other.
THEOREM GhostsAreGone == EmissionSpec => []GhostsLeave
<1>1. ASSUME EmissionInv, NEW ip \in IPs,
             deadFor[ip] > StalenessThreshold + PruningInterval, calmFor > PruningInterval
      PROVE  ~RouteListed(ip)
  <2>1. /\ deadFor[ip] \in Nat /\ calmFor \in Nat
        /\ ticker.left \in 1..PruningInterval
    BY <1>1 DEF EmissionInv, ClockTypes, SubInv, TableInv, ControlOK, Tickers
  <2>2. deadFor[ip] > StalenessThreshold /\ calmFor >= 1
    BY <1>1, <2>1, Durations
  <2>3. ~Within(ip, PruningInterval) /\ ~Within(ip, PruningInterval - ticker.left)
    BY <1>1, <2>1, Durations DEF Within
  <2> QED
    BY <1>1, <2>2, <2>3 DEF EmissionInv, GhostFacts
<1>2. EmissionInv => GhostsLeave
  BY <1>1 DEF GhostsLeave
<1> QED
  BY <1>2, EmissionInvariance, PTL

=============================================================================
