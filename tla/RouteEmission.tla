--------------------------- MODULE RouteEmission ---------------------------
(***************************************************************************)
(* The purpose of the controller, end to end: the routes of the running    *)
(* apps, as their route emitter repeats them over NATS, against what the   *)
(* subscriber and the address table make of them, in real time.            *)
(*                                                                         *)
(* The route emitter is another program.  It repeats every route in an     *)
(* interval of its own (the subscriber's start message asks for one of at  *)
(* most the resume delay, and nobody checks it); it may answer that        *)
(* message at once, and it sends an unregister message for an app it sees  *)
(* stop.  What it sends over a broken socket is lost.                      *)
(*                                                                         *)
(* The modules Subscriber and AddressTable let time pass at any moment.    *)
(* Here a clock step waits for what is due: goroutines take less than a    *)
(* clock step, and a broken socket is noticed within DetectionDelay.       *)
(* The controller may crash at any moment and is started again by monit.   *)
(***************************************************************************)
EXTENDS Subscriber

CONSTANTS Name,            \* the hostname of the apps, one app per ip
          EmitInterval,    \* how often the emitter repeats a route
          AnswersStart,    \* whether the emitter answers a start message at once
          DetectionDelay   \* how long the client may overlook a broken socket

VARIABLES alive,           \* the apps that run
          sinceEmit,       \* time since each one's route was last sent
          sinceBreak,      \* time since the socket broke
          registered,      \* history: apps this process has heard of in this life
          steady,          \* history: apps that could be heard since it subscribed
          deadFor,         \* history: time since each app stopped
          calmFor          \* history: time for which pruning has been allowed

history      == <<registered, steady, deadFor, calmFor>>
emissionVars == <<vars, alive, sinceEmit, sinceBreak, history>>

Register(ip) ==
  [subject |-> "register", json |-> TRUE, host |-> ip, uris |-> {Name}]
Unregister(ip) ==
  [subject |-> "unregister", json |-> TRUE, host |-> ip, uris |-> {Name}]

ASSUME EmissionAssumption ==
  /\ Name \in [label: Labels, dot: BOOLEAN]
  /\ \A ip \in IPs : Register(ip) \in Messages /\ Unregister(ip) \in Messages
  /\ EmitInterval \in Nat \ {0}
  /\ AnswersStart \in BOOLEAN
  /\ DetectionDelay \in Nat

\* What a configuration must satisfy for the emitter to keep up.  A route is
\* repeated before it is stale although an outage may be noticed late.  And
\* when pruning resumes after an outage, the routes have been repeated since,
\* or the next outage, which kept them away, has been noticed.
KeepsUp ==
  /\ EmitInterval + DetectionDelay <= StalenessThreshold
  /\ DetectionDelay + (IF AnswersStart THEN 0 ELSE EmitInterval) < ResumePruningDelay

RouteListed(ip) == Listed(fqdn(Name), ip)

-----------------------------------------------------------------------------
(* The apps and their route emitter.                                       *)

\* A message reaches its subscription, or nobody.
Send(m) ==
  \/ Deliver(m)
  \/ /\ ~(conn = "connected" /\ socket /\ m.subject \in subs)
     /\ UNCHANGED vars

Emit(ip) ==
  /\ ip \in alive
  /\ sinceEmit[ip] > 0
  /\ Send(Register(ip))
  /\ sinceEmit' = [sinceEmit EXCEPT ![ip] = 0]
  /\ UNCHANGED <<alive, sinceBreak, history>>

\* All routes are due when an emitter that answers hears a start message.
EmitterHears ==
  sinceEmit' = IF AnswersStart /\ ~announced /\ announced'
               THEN [ip \in IPs |-> EmitInterval] ELSE sinceEmit

\* A new app's route is due at once.
AppStarts(ip) ==
  /\ ip \notin alive
  /\ alive' = alive \cup {ip}
  /\ sinceEmit' = [sinceEmit EXCEPT ![ip] = EmitInterval]
  /\ deadFor' = [deadFor EXCEPT ![ip] = 0]
  /\ UNCHANGED <<vars, sinceBreak, registered, steady, calmFor>>

\* The emitter sees an app stop, or loses it together with its cell.
AppStops(ip) ==
  /\ ip \in alive
  /\ alive' = alive \ {ip}
  /\ registered' = registered \ {ip}
  /\ steady' = steady \ {ip}
  /\ Send(Unregister(ip)) \/ UNCHANGED vars
  /\ UNCHANGED <<sinceEmit, sinceBreak, deadFor, calmFor>>

-----------------------------------------------------------------------------
(* The controller.                                                         *)

\* The app a handled message names.
Heard(subject) ==
  {ip \in IPs : inbox[subject] # inbox'[subject] /\ Head(inbox[subject]).host = ip}

Handler ==
  /\ HandleRegister \/ HandleUnregister
  /\ registered' = (registered \cup (Heard("register") \cap alive)) \ Heard("unregister")
  /\ steady' = steady \ Heard("unregister")
  /\ UNCHANGED <<alive, sinceEmit, sinceBreak, deadFor, calmFor>>

\* When the subscription to the register messages is made, every running app
\* can be heard.
SubscriberRuns ==
  /\ RunOnce
  /\ steady' = IF "register" \in subs' \ subs /\ conn = "connected" /\ socket
               THEN alive ELSE steady
  /\ EmitterHears
  /\ UNCHANGED <<alive, sinceBreak, registered, deadFor, calmFor>>

Goroutines ==
  /\ Callback \/ WarmUp \/ TablePruner
  /\ calmFor' = IF pausedPruning' \/ sinceResume' < ResumePruningDelay THEN 0 ELSE calmFor
  /\ EmitterHears
  /\ UNCHANGED <<alive, sinceBreak, registered, steady, deadFor>>

NatsBreaks ==
  /\ SocketBreaks
  /\ sinceBreak' = 0
  /\ steady' = {}
  /\ UNCHANGED <<alive, sinceEmit, registered, deadFor, calmFor>>

NatsRecovers ==
  /\ LoseConnection \/ RegainConnection
  /\ EmitterHears
  /\ UNCHANGED <<alive, sinceBreak, history>>

\* The client gives up by itself: from now on no app is heard, and no outage
\* ends.
NatsCloses ==
  /\ UnexpectedClose
  /\ steady' = {}
  /\ UNCHANGED <<alive, sinceEmit, sinceBreak, registered, deadFor, calmFor>>

\* A crash, or the exit after an error, and a new process.
Restart ==
  /\ addresses' = <<>>
  /\ pausedPruning' = FALSE
  /\ sinceResume' = ResumePruningDelay
  /\ warm' = FALSE
  /\ ticker' = [left |-> PruningInterval, fired |-> FALSE, stopped |-> FALSE]
  /\ prunePc' = "wait"
  /\ staleAddresses' = {}
  /\ runPc' = "connect"
  /\ natsClient' = FALSE
  /\ warmTimer' = NotStarted
  /\ panicked' = FALSE
  /\ conn' = "none"
  /\ socket' = FALSE
  /\ callbacks' = <<>>
  /\ subs' = {}
  /\ inbox' = [s \in Subjects |-> <<>>]
  /\ pendingStart' = FALSE
  /\ announced' = FALSE
  /\ registered' = {}
  /\ steady' = {}
  /\ calmFor' = 0
  /\ UNCHANGED <<mainPc, alive, sinceEmit, sinceBreak, deadFor>>

-----------------------------------------------------------------------------
(* Time.                                                                   *)

UpTo(limit, t) == IF t < limit THEN t + 1 ELSE limit

\* Nothing that is due is left undone.
NothingDue ==
  /\ callbacks = <<>>
  /\ \A s \in Subjects : inbox[s] = <<>>
  /\ prunePc = "wait" /\ ~ticker.fired
  /\ warmTimer # WarmingDuration
  /\ \A ip \in alive : sinceEmit[ip] < EmitInterval
  /\ conn = "connected" /\ ~socket => sinceBreak < DetectionDelay

ClockTick ==
  /\ NothingDue
  /\ Tick
  /\ sinceEmit' = [ip \in IPs |-> UpTo(EmitInterval, sinceEmit[ip])]
  /\ sinceBreak' = UpTo(DetectionDelay, sinceBreak)
  /\ deadFor' = [ip \in IPs |->
                   IF ip \in alive THEN 0
                   ELSE UpTo(StalenessThreshold + PruningInterval + 1, deadFor[ip])]
  /\ calmFor' = IF pausedPruning \/ sinceResume' < ResumePruningDelay THEN 0
                ELSE UpTo(PruningInterval + 1, calmFor)
  /\ UNCHANGED <<alive, registered, steady>>

-----------------------------------------------------------------------------
EmissionInit ==
  /\ Init
  /\ alive \in SUBSET IPs
  /\ sinceEmit \in [IPs -> 0..EmitInterval]
  /\ sinceBreak = 0
  /\ registered = {}
  /\ steady = {}
  /\ deadFor = [ip \in IPs |-> 0]
  /\ calmFor = 0

EmissionNext ==
  \/ \E ip \in IPs : Emit(ip) \/ AppStarts(ip) \/ AppStops(ip)
  \/ SubscriberRuns \/ Handler \/ Goroutines
  \/ NatsBreaks \/ NatsRecovers \/ NatsCloses
  \/ Restart
  \/ ClockTick

EmissionSpec == EmissionInit /\ [][EmissionNext]_emissionVars

-----------------------------------------------------------------------------
(* Properties.                                                             *)

\* With durations the emitter can keep up with, the route of a running app
\* that the controller has heard of is answered without a gap: neither
\* pruning nor any sequence of outages, noticed late or overtaken by the
\* next one, takes it away, nor a client that closes for good.
LiveRoutesStay == KeepsUp => \A ip \in registered : RouteListed(ip)

\* The same from the condition the operator is told of (the job's spec on
\* route_emitter_interval_seconds: "This value should be less than the
\* staleness_threshold_seconds").
EmittedRoutesStay ==
  EmitInterval < StalenessThreshold => \A ip \in registered : RouteListed(ip)

\* If routes are emitted more often than the warming takes, a table that
\* calls itself warm has the route of every app that has been running since
\* the subscriber subscribed, unless NATS has failed since: also a controller
\* that was just restarted answers completely or not at all.
WarmTableComplete ==
  KeepsUp /\ EmitInterval < WarmingDuration /\ warm => \A ip \in steady : RouteListed(ip)

\* The route of a stopped app is gone StalenessThreshold + PruningInterval
\* after it stopped (the wait of main_test.go: "eventually removes stale
\* routes"), even if its messages are handled out of order or lost, provided
\* pruning has been allowed for one interval: a flapping connection delays
\* it by no more than that.
GhostsLeave ==
  \A ip \in IPs :
    deadFor[ip] > StalenessThreshold + PruningInterval /\ calmFor > PruningInterval =>
      ~RouteListed(ip)

=============================================================================
