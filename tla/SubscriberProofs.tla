-------------------------- MODULE SubscriberProofs --------------------------
(* Proofs about the subscriber, its client and the table they drive, for   *)
(* every set of hostnames, ips and messages, every configured duration and *)
(* every bound on the queues.                                              *)
EXTENDS Subscriber, AddressTableProofs

-----------------------------------------------------------------------------
(* The inductive invariant, in the parts the theorems need.                *)

Callbacks == {"disconnected", "reconnected", "sendStart", "closed"}

\* The types of everything but the queues.
FlagTypes ==
  /\ runPc \in RunPcs
  /\ natsClient \in BOOLEAN
  /\ warmTimer \in NotStarted..(WarmingDuration + 1)
  /\ mainPc \in {"running", "closed", "signalled"}
  /\ panicked \in BOOLEAN
  /\ conn \in {"none", "connected", "reconnecting", "closed"}
  /\ socket \in BOOLEAN
  /\ subs \subseteq Subjects
  /\ pendingStart \in BOOLEAN
  /\ announced \in BOOLEAN

InboxType == inbox \in [Subjects -> Seq(Messages)]

\* Only a client that is being closed queues callbacks past the bound, and it
\* does so once.
CallbacksType ==
  /\ callbacks \in Seq(Callbacks)
  /\ Len(callbacks) <= MaxCallbacks + 2
  /\ conn # "closed" => Len(callbacks) <= MaxCallbacks

LocalTypes == FlagTypes /\ InboxType /\ CallbacksType

\* How far RunOnce is tells whether there is a connection and a client.
RunFacts ==
  /\ natsClient <=> /\ runPc \notin {"connect", "assign"}
                    /\ runPc \in {"close", "failed"} => conn # "none"
  /\ conn = "none" => /\ runPc \in {"connect", "close", "failed"}
                      /\ callbacks = <<>>
                      /\ ~pausedPruning
  /\ runPc = "connect" => conn = "none"
  /\ conn \in {"none", "closed"} => subs = {}
  /\ runPc = "failed" => conn \in {"none", "closed"}
  /\ warmTimer # NotStarted => runPc \in {"ready", "stopped"}

\* The callbacks that pause and resume pruning.
PauseCallbacks == {"disconnected", "reconnected"}

NoSwitchAfter(k) == \A i \in (k + 1)..Len(callbacks) : callbacks[i] \notin PauseCallbacks

\* The last switch that waits agrees with the connection; if none waits,
\* pruning already does.
PauseFollows ==
  conn # "none" =>
    \/ NoSwitchAfter(0) /\ (pausedPruning <=> conn # "connected")
    \/ \E k \in DOMAIN callbacks :
         /\ callbacks[k] = IF conn = "connected" THEN "reconnected" ELSE "disconnected"
         /\ NoSwitchAfter(k)

\* A callback that ends in a start message waits.
StartWaits == \E k \in DOMAIN callbacks : callbacks[k] \in {"reconnected", "sendStart"}

\* A working connection without a start message has one on its way.
StartFollows ==
  runPc \in Announcing /\ conn = "connected" /\ socket => announced \/ StartWaits

SubInv ==
  /\ TableInv /\ LocalTypes /\ RunFacts /\ PauseFollows /\ StartFollows
  /\ LateReconnectsSend

-----------------------------------------------------------------------------
(* What the subscriber does to the table.                                  *)

\* The message a handler takes is one that may arrive.
LEMMA Received ==
  ASSUME InboxType, NEW s \in Subjects, inbox[s] # <<>>
  PROVE  Head(inbox[s]) \in RegistryMessage
<1>1. inbox[s] \in Seq(Messages)
  BY DEF InboxType
<1>2. Head(inbox[s]) \in Messages
  BY <1>1, HeadTailProperties
<1> QED
  BY <1>2, MessagesAssumption

\* A register handler adds hostnames at an ip, or leaves the table alone.
LEMMA RegisterUsesTable ==
  ASSUME InboxType, HandleRegister
  PROVE  [TableNext]_tableVars
<1>1. PICK m : m = Head(inbox["register"])
  OBVIOUS
<1>2. m \in RegistryMessage
  BY <1>1, Received DEF HandleRegister, Handles, Subjects
<1>3. CASE MalformedRegister(m)
  BY <1>1, <1>3 DEF HandleRegister
<1>4. CASE ~MalformedRegister(m)
  <2>1. m.uris \in HostnameLists /\ m.host \in IPs
    BY <1>2, <1>4 DEF MalformedRegister, RegistryMessage, HostnameLists
  <2>2. Add(m.uris, m.host)
    BY <1>1, <1>4 DEF HandleRegister
  <2> QED
    BY <2>1, <2>2 DEF TableNext
<1> QED
  BY <1>3, <1>4

\* An unregister handler removes hostnames at an ip, or leaves the table
\* alone: without a host there is nothing to remove.
LEMMA UnregisterUsesTable ==
  ASSUME TableInv, InboxType, HandleUnregister
  PROVE  [TableNext]_tableVars
<1>1. PICK m : m = Head(inbox["unregister"])
  OBVIOUS
<1>2. m \in RegistryMessage
  BY <1>1, Received DEF HandleUnregister, Handles, Subjects
<1>3. CASE MalformedUnregister(m)
  BY <1>1, <1>3 DEF HandleUnregister
<1>4. CASE ~MalformedUnregister(m)
  <2>1. m.uris \in HostnameLists
    BY <1>2, <1>4 DEF MalformedUnregister, RegistryMessage, HostnameLists
  <2>2. Remove(m.uris, m.host)
    BY <1>1, <1>4 DEF HandleUnregister
  <2>3. CASE m.host \in IPs
    BY <2>1, <2>2, <2>3 DEF TableNext
  <2>4. CASE m.host \notin IPs
    BY <2>2, <2>4, RemoveNothing DEF TableInv
  <2> QED
    BY <2>3, <2>4
<1> QED
  BY <1>3, <1>4

\* Every step uses the table by one of its operations, or not at all.
LEMMA StepUsesTable ==
  ASSUME TableInv, InboxType, [Next]_vars
  PROVE  [TableNext]_tableVars
<1>1. CASE RunOnce
  BY <1>1 DEF RunOnce, Connect, AssignClient, sendStartMessage, setupGreetMsgHandler,
              FlushGreet, setupAddressMessageHandler, StartWarmTimer, CloseAfterError,
              Subscribe, RunStep
<1>2. CASE StopRun
  BY <1>2 DEF StopRun, RunStep
<1>3. CASE WarmUp
  BY <1>3 DEF WarmUp, TableNext
<1>4. CASE Callback
  BY <1>4 DEF Callback, DisconnectHandler, ReconnectHandler, ReconnectSendsStart,
              ClosedHandler, TableNext
<1>5. CASE HandleGreet
  BY <1>5 DEF HandleGreet
<1>6. CASE HandleRegister
  BY <1>6, RegisterUsesTable
<1>7. CASE HandleUnregister
  BY <1>7, UnregisterUsesTable
<1>8. CASE StopSubscriber
  BY <1>8 DEF StopSubscriber
<1>9. CASE StopTable
  BY <1>9 DEF StopTable, TableNext
<1>10. CASE SocketBreaks \/ LoseConnection \/ RegainConnection \/ UnexpectedClose
  BY <1>10 DEF SocketBreaks, LoseConnection, RegainConnection, UnexpectedClose
<1>11. CASE \E m \in Messages : Deliver(m)
  BY <1>11 DEF Deliver
<1>12. CASE TablePruner
  BY <1>12 DEF TablePruner, Pruner, TableNext
<1>13. CASE Tick
  BY <1>13 DEF Tick, TableNext
<1>14. CASE UNCHANGED vars
  BY <1>14 DEF vars
<1> QED
  BY <1>1, <1>2, <1>3, <1>4, <1>5, <1>6, <1>7, <1>8, <1>9, <1>10, <1>11, <1>12, <1>13,
     <1>14 DEF Next

-----------------------------------------------------------------------------
(* Queues.                                                                 *)

\* A queue without its first element.
LEMMA QueueTail ==
  ASSUME NEW S, NEW q \in Seq(S), q # <<>>
  PROVE  /\ Head(q) = q[1] /\ Head(q) \in S
         /\ 1 \in DOMAIN q /\ DOMAIN q = 1..Len(q) /\ Len(q) \in Nat \ {0}
         /\ Tail(q) \in Seq(S) /\ Len(Tail(q)) = Len(q) - 1
         /\ DOMAIN Tail(q) = 1..(Len(q) - 1)
         /\ \A i \in 1..(Len(q) - 1) : Tail(q)[i] = q[i + 1]
BY HeadTailProperties, LenProperties, EmptySeq

\* A queue with its first element replaced.
LEMMA QueueReplace ==
  ASSUME NEW S, NEW q \in Seq(S), q # <<>>, NEW x \in S
  PROVE  /\ <<x>> \o Tail(q) \in Seq(S) /\ Len(<<x>> \o Tail(q)) = Len(q)
         /\ DOMAIN (<<x>> \o Tail(q)) = DOMAIN q
         /\ (<<x>> \o Tail(q))[1] = x
         /\ \A i \in 2..Len(q) : (<<x>> \o Tail(q))[i] = q[i]
<1>1. <<x>> \in Seq(S) /\ Len(<<x>>) = 1 /\ <<x>>[1] = x
  OBVIOUS
<1>2. PICK t \in Seq(S) : t = Tail(q)
  BY QueueTail
<1>3. PICK y \in Seq(S) : y = <<x>>
  BY <1>1
<1>4. /\ y \o t \in Seq(S) /\ Len(y \o t) = Len(y) + Len(t)
      /\ \A i \in 1..(Len(y) + Len(t)) :
           (y \o t)[i] = IF i <= Len(y) THEN y[i] ELSE t[i - Len(y)]
  BY ConcatProperties
<1>5. Len(q) \in Nat /\ Len(q) >= 1 /\ Len(t) = Len(q) - 1 /\ Len(y) = 1 /\ y[1] = x
  BY <1>1, <1>2, <1>3, QueueTail
<1>6. \A i \in 2..Len(q) : t[i - 1] = q[i]
  BY <1>2, <1>5, QueueTail
<1>7. Len(y \o t) = Len(q)
  BY <1>4, <1>5
<1>8. DOMAIN (y \o t) = DOMAIN q
  BY <1>4, <1>7, LenProperties
<1> QED
  BY <1>2, <1>3, <1>4, <1>5, <1>6, <1>8

\* A queue with one element more.
LEMMA QueueAppend ==
  ASSUME NEW S, NEW q \in Seq(S), NEW x \in S
  PROVE  /\ Append(q, x) \in Seq(S) /\ Len(Append(q, x)) = Len(q) + 1
         /\ DOMAIN q = 1..Len(q) /\ Len(q) \in Nat
         /\ DOMAIN Append(q, x) = 1..(Len(q) + 1)
         /\ Append(q, x)[Len(q) + 1] = x
         /\ \A i \in 1..Len(q) : Append(q, x)[i] = q[i]
BY AppendProperties, LenProperties

\* What closing appends to the queue of callbacks.
LEMMA CloseQueues ==
  ASSUME callbacks \in Seq(Callbacks), CloseClient
  PROVE  \/ conn \in {"none", "closed"} /\ UNCHANGED clientVars
         \/ /\ conn = "reconnecting" /\ conn' = "closed"
            /\ callbacks' = Append(callbacks, "closed")
         \/ /\ conn = "connected" /\ conn' = "closed"
            /\ callbacks' = Append(Append(callbacks, "disconnected"), "closed")
<1>1. callbacks \o <<"closed">> = Append(callbacks, "closed")
  OBVIOUS
<1>2. callbacks \o <<"disconnected", "closed">> = Append(Append(callbacks, "disconnected"), "closed")
  OBVIOUS
<1> QED
  BY <1>1, <1>2 DEF CloseClient

-----------------------------------------------------------------------------
(* Each part of the invariant is kept by every step.                       *)

\* The types of the flags are kept.
LEMMA FlagsStep ==
  ASSUME FlagTypes, [Next]_vars
  PROVE  FlagTypes'
<1>1a. CASE Connect
  BY <1>1a DEF FlagTypes, Connect, RunStep, RunPcs, clientVars
<1>1b. CASE AssignClient \/ FlushGreet
  BY <1>1b DEF FlagTypes, AssignClient, FlushGreet, RunStep, RunPcs, clientVars
<1>1c. CASE StartWarmTimer
  BY <1>1c, MessagesAssumption
     DEF FlagTypes, StartWarmTimer, RunStep, RunPcs, clientVars, NotStarted
<1>2. CASE sendStartMessage
  BY <1>2 DEF FlagTypes, sendStartMessage, RunStep, RunPcs, PublishStart
<1>3. CASE setupGreetMsgHandler \/ setupAddressMessageHandler
  BY <1>3 DEF FlagTypes, setupGreetMsgHandler, setupAddressMessageHandler, Subscribe,
              RunStep, RunPcs, Subjects
<1>4. CASE CloseAfterError \/ StopRun \/ StopSubscriber \/ UnexpectedClose
  <2>1. \/ CloseClient
        \/ UNCHANGED clientVars
    BY <1>4 DEF CloseAfterError, StopRun, StopSubscriber, UnexpectedClose
  <2>2. /\ conn' \in {"none", "connected", "reconnecting", "closed"}
        /\ socket' \in BOOLEAN
        /\ subs' \subseteq Subjects
        /\ pendingStart' \in BOOLEAN
        /\ announced' \in BOOLEAN
    BY <2>1 DEF FlagTypes, CloseClient, clientVars
  <2> QED
    BY <1>4, <2>2 DEF FlagTypes, CloseAfterError, StopRun, StopSubscriber, UnexpectedClose,
                      RunStep, RunPcs, runVars
<1>5. CASE WarmUp
  BY <1>5, MessagesAssumption DEF FlagTypes, WarmUp, NotStarted, clientVars
<1>6. CASE DisconnectHandler \/ ClosedHandler \/ ReconnectHandler
  BY <1>6 DEF FlagTypes, DisconnectHandler, ClosedHandler, ReconnectHandler, runVars
<1>7. CASE ReconnectSendsStart
  BY <1>7 DEF FlagTypes, ReconnectSendsStart, PublishStart, runVars
<1>8. CASE HandleGreet \/ HandleRegister \/ HandleUnregister
  BY <1>8 DEF FlagTypes, HandleGreet, HandleRegister, HandleUnregister, Handles, runVars
<1>9. CASE StopTable
  BY <1>9 DEF FlagTypes, StopTable, clientVars
<1>10. CASE SocketBreaks \/ LoseConnection \/ RegainConnection
  BY <1>10 DEF FlagTypes, SocketBreaks, LoseConnection, RegainConnection, runVars
<1>11. CASE \E m \in Messages : Deliver(m)
  BY <1>11 DEF FlagTypes, Deliver, runVars
<1>12. CASE TablePruner \/ UNCHANGED vars
  BY <1>12 DEF FlagTypes, TablePruner, vars, subVars, runVars, clientVars
<1>13. CASE Tick
  BY <1>13, MessagesAssumption DEF FlagTypes, Tick, NotStarted, clientVars
<1> QED
  BY <1>1a, <1>1b, <1>1c, <1>2, <1>3, <1>4, <1>5, <1>6, <1>7, <1>8, <1>9, <1>10, <1>11,
     <1>12, <1>13 DEF Next, RunOnce, Callback

\* The subscriptions hold messages that may arrive.
LEMMA InboxStep ==
  ASSUME FlagTypes, InboxType, [Next]_vars
  PROVE  InboxType'
<1>1. ASSUME CloseClient
      PROVE  InboxType'
  <2>1. \A s \in Subjects : Front(inbox[s]) \in Seq(Messages) /\ <<>> \in Seq(Messages)
    <3> TAKE s \in Subjects
    <3>1. inbox[s] \in Seq(Messages)
      BY DEF InboxType
    <3>2. inbox[s] # <<>> => Head(inbox[s]) \in Messages
      BY <3>1, HeadTailProperties
    <3> QED
      BY <3>2 DEF Front
  <2> QED
    BY <1>1, <2>1 DEF CloseClient, clientVars, InboxType
<1>2. ASSUME NEW s \in Subjects, Handles(s)
      PROVE  InboxType'
  <2>1. inbox[s] \in Seq(Messages) /\ inbox[s] # <<>>
    BY <1>2 DEF InboxType, Handles
  <2>2. Tail(inbox[s]) \in Seq(Messages)
    BY <2>1, QueueTail
  <2> QED
    BY <1>2, <2>2 DEF InboxType, Handles
<1>3. ASSUME NEW m \in Messages, Deliver(m)
      PROVE  InboxType'
  <2>1. m.subject \in Subjects
    BY <1>3 DEF Deliver, FlagTypes
  <2>2. inbox[m.subject] \in Seq(Messages)
    BY <2>1 DEF InboxType
  <2>3. Append(inbox[m.subject], m) \in Seq(Messages)
    BY <2>2, QueueAppend
  <2> QED
    BY <1>3, <2>1, <2>3 DEF Deliver, InboxType
<1>4. CASE CloseAfterError \/ StopRun \/ StopSubscriber \/ UnexpectedClose
  BY <1>1, <1>4 DEF CloseAfterError, StopRun, StopSubscriber, UnexpectedClose, clientVars,
                    InboxType
<1>5. CASE HandleGreet \/ HandleRegister \/ HandleUnregister
  BY <1>2, <1>5 DEF HandleGreet, HandleRegister, HandleUnregister, Subjects
<1>6. CASE UNCHANGED inbox
  BY <1>6 DEF InboxType
<1>7. CASE Connect \/ AssignClient \/ sendStartMessage \/ setupGreetMsgHandler \/ FlushGreet
           \/ setupAddressMessageHandler \/ StartWarmTimer
  BY <1>6, <1>7 DEF Connect, AssignClient, sendStartMessage, setupGreetMsgHandler, FlushGreet,
                    setupAddressMessageHandler, StartWarmTimer, Subscribe, clientVars
<1>8. CASE WarmUp \/ Callback \/ StopTable \/ SocketBreaks \/ LoseConnection
           \/ RegainConnection \/ TablePruner \/ Tick \/ UNCHANGED vars
  BY <1>6, <1>8 DEF WarmUp, Callback, DisconnectHandler, ClosedHandler, ReconnectHandler,
                    ReconnectSendsStart, StopTable, SocketBreaks, LoseConnection,
                    RegainConnection, TablePruner, Tick, clientVars, vars, subVars
<1> QED
  BY <1>3, <1>4, <1>5, <1>7, <1>8 DEF Next, RunOnce

-----------------------------------------------------------------------------
(* What a step may do to the connection, its callbacks and the pause.      *)

Keeps == UNCHANGED <<conn, callbacks, pausedPruning>>

Connects ==
  /\ runPc = "connect" /\ conn' = "connected"
  /\ UNCHANGED <<callbacks, pausedPruning>>

\* An outage, or its end, with the callback it queues.
Switches(from, to, callback) ==
  /\ conn = from /\ conn' = to
  /\ Len(callbacks) < MaxCallbacks
  /\ callbacks' = Append(callbacks, callback)
  /\ UNCHANGED pausedPruning

Closes ==
  /\ conn' = "closed" /\ UNCHANGED pausedPruning
  /\ \/ conn = "reconnecting" /\ callbacks' = Append(callbacks, "closed")
     \/ /\ conn = "connected"
        /\ callbacks' = Append(Append(callbacks, "disconnected"), "closed")

\* A callback runs: the first half of the reconnect handler leaves the second.
Runs ==
  /\ callbacks # <<>> /\ UNCHANGED conn
  /\ \/ /\ Head(callbacks) = "disconnected"
        /\ callbacks' = Tail(callbacks) /\ pausedPruning' = TRUE
     \/ /\ Head(callbacks) = "reconnected"
        /\ callbacks' = <<"sendStart">> \o Tail(callbacks) /\ pausedPruning' = FALSE
     \/ /\ Head(callbacks) \in {"sendStart", "closed"}
        /\ callbacks' = Tail(callbacks) /\ UNCHANGED pausedPruning

\* Every step is one of these.
LEMMA ConnectionSteps ==
  ASSUME CallbacksType, [Next]_vars
  PROVE  \/ Keeps \/ Connects \/ Closes \/ Runs
         \/ Switches("connected", "reconnecting", "disconnected")
         \/ Switches("reconnecting", "connected", "reconnected")
<1>1. CASE Connect
  BY <1>1 DEF Connect, RunStep, Keeps, Connects, clientVars, tableVars
<1>2. CASE AssignClient \/ sendStartMessage \/ setupGreetMsgHandler \/ FlushGreet
           \/ setupAddressMessageHandler \/ StartWarmTimer
  BY <1>2 DEF AssignClient, sendStartMessage, setupGreetMsgHandler, FlushGreet,
              setupAddressMessageHandler, StartWarmTimer, Subscribe, RunStep, Keeps,
              clientVars, tableVars
<1>3. CASE CloseAfterError \/ StopRun \/ StopSubscriber \/ UnexpectedClose
  <2>1. UNCHANGED tableVars /\ (CloseClient \/ UNCHANGED clientVars)
    BY <1>3 DEF CloseAfterError, StopRun, StopSubscriber, UnexpectedClose, RunStep
  <2>2. CloseClient => Closes \/ Keeps
    BY <2>1, CloseQueues DEF CallbacksType, Closes, Keeps, clientVars, tableVars
  <2> QED
    BY <2>1, <2>2 DEF Keeps, clientVars, tableVars
<1>4. CASE WarmUp
  BY <1>4 DEF WarmUp, SetWarm, Keeps, clientVars
<1>5. CASE Callback
  BY <1>5 DEF Callback, DisconnectHandler, ReconnectHandler, ReconnectSendsStart,
              ClosedHandler, Running, PausePruning, ResumePruning, Runs, Keeps, tableVars
<1>6. CASE HandleGreet \/ HandleRegister \/ HandleUnregister
  BY <1>6 DEF HandleGreet, HandleRegister, HandleUnregister, Handles, Add, Remove, Keeps,
              tableVars
<1>7. CASE StopTable
  BY <1>7 DEF StopTable, Shutdown, fieldVars, Keeps, clientVars
<1>8. CASE SocketBreaks \/ LoseConnection \/ RegainConnection
  BY <1>8 DEF SocketBreaks, LoseConnection, RegainConnection, Keeps, Switches, tableVars
<1>9. CASE \E m \in Messages : Deliver(m)
  BY <1>9 DEF Deliver, Keeps, tableVars
<1>10. CASE TablePruner
  BY <1>10 DEF TablePruner, Pruner, PruneCheck, FindStale, PruneStale, fieldVars, subVars,
               clientVars, Keeps
<1>11. CASE Tick
  BY <1>11 DEF Tick, TableTick, Keeps, clientVars
<1>12. CASE UNCHANGED vars
  BY <1>12 DEF vars, subVars, clientVars, tableVars, Keeps
<1> QED
  BY <1>1, <1>2, <1>3, <1>4, <1>5, <1>6, <1>7, <1>8, <1>9, <1>10, <1>11, <1>12
     DEF Next, RunOnce

\* The queue of callbacks stays within its bounds.
LEMMA CallbacksStep ==
  ASSUME CallbacksType, RunFacts, [Next]_vars
  PROVE  CallbacksType'
<1>1. callbacks \in Seq(Callbacks) /\ Len(callbacks) \in Nat /\ MaxCallbacks \in Nat
  BY MessagesAssumption, LenProperties DEF CallbacksType
<1>2. \A q \in Seq(Callbacks), x \in Callbacks :
        Append(q, x) \in Seq(Callbacks) /\ Len(Append(q, x)) = Len(q) + 1
  BY QueueAppend
<1>3. \A c \in {"disconnected", "reconnected", "sendStart", "closed"} : c \in Callbacks
  BY DEF Callbacks
<1>4. CASE Keeps
  BY <1>4 DEF Keeps, CallbacksType
<1>5. CASE Connects
  BY <1>5 DEF Connects, RunFacts, CallbacksType
<1>6. CASE Closes
  <2>1. Len(callbacks) <= MaxCallbacks
    BY <1>6 DEF Closes, CallbacksType
  <2>2. callbacks' \in Seq(Callbacks) /\ Len(callbacks') <= MaxCallbacks + 2
    BY <2>1, <1>1, <1>2, <1>3, <1>6 DEF Closes
  <2> QED
    BY <2>2, <1>6 DEF Closes, CallbacksType
<1>7. CASE Runs
  <2>1. PICK t \in Seq(Callbacks) : t = Tail(callbacks) /\ Len(t) = Len(callbacks) - 1
    BY <1>1, <1>7, QueueTail DEF Runs
  <2>2. PICK u \in Seq(Callbacks) :
          u = <<"sendStart">> \o Tail(callbacks) /\ Len(u) = Len(callbacks)
    BY <1>1, <1>3, <1>7, QueueReplace DEF Runs
  <2>3. UNCHANGED conn /\ callbacks' \in {t, u}
    BY <1>7, <2>1, <2>2 DEF Runs
  <2>4. callbacks' \in Seq(Callbacks) /\ Len(callbacks') \in {Len(callbacks) - 1, Len(callbacks)}
    BY <2>1, <2>2, <2>3
  <2> QED
    BY <1>1, <2>3, <2>4 DEF CallbacksType
<1>8. CASE \/ Switches("connected", "reconnecting", "disconnected")
           \/ Switches("reconnecting", "connected", "reconnected")
  <2>1. callbacks' \in Seq(Callbacks) /\ Len(callbacks') = Len(callbacks) + 1
    BY <1>1, <1>2, <1>3, <1>8 DEF Switches
  <2>2. Len(callbacks) < MaxCallbacks
    BY <1>8 DEF Switches
  <2> QED
    BY <1>1, <2>1, <2>2 DEF CallbacksType
<1> QED
  BY <1>4, <1>5, <1>6, <1>7, <1>8, ConnectionSteps

\* How far RunOnce is keeps telling what there is.
LEMMA RunFactsStep ==
  ASSUME FlagTypes, CallbacksType, RunFacts, [Next]_vars
  PROVE  RunFacts'
<1>1. CASE Connect
  BY <1>1 DEF Connect, RunStep, RunFacts, clientVars, tableVars
<1>2. CASE AssignClient \/ FlushGreet
  BY <1>2 DEF AssignClient, FlushGreet, RunStep, RunFacts, clientVars, tableVars
<1>3. CASE sendStartMessage
  BY <1>3 DEF sendStartMessage, RunStep, RunFacts, tableVars
<1>4. CASE setupGreetMsgHandler \/ setupAddressMessageHandler
  BY <1>4 DEF setupGreetMsgHandler, setupAddressMessageHandler, Subscribe, RunStep, RunFacts,
              tableVars
<1>5. CASE StartWarmTimer
  BY <1>5 DEF StartWarmTimer, RunStep, RunFacts, clientVars, tableVars
<1>6. CASE CloseAfterError
  BY <1>6 DEF CloseAfterError, CloseClient, RunStep, RunFacts, FlagTypes, clientVars, tableVars
<1>7. CASE StopRun
  BY <1>7 DEF StopRun, CloseClient, RunStep, RunFacts, FlagTypes, clientVars, tableVars
<1>8. CASE WarmUp
  BY <1>8, MessagesAssumption DEF WarmUp, SetWarm, RunFacts, clientVars, NotStarted
<1>9. CASE Callback
  <2>1. conn # "none"
    BY <1>9 DEF Callback, DisconnectHandler, ReconnectHandler, ReconnectSendsStart,
                ClosedHandler, Running, RunFacts
  <2> QED
    BY <1>9, <2>1 DEF Callback, DisconnectHandler, ReconnectHandler, ReconnectSendsStart,
                      ClosedHandler, RunFacts, runVars
<1>10. CASE HandleGreet \/ HandleRegister \/ HandleUnregister
  BY <1>10 DEF HandleGreet, HandleRegister, HandleUnregister, Handles, Add, Remove, RunFacts,
               runVars, tableVars
<1>11. CASE StopSubscriber \/ UnexpectedClose
  BY <1>11 DEF StopSubscriber, UnexpectedClose, CloseClient, RunFacts, FlagTypes, runVars,
               clientVars, tableVars
<1>12. CASE StopTable
  BY <1>12 DEF StopTable, Shutdown, fieldVars, RunFacts, clientVars
<1>13. CASE SocketBreaks \/ LoseConnection \/ RegainConnection
  BY <1>13 DEF SocketBreaks, LoseConnection, RegainConnection, RunFacts, runVars, tableVars
<1>14. CASE \E m \in Messages : Deliver(m)
  BY <1>14 DEF Deliver, RunFacts, runVars, tableVars
<1>15. CASE TablePruner
  BY <1>15 DEF TablePruner, Pruner, PruneCheck, FindStale, PruneStale, fieldVars, subVars,
               runVars, clientVars, RunFacts
<1>16. CASE Tick
  BY <1>16 DEF Tick, TableTick, RunFacts, clientVars, NotStarted
<1>17. CASE UNCHANGED vars
  BY <1>17 DEF vars, subVars, runVars, clientVars, tableVars, RunFacts
<1> QED
  BY <1>1, <1>2, <1>3, <1>4, <1>5, <1>6, <1>7, <1>8, <1>9, <1>10, <1>11, <1>12, <1>13,
     <1>14, <1>15, <1>16, <1>17 DEF Next, RunOnce

\* The pause keeps following the connection, through the waiting callbacks.
LEMMA PauseStep ==
  ASSUME CallbacksType, RunFacts, PauseFollows, [Next]_vars
  PROVE  PauseFollows'
<1>1. /\ callbacks \in Seq(Callbacks) /\ Len(callbacks) \in Nat
      /\ DOMAIN callbacks = 1..Len(callbacks)
  BY LenProperties DEF CallbacksType
<1>2. \A c \in {"disconnected", "reconnected", "sendStart", "closed"} : c \in Callbacks
  BY DEF Callbacks
<1>3. CASE Keeps
  BY <1>3 DEF Keeps, PauseFollows, NoSwitchAfter
<1>4. CASE Connects
  <2>1. callbacks' = <<>> /\ ~pausedPruning' /\ conn' = "connected"
    BY <1>4 DEF Connects, RunFacts
  <2>2. Len(callbacks') = 0
    BY <2>1
  <2> QED
    BY <2>1, <2>2 DEF PauseFollows, NoSwitchAfter
<1>5. ASSUME NEW from, NEW to, NEW callback \in Callbacks, Switches(from, to, callback),
             callback = IF to = "connected" THEN "reconnected" ELSE "disconnected"
      PROVE  PauseFollows'
  <2>1. PICK k : k = Len(callbacks) + 1
    OBVIOUS
  <2>2. PICK q : q = Append(callbacks, callback)
    OBVIOUS
  <2>3. DOMAIN q = 1..k /\ Len(q) = k /\ q[k] = callback
    BY <1>1, <1>5, <2>1, <2>2, QueueAppend
  <2>4. callbacks' = q /\ conn' = to
    BY <1>5, <2>2 DEF Switches
  <2> QED
    BY <1>1, <1>5, <2>1, <2>3, <2>4 DEF PauseFollows, NoSwitchAfter
<1>6. CASE Closes
  <2>1. PICK n \in Nat : n = Len(callbacks)
    BY <1>1
  <2>2. conn' = "closed" /\ UNCHANGED pausedPruning
    BY <1>6 DEF Closes
  <2>3. CASE conn = "connected"
    <3>1. PICK p \in Seq(Callbacks) : p = Append(callbacks, "disconnected")
      BY <1>1, <1>2, QueueAppend
    <3>2. DOMAIN p = 1..(n + 1) /\ Len(p) = n + 1 /\ p[n + 1] = "disconnected"
      BY <1>1, <1>2, <2>1, <3>1, QueueAppend
    <3>3. PICK q \in Seq(Callbacks) : q = Append(p, "closed")
      BY <1>2, QueueAppend
    <3>4. /\ DOMAIN q = 1..(n + 2) /\ Len(q) = n + 2
          /\ q[n + 1] = "disconnected" /\ q[n + 2] = "closed"
      BY <1>2, <3>2, <3>3, QueueAppend
    <3>5. callbacks' = q
      BY <1>6, <2>3, <3>1, <3>3 DEF Closes
    <3>6. NoSwitchAfter(n + 1)'
      BY <3>4, <3>5 DEF NoSwitchAfter, PauseCallbacks
    <3> QED
      BY <2>2, <3>4, <3>5, <3>6 DEF PauseFollows
  <2>4. CASE conn = "reconnecting"
    <3>1. PICK q \in Seq(Callbacks) : q = Append(callbacks, "closed")
      BY <1>1, <1>2, QueueAppend
    <3>2. /\ DOMAIN q = 1..(n + 1) /\ Len(q) = n + 1
          /\ q[n + 1] = "closed" /\ \A i \in 1..n : q[i] = callbacks[i]
      BY <1>1, <1>2, <2>1, <3>1, QueueAppend
    <3>3. callbacks' = q
      BY <1>6, <2>4, <3>1 DEF Closes
    <3>4. ASSUME NEW k \in 0..n, NoSwitchAfter(k)
          PROVE  NoSwitchAfter(k)'
      BY <2>1, <3>2, <3>3, <3>4 DEF NoSwitchAfter, PauseCallbacks
    <3> QED
      BY <1>1, <2>1, <2>2, <2>4, <3>2, <3>3, <3>4 DEF PauseFollows
  <2> QED
    BY <1>6, <2>3, <2>4 DEF Closes
<1>7. CASE Runs
  <2>1. PICK n \in Nat \ {0} : n = Len(callbacks)
    BY <1>1, <1>7, QueueTail DEF Runs
  <2>2. callbacks # <<>> /\ UNCHANGED conn
    BY <1>7 DEF Runs
  <2>3. callbacks[1] = Head(callbacks)
    BY <1>1, <2>2, QueueTail
  <2>4. CASE Head(callbacks) = "reconnected"
    <3>1. PICK q : q = <<"sendStart">> \o Tail(callbacks)
      OBVIOUS
    <3>2. /\ DOMAIN q = 1..n /\ Len(q) = n
          /\ q[1] = "sendStart" /\ \A i \in 2..n : q[i] = callbacks[i]
      BY <1>1, <1>2, <2>1, <2>2, <3>1, QueueReplace
    <3>3. callbacks' = q /\ ~pausedPruning'
      BY <1>7, <2>4, <3>1 DEF Runs
    <3>4. ASSUME NEW k \in 1..n, NoSwitchAfter(k)
          PROVE  NoSwitchAfter(k)'
      BY <2>1, <3>2, <3>3, <3>4 DEF NoSwitchAfter, PauseCallbacks
    <3>5. NoSwitchAfter(1) => NoSwitchAfter(0)'
      BY <2>1, <3>2, <3>3 DEF NoSwitchAfter, PauseCallbacks
    <3>6. ~NoSwitchAfter(0)
      BY <2>1, <2>3, <2>4 DEF NoSwitchAfter, PauseCallbacks
    <3> QED
      BY <1>1, <2>1, <2>2, <2>3, <2>4, <3>2, <3>3, <3>4, <3>5, <3>6 DEF PauseFollows
  <2>5. CASE Head(callbacks) # "reconnected"
    <3>1. PICK q : q = Tail(callbacks)
      OBVIOUS
    <3>2. /\ DOMAIN q = 1..(n - 1) /\ Len(q) = n - 1
          /\ \A i \in 1..(n - 1) : q[i] = callbacks[i + 1]
      BY <1>1, <2>1, <2>2, <3>1, QueueTail
    <3>3. callbacks' = q
      BY <1>7, <2>5, <3>1 DEF Runs
    <3>4. ASSUME NEW k \in 1..n, NoSwitchAfter(k)
          PROVE  NoSwitchAfter(k - 1)'
      BY <2>1, <3>2, <3>3, <3>4 DEF NoSwitchAfter
    <3>5. CASE Head(callbacks) = "disconnected"
      <4>1. pausedPruning'
        BY <1>7, <3>5 DEF Runs
      <4>2. ~NoSwitchAfter(0)
        BY <2>1, <2>3, <3>5 DEF NoSwitchAfter, PauseCallbacks
      <4> QED
        BY <1>1, <2>1, <2>2, <2>3, <3>2, <3>3, <3>4, <3>5, <4>1, <4>2 DEF PauseFollows
    <3>6. CASE Head(callbacks) # "disconnected"
      <4>1. UNCHANGED pausedPruning
        BY <1>7, <2>5, <3>6 DEF Runs
      <4>2. NoSwitchAfter(0) => NoSwitchAfter(0)'
        BY <2>1, <3>2, <3>3 DEF NoSwitchAfter
      <4> QED
        BY <1>1, <2>1, <2>2, <2>3, <2>5, <3>2, <3>3, <3>4, <3>6, <4>1, <4>2 DEF PauseFollows
    <3> QED
      BY <3>5, <3>6
  <2> QED
    BY <2>4, <2>5
<1> QED
  BY <1>2, <1>3, <1>4, <1>5, <1>6, <1>7, ConnectionSteps

\* A start message stays on its way until it is sent.
LEMMA StartStep ==
  ASSUME FlagTypes, CallbacksType, StartFollows, [Next]_vars
  PROVE  StartFollows'
<1>1. /\ callbacks \in Seq(Callbacks) /\ Len(callbacks) \in Nat
      /\ DOMAIN callbacks = 1..Len(callbacks)
  BY LenProperties DEF CallbacksType
<1>2. CASE Connect \/ AssignClient
  <2>1. runPc' \notin Announcing
    BY <1>2 DEF Connect, AssignClient, RunStep, Announcing
  <2> QED
    BY <2>1 DEF StartFollows
<1>3. CASE sendStartMessage
  BY <1>3 DEF sendStartMessage, RunStep, PublishStart, StartFollows, Announcing
<1>4. CASE setupGreetMsgHandler \/ setupAddressMessageHandler \/ FlushGreet \/ StartWarmTimer
  <2>1. runPc \in Announcing /\ UNCHANGED <<conn, socket, callbacks, announced>>
    BY <1>4 DEF setupGreetMsgHandler, setupAddressMessageHandler, FlushGreet, StartWarmTimer,
                Subscribe, RunStep, Announcing, clientVars
  <2> QED
    BY <2>1 DEF StartFollows, StartWaits
<1>5. CASE CloseAfterError \/ StopRun
  <2>1. runPc' \notin Announcing
    BY <1>5 DEF CloseAfterError, StopRun, RunStep, Announcing
  <2> QED
    BY <2>1 DEF StartFollows
<1>6. CASE StopSubscriber \/ UnexpectedClose
  <2>1. \/ conn' = "closed"
        \/ UNCHANGED <<runPc, conn, socket, callbacks, announced>>
    BY <1>6 DEF StopSubscriber, UnexpectedClose, CloseClient, runVars, clientVars
  <2> QED
    BY <2>1 DEF StartFollows, StartWaits
<1>7. CASE DisconnectHandler \/ ClosedHandler
  <2>1. /\ callbacks # <<>> /\ callbacks' = Tail(callbacks)
        /\ Head(callbacks) \in {"disconnected", "closed"}
        /\ UNCHANGED <<runPc, conn, socket, announced>>
    BY <1>7 DEF DisconnectHandler, ClosedHandler, Running, runVars
  <2>2. PICK q : q = Tail(callbacks)
    OBVIOUS
  <2>3. PICK n \in Nat \ {0} : /\ n = Len(callbacks) /\ DOMAIN q = 1..(n - 1)
                                /\ \A i \in 1..(n - 1) : q[i] = callbacks[i + 1]
    BY <1>1, <2>1, <2>2, QueueTail
  <2>4. callbacks[1] \in {"disconnected", "closed"}
    BY <1>1, <2>1, QueueTail
  <2>5. StartWaits => StartWaits'
    <3> SUFFICES ASSUME NEW k \in 1..n, callbacks[k] \in {"reconnected", "sendStart"}
                 PROVE  \E j \in 1..(n - 1) : q[j] \in {"reconnected", "sendStart"}
      BY <1>1, <2>1, <2>2, <2>3 DEF StartWaits
    <3>1. k - 1 \in 1..(n - 1) /\ (k - 1) + 1 = k
      BY <2>4
    <3> QED
      BY <2>3, <3>1
  <2> QED
    BY <2>1, <2>5 DEF StartFollows
<1>8. CASE ReconnectHandler
  <2>1. callbacks # <<>> /\ callbacks' = <<"sendStart">> \o Tail(callbacks)
    BY <1>8 DEF ReconnectHandler, Running
  <2>2. PICK q : q = <<"sendStart">> \o Tail(callbacks)
    OBVIOUS
  <2>3. "sendStart" \in Callbacks
    BY DEF Callbacks
  <2>4. 1 \in DOMAIN callbacks
    BY <1>1, <2>1, QueueTail
  <2>5. 1 \in DOMAIN q /\ q[1] = "sendStart"
    BY <1>1, <2>1, <2>2, <2>3, <2>4, QueueReplace
  <2> QED
    BY <2>1, <2>2, <2>5 DEF StartFollows, StartWaits
<1>9. CASE ReconnectSendsStart
  <2>1. UNCHANGED <<runPc, conn, socket>>
    BY <1>9 DEF ReconnectSendsStart, runVars
  <2>2. CASE natsClient
    <3>1. conn = "connected" /\ socket => announced'
      BY <1>9, <2>2 DEF ReconnectSendsStart, PublishStart
    <3> QED
      BY <2>1, <3>1 DEF StartFollows
  <2>3. CASE ~natsClient
    BY <1>9, <2>1, <2>3 DEF ReconnectSendsStart, StartFollows, StartWaits
  <2> QED
    BY <2>2, <2>3
<1>10. CASE HandleGreet \/ HandleRegister \/ HandleUnregister
  BY <1>10 DEF HandleGreet, HandleRegister, HandleUnregister, Handles, StartFollows,
               StartWaits, runVars
<1>11. CASE SocketBreaks \/ LoseConnection
  BY <1>11 DEF SocketBreaks, LoseConnection, StartFollows
<1>12. CASE RegainConnection
  <2>1. PICK q : q = Append(callbacks, "reconnected")
    OBVIOUS
  <2>2. "reconnected" \in Callbacks
    BY DEF Callbacks
  <2>3. Len(callbacks) + 1 \in DOMAIN q /\ q[Len(callbacks) + 1] = "reconnected"
    BY <1>1, <2>1, <2>2, QueueAppend
  <2> QED
    BY <1>12, <2>1, <2>3 DEF RegainConnection, StartFollows, StartWaits
<1>13. CASE \E m \in Messages : Deliver(m)
  BY <1>13 DEF Deliver, StartFollows, StartWaits, runVars
<1>14. CASE WarmUp \/ StopTable \/ TablePruner \/ Tick \/ UNCHANGED vars
  BY <1>14 DEF WarmUp, StopTable, TablePruner, Tick, vars, subVars, runVars, clientVars,
               StartFollows, StartWaits
<1> QED
  BY <1>2, <1>3, <1>4, <1>5, <1>6, <1>7, <1>8, <1>9, <1>10, <1>11, <1>12, <1>13, <1>14
     DEF Next, RunOnce, Callback

\* A callback runs only when there is a connection, and then the client is
\* missing at one place only; after a panic nothing happens.
LEMMA PanicStep ==
  ASSUME RunFacts, LateReconnectsSend, [Next]_vars
  PROVE  LateReconnectsSend'
<1>1. CASE ReconnectSendsStart
  <2>1. UNCHANGED runPc
    BY <1>1 DEF ReconnectSendsStart, runVars
  <2>2. CASE natsClient
    BY <1>1, <2>1, <2>2 DEF ReconnectSendsStart, LateReconnectsSend
  <2>3. CASE ~natsClient
    <3>1. conn # "none"
      BY <1>1 DEF ReconnectSendsStart, Running, RunFacts
    <3>2. runPc = "assign"
      BY <2>3, <3>1 DEF RunFacts
    <3> QED
      BY <2>1, <3>2 DEF LateReconnectsSend
  <2> QED
    BY <2>2, <2>3
<1>2. CASE UNCHANGED vars
  BY <1>2 DEF vars, subVars, runVars, LateReconnectsSend
<1>3. CASE Next /\ ~ReconnectSendsStart
  <2>1. ~panicked /\ UNCHANGED panicked
    <3>1. CASE RunOnce \/ StopRun
      BY <3>1 DEF RunOnce, Connect, AssignClient, sendStartMessage, setupGreetMsgHandler,
                  FlushGreet, setupAddressMessageHandler, StartWarmTimer, CloseAfterError,
                  StopRun, Subscribe, RunStep
    <3>2. CASE WarmUp \/ DisconnectHandler \/ ReconnectHandler \/ ClosedHandler
      BY <3>2 DEF WarmUp, DisconnectHandler, ReconnectHandler, ClosedHandler, Running
    <3>3. CASE HandleGreet \/ HandleRegister \/ HandleUnregister
      BY <3>3 DEF HandleGreet, HandleRegister, HandleUnregister, Handles
    <3>4. CASE StopSubscriber \/ StopTable \/ Tick \/ TablePruner
      BY <3>4 DEF StopSubscriber, StopTable, Tick, TablePruner, subVars
    <3>5. CASE SocketBreaks \/ LoseConnection \/ RegainConnection \/ UnexpectedClose
      BY <3>5 DEF SocketBreaks, LoseConnection, RegainConnection, UnexpectedClose
    <3>6. CASE \E m \in Messages : Deliver(m)
      BY <3>6 DEF Deliver
    <3> QED
      BY <1>3, <3>1, <3>2, <3>3, <3>4, <3>5, <3>6 DEF Next, Callback
  <2> QED
    BY <2>1 DEF LateReconnectsSend
<1> QED
  BY <1>1, <1>2, <1>3

-----------------------------------------------------------------------------
(* The theorems.                                                           *)

\* The invariant holds before RunOnce.
LEMMA SubInitInv == Init => SubInv
<1> SUFFICES ASSUME Init PROVE SubInv
  OBVIOUS
<1>1. TableInv
  BY TableInitInv DEF Init
<1>2. FlagTypes
  <2>1. warmTimer \in NotStarted..(WarmingDuration + 1)
    BY MessagesAssumption DEF Init, NotStarted
  <2>2. runPc \in RunPcs
    BY DEF Init, RunPcs
  <2>3. natsClient \in BOOLEAN /\ panicked \in BOOLEAN /\ socket \in BOOLEAN
    BY DEF Init
  <2>4. pendingStart \in BOOLEAN /\ announced \in BOOLEAN
    BY DEF Init
  <2> QED
    BY <2>1, <2>2, <2>3, <2>4 DEF Init, FlagTypes
<1>3. InboxType
  BY DEF Init, InboxType
<1>4. CallbacksType
  BY MessagesAssumption DEF Init, CallbacksType
<1>5. RunFacts
  BY DEF Init, TableInit, RunFacts
<1>6. PauseFollows /\ StartFollows /\ LateReconnectsSend
  BY DEF Init, PauseFollows, StartFollows, LateReconnectsSend
<1> QED
  BY <1>1, <1>2, <1>3, <1>4, <1>5, <1>6 DEF SubInv, LocalTypes

\* Every step keeps it.
LEMMA SubNextInv == SubInv /\ [Next]_vars => SubInv'
<1> SUFFICES ASSUME SubInv, [Next]_vars PROVE SubInv'
  OBVIOUS
<1> USE DEF SubInv, LocalTypes
<1>1. TableInv'
  BY StepUsesTable, TableNextInv
<1>2. FlagTypes' /\ InboxType' /\ CallbacksType'
  BY FlagsStep, InboxStep, CallbacksStep
<1>3. RunFacts' /\ PauseFollows' /\ StartFollows' /\ LateReconnectsSend'
  BY RunFactsStep, PauseStep, StartStep, PanicStep
<1> QED
  BY <1>1, <1>2, <1>3

LEMMA SubInvariance == Spec => []SubInv
  BY SubInitInv, SubNextInv, PTL DEF Spec

\* The state of the subscriber, its client and the table it drives has its
\* type in every reachable state; no message without a host gets through.
THEOREM SubscriberTypeCorrect == Spec => []TypeOK
<1>1. SubInv => TypeOK
  BY TableInvTypes DEF SubInv, LocalTypes, FlagTypes, InboxType, CallbacksType, Callbacks, TypeOK
<1> QED
  BY <1>1, SubInvariance, PTL

\* However outages, reconnects and Close interleave with the callbacks, once
\* they have run pruning is paused exactly if the connection is not up.
THEOREM PauseFollowsConnection == Spec => []PauseTracksConnection
<1>1. ASSUME SubInv, callbacks = <<>>, conn # "none"
      PROVE  pausedPruning <=> conn # "connected"
  <2>1. DOMAIN callbacks = {}
    BY <1>1
  <2> QED
    BY <1>1, <2>1 DEF SubInv, PauseFollows
<1>2. SubInv => PauseTracksConnection
  BY <1>1 DEF PauseTracksConnection
<1> QED
  BY <1>2, SubInvariance, PTL

\* No reconnect goes by without a start message on the new socket.
THEOREM EmittersAreAsked == Spec => []AnnouncedWhenConnected
<1>1. ASSUME callbacks = <<>>
      PROVE  ~StartWaits
  BY <1>1 DEF StartWaits
<1>2. SubInv => AnnouncedWhenConnected
  BY <1>1 DEF SubInv, StartFollows, AnnouncedWhenConnected
<1> QED
  BY <1>2, SubInvariance, PTL

\* A RunOnce that returned an error leaves no connection, no subscription and
\* no timer behind.
THEOREM FailureIsClean == Spec => []FailureLeavesNothing
<1>1. SubInv => FailureLeavesNothing
  BY DEF SubInv, RunFacts, FailureLeavesNothing
<1> QED
  BY <1>1, SubInvariance, PTL

\* Only a reconnect before RunOnce has stored the client ends in a panic.
THEOREM LaterReconnectsSend == Spec => []LateReconnectsSend
<1>1. SubInv => LateReconnectsSend
  BY DEF SubInv
<1> QED
  BY <1>1, SubInvariance, PTL

\* The running controller uses the table only as AddressTable describes.
THEOREM UsesTable == Spec => RefinesTable
<1>1. Init => TableInit
  BY DEF Init
<1>2. SubInv /\ [Next]_vars => [TableNext]_tableVars
  BY StepUsesTable DEF SubInv, LocalTypes
<1> QED
  BY <1>1, <1>2, SubInvariance, PTL DEF Spec, RefinesTable, TableSpec

\* What is proved of the table alone therefore holds in the running
\* controller: no duplicates, spellings that agree, and no fresh route lost,
\* whatever arrives and however the goroutines interleave.
THEOREM TableInController ==
  Spec => []UniqueIPs /\ []SpellingsAgree /\ FreshRoutesSurvive /\ RefinesRegistry
  BY UsesTable, NoDuplicates, LookupFindsAll, FreshSurvive, Refinement, PTL DEF RefinesTable

=============================================================================
