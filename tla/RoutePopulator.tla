--------------------------- MODULE RoutePopulator ---------------------------
(***************************************************************************)
(* The route populator: main.go, runner/runner.go, publisher/publisher.go. *)
(*                                                                         *)
(* main checks its flags and starts the runner, which divides the routes   *)
(* among goroutines; each connects to NATS, publishes its routes, and does *)
(* so again at every heartbeat until quitChan is closed.  A goroutine that *)
(* fails reports its error and stops the runner; a signal stops it too.    *)
(* Runner.Stop is not synchronised: it reads the flag, then sets it and    *)
(* closes the channel.                                                     *)
(*                                                                         *)
(* The values of the other flags, message texts, the publish delay and     *)
(* logging are left out.                                                   *)
(***************************************************************************)
EXTENDS Integers, Sequences, FiniteSets

CONSTANTS MaxRoutes,  \* bound: the largest -numRoutes
          MaxCPU,     \* bound: the largest runtime.NumCPU()
          SmallJob    \* below this many routes main uses one goroutine

\* main.go has 1000 for SmallJob; nothing bounds the CPUs by it.
ASSUME SizeAssumption ==
  /\ MaxRoutes \in Nat \ {0}
  /\ MaxCPU \in Nat \ {0}
  /\ SmallJob \in Nat

VARIABLES numRoutes, numGoRoutines,  \* fixed by main before it starts
          mainPc,      \* where main is
          spawned,     \* goroutines started so far
          pc,          \* where each goroutine is, the signal's among them
          sent,        \* messages each has published in this round
          errs,        \* errors in errsChan
          stopped,     \* r.stopped
          quitClosed,  \* quitChan is closed
          panicked     \* closing it again panics: the process is gone

config == <<numRoutes, numGoRoutines>>
vars   == <<config, mainPc, spawned, pc, sent, errs, stopped, quitClosed, panicked>>

Workers    == 0..(numGoRoutines - 1)
Signal     == -1   \* the goroutine of main that waits for a signal
Goroutines == Workers \cup {Signal}

-----------------------------------------------------------------------------
(* Dividing the routes.                                                    *)

\* Mutant: the last index is left where the loop put it.
PartitionRange_NoAdjust(start, end, partitionSize) ==
  IF partitionSize = end - start THEN <<start, end>>
  ELSE [k \in 1..((end - start) \div partitionSize + 1) |-> start + (k - 1) * partitionSize]

\* The indexes at which the parts begin, and the end of the last one.
PartitionRange(start, end, partitionSize) ==
  LET size    == end - start
      indexes == [k \in 1..(size \div partitionSize + 1) |->
                    start + (k - 1) * partitionSize]
  IN  IF partitionSize = size THEN <<start, end>>
      ELSE IF size % partitionSize > 0 THEN [indexes EXCEPT ![Len(indexes)] = end]
      ELSE indexes

rangeSize == numRoutes \div numGoRoutines

ranges == PartitionRange(0, numRoutes, rangeSize)

\* Fewer routes than goroutines: the index of PartitionRange's loop stands
\* still, and the loop appends for ever.
Endless == rangeSize = 0 /\ numRoutes > 0

\* Worker id has the job ranges[id], ranges[id+1] (the code counts from 0).
StartRange(w) == ranges[w + 1]
EndRange(w)   == ranges[w + 2]
Job(w)        == StartRange(w)..(EndRange(w) - 1)

\* Every route is published on router.register and service-discovery.register.
MessagesPerRound(w) == 2 * (EndRange(w) - StartRange(w))

-----------------------------------------------------------------------------
(* main.                                                                   *)

Alive == ~panicked /\ mainPc \notin {"ok", "error"}

\* Every flag must be given (the two durations have defaults) and make sense.
checkRequiredFields ==
  /\ Alive
  /\ mainPc = "flags"
  /\ \E othersGiven \in BOOLEAN :
       mainPc' = IF numRoutes > 0 /\ othersGiven THEN "start" ELSE "error"
  /\ UNCHANGED <<config, spawned, pc, sent, errs, stopped, quitClosed, panicked>>

\* A runner stopped before it starts refuses to.
Start ==
  /\ Alive
  /\ mainPc = "start"
  /\ mainPc' = IF stopped THEN "error" ELSE IF Endless THEN "partition" ELSE "spawn"
  /\ UNCHANGED <<config, spawned, pc, sent, errs, stopped, quitClosed, panicked>>

\* The endless loop ends with the process, when there is no memory left.
OutOfMemory ==
  /\ Alive
  /\ mainPc = "partition"
  /\ mainPc' = "error"
  /\ UNCHANGED <<config, spawned, pc, sent, errs, stopped, quitClosed, panicked>>

Spawn ==
  /\ Alive
  /\ mainPc = "spawn"
  /\ pc' = [pc EXCEPT ![spawned] = "initialize"]
  /\ spawned' = spawned + 1
  /\ mainPc' = IF spawned' = numGoRoutines THEN "wait" ELSE "spawn"
  /\ UNCHANGED <<config, sent, errs, stopped, quitClosed, panicked>>

Returned(w) == pc[w] \in {"done", "failed"}

\* Mutant: the first goroutine to return ends the wait.
WaitGroupZero_Early == \E w \in Workers : Returned(w)

WaitGroupZero == \A w \in Workers : Returned(w)

\* wg.Wait, then the first error of the channel, if there is one.
Wait ==
  /\ Alive
  /\ mainPc = "wait"
  /\ WaitGroupZero
  /\ mainPc' = IF errs > 0 THEN "error" ELSE "ok"
  /\ errs' = IF errs > 0 THEN errs - 1 ELSE errs
  /\ UNCHANGED <<config, spawned, pc, sent, stopped, quitClosed, panicked>>

\* Before main has called signal.Notify a signal kills the process.
ReceiveSignal ==
  /\ Alive
  /\ \/ mainPc = "flags" /\ mainPc' = "error" /\ UNCHANGED pc
     \/ /\ mainPc # "flags"
        /\ pc[Signal] = "none"
        /\ pc' = [pc EXCEPT ![Signal] = "stop"]
        /\ UNCHANGED mainPc
  /\ UNCHANGED <<config, spawned, sent, errs, stopped, quitClosed, panicked>>

-----------------------------------------------------------------------------
(* The goroutines.                                                         *)

Goes(g, from, to) ==
  /\ Alive
  /\ pc[g] = from
  /\ pc' = [pc EXCEPT ![g] = to]
  /\ UNCHANGED <<config, mainPc, spawned>>

\* An empty job is refused; main's flags see to the other fields.
validate(w) == Job(w) # {}

\* nats.Connect, once, with or without success.
createNATSConnection == BOOLEAN

\* Publisher.Initialize: validation and the connection may fail.
Initialize(w) ==
  /\ \E connected \in createNATSConnection :
       Goes(w, "initialize", IF validate(w) /\ connected THEN "publish" ELSE "report")
  /\ UNCHANGED <<sent, errs, stopped, quitClosed, panicked>>

\* Mutant: the loop stops one message short.
LastOfRound_Early(w) == sent[w] + 2 >= MessagesPerRound(w)

\* Mutant: the loop runs one message too far.
LastOfRound_Late(w) == sent[w] = MessagesPerRound(w)

LastOfRound(w) == sent[w] + 1 = MessagesPerRound(w)

\* One message of PublishRouteRegistrations; the first error ends the round.
Publish(w) ==
  /\ \/ /\ Goes(w, "publish", "publish")
        /\ ~LastOfRound(w)
        /\ sent' = [sent EXCEPT ![w] = @ + 1]
     \/ /\ Goes(w, "publish", "select")
        /\ LastOfRound(w)
        /\ sent' = [sent EXCEPT ![w] = 0]
     \/ /\ Goes(w, "publish", "report")
        /\ sent' = [sent EXCEPT ![w] = 0]
  /\ UNCHANGED <<errs, stopped, quitClosed, panicked>>

Heartbeat(w) ==
  /\ Goes(w, "select", "publish")
  /\ UNCHANGED <<sent, errs, stopped, quitClosed, panicked>>

Quit(w) ==
  /\ quitClosed
  /\ Goes(w, "select", "done")
  /\ UNCHANGED <<sent, errs, stopped, quitClosed, panicked>>

\* Mutant: errsChan has room for a single error.
errsCapacity_One == 1

\* errsChan has room for one error per goroutine.
errsCapacity == numGoRoutines

\* Mutant: the failed goroutine returns without stopping the others.
Report_NoStop(w) ==
  /\ errs < errsCapacity
  /\ Goes(w, "report", "failed")
  /\ errs' = errs + 1
  /\ UNCHANGED <<sent, stopped, quitClosed, panicked>>

\* The error goes into errsChan; were it full, the goroutine would wait.
Report(w) ==
  /\ errs < errsCapacity
  /\ Goes(w, "report", "stop")
  /\ errs' = errs + 1
  /\ UNCHANGED <<sent, stopped, quitClosed, panicked>>

\* Where a goroutine ends after Stop.
AfterStop(g) == IF g = Signal THEN "done" ELSE "failed"

\* Stop reads r.stopped ...
Stop(g) ==
  /\ Goes(g, "stop", IF stopped THEN AfterStop(g) ELSE "close")
  /\ UNCHANGED <<sent, errs, stopped, quitClosed, panicked>>

\* Mutant: Stop only sets the flag.
CloseQuit_FlagOnly(g) ==
  /\ Goes(g, "close", AfterStop(g))
  /\ stopped' = TRUE
  /\ UNCHANGED <<sent, errs, quitClosed, panicked>>

\* ... and sets it and closes quitChan, which another caller may have done
\* since.
CloseQuit(g) ==
  /\ Goes(g, "close", AfterStop(g))
  /\ stopped' = TRUE
  /\ quitClosed' = TRUE
  /\ panicked' = quitClosed
  /\ UNCHANGED <<sent, errs>>

-----------------------------------------------------------------------------
Init ==
  /\ numRoutes \in 0..MaxRoutes
  /\ \E numCPU \in 1..MaxCPU :
       numGoRoutines = IF numRoutes < SmallJob THEN 1 ELSE numCPU
  /\ mainPc = "flags"
  /\ spawned = 0
  /\ pc = [g \in Goroutines |-> "none"]
  /\ sent = [w \in Workers |-> 0]
  /\ errs = 0
  /\ stopped = FALSE
  /\ quitClosed = FALSE
  /\ panicked = FALSE

Main == checkRequiredFields \/ Start \/ OutOfMemory \/ Spawn \/ Wait

Worker(w) == Initialize(w) \/ Publish(w) \/ Heartbeat(w) \/ Report(w)

Next ==
  \/ checkRequiredFields \/ Start \/ OutOfMemory \/ Spawn \/ Wait
  \/ ReceiveSignal
  \/ \E w \in Workers :
       Initialize(w) \/ Publish(w) \/ Heartbeat(w) \/ Quit(w) \/ Report(w)
  \/ \E g \in Goroutines : Stop(g) \/ CloseQuit(g)

Spec == Init /\ [][Next]_vars

\* Every goroutine that can run does, and heartbeats come.  A select chooses
\* at random among its ready cases, so it does not pass by a closed quitChan
\* for ever.  No signal is assumed to come.  (Goroutine ids are bounded by
\* MaxCPU; an id above numGoRoutines has nothing to do.)
FairSpec ==
  /\ Spec
  /\ WF_vars(Main)
  /\ \A w \in 0..(MaxCPU - 1) : WF_vars(w \in Workers /\ Worker(w))
  /\ \A w \in 0..(MaxCPU - 1) : SF_vars(w \in Workers /\ Quit(w))
  /\ \A g \in Signal..(MaxCPU - 1) : WF_vars(g \in Goroutines /\ (Stop(g) \/ CloseQuit(g)))

-----------------------------------------------------------------------------
(* Properties.                                                             *)

\* Types, and a bound the code relies on: a round never indexes past its data.
TypeOK ==
  /\ numRoutes \in 0..MaxRoutes
  /\ numGoRoutines \in 1..MaxCPU
  /\ mainPc \in {"flags", "start", "partition", "spawn", "wait", "ok", "error"}
  /\ spawned \in 0..numGoRoutines
  /\ pc \in [Goroutines -> {"none", "initialize", "publish", "select", "report",
                            "stop", "close", "done", "failed"}]
  /\ sent \in [Workers -> Nat]
  /\ \A w \in Workers : pc[w] # "none" => sent[w] < MessagesPerRound(w)
  /\ errs \in 0..numGoRoutines
  /\ stopped \in BOOLEAN
  /\ quitClosed \in BOOLEAN
  /\ panicked \in BOOLEAN

\* What the flags let through and the division makes of it: the jobs that
\* goroutines are started with are never empty, never overlap and stay within
\* the routes; and they are all the routes if what the division leaves over is
\* less than one job.
JobsPartition ==
  spawned > 0 =>
    /\ \A w \in Workers : Job(w) # {} /\ Job(w) \subseteq 0..(numRoutes - 1)
    /\ \A v, w \in Workers : v # w => Job(v) \cap Job(w) = {}
    /\ numRoutes % numGoRoutines < numRoutes \div numGoRoutines =>
         UNION {Job(w) : w \in Workers} = 0..(numRoutes - 1)

\* main exits with success only if every goroutine has ended without an
\* error: no failure is lost between the channel, the wait group and Stop.
ErrorsReported == mainPc = "ok" => \A w \in Workers : pc[w] = "done"

\* A goroutine that has failed never waits for room in errsChan, which nobody
\* reads until all of them have returned.
ReportNeverBlocks == \A w \in Workers : pc[w] = "report" => errs < errsCapacity

\* The populator populates as many routes as -numRoutes says (main.go:
\* "Number of routes to populate the routing table with.").
AllRoutesPopulated == UNION {Job(w) : w \in Workers} = 0..(numRoutes - 1)

\* A round publishes one message per route of its job (publisher_test.go:
\* "correctly publishes (endrange - startrange) register messages").
OneMessagePerRoute ==
  \A w \in Workers : pc[w] = "publish" => sent[w] < EndRange(w) - StartRange(w)

\* A runner that fails or is told to stop ends in order, it never panics
\* (runner_test.go: Wait "returns an error if initializing fails").
StopNeverPanics == ~panicked

\* A stopped runner comes to an end: Wait returns, whatever the goroutines
\* were doing when quitChan was closed.
StopEnds == stopped ~> mainPc \in {"ok", "error"} \/ panicked

\* The failure of a single goroutine ends the whole process, with an error.
FailureEnds ==
  (\E w \in Workers : pc[w] = "report") ~> mainPc = "error" \/ panicked

Undisturbed ==
  /\ ~stopped /\ mainPc # "error"
  /\ \A g \in Goroutines : pc[g] \notin {"report", "stop", "close"}

\* Unless something fails or stops it, the populator registers every route
\* of every job with service discovery again and again.  That message is the
\* second of the two of each route.
Publishing(route) ==
  \E w \in Workers :
    pc[w] = "publish" /\ route \in Job(w) /\ sent[w] = 2 * (route - StartRange(w)) + 1

InSomeJob(route) == ~Endless /\ \E w \in Workers : route \in Job(w)

HeartbeatsRepeat ==
  []Undisturbed =>
    \A route \in 0..(MaxRoutes - 1) : []<>(InSomeJob(route) => Publishing(route))

=============================================================================
