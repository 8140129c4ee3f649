------------------------ MODULE RoutePopulatorProofs ------------------------
(***************************************************************************)
(* Theorems about RoutePopulator, for any number of routes and of CPUs:    *)
(* the jobs the routes are divided into, no round indexing past its job,   *)
(* the room in errsChan, and no error lost on the way to main's exit       *)
(* status.                                                                 *)
(***************************************************************************)
EXTENDS RoutePopulator, FiniteSetTheorems, TLAPS

-----------------------------------------------------------------------------
(* Division of natural numbers.                                            *)

LEMMA Division ==
  ASSUME NEW n \in Nat, NEW d \in Nat \ {0}
  PROVE  /\ n \div d \in Nat
         /\ d * (n \div d) <= n /\ n < d * (n \div d) + d
         /\ n % d = n - d * (n \div d)
<1>1. n \div d \in Nat
  OBVIOUS
<1>2. d * (n \div d) <= n /\ n < d * (n \div d) + d
  OBVIOUS
<1>3. n % d = n - d * (n \div d)
  OBVIOUS
<1> QED
  BY <1>1, <1>2, <1>3

LEMMA Quotient ==
  ASSUME NEW n \in Nat, NEW d \in Nat \ {0}, NEW q \in Nat, q * d <= n
  PROVE  /\ n \div d >= q
         /\ n < (q + 1) * d => n \div d = q
<1>1. n \div d >= q
  OBVIOUS
<1>2. ASSUME n < (q + 1) * d PROVE n \div d = q
  BY <1>2
<1> QED
  BY <1>1, <1>2

LEMMA Products ==
  ASSUME NEW a \in Nat, NEW b \in Nat, NEW d \in Nat, a <= b
  PROVE  a * d <= b * d
OBVIOUS

-----------------------------------------------------------------------------
(* The jobs.                                                               *)

\* What main has seen to when it starts the runner.
Sized ==
  /\ numRoutes \in Nat \ {0}
  /\ numGoRoutines \in Nat \ {0}
  /\ numGoRoutines <= numRoutes

jobSize == numRoutes \div numGoRoutines
parts   == numRoutes \div jobSize

LEMMA Sizes ==
  ASSUME Sized
  PROVE  /\ jobSize \in Nat \ {0}
         /\ parts \in Nat
         /\ numGoRoutines <= parts
         /\ parts * jobSize <= numRoutes /\ numRoutes < (parts + 1) * jobSize
<1>1. jobSize \in Nat /\ numGoRoutines * jobSize <= numRoutes
  BY Division DEF Sized, jobSize
<1>2. jobSize # 0
  BY Quotient DEF Sized, jobSize
<1>3. /\ parts \in Nat
      /\ jobSize * parts <= numRoutes /\ numRoutes < jobSize * parts + jobSize
  BY <1>1, <1>2, Division DEF Sized, parts
<1>4. numGoRoutines <= parts
  BY <1>1, <1>2, <1>3, Quotient DEF Sized, parts
<1> QED
  BY <1>1, <1>2, <1>3, <1>4

\* PartitionRange: part k begins at k times the size of a job, and the last
\* one ends with the routes, however the loop of PartitionRange came out.
LEMMA Ranges ==
  ASSUME Sized
  PROVE  /\ \A k \in 1..parts : ranges[k] = (k - 1) * jobSize
         /\ ranges[parts + 1] = numRoutes
<1>0. /\ numRoutes \in Nat \ {0} /\ jobSize \in Nat \ {0} /\ parts \in Nat
      /\ parts * jobSize <= numRoutes /\ numRoutes < (parts + 1) * jobSize
      /\ 1 <= parts
  BY Sizes DEF Sized
<1>1. CASE jobSize = numRoutes
  <2>1. parts = 1
    BY <1>0, <1>1, Quotient DEF parts
  <2>2. ranges = <<0, numRoutes>>
    BY <1>0, <1>1 DEF ranges, rangeSize, PartitionRange, jobSize
  <2> QED
    BY <2>1, <2>2, <1>0
<1>2. CASE jobSize # numRoutes
  <2> DEFINE indexes == [k \in 1..(parts + 1) |-> (k - 1) * jobSize]
  <2>1. Len(indexes) = parts + 1
    BY <1>0
  <2>2. ranges = IF numRoutes % jobSize > 0
                 THEN [indexes EXCEPT ![parts + 1] = numRoutes] ELSE indexes
    <3>1. \A k \in 1..(parts + 1) : 0 + (k - 1) * jobSize = (k - 1) * jobSize
      BY <1>0
    <3>2. [k \in 1..(parts + 1) |-> 0 + (k - 1) * jobSize] = indexes
      BY <3>1
    <3>3. numRoutes - 0 = numRoutes
      BY <1>0
    <3>4. ranges = IF numRoutes % jobSize > 0
                   THEN [indexes EXCEPT ![Len(indexes)] = numRoutes] ELSE indexes
      BY <1>2, <3>2, <3>3 DEF ranges, rangeSize, PartitionRange, jobSize, parts
    <3> QED
      BY <2>1, <3>4
  <2>3. \A k \in 1..parts : ranges[k] = (k - 1) * jobSize
    BY <1>0, <2>2
  <2>4. ranges[parts + 1] = numRoutes
    <3>1. CASE numRoutes % jobSize > 0
      BY <1>0, <2>2, <3>1
    <3>2. CASE ~(numRoutes % jobSize > 0)
      <4>1. numRoutes % jobSize = numRoutes - jobSize * parts
        BY <1>0, Division DEF parts
      <4>2. numRoutes = parts * jobSize
        BY <1>0, <3>2, <4>1
      <4>3. ranges[parts + 1] = (parts + 1 - 1) * jobSize
        BY <1>0, <2>2, <3>2
      <4> QED
        BY <1>0, <4>2, <4>3
    <3> QED
      BY <3>1, <3>2
  <2> QED
    BY <2>3, <2>4
<1> QED
  BY <1>1, <1>2

\* The job of one goroutine.
LEMMA JobShape ==
  ASSUME Sized, NEW w \in Workers
  PROVE  /\ w \in Nat /\ w + 1 <= parts
         /\ StartRange(w) = w * jobSize
         /\ EndRange(w) = IF w + 1 = parts THEN numRoutes ELSE (w + 1) * jobSize
         /\ StartRange(w) \in Nat /\ EndRange(w) \in Nat
         /\ StartRange(w) + jobSize <= EndRange(w) /\ EndRange(w) <= numRoutes
<1>0. /\ numRoutes \in Nat \ {0} /\ jobSize \in Nat \ {0} /\ parts \in Nat
      /\ parts * jobSize <= numRoutes
      /\ numGoRoutines \in Nat /\ numGoRoutines <= parts
  BY Sizes DEF Sized
<1>1. w \in Nat /\ w + 1 <= parts
  BY <1>0 DEF Workers
<1>2. StartRange(w) = w * jobSize
  <2>1. PICK k \in 1..parts : k = w + 1 /\ k - 1 = w
    BY <1>0, <1>1
  <2>2. ranges[k] = (k - 1) * jobSize
    BY Ranges
  <2> QED
    BY <2>1, <2>2 DEF StartRange
<1>3. EndRange(w) = IF w + 1 = parts THEN numRoutes ELSE (w + 1) * jobSize
  <2>1. CASE w + 1 = parts
    <3>1. w + 2 = parts + 1
      BY <1>0, <1>1, <2>1
    <3> QED
      BY <2>1, <3>1, Ranges DEF EndRange
  <2>2. CASE w + 1 # parts
    <3>1. PICK k \in 1..parts : k = w + 2 /\ k - 1 = w + 1
      BY <1>0, <1>1, <2>2
    <3>2. ranges[k] = (k - 1) * jobSize
      BY Ranges
    <3> QED
      BY <2>2, <3>1, <3>2 DEF EndRange
  <2> QED
    BY <2>1, <2>2
<1>4. (w + 1) * jobSize <= parts * jobSize /\ (w + 1) * jobSize = w * jobSize + jobSize
  BY <1>0, <1>1, Products
<1>5. w * jobSize \in Nat
  BY <1>0, <1>1
<1> QED
  BY <1>0, <1>1, <1>2, <1>3, <1>4, <1>5

\* No job is empty, none leaves the routes, no two meet.
LEMMA JobsApart ==
  ASSUME Sized
  PROVE  /\ \A w \in Workers : Job(w) # {} /\ Job(w) \subseteq 0..(numRoutes - 1)
         /\ \A v, w \in Workers : v # w => Job(v) \cap Job(w) = {}
<1>0. jobSize \in Nat \ {0} /\ numRoutes \in Nat /\ parts \in Nat
  BY Sizes DEF Sized
<1>1. ASSUME NEW w \in Workers
      PROVE  Job(w) # {} /\ Job(w) \subseteq 0..(numRoutes - 1)
  <2>1. StartRange(w) \in Job(w)
    BY <1>0, JobShape DEF Job
  <2>2. Job(w) \subseteq 0..(numRoutes - 1)
    BY <1>0, JobShape DEF Job
  <2> QED
    BY <2>1, <2>2
<1>2. ASSUME NEW v \in Workers, NEW w \in Workers, v < w
      PROVE  Job(v) \cap Job(w) = {}
  <2>1. v \in Nat /\ w \in Nat /\ v + 1 <= w /\ w + 1 <= parts
    BY <1>2, JobShape
  <2>2. EndRange(v) = (v + 1) * jobSize
    BY <1>0, <2>1, JobShape
  <2>3. EndRange(v) <= StartRange(w)
    BY <1>0, <2>1, <2>2, Products, JobShape
  <2>4. /\ StartRange(v) \in Nat /\ EndRange(v) \in Nat
        /\ StartRange(w) \in Nat /\ EndRange(w) \in Nat
    BY JobShape
  <2> QED
    BY <2>3, <2>4 DEF Job
<1>3. \A v, w \in Workers : v # w => v < w \/ w < v
  BY JobShape
<1> QED
  BY <1>1, <1>2, <1>3

\* The jobs are all the routes if what is left over is less than a job.
LEMMA JobsCover ==
  ASSUME Sized, numRoutes % numGoRoutines < jobSize
  PROVE  UNION {Job(w) : w \in Workers} = 0..(numRoutes - 1)
<1>0. /\ jobSize \in Nat \ {0} /\ numRoutes \in Nat /\ numGoRoutines \in Nat \ {0}
      /\ parts \in Nat
  BY Sizes DEF Sized
<1>1. parts = numGoRoutines
  <2>1. /\ numGoRoutines * jobSize <= numRoutes
        /\ numRoutes % numGoRoutines = numRoutes - numGoRoutines * jobSize
    BY <1>0, Division DEF jobSize
  <2>2. numRoutes < (numGoRoutines + 1) * jobSize
    BY <1>0, <2>1
  <2> QED
    BY <1>0, <2>1, <2>2, Quotient DEF parts
<1>2. ASSUME NEW r \in 0..(numRoutes - 1)
      PROVE  \E w \in Workers : r \in Job(w)
  <2> DEFINE part == r \div jobSize
  <2>1. /\ r \in Nat /\ part \in Nat
        /\ part * jobSize <= r /\ r < (part + 1) * jobSize
    <3>1. r \in Nat
      BY <1>0
    <3>2. part \in Nat /\ jobSize * part <= r /\ r < jobSize * part + jobSize
      BY <1>0, <3>1, Division
    <3> QED
      BY <1>0, <3>1, <3>2
  <2> HIDE DEF part
  <2>2. CASE part + 1 < numGoRoutines
    <3>1. part \in Workers
      BY <1>0, <2>1, <2>2 DEF Workers
    <3>2. /\ StartRange(part) = part * jobSize
          /\ EndRange(part) = (part + 1) * jobSize
      BY <1>0, <1>1, <2>1, <2>2, <3>1, JobShape
    <3>3. StartRange(part) \in Nat /\ EndRange(part) \in Nat
      BY <3>1, JobShape
    <3>4. r \in Job(part)
      BY <2>1, <3>2, <3>3 DEF Job
    <3> QED
      BY <3>1, <3>4
  <2>3. CASE numGoRoutines <= part + 1
    <3> DEFINE last == numGoRoutines - 1
    <3>1. last \in Workers /\ last \in Nat /\ last <= part /\ last + 1 = parts
      BY <1>0, <1>1, <2>1, <2>3 DEF Workers
    <3>2. StartRange(last) = last * jobSize /\ EndRange(last) = numRoutes
      BY <3>1, JobShape
    <3>3. StartRange(last) <= r
      BY <1>0, <2>1, <3>1, <3>2, Products
    <3>4. r \in Job(last)
      BY <1>0, <2>1, <3>1, <3>2, <3>3, JobShape DEF Job
    <3> QED
      BY <3>1, <3>4
  <2> QED
    BY <1>0, <2>1, <2>2, <2>3
<1> QED
  BY <1>2, JobsApart

-----------------------------------------------------------------------------
(* The runner.                                                             *)

Places == {"none", "initialize", "publish", "select", "report", "stop", "close", "done",
           "failed"}

\* What main fixed.
ConfigInv == numRoutes \in 0..MaxRoutes /\ numGoRoutines \in 1..MaxCPU

\* Goroutines are started only if each has a route: otherwise Start never
\* comes to an end.
MainInv ==
  /\ mainPc \in {"flags", "start", "partition", "spawn", "wait", "ok", "error"}
  /\ spawned \in 0..numGoRoutines
  /\ mainPc \in {"flags", "start", "partition"} => spawned = 0
  /\ mainPc = "spawn" => spawned < numGoRoutines
  /\ mainPc = "start" => numRoutes > 0
  /\ mainPc \in {"spawn", "wait"} \/ spawned > 0 => numGoRoutines <= numRoutes
  /\ mainPc = "ok" => errs = 0 /\ \A w \in Workers : Returned(w)

\* Goroutines run once they are started, and publish within their job.
WorkersInv ==
  /\ pc \in [Goroutines -> Places]
  /\ sent \in [Workers -> Nat]
  /\ \A w \in Workers : w >= spawned => pc[w] = "none"
  /\ \A w \in Workers : pc[w] = "none" => sent[w] = 0
  /\ \A w \in Workers : pc[w] # "none" => sent[w] < MessagesPerRound(w)

\* A goroutine stops the others only after its error is in errsChan, whence
\* main alone takes it.
ErrorsInv ==
  /\ errs \in 0..numGoRoutines
  /\ \A w \in Workers : pc[w] \in {"stop", "close", "failed"} => errs > 0 \/ mainPc = "error"

StopInv == stopped \in BOOLEAN /\ quitClosed \in BOOLEAN /\ panicked \in BOOLEAN

PopInv == ConfigInv /\ MainInv /\ WorkersInv /\ ErrorsInv /\ StopInv

\* The jobs depend on what main fixed, and on nothing else.
LEMMA JobsFixed ==
  ASSUME UNCHANGED config
  PROVE  \A w : MessagesPerRound(w)' = MessagesPerRound(w)
BY DEF config, MessagesPerRound, EndRange, StartRange, ranges, rangeSize

LEMMA StartedSized ==
  ASSUME ConfigInv, numGoRoutines <= numRoutes
  PROVE  /\ Sized
         /\ \A w \in Workers : MessagesPerRound(w) \in Nat /\ MessagesPerRound(w) > 1
<1>1. Sized
  BY SizeAssumption DEF ConfigInv, Sized
<1>2. ASSUME NEW w \in Workers
      PROVE  MessagesPerRound(w) \in Nat /\ MessagesPerRound(w) > 1
  <2>1. jobSize \in Nat \ {0}
    BY <1>1, Sizes
  <2>2. /\ StartRange(w) \in Nat /\ EndRange(w) \in Nat
        /\ StartRange(w) + jobSize <= EndRange(w)
    BY <1>1, JobShape
  <2> QED
    BY <2>1, <2>2 DEF MessagesPerRound
<1> QED
  BY <1>1, <1>2

LEMMA PopInit == Init => PopInv
<1> SUFFICES ASSUME Init PROVE PopInv
  OBVIOUS
<1>1. ConfigInv
  BY SizeAssumption DEF Init, ConfigInv
<1>2. MainInv
  BY <1>1 DEF Init, MainInv, ConfigInv
<1>3. pc = [g \in Goroutines |-> "none"] /\ sent = [w \in Workers |-> 0]
  BY DEF Init
<1>4. WorkersInv
  BY <1>3 DEF WorkersInv, Places, Goroutines
<1>5. ErrorsInv
  BY <1>1, <1>3 DEF Init, ErrorsInv, ConfigInv, Goroutines
<1>6. StopInv
  BY DEF Init, StopInv
<1> QED
  BY <1>1, <1>2, <1>4, <1>5, <1>6 DEF PopInv

\* A goroutine goes on to its next place.
LEMMA GoesKeeps ==
  ASSUME PopInv, NEW g \in Goroutines,
         NEW from \in Places \ {"none"}, NEW to \in Places \ {"none"},
         Goes(g, from, to),
         sent' \in [Workers -> Nat],
         \A w \in Workers \ {g} : sent'[w] = sent[w],
         g \in Workers => sent'[g] < MessagesPerRound(g)
  PROVE  ConfigInv' /\ MainInv' /\ WorkersInv'
<1>1. /\ mainPc \notin {"ok", "error"}
      /\ pc[g] = from
      /\ pc' = [pc EXCEPT ![g] = to]
      /\ UNCHANGED <<config, mainPc, spawned>>
  BY DEF Goes, Alive
<1>2. UNCHANGED <<numRoutes, numGoRoutines, Workers, Goroutines>>
  BY <1>1 DEF config, Workers, Goroutines
<1>3. ConfigInv'
  BY <1>2 DEF PopInv, ConfigInv
<1>4. MainInv'
  BY <1>1, <1>2 DEF PopInv, MainInv
<1>5. WorkersInv
  BY DEF PopInv
<1>6. pc' \in [Goroutines -> Places] /\ pc'[g] = to /\ pc[g] # "none"
  BY <1>1, <1>5 DEF WorkersInv
<1>7. \A w \in Workers : w # g => pc'[w] = pc[w]
  BY <1>1, <1>5 DEF WorkersInv, Goroutines
<1>8. \A w \in Workers : MessagesPerRound(w)' = MessagesPerRound(w)
  BY <1>1, JobsFixed
<1>9. ASSUME NEW w \in Workers
      PROVE  /\ w >= spawned => pc'[w] = "none"
             /\ pc'[w] = "none" => sent'[w] = 0
             /\ pc'[w] # "none" => sent'[w] < MessagesPerRound(w)
  <2>1. CASE w = g
    BY <1>5, <1>6, <2>1 DEF WorkersInv
  <2>2. CASE w # g
    BY <1>5, <1>7, <2>2 DEF WorkersInv
  <2> QED
    BY <2>1, <2>2
<1>10. WorkersInv'
  BY <1>1, <1>2, <1>6, <1>8, <1>9 DEF WorkersInv
<1> QED
  BY <1>3, <1>4, <1>10

\* The same, where it leaves its round alone.
LEMMA GoesOn ==
  ASSUME PopInv, NEW g \in Goroutines,
         NEW from \in Places \ {"none"}, NEW to \in Places \ {"none"},
         Goes(g, from, to), UNCHANGED sent
  PROVE  ConfigInv' /\ MainInv' /\ WorkersInv'
<1>1. pc[g] = from /\ WorkersInv
  BY DEF Goes, PopInv
<1>2. g \in Workers => sent'[g] < MessagesPerRound(g)
  BY <1>1 DEF WorkersInv
<1>3. sent' \in [Workers -> Nat]
  BY <1>1 DEF WorkersInv
<1> QED
  BY <1>2, <1>3, GoesKeeps

\* The errors, when a goroutine goes where an error may have to be known.
LEMMA GoesWithErrors ==
  ASSUME PopInv, NEW g \in Goroutines,
         NEW from, NEW to,
         Goes(g, from, to),
         errs' \in 0..numGoRoutines, errs <= errs',
         g \in Workers /\ to \in {"stop", "close", "failed"} => errs' > 0
  PROVE  ErrorsInv'
<1>1. /\ mainPc \notin {"ok", "error"}
      /\ pc' = [pc EXCEPT ![g] = to]
      /\ UNCHANGED <<mainPc, numGoRoutines, Workers>>
  BY DEF Goes, Alive, config, Workers
<1>2. ErrorsInv /\ pc \in [Goroutines -> Places] /\ Workers \subseteq Goroutines
  BY DEF PopInv, WorkersInv, Goroutines
<1>3. errs \in Nat /\ errs' \in Nat
  BY <1>2 DEF ErrorsInv, PopInv, ConfigInv
<1>4. ASSUME NEW w \in Workers, pc'[w] \in {"stop", "close", "failed"}
      PROVE  errs' > 0
  <2>1. CASE w = g
    BY <1>1, <1>2, <1>4, <2>1
  <2>2. CASE w # g
    <3>1. pc[w] \in {"stop", "close", "failed"}
      BY <1>1, <1>2, <1>4, <2>2
    <3>2. errs > 0
      BY <1>1, <1>2, <3>1 DEF ErrorsInv
    <3> QED
      BY <1>3, <3>2
  <2> QED
    BY <2>1, <2>2
<1> QED
  BY <1>1, <1>4 DEF ErrorsInv

\* The steps of a goroutine that publishes.
LEMMA WorkerKeeps ==
  ASSUME PopInv, NEW w \in Workers,
         Initialize(w) \/ Publish(w) \/ Heartbeat(w) \/ Quit(w) \/ Report(w)
  PROVE  PopInv'
<1>0. /\ w \in Goroutines
      /\ errs \in 0..numGoRoutines /\ numGoRoutines \in Nat
      /\ StopInv /\ WorkersInv /\ ConfigInv
  BY DEF PopInv, ErrorsInv, ConfigInv, Goroutines
<1>1. CASE Initialize(w)
  <2>1. PICK to \in {"publish", "report"} : Goes(w, "initialize", to)
    BY <1>1 DEF Initialize
  <2>2. UNCHANGED <<sent, errs, stopped, quitClosed, panicked>>
    BY <1>1 DEF Initialize
  <2>3. ConfigInv' /\ MainInv' /\ WorkersInv'
    BY <1>0, <2>1, <2>2, GoesOn DEF Places
  <2>4. ErrorsInv'
    BY <1>0, <2>1, <2>2, GoesWithErrors
  <2> QED
    BY <1>0, <2>2, <2>3, <2>4 DEF PopInv, StopInv
<1>2. CASE Publish(w)
  <2>1. UNCHANGED <<errs, stopped, quitClosed, panicked>>
    BY <1>2 DEF Publish
  <2>2. PICK to \in {"publish", "select", "report"}, messages \in {0, sent[w] + 1} :
          /\ Goes(w, "publish", to)
          /\ sent' = [sent EXCEPT ![w] = messages]
          /\ messages # 0 => ~LastOfRound(w)
    BY <1>2 DEF Publish
  <2>3. pc[w] = "publish" /\ sent \in [Workers -> Nat] /\ sent[w] < MessagesPerRound(w)
    BY <1>0, <2>2 DEF Goes, WorkersInv
  <2>4. MessagesPerRound(w) \in Nat /\ MessagesPerRound(w) > 1
    <3>1. spawned > 0
      BY <1>0, <2>3 DEF WorkersInv, PopInv, MainInv, Workers
    <3>2. numGoRoutines <= numRoutes
      BY <3>1 DEF PopInv, MainInv
    <3> QED
      BY <1>0, <3>2, StartedSized
  <2>5. messages \in Nat /\ messages < MessagesPerRound(w)
    BY <2>2, <2>3, <2>4 DEF LastOfRound
  <2>6. /\ sent' \in [Workers -> Nat]
        /\ \A v \in Workers \ {w} : sent'[v] = sent[v]
        /\ sent'[w] < MessagesPerRound(w)
    BY <2>2, <2>3, <2>5
  <2>7. ConfigInv' /\ MainInv' /\ WorkersInv'
    BY <1>0, <2>2, <2>6, GoesKeeps DEF Places
  <2>8. ErrorsInv'
    BY <1>0, <2>1, <2>2, GoesWithErrors
  <2> QED
    BY <1>0, <2>1, <2>7, <2>8 DEF PopInv, StopInv
<1>3. CASE Heartbeat(w) \/ Quit(w)
  <2>1. PICK to \in {"publish", "done"} : Goes(w, "select", to)
    BY <1>3 DEF Heartbeat, Quit
  <2>2. UNCHANGED <<sent, errs, stopped, quitClosed, panicked>>
    BY <1>3 DEF Heartbeat, Quit
  <2>3. ConfigInv' /\ MainInv' /\ WorkersInv'
    BY <1>0, <2>1, <2>2, GoesOn DEF Places
  <2>4. ErrorsInv'
    BY <1>0, <2>1, <2>2, GoesWithErrors
  <2> QED
    BY <1>0, <2>2, <2>3, <2>4 DEF PopInv, StopInv
<1>4. CASE Report(w)
  <2>1. /\ Goes(w, "report", "stop")
        /\ errs < numGoRoutines /\ errs' = errs + 1
        /\ UNCHANGED <<sent, stopped, quitClosed, panicked>>
    BY <1>4 DEF Report, errsCapacity
  <2>2. ConfigInv' /\ MainInv' /\ WorkersInv'
    BY <1>0, <2>1, GoesOn DEF Places
  <2>3. ErrorsInv'
    BY <1>0, <2>1, GoesWithErrors
  <2> QED
    BY <1>0, <2>1, <2>2, <2>3 DEF PopInv, StopInv
<1> QED
  BY <1>1, <1>2, <1>3, <1>4

\* Stop, called by a goroutine that has reported its error or on a signal.
LEMMA StopKeeps ==
  ASSUME PopInv, NEW g \in Goroutines, Stop(g) \/ CloseQuit(g)
  PROVE  PopInv'
<1>1. PICK from \in {"stop", "close"}, to \in {"close", "done", "failed"} :
        Goes(g, from, to)
  BY DEF Stop, CloseQuit, AfterStop
<1>2. /\ UNCHANGED <<sent, errs>>
      /\ StopInv'
  BY DEF Stop, CloseQuit, PopInv, StopInv
<1>3. ConfigInv' /\ MainInv' /\ WorkersInv'
  BY <1>1, <1>2, GoesOn DEF Places
<1>4. errs \in 0..numGoRoutines /\ numGoRoutines \in Nat
  BY DEF PopInv, ErrorsInv, ConfigInv
<1>5. g \in Workers => errs > 0
  BY <1>1 DEF Goes, Alive, PopInv, ErrorsInv
<1>6. ErrorsInv'
  BY <1>1, <1>2, <1>4, <1>5, GoesWithErrors
<1> QED
  BY <1>2, <1>3, <1>6 DEF PopInv

\* The steps of main, and a signal.
LEMMA MainKeeps ==
  ASSUME PopInv,
         checkRequiredFields \/ Start \/ OutOfMemory \/ Spawn \/ Wait \/ ReceiveSignal
  PROVE  PopInv'
<1>0. /\ ConfigInv /\ MainInv /\ WorkersInv /\ ErrorsInv /\ StopInv
      /\ numGoRoutines \in Nat /\ spawned \in Nat /\ numRoutes \in Nat /\ errs \in Nat
      /\ Signal \notin Workers /\ Workers \subseteq Goroutines /\ Signal \in Goroutines
  BY DEF PopInv, ConfigInv, MainInv, ErrorsInv, Signal, Workers, Goroutines
<1>1. /\ Alive /\ UNCHANGED <<config, sent, stopped, quitClosed, panicked>>
      /\ UNCHANGED <<numRoutes, numGoRoutines, Workers, Goroutines>>
      /\ \A w : MessagesPerRound(w)' = MessagesPerRound(w)
  <2>1. Alive /\ UNCHANGED <<config, sent, stopped, quitClosed, panicked>>
    BY DEF checkRequiredFields, Start, OutOfMemory, Spawn, Wait, ReceiveSignal
  <2> QED
    BY <2>1, JobsFixed DEF config, Workers, Goroutines
<1>2. ConfigInv' /\ StopInv'
  BY <1>0, <1>1 DEF ConfigInv, StopInv
<1>3. CASE checkRequiredFields \/ Start \/ OutOfMemory
  <2>1. /\ mainPc \in {"flags", "start", "partition"} /\ UNCHANGED <<spawned, pc, errs>>
        /\ mainPc' \in {"start", "partition", "spawn", "error"}
        /\ mainPc' = "start" => numRoutes > 0
        /\ mainPc' = "spawn" => mainPc = "start" /\ ~Endless
    BY <1>3 DEF checkRequiredFields, Start, OutOfMemory
  <2>2. mainPc' = "spawn" => numGoRoutines <= numRoutes
    <3> SUFFICES ASSUME mainPc' = "spawn" PROVE numGoRoutines <= numRoutes
      OBVIOUS
    <3>1. numRoutes > 0 /\ rangeSize # 0 /\ numGoRoutines \in Nat \ {0}
      BY <1>0, <2>1 DEF MainInv, Endless, ConfigInv
    <3>2. rangeSize \in Nat /\ numGoRoutines * rangeSize <= numRoutes
      BY <1>0, <3>1, Division DEF rangeSize
    <3>3. 1 * numGoRoutines <= rangeSize * numGoRoutines
      BY <3>1, <3>2, Products
    <3> QED
      BY <1>0, <3>1, <3>2, <3>3
  <2>3. MainInv'
    BY <1>0, <1>1, <2>1, <2>2 DEF MainInv, ConfigInv
  <2>4. WorkersInv' /\ ErrorsInv'
    BY <1>0, <1>1, <2>1 DEF WorkersInv, ErrorsInv
  <2> QED
    BY <1>2, <2>3, <2>4 DEF PopInv
<1>4. CASE Spawn
  <2>1. /\ mainPc = "spawn" /\ spawned < numGoRoutines /\ numGoRoutines <= numRoutes
        /\ pc' = [pc EXCEPT ![spawned] = "initialize"]
        /\ spawned' = spawned + 1
        /\ mainPc' = IF spawned' = numGoRoutines THEN "wait" ELSE "spawn"
        /\ UNCHANGED errs
    BY <1>0, <1>4 DEF Spawn, MainInv
  <2>2. spawned \in Workers /\ spawned \in Goroutines
    BY <1>0, <2>1 DEF Workers
  <2>3. MainInv'
    BY <1>0, <1>1, <2>1 DEF MainInv
  <2>4. MessagesPerRound(spawned) \in Nat /\ MessagesPerRound(spawned) > 1
    BY <1>0, <2>1, <2>2, StartedSized
  <2>5. pc' \in [Goroutines -> Places]
    BY <1>0, <2>1 DEF WorkersInv, Places
  <2>6. pc'[spawned] = "initialize" /\ sent[spawned] = 0
    BY <1>0, <2>1, <2>2 DEF WorkersInv
  <2>7. \A w \in Workers : w # spawned => pc'[w] = pc[w]
    BY <1>0, <2>1 DEF WorkersInv
  <2>8. ASSUME NEW w \in Workers
        PROVE  /\ w >= spawned + 1 => pc'[w] = "none"
               /\ pc'[w] = "none" => sent[w] = 0
               /\ pc'[w] # "none" => sent[w] < MessagesPerRound(w)
               /\ pc'[w] \in {"stop", "close", "failed"} => errs > 0
    <3>0. w \in Nat
      BY <1>0 DEF Workers
    <3>1. CASE w = spawned
      BY <1>0, <2>4, <2>6, <3>1
    <3>2. CASE w # spawned
      BY <1>0, <2>1, <2>7, <3>0, <3>2 DEF WorkersInv, ErrorsInv
    <3> QED
      BY <3>1, <3>2
  <2>9. WorkersInv'
    BY <1>0, <1>1, <2>1, <2>5, <2>8 DEF WorkersInv
  <2>10. ErrorsInv'
    BY <1>0, <1>1, <2>1, <2>8 DEF ErrorsInv
  <2> QED
    BY <1>2, <2>3, <2>9, <2>10 DEF PopInv
<1>5. CASE Wait
  <2>1. /\ mainPc = "wait" /\ UNCHANGED <<spawned, pc>>
        /\ \A w \in Workers : Returned(w)
        /\ mainPc' = IF errs > 0 THEN "error" ELSE "ok"
        /\ errs' = IF errs > 0 THEN errs - 1 ELSE errs
    BY <1>5 DEF Wait, WaitGroupZero
  <2>2. MainInv'
    BY <1>0, <1>1, <2>1 DEF MainInv, Returned
  <2>3. WorkersInv'
    BY <1>0, <1>1, <2>1 DEF WorkersInv
  <2>4. ErrorsInv'
    BY <1>0, <1>1, <2>1 DEF ErrorsInv
  <2> QED
    BY <1>2, <2>2, <2>3, <2>4 DEF PopInv
<1>6. CASE ReceiveSignal
  <2>1. /\ mainPc' \in {mainPc, "error"} /\ UNCHANGED <<spawned, errs>>
        /\ pc' \in {pc, [pc EXCEPT ![Signal] = "stop"]}
        /\ mainPc # "ok"
    BY <1>6 DEF ReceiveSignal, Alive
  <2>2. pc' \in [Goroutines -> Places] /\ \A w \in Workers : pc'[w] = pc[w]
    BY <1>0, <2>1 DEF WorkersInv, Places
  <2>3. MainInv'
    BY <1>0, <1>1, <2>1 DEF MainInv
  <2>4. WorkersInv' /\ ErrorsInv'
    BY <1>0, <1>1, <2>1, <2>2 DEF WorkersInv, ErrorsInv
  <2> QED
    BY <1>2, <2>3, <2>4 DEF PopInv
<1> QED
  BY <1>3, <1>4, <1>5, <1>6

LEMMA PopStep == PopInv /\ [Next]_vars => PopInv'
<1> SUFFICES ASSUME PopInv, [Next]_vars PROVE PopInv'
  OBVIOUS
<1>1. CASE UNCHANGED vars
  <2>1. /\ UNCHANGED <<config, numRoutes, numGoRoutines, Workers, Goroutines>>
        /\ UNCHANGED <<mainPc, spawned, pc, sent, errs, stopped, quitClosed, panicked>>
    BY <1>1 DEF vars, config, Workers, Goroutines
  <2>2. \A w : MessagesPerRound(w)' = MessagesPerRound(w)
    BY <2>1, JobsFixed
  <2>3. ConfigInv' /\ MainInv' /\ StopInv' /\ ErrorsInv'
    BY <2>1 DEF PopInv, ConfigInv, MainInv, StopInv, ErrorsInv, Returned
  <2>4. WorkersInv'
    BY <2>1, <2>2 DEF PopInv, WorkersInv
  <2> QED
    BY <2>3, <2>4 DEF PopInv
<1>2. CASE Next
  BY <1>2, MainKeeps, WorkerKeeps, StopKeeps DEF Next
<1> QED
  BY <1>1, <1>2

-----------------------------------------------------------------------------
(* The theorems.                                                           *)

LEMMA PopInvariance == Spec => []PopInv
BY PopInit, PopStep, PTL DEF Spec

\* For any number of routes and of CPUs, the state keeps its type, no round
\* of PublishRouteRegistrations goes past its job.
THEOREM PopulatorTypeCorrect == Spec => []TypeOK
<1>1. PopInv => TypeOK
  BY DEF PopInv, ConfigInv, MainInv, WorkersInv, ErrorsInv, StopInv, Places, TypeOK
<1> QED
  BY <1>1, PopInvariance, PTL

\* For any number of routes and of CPUs, runner.Start hands out jobs that are
\* not empty, stay within the routes and do not overlap, and that are all the
\* routes if what the division leaves over is less than a job.
THEOREM JobsArePartition == Spec => []JobsPartition
<1>1. PopInv => JobsPartition
  <2> SUFFICES ASSUME PopInv, spawned > 0
               PROVE  /\ \A w \in Workers : Job(w) # {} /\ Job(w) \subseteq 0..(numRoutes - 1)
                      /\ \A v, w \in Workers : v # w => Job(v) \cap Job(w) = {}
                      /\ numRoutes % numGoRoutines < numRoutes \div numGoRoutines =>
                           UNION {Job(w) : w \in Workers} = 0..(numRoutes - 1)
    BY DEF JobsPartition
  <2>1. Sized
    BY StartedSized DEF PopInv, MainInv
  <2> QED
    BY <2>1, JobsApart, JobsCover DEF jobSize
<1> QED
  BY <1>1, PopInvariance, PTL

\* The populator exits with success only if no goroutine failed, whatever
\* the order in which goroutines report, stop the runner and return.
THEOREM NoErrorLost == Spec => []ErrorsReported
<1>1. PopInv => ErrorsReported
  BY DEF PopInv, MainInv, ErrorsInv, Returned, ErrorsReported
<1> QED
  BY <1>1, PopInvariance, PTL

-----------------------------------------------------------------------------
(* The room in errsChan.                                                   *)

\* The goroutines that have put their error into errsChan.
Reporters == {w \in Workers : pc[w] \in {"stop", "close", "failed"}}

\* Until main takes the first error, errsChan has one of each of them; main
\* ends before the goroutines start or when they have returned.
RoomInv == IF mainPc = "error" THEN \A w \in Workers : pc[w] # "report"
           ELSE errs = Cardinality(Reporters)

LEMMA WorkersFinite ==
  ASSUME ConfigInv
  PROVE  IsFiniteSet(Workers) /\ Cardinality(Workers) = numGoRoutines
<1>1. 0 \in Int /\ numGoRoutines - 1 \in Int /\ numGoRoutines >= 1
  BY SizeAssumption DEF ConfigInv
<1>2. /\ IsFiniteSet(0..(numGoRoutines - 1))
      /\ Cardinality(0..(numGoRoutines - 1)) =
           IF 0 > numGoRoutines - 1 THEN 0 ELSE (numGoRoutines - 1) - 0 + 1
  BY <1>1, FS_Interval
<1>3. Cardinality(0..(numGoRoutines - 1)) = numGoRoutines
  BY <1>1, <1>2 DEF ConfigInv
<1> QED
  BY <1>2, <1>3 DEF Workers

LEMMA RoomInit == Init => RoomInv
<1> SUFFICES ASSUME Init PROVE RoomInv
  OBVIOUS
<1>1. Reporters = {}
  BY DEF Init, Reporters, Goroutines
<1> QED
  BY <1>1, FS_EmptySet DEF Init, RoomInv

\* Only Report changes who has reported.
LEMMA RoomStep == PopInv /\ RoomInv /\ [Next]_vars => RoomInv'
<1> SUFFICES ASSUME PopInv, RoomInv, [Next]_vars PROVE RoomInv'
  OBVIOUS
<1>0. /\ pc \in [Goroutines -> Places] /\ Workers \subseteq Goroutines
      /\ ConfigInv /\ MainInv /\ WorkersInv
      /\ Signal \in Goroutines /\ Signal \notin Workers
      /\ spawned \in Nat /\ numGoRoutines \in Nat
  BY DEF PopInv, WorkersInv, MainInv, ConfigInv, Goroutines, Signal, Workers
<1>1. CASE UNCHANGED vars
  BY <1>1 DEF vars, config, RoomInv, Reporters, Workers
<1>2. CASE checkRequiredFields \/ Start \/ OutOfMemory \/ Wait
  <2>1. /\ UNCHANGED <<Workers, pc>> /\ mainPc # "error"
        /\ mainPc' # "error" => UNCHANGED errs
    BY <1>2 DEF checkRequiredFields, Start, OutOfMemory, Wait, Alive, config, Workers
  <2>2. \A w \in Workers : pc[w] # "report"
    <3>1. CASE mainPc \in {"flags", "start", "partition"}
      BY <1>0, <3>1 DEF MainInv, WorkersInv, Workers
    <3>2. CASE Wait
      BY <3>2 DEF Wait, WaitGroupZero, Returned
    <3> QED
      BY <1>2, <3>1, <3>2 DEF checkRequiredFields, Start, OutOfMemory
  <2> QED
    BY <2>1, <2>2 DEF RoomInv, Reporters
<1>3. CASE Spawn
  <2>1. /\ pc' = [pc EXCEPT ![spawned] = "initialize"]
        /\ UNCHANGED <<errs, Workers>>
        /\ mainPc # "error" /\ mainPc' # "error"
    BY <1>3 DEF Spawn, Alive, config, Workers
  <2>2. spawned \in Workers
    BY <1>0, <1>3 DEF Spawn, MainInv, Workers
  <2>3. pc[spawned] = "none"
    BY <1>0, <2>2 DEF WorkersInv
  <2>4. Reporters' = Reporters
    BY <1>0, <2>1, <2>2, <2>3 DEF Reporters
  <2> QED
    BY <2>1, <2>4 DEF RoomInv
<1>4. CASE ReceiveSignal
  <2>1. /\ pc' \in {pc, [pc EXCEPT ![Signal] = "stop"]}
        /\ UNCHANGED <<errs, Workers>>
        /\ mainPc # "error"
    BY <1>4 DEF ReceiveSignal, Alive, config, Workers
  <2>2. Reporters' = Reporters
    BY <1>0, <2>1 DEF Reporters
  <2>3. CASE mainPc = "flags"
    <3>1. \A w \in Workers : pc'[w] # "report"
      BY <1>0, <2>1, <2>3 DEF MainInv, WorkersInv, Workers
    <3> QED
      BY <2>1, <2>2, <3>1 DEF RoomInv
  <2>4. CASE mainPc # "flags"
    BY <1>4, <2>1, <2>2, <2>4 DEF RoomInv, ReceiveSignal
  <2> QED
    BY <2>3, <2>4
<1>5. ASSUME NEW w \in Workers, Initialize(w) \/ Publish(w) \/ Heartbeat(w) \/ Quit(w)
      PROVE  RoomInv'
  <2>1. PICK from \in {"initialize", "publish", "select"},
             to \in {"publish", "report", "select", "done"} : Goes(w, from, to)
    BY <1>5 DEF Initialize, Publish, Heartbeat, Quit
  <2>2. UNCHANGED errs
    BY <1>5 DEF Initialize, Publish, Heartbeat, Quit
  <2>3. /\ pc[w] = from /\ pc' = [pc EXCEPT ![w] = to]
        /\ UNCHANGED <<Workers, mainPc>> /\ mainPc # "error"
    BY <2>1 DEF Goes, Alive, config, Workers
  <2>4. Reporters' = Reporters
    BY <1>0, <2>3 DEF Reporters
  <2> QED
    BY <2>2, <2>3, <2>4 DEF RoomInv
<1>6. ASSUME NEW w \in Workers, Report(w)
      PROVE  RoomInv'
  <2>1. /\ pc[w] = "report" /\ pc' = [pc EXCEPT ![w] = "stop"]
        /\ UNCHANGED <<Workers, mainPc>> /\ mainPc # "error"
        /\ errs' = errs + 1
    BY <1>6 DEF Report, Goes, Alive, config, Workers
  <2>2. w \notin Reporters /\ Reporters' = Reporters \cup {w}
    BY <1>0, <2>1 DEF Reporters
  <2>3. IsFiniteSet(Reporters)
    BY <1>0, WorkersFinite, FS_Subset DEF Reporters
  <2>4. Cardinality(Reporters \cup {w}) = Cardinality(Reporters) + 1
    BY <2>2, <2>3, FS_AddElement
  <2> QED
    BY <2>1, <2>2, <2>4 DEF RoomInv
<1>7. ASSUME NEW g \in Goroutines, Stop(g) \/ CloseQuit(g)
      PROVE  RoomInv'
  <2>1. PICK from \in {"stop", "close"}, to \in {"close", "done", "failed"} :
          Goes(g, from, to) /\ (g # Signal => to # "done")
    BY <1>7 DEF Stop, CloseQuit, AfterStop
  <2>2. UNCHANGED errs
    BY <1>7 DEF Stop, CloseQuit
  <2>3. /\ pc[g] = from /\ pc' = [pc EXCEPT ![g] = to]
        /\ UNCHANGED <<Workers, mainPc>> /\ mainPc # "error"
    BY <2>1 DEF Goes, Alive, config, Workers
  <2>4. Reporters' = Reporters
    BY <1>0, <2>1, <2>3 DEF Reporters
  <2> QED
    BY <2>2, <2>3, <2>4 DEF RoomInv
<1> QED
  BY <1>1, <1>2, <1>3, <1>4, <1>5, <1>6, <1>7 DEF Next

\* errsChan has room for the error of every goroutine that fails, so that
\* none is held up before it can stop the others, for any number of them.
THEOREM ErrorsHaveRoom == Spec => []ReportNeverBlocks
<1>1. PopInv /\ RoomInv => ReportNeverBlocks
  <2> SUFFICES ASSUME PopInv, RoomInv, NEW w \in Workers, pc[w] = "report"
               PROVE  errs < numGoRoutines
    BY DEF ReportNeverBlocks, errsCapacity
  <2>1. IsFiniteSet(Workers) /\ Cardinality(Workers) = numGoRoutines
    BY WorkersFinite DEF PopInv
  <2>2. Reporters \subseteq Workers /\ Reporters # Workers
    BY DEF Reporters
  <2>3. Cardinality(Reporters) < numGoRoutines
    <3>1. /\ Cardinality(Reporters) <= numGoRoutines
          /\ Cardinality(Reporters) # numGoRoutines
      BY <2>1, <2>2, FS_Subset
    <3>2. Cardinality(Reporters) \in Nat /\ numGoRoutines \in Nat
      BY <2>1, <2>2, FS_Subset, FS_CardinalityType
    <3> QED
      BY <3>1, <3>2
  <2>4. mainPc # "error"
    BY DEF RoomInv
  <2> QED
    BY <2>3, <2>4 DEF RoomInv
<1> QED
  BY <1>1, PopInvariance, RoomInit, RoomStep, PTL DEF Spec

=============================================================================
