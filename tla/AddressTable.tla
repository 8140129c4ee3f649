---------------------------- MODULE AddressTable ----------------------------
(***************************************************************************)
(* The in-memory routing table of the service-discovery-controller:        *)
(* addresstable/address_table.go.                                          *)
(*                                                                         *)
(* Every method takes at.mutex (or warmMutex) for its whole body, so each  *)
(* one is a single action.  The pruning goroutine takes the lock three     *)
(* times per tick of its ticker (pause check, scan, prune) and is three    *)
(* actions: anything may happen between two of them.                       *)
(*                                                                         *)
(* Time is kept as elapsed time.  The code reads entry.updateTime and      *)
(* lastResume only through clock.Since, and only compares the result with  *)
(* one configured duration, so an entry carries its age and the table the  *)
(* time since the last resume, both saturated just past that duration.     *)
(***************************************************************************)
EXTENDS Integers, Sequences, FiniteSets

CONSTANTS Labels,              \* hostnames without the trailing dot
          IPs,                 \* values of the "host" field of a message
          StalenessThreshold,  \* the configured durations, in clock steps
          PruningInterval,
          ResumePruningDelay

\* The validate tags of config.Config: min=1, min=1, min=0.
ASSUME ConfigAssumption ==
  /\ StalenessThreshold \in Nat \ {0}
  /\ PruningInterval \in Nat \ {0}
  /\ ResumePruningDelay \in Nat

VARIABLES addresses,       \* map[string][]entry
          pausedPruning,
          sinceResume,     \* clock.Since(lastResume)
          warm,
          ticker,          \* clock.Ticker with its channel of capacity one
          prunePc,         \* where the pruning goroutine is
          staleAddresses   \* its local variable

fieldVars  == <<addresses, pausedPruning, sinceResume, warm>>
prunerVars == <<prunePc, staleAddresses>>
tableVars  == <<addresses, pausedPruning, sinceResume, warm, ticker, prunePc,
                staleAddresses>>

-----------------------------------------------------------------------------
(* Hostnames.  A string is its text up to a final dot, and whether that    *)
(* dot is there; the empty string and "." share the empty label.           *)

Hostname == [label: Labels, dot: BOOLEAN]

\* The "uris" of a message, which is never empty.  Their order and number do
\* not matter to the table: no hostname holds an ip twice (UniqueIPs).
HostnameLists == (SUBSET Hostname) \ {{}}

isFqdn(s) == s.dot

\* Mutant: names are stored as they come.
fqdn_AsGiven(s) == s

fqdn(s) == IF isFqdn(s) THEN s ELSE [s EXCEPT !.dot = TRUE]

Fqdns(hostnames) == {fqdn(s) : s \in hostnames}

-----------------------------------------------------------------------------
(* Entries.                                                                *)

\* An age past the threshold: older makes no difference to the code.
Expired == StalenessThreshold + 1

Entry == [ip: IPs, age: 0..Expired]

IsStale(e) == e.age > StalenessThreshold

entriesForHostname(h) == IF h \in DOMAIN addresses THEN addresses[h] ELSE <<>>

entriesToIPs(entries) == [idx \in DOMAIN entries |-> entries[idx].ip]

\* The position of the first entry with that ip, 0 (the code's -1) if none.
indexOf(entries, value) ==
  IF \E i \in DOMAIN entries : entries[i].ip = value
  THEN CHOOSE i \in DOMAIN entries :
         /\ entries[i].ip = value
         /\ \A j \in 1..(i - 1) : entries[j].ip # value
  ELSE 0

\* The elements of a finite set of numbers in increasing order.
Enumerates(f, K) ==
  /\ \A i, j \in 1..Cardinality(K) : i < j => f[i] < f[j]
  /\ \A k \in K : \E i \in 1..Cardinality(K) : f[i] = k

InOrder(K) == CHOOSE f \in [1..Cardinality(K) -> K] : Enumerates(f, K)

\* The entries at the positions K, in their order.
Keep(entries, K) == [i \in 1..Cardinality(K) |-> entries[InOrder(K)[i]]]

-----------------------------------------------------------------------------
(* The methods the subscriber, the HTTP server and main call.              *)

\* Mutant: the lookup for an existing entry is forgotten.
Touch_AlwaysAppend(entries, ip) == Append(entries, [ip |-> ip, age |-> 0])

\* A registered ip gets a new updateTime, a new one goes to the end.
Touch(entries, ip) ==
  IF indexOf(entries, ip) = 0
  THEN Append(entries, [ip |-> ip, age |-> 0])
  ELSE [entries EXCEPT ![indexOf(entries, ip)].age = 0]

Add(hostnames, ip) ==
  /\ addresses' = [h \in DOMAIN addresses \cup Fqdns(hostnames) |->
                     IF h \in Fqdns(hostnames)
                     THEN Touch(entriesForHostname(h), ip)
                     ELSE addresses[h]]
  /\ UNCHANGED <<pausedPruning, sinceResume, warm, ticker, prunerVars>>

\* Mutant: the tail after the entry is not appended.
Without_LosesTail(entries, ip) ==
  LET index == indexOf(entries, ip)
  IN  IF index = 0 THEN entries ELSE SubSeq(entries, 1, index - 1)

\* The entry's neighbours close up.
Without(entries, ip) ==
  LET index == indexOf(entries, ip)
  IN  IF index = 0
      THEN entries
      ELSE SubSeq(entries, 1, index - 1) \o SubSeq(entries, index + 1, Len(entries))

\* Removing the last entry of a hostname deletes its key.
Remove(hostnames, ip) ==
  LET deleted == {h \in Fqdns(hostnames) \cap DOMAIN addresses :
                    indexOf(addresses[h], ip) # 0 /\ Len(addresses[h]) = 1}
  IN  /\ addresses' = [h \in DOMAIN addresses \ deleted |->
                         IF h \in Fqdns(hostnames)
                         THEN Without(addresses[h], ip)
                         ELSE addresses[h]]
      /\ UNCHANGED <<pausedPruning, sinceResume, warm, ticker, prunerVars>>

\* Read-only: what Lookup and GetAllAddresses return in the current state.
Lookup(hostname) == entriesToIPs(entriesForHostname(fqdn(hostname)))

GetAllAddresses == [h \in DOMAIN addresses |-> entriesToIPs(addresses[h])]

SetWarm ==
  /\ warm' = TRUE
  /\ UNCHANGED <<addresses, pausedPruning, sinceResume, ticker, prunerVars>>

PausePruning ==
  /\ pausedPruning' = TRUE
  /\ UNCHANGED <<addresses, sinceResume, warm, ticker, prunerVars>>

ResumePruning ==
  /\ sinceResume' = 0
  /\ pausedPruning' = FALSE
  /\ UNCHANGED <<addresses, warm, ticker, prunerVars>>

\* Stopping the ticker leaves a tick that is already in its channel there.
Shutdown ==
  /\ ticker' = [ticker EXCEPT !.stopped = TRUE]
  /\ UNCHANGED <<fieldVars, prunerVars>>

-----------------------------------------------------------------------------
(* The pruning goroutine.                                                  *)

\* Mutant: only the resume delay is looked at.
PruneCheck_IgnoresPause ==
  /\ prunePc = "wait"
  /\ ticker.fired
  /\ ticker' = [ticker EXCEPT !.fired = FALSE]
  /\ prunePc' = IF sinceResume < ResumePruningDelay THEN "wait" ELSE "scan"
  /\ UNCHANGED <<fieldVars, staleAddresses>>

\* It receives a tick and reads the pause state under the read lock.
PruneCheck ==
  /\ prunePc = "wait"
  /\ ticker.fired
  /\ ticker' = [ticker EXCEPT !.fired = FALSE]
  /\ prunePc' = IF pausedPruning \/ sinceResume < ResumePruningDelay
                THEN "wait" ELSE "scan"
  /\ UNCHANGED <<fieldVars, staleAddresses>>

\* Mutant: the loop over the entries leaves after the first one.
AnyStale_FirstOnly(entries) == entries # <<>> /\ IsStale(entries[1])

AnyStale(entries) == \E i \in DOMAIN entries : IsStale(entries[i])

\* Mutant: the early return is missing.
FindStale_NoReturn ==
  /\ prunePc = "scan"
  /\ staleAddresses' = {h \in DOMAIN addresses : AnyStale(addresses[h])}
  /\ prunePc' = "prune"
  /\ UNCHANGED <<fieldVars, ticker>>

\* addressesWithStaleEntriesWithReadLock, and the early return of the prune
\* when there is no candidate.
FindStale ==
  LET candidates == {h \in DOMAIN addresses : AnyStale(addresses[h])}
  IN  /\ prunePc = "scan"
      /\ staleAddresses' = candidates
      /\ prunePc' = IF candidates = {} THEN "wait" ELSE "prune"
      /\ UNCHANGED <<fieldVars, ticker>>

\* Mutant: the write-locked pass trusts the earlier scan.
Fresh_TrustsScan(entries) == <<>>

\* Mutant: the fresh entries are collected and not stored.
Fresh_NotStored(entries) == entries

Fresh(entries) ==
  Keep(entries, {i \in DOMAIN entries : ~IsStale(entries[i])})

\* pruneStaleEntriesWithWriteLock looks at the ages again.  A candidate left
\* without entries keeps its key.
PruneStale ==
  /\ prunePc = "prune"
  /\ addresses' = [h \in DOMAIN addresses |->
                     IF h \in staleAddresses THEN Fresh(addresses[h])
                     ELSE addresses[h]]
  /\ staleAddresses' = {}
  /\ prunePc' = "wait"
  /\ UNCHANGED <<pausedPruning, sinceResume, warm, ticker>>

-----------------------------------------------------------------------------
(* The clock.                                                              *)

Elapse(d, limit) == IF d < limit THEN d + 1 ELSE d

Aged(e) == [e EXCEPT !.age = Elapse(e.age, Expired)]

\* A running ticker offers a tick every PruningInterval; its channel holds
\* one, further ticks are dropped.
TickerElapse(t) ==
  CASE t.stopped                 -> t
    [] ~t.stopped /\ t.left = 1  -> [t EXCEPT !.left = PruningInterval, !.fired = TRUE]
    [] ~t.stopped /\ t.left # 1  -> [t EXCEPT !.left = t.left - 1]

TableTick ==
  /\ addresses' = [h \in DOMAIN addresses |->
                     [i \in DOMAIN addresses[h] |-> Aged(addresses[h][i])]]
  /\ sinceResume' = Elapse(sinceResume, ResumePruningDelay)
  /\ ticker' = TickerElapse(ticker)
  /\ UNCHANGED <<pausedPruning, warm, prunerVars>>

-----------------------------------------------------------------------------
\* NewAddressTable.  lastResume is the zero time, longer ago than any delay.
TableInit ==
  /\ addresses = <<>>
  /\ pausedPruning = FALSE
  /\ sinceResume = ResumePruningDelay
  /\ warm = FALSE
  /\ ticker = [left |-> PruningInterval, fired |-> FALSE, stopped |-> FALSE]
  /\ prunePc = "wait"
  /\ staleAddresses = {}

Pruner == PruneCheck \/ FindStale \/ PruneStale

TableNext ==
  \/ \E hostnames \in HostnameLists, ip \in IPs : Add(hostnames, ip)
  \/ \E hostnames \in HostnameLists, ip \in IPs : Remove(hostnames, ip)
  \/ SetWarm
  \/ PausePruning
  \/ ResumePruning
  \/ Shutdown
  \/ PruneCheck
  \/ FindStale
  \/ PruneStale
  \/ TableTick

TableSpec == TableInit /\ [][TableNext]_tableVars

\* The clock runs and the runtime schedules the pruning goroutine.
TableFairSpec == TableSpec /\ WF_tableVars(TableTick) /\ WF_tableVars(Pruner)

-----------------------------------------------------------------------------
(* Properties.                                                             *)

\* The types of the table's fields and of the pruning goroutine's state; a
\* goroutine between scan and prune always has candidates in hand.
TableTypeOK ==
  /\ DOMAIN addresses \subseteq Hostname
  /\ \A h \in DOMAIN addresses : addresses[h] \in Seq(Entry)
  /\ pausedPruning \in BOOLEAN
  /\ sinceResume \in 0..ResumePruningDelay
  /\ warm \in BOOLEAN
  /\ ticker \in [left: 1..PruningInterval, fired: BOOLEAN, stopped: BOOLEAN]
  /\ prunePc \in {"wait", "scan", "prune"}
  /\ staleAddresses \subseteq Hostname
  /\ (prunePc = "prune") <=> (staleAddresses # {})

\* No hostname lists an ip twice, whatever was registered, under whichever
\* spellings and however often: indexOf and Remove look at the first match
\* only, so a second copy would outlive its unregistration.
NoDuplicate(entries) ==
  \A i, j \in DOMAIN entries : entries[i].ip = entries[j].ip => i = j

UniqueIPs == \A h \in DOMAIN addresses : NoDuplicate(addresses[h])

\* A DNS lookup with either spelling of a hostname answers with exactly what
\* the listing of all routes shows for it: nothing is stored under a key
\* that Lookup cannot form.
SpellingsAgree ==
  \A h \in DOMAIN addresses : \A s \in Hostname :
    s.label = h.label => Lookup(s) = GetAllAddresses[h]

\* Listed(h, ip): a lookup of h would answer ip; Stale: with an old entry.
Listed(h, ip) ==
  h \in DOMAIN addresses /\ \E i \in DOMAIN addresses[h] : addresses[h][i].ip = ip

Stale(h, ip) ==
  /\ h \in DOMAIN addresses
  /\ \E i \in DOMAIN addresses[h] :
       addresses[h][i].ip = ip /\ IsStale(addresses[h][i])

Unregisters(h, ip) ==
  \E hostnames \in HostnameLists : h \in Fqdns(hostnames) /\ Remove(hostnames, ip)

\* A route leaves the table only when its last registration is older than
\* the staleness threshold at that very moment, or because an unregister
\* message names it: a registration that comes between the scan and the
\* prune of a pass saves its route.
FreshRoutesSurvive ==
  [][\A h \in Hostname, ip \in IPs :
       Listed(h, ip) /\ ~Listed(h, ip)' => Stale(h, ip) \/ Unregisters(h, ip)]_tableVars

\* While pruning is paused no route leaves the table except by an
\* unregister message: "does not prune stale routes" after PausePruning.
PauseStopsPruning ==
  [][\A h \in Hostname, ip \in IPs :
       pausedPruning /\ Listed(h, ip) /\ ~Listed(h, ip)' => Unregisters(h, ip)]_tableVars

\* The routes of the table as the abstract registry sees them.
Routes ==
  UNION {{[name |-> h, ip |-> addresses[h][i].ip, age |-> addresses[h][i].age] :
            i \in DOMAIN addresses[h]} : h \in DOMAIN addresses}

Registry == INSTANCE RouteRegistry WITH Names <- Fqdns(Hostname), routes <- Routes

\* The table implements the abstract registry: every method, every phase of
\* the pruning goroutine and every clock step is a step of RouteRegistry on
\* the listed routes, or leaves them alone.
RefinesRegistry == Registry!Spec

\* If pruning stays resumed for good, every route that nobody registers any
\* more leaves the table: no stale entry stays, however the goroutine's
\* passes interleave with registrations.
PruningAllowed == ~pausedPruning /\ sinceResume = ResumePruningDelay /\ ~ticker.stopped

StaleEventuallyPruned ==
  <>[]PruningAllowed => \A h \in Hostname, ip \in IPs : []<>~Stale(h, ip)

\* Once pruning is paused or shut down for good, the goroutine finishes the
\* pass it is in, and at most the one for a tick already delivered, and then
\* starts no other.
PauseQuiesces == <>[](pausedPruning \/ ticker.stopped) => <>[](prunePc = "wait")

=============================================================================
