----------------------------- MODULE DnsLookup -----------------------------
(***************************************************************************)
(* A DNS query from bosh-dns: the adapter's HTTP handler (bosh-dns-adapter *)
(* main.go), its client with retries (sdcclient), the controller's         *)
(* registration endpoint (routes/server.go) and the address table, which   *)
(* keeps changing while the query is under way.                            *)
(*                                                                         *)
(* The endpoint asks the table twice, IsWarm and then Lookup, with a lock  *)
(* of its own each time.  The name travels in the path of a URL, unescaped,*)
(* so that not every name arrives as it was asked for.  Other wire formats,*)
(* TLS and metrics are left out.                                           *)
(***************************************************************************)
EXTENDS AddressTable

CONSTANTS Requests,   \* the queries
          NoName,     \* a query parameter that is empty or not given
          OddNames,   \* names with characters that mean something in a URL
          UrlKey,     \* what such a name becomes
          BadUrl,     \* ... no URL at all
          OtherPath   \* ... or a path outside the registration endpoint

VARIABLES req,             \* the adapter's side of each query
          handler,         \* the controller's side of its current attempt
          window,          \* history: what a warm table listed during the query
          warmAtStart,     \* history: the table was warm when it began
          disturbed        \* history: an HTTP exchange failed

lookupVars == <<req, handler, warmAtStart, disturbed>>
vars       == <<tableVars, lookupVars, window>>

ASSUME NamesAssumption ==
  /\ NoName \notin Hostname \cup OddNames
  /\ OddNames \cap Hostname = {}
  /\ {BadUrl, OtherPath} \cap Hostname = {} /\ BadUrl # OtherPath
  /\ UrlKey \in [OddNames -> Hostname \cup {BadUrl, OtherPath}]

MaxAttempts == 4

\* The key of the table a name asks for.  It is formatted into the URL as it
\* is; the server decodes the path and takes its last element.  A plain name
\* survives that, with or without a dot at its end; one with a slash, a
\* question mark, a number or a percent sign becomes another name, or none.
serviceKey(name) == IF name \in Hostname THEN name ELSE UrlKey[name]

Idle    == [pc |-> "idle", name |-> NoName, attempt |-> 0, status |-> "none", ips |-> <<>>]
NoReply == [pc |-> "none", status |-> 0, ips |-> <<>>]

IPsOf(ips) == {ips[i] : i \in DOMAIN ips}

Listing == [s \in Hostname |-> IPsOf(Lookup(s))]

\* The query is one the registration endpoint gets.
Asks(q) == q.name # NoName /\ serviceKey(q.name) \in Hostname

\* A query under way collects its key's ips in every state with a warm table;
\* of these an answered one keeps the answer, if it is among them.
Observe ==
  window' = [r \in Requests |->
               CASE req'[r].pc = "get" /\ Asks(req'[r]) /\ warm' ->
                      window[r] \cup {Listing'[serviceKey(req'[r].name)]}
                 [] req'[r].pc = "answered" -> window[r] \cap {IPsOf(req'[r].ips)}
                 [] OTHER                   -> window[r]]

-----------------------------------------------------------------------------
(* The adapter.                                                            *)

Answered(r, status, ips) ==
  /\ req' = [req EXCEPT ![r] = [@ EXCEPT !.pc = "answered", !.status = status, !.ips = ips]]
  /\ handler' = [handler EXCEPT ![r] = NoReply]

\* What the HTTP handler writes after IPs has returned.
Failed(r)         == Answered(r, "error", <<>>)
Succeeded(r, ips) == Answered(r, "success", ips)

\* client.Get: which handler of the controller the URL leads to, if any.
Get(name) ==
  [NoReply EXCEPT !.pc = CASE serviceKey(name) = BadUrl    -> "none"
                           [] serviceKey(name) = OtherPath -> "other"
                           [] OTHER                        -> "check"]

TypeA == "1"

getQueryParam(value, defaultValue) == IF value = NoName THEN defaultValue ELSE value

\* The checks of the HTTP handler, in their order.
Query(r, dnsType, name) ==
  /\ req[r].pc = "idle"
  /\ \/ /\ getQueryParam(dnsType, TypeA) # TypeA
        /\ Answered(r, "success", <<>>)
     \/ /\ getQueryParam(dnsType, TypeA) = TypeA
        /\ name = NoName
        /\ Answered(r, "badRequest", <<>>)
     \/ /\ getQueryParam(dnsType, TypeA) = TypeA
        /\ name # NoName
        /\ req' = [req EXCEPT ![r] = [Idle EXCEPT !.pc = "get", !.name = name, !.attempt = 1]]
        /\ handler' = [handler EXCEPT ![r] = Get(name)]
  /\ warmAtStart' = [warmAtStart EXCEPT ![r] = warm]
  /\ UNCHANGED <<tableVars, disturbed>>
  /\ Observe

\* No URL, no connection, the client's time limit, or a body cut short: no
\* retry.
HttpError(r) ==
  /\ req[r].pc = "get"
  /\ Failed(r)
  /\ disturbed' = [disturbed EXCEPT ![r] = TRUE]
  /\ UNCHANGED <<tableVars, warmAtStart>>
  /\ Observe

\* shuffle: the ips in any order.
Shuffled(ips) ==
  {[i \in DOMAIN ips |-> ips[p[i]]] :
     p \in {q \in [DOMAIN ips -> DOMAIN ips] : \A i, j \in DOMAIN ips : q[i] = q[j] => i = j}}

\* Mutant: only the first attempt is made.
Retry_Never(r) == FALSE

\* Mutant: the loop bound includes its limit.
Retry_OneMore(r) == req[r].attempt <= MaxAttempts

Retry(r) == req[r].attempt < MaxAttempts

\* Mutant: the loop counter is not incremented.
NextAttempt_Same(r) == req[r].attempt

NextAttempt(r) == req[r].attempt + 1

Receive(r) ==
  /\ req[r].pc = "get"
  /\ handler[r].pc = "done"
  /\ \/ /\ handler[r].status = 200
        /\ \E ips \in Shuffled(handler[r].ips) : Succeeded(r, ips)
     \/ /\ handler[r].status # 200 /\ Retry(r)
        /\ req' = [req EXCEPT ![r].attempt = NextAttempt(r)]
        /\ handler' = [handler EXCEPT ![r] = Get(req[r].name)]
     \/ /\ handler[r].status # 200 /\ ~Retry(r)
        /\ Failed(r)
  /\ UNCHANGED <<tableVars, warmAtStart, disturbed>>
  /\ Observe

-----------------------------------------------------------------------------
(* handleRegistrationRequest.                                              *)

\* Mutant: the endpoint also refuses while NATS is away.
Refuses_WhilePaused == ~warm \/ pausedPruning

Refuses == ~warm

CheckWarm(r) ==
  /\ handler[r].pc = "check"
  /\ handler' = IF Refuses
                THEN [handler EXCEPT ![r] = [@ EXCEPT !.pc = "done", !.status = 500]]
                ELSE [handler EXCEPT ![r].pc = "lookup"]
  /\ UNCHANGED <<tableVars, req, warmAtStart, disturbed>>
  /\ Observe

\* Mutant: the answer is taken from the table before it is known to be warm.
LookupNow_OtherOrder(r) == handler[r].pc = "check"

LookupNow(r) == handler[r].pc = "lookup"

DoLookup(r) ==
  /\ LookupNow(r)
  /\ handler' = [handler EXCEPT ![r] = [pc |-> "done", status |-> 200,
                                        ips |-> Lookup(serviceKey(req[r].name))]]
  /\ UNCHANGED <<tableVars, req, warmAtStart, disturbed>>
  /\ Observe

\* Outside the endpoint: no such page, or the table's dump at /routes, in
\* which the client finds no hosts.
OtherPage(r) ==
  /\ handler[r].pc = "other"
  /\ \E status \in {200, 404} :
       handler' = [handler EXCEPT ![r] = [pc |-> "done", status |-> status, ips |-> <<>>]]
  /\ UNCHANGED <<tableVars, req, warmAtStart, disturbed>>
  /\ Observe

-----------------------------------------------------------------------------
TableStep ==
  /\ TableNext
  /\ UNCHANGED lookupVars
  /\ Observe

Init ==
  /\ TableInit
  /\ req = [r \in Requests |-> Idle]
  /\ handler = [r \in Requests |-> NoReply]
  /\ window = [r \in Requests |-> {}]
  /\ warmAtStart = [r \in Requests |-> FALSE]
  /\ disturbed = [r \in Requests |-> FALSE]

Serve(r) == HttpError(r) \/ Receive(r) \/ CheckWarm(r) \/ DoLookup(r) \/ OtherPage(r)

Names == Hostname \cup OddNames \cup {NoName}

Next ==
  \/ \E r \in Requests, dnsType \in {NoName, TypeA, "28"}, name \in Names :
       Query(r, dnsType, name)
  \/ \E r \in Requests : HttpError(r)
  \/ \E r \in Requests : Receive(r)
  \/ \E r \in Requests : CheckWarm(r)
  \/ \E r \in Requests : DoLookup(r)
  \/ \E r \in Requests : OtherPage(r)
  \/ TableStep

Spec == Init /\ [][Next]_vars

\* Goroutines run, and the client gives up on an exchange that takes too long.
FairSpec == Spec /\ \A r \in Requests : WF_vars(Serve(r))

-----------------------------------------------------------------------------
(* Properties.                                                             *)

\* The two sides of a query have their types.
TypeOK ==
  /\ TableTypeOK
  /\ req \in [Requests -> [pc: {"idle", "get", "answered"},
                           name: Names,
                           attempt: 0..MaxAttempts,
                           status: {"none", "success", "badRequest", "error"},
                           ips: Seq(IPs)]]
  /\ handler \in [Requests -> [pc: {"none", "check", "lookup", "other", "done"},
                               status: {0, 200, 404, 500}, ips: Seq(IPs)]]

\* A successful answer for a hostname names, each once, the ips that a warm
\* table listed for it at one moment between the query and the answer: never
\* a mixture of two moments, never the table before it was warm, and no
\* empty answer from a controller that has only just started.  The hostname
\* is the one asked for, unless its characters make it another in the URL.
AnswersAreSnapshots ==
  \A r \in Requests :
    req[r].status = "success" /\ Asks(req[r]) =>
      /\ IPsOf(req[r].ips) \in window[r]
      /\ Len(req[r].ips) = Cardinality(IPsOf(req[r].ips))

\* A query that begins after the controller has become warm fails only if an
\* HTTP exchange fails: warm is never taken back, whatever happens to NATS
\* and to the routes.
WarmNeverRefuses ==
  \A r \in Requests :
    req[r].status = "error" /\ warmAtStart[r] /\ Asks(req[r]) => disturbed[r]

\* The client gives up on a cold controller, or on a page that is not there,
\* only after its four attempts.
GivesUpLate ==
  \A r \in Requests : req[r].status = "error" /\ ~disturbed[r] => req[r].attempt = MaxAttempts

\* Every query is answered, also by a controller that never becomes warm.
EveryQueryAnswered == \A r \in Requests : req[r].pc = "get" ~> req[r].pc = "answered"

=============================================================================
