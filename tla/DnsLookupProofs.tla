-------------------------- MODULE DnsLookupProofs --------------------------
(* Proofs about the queries of bosh-dns, for every set of queries,         *)
(* hostnames and ips, over the table that changes under them.              *)
EXTENDS DnsLookup, AddressTableProofs

-----------------------------------------------------------------------------
(* The inductive invariant.                                                *)

Reqs ==
  [pc: {"idle", "get", "answered"}, name: Names, attempt: 0..MaxAttempts,
   status: {"none", "success", "badRequest", "error"}, ips: Seq(IPs)]

Replies ==
  [pc: {"none", "check", "lookup", "other", "done"}, status: {0, 200, 404, 500},
   ips: Seq(IPs)]

QueryTypes ==
  /\ req \in [Requests -> Reqs]
  /\ handler \in [Requests -> Replies]
  /\ warmAtStart \in [Requests -> BOOLEAN]
  /\ disturbed \in [Requests -> BOOLEAN]

\* An answer without repetitions that a warm table gave during the query.
Snapshot(r, ips) == IPsOf(ips) \in window[r] /\ IsInjective(ips)

\* The reply of the current attempt: the endpoint is asked for a key of the
\* table, Lookup comes after a successful IsWarm, what it returned is a
\* snapshot, and a query that began with a warm table is not refused.
ReplyOK(r) ==
  /\ handler[r].pc \in {"check", "lookup"} => Asks(req[r])
  /\ handler[r].pc = "other" => ~Asks(req[r])
  /\ handler[r].pc = "lookup" => warm
  /\ Asks(req[r]) /\ handler[r].pc = "done" /\ handler[r].status = 200 =>
       Snapshot(r, handler[r].ips)
  /\ warmAtStart[r] =>
       warm /\ (Asks(req[r]) /\ handler[r].pc = "done" => handler[r].status = 200)

UnderWay(r) ==
  /\ req[r].name \in Names \ {NoName}
  /\ req[r].attempt # 0
  /\ req[r].status = "none"
  /\ ReplyOK(r)

AnswerOK(r) ==
  /\ handler[r].pc = "none"
  /\ req[r].status = "success" /\ Asks(req[r]) => Snapshot(r, req[r].ips)
  /\ req[r].status = "error" /\ warmAtStart[r] /\ Asks(req[r]) => disturbed[r]
  /\ req[r].status = "error" /\ ~disturbed[r] => req[r].attempt = MaxAttempts

QueryOK(r) ==
  /\ req[r].pc = "idle"     => req[r] = Idle /\ handler[r] = NoReply
  /\ req[r].pc = "get"      => UnderWay(r)
  /\ req[r].pc = "answered" => AnswerOK(r)

DnsInv == TableInv /\ QueryTypes /\ \A r \in Requests : QueryOK(r)

-----------------------------------------------------------------------------
(* Lists of ips.                                                           *)

\* A list without repetitions is as long as its set of ips is large.
LEMMA LengthIsCardinality ==
  ASSUME NEW ips \in Seq(IPs), IsInjective(ips)
  PROVE  Len(ips) = Cardinality(IPsOf(ips))
<1>1. Len(ips) \in Nat /\ DOMAIN ips = 1..Len(ips) /\ ips \in [1..Len(ips) -> IPs]
  BY LenProperties, SeqDef
<1>2. ips \in [1..Len(ips) -> IPsOf(ips)]
  BY <1>1 DEF IPsOf
<1>3. ips \in Bijection(1..Len(ips), IPsOf(ips))
  BY <1>1, <1>2 DEF Bijection, Injection, Surjection, IPsOf
<1>4. ExistsBijection(1..Len(ips), IPsOf(ips))
  BY <1>3 DEF ExistsBijection
<1> QED
  BY <1>1, <1>4, FS_CountingElements

\* Shuffling keeps the set of ips, and that none is repeated.
LEMMA ShuffledSame ==
  ASSUME NEW ips \in Seq(IPs), NEW shuffled \in Shuffled(ips)
  PROVE  /\ shuffled \in Seq(IPs)
         /\ IPsOf(shuffled) = IPsOf(ips)
         /\ IsInjective(ips) => IsInjective(shuffled)
<1> DEFINE D == DOMAIN ips
<1>1. Len(ips) \in Nat /\ D = 1..Len(ips) /\ \A i \in D : ips[i] \in IPs
  BY LenProperties, ElementOfSeq
<1>2. PICK p \in [D -> D] : /\ \A i, j \in D : p[i] = p[j] => i = j
                            /\ shuffled = [i \in D |-> ips[p[i]]]
  BY DEF Shuffled
<1>3. p \in Injection(D, D)
  BY <1>2 DEF Injection, IsInjective
<1>4. IsFiniteSet(D)
  BY <1>1, FS_Interval
<1>5. p \in Surjection(D, D)
  BY <1>3, <1>4, FS_Injection
<1>6. \A j \in D : \E i \in D : p[i] = j
  BY <1>5 DEF Surjection
<1> HIDE DEF D
<1>7. DOMAIN shuffled = D /\ \A i \in D : p[i] \in D /\ shuffled[i] = ips[p[i]]
  BY <1>2
<1>8. shuffled \in Seq(IPs)
  <2>1. \A i \in 1..Len(ips) : ips[p[i]] \in IPs
    BY <1>1, <1>7
  <2> QED
    BY <1>1, <1>2, <2>1, IsASeq
<1>9. IPsOf(shuffled) = IPsOf(ips)
  BY <1>6, <1>7 DEF IPsOf, D
<1>10. IsInjective(ips) => IsInjective(shuffled)
  BY <1>2, <1>7 DEF IsInjective, D
<1> QED
  BY <1>8, <1>9, <1>10

\* A lookup gives a list of ips without repetitions.
LEMMA LookupGives ==
  ASSUME GoodTable(addresses), NEW s
  PROVE  Lookup(s) \in Seq(IPs) /\ IsInjective(Lookup(s))
<1>1. PICK e : e = entriesForHostname(fqdn(s))
  OBVIOUS
<1>2. e \in Seq(Entry) /\ NoDuplicate(e)
  BY <1>1, EmptyList DEF GoodTable, GoodList, entriesForHostname
<1>3. Len(e) \in Nat /\ DOMAIN e = 1..Len(e) /\ \A i \in DOMAIN e : e[i] \in Entry
  BY <1>2, LenProperties, ElementOfSeq
<1>4. Lookup(s) = [i \in DOMAIN e |-> e[i].ip]
  BY <1>1 DEF Lookup, entriesToIPs
<1>5. \A i \in 1..Len(e) : e[i].ip \in IPs
  BY <1>3 DEF Entry
<1>6. Lookup(s) \in Seq(IPs)
  BY <1>3, <1>4, <1>5, IsASeq
<1>7. IsInjective(Lookup(s))
  BY <1>2, <1>4 DEF IsInjective, NoDuplicate
<1> QED
  BY <1>6, <1>7

-----------------------------------------------------------------------------
(* What is observed during a query.                                        *)

\* The window of a query under way grows, by the current listing if the table
\* is warm; the window of an answered one keeps its answer.
LEMMA Observed ==
  ASSUME Observe, NEW r \in Requests
  PROVE  /\ req'[r].pc = "get" => window[r] \subseteq window'[r]
         /\ req'[r].pc = "get" /\ Asks(req'[r]) /\ warm' =>
              Listing'[serviceKey(req'[r].name)] \in window'[r]
         /\ req'[r].pc = "answered" =>
              window'[r] = window[r] \cap {IPsOf(req'[r].ips)}
<1>1. window'[r] = CASE req'[r].pc = "get" /\ Asks(req'[r]) /\ warm' ->
                            window[r] \cup {Listing'[serviceKey(req'[r].name)]}
                     [] req'[r].pc = "answered" -> window[r] \cap {IPsOf(req'[r].ips)}
                     [] OTHER                   -> window[r]
  BY DEF Observe
<1>2. CASE req'[r].pc = "get" /\ Asks(req'[r]) /\ warm'
  BY <1>1, <1>2
<1>3. CASE req'[r].pc = "get" /\ ~(Asks(req'[r]) /\ warm')
  BY <1>1, <1>3
<1>4. CASE req'[r].pc = "answered"
  BY <1>1, <1>4
<1> QED
  BY <1>2, <1>3, <1>4

\* Where a URL leads to.
LEMMA GetLeads ==
  ASSUME NEW name \in Names \ {NoName}
  PROVE  /\ Get(name) \in Replies
         /\ Get(name).pc \in {"none", "other", "check"}
         /\ Get(name).pc = "check" => serviceKey(name) \in Hostname
         /\ Get(name).pc = "other" => serviceKey(name) \notin Hostname
<1>0. NoReply \in Replies
  BY DEF NoReply, Replies
<1>1. PICK z \in Replies : z = NoReply
  BY <1>0
<1>2. serviceKey(name) \in Hostname \cup {BadUrl, OtherPath}
  BY NamesAssumption DEF serviceKey, Names
<1>3. CASE serviceKey(name) = BadUrl
  <2>1. serviceKey(name) # OtherPath
    BY <1>3, NamesAssumption
  <2>2. Get(name) = [z EXCEPT !.pc = "none"]
    BY <1>1, <1>3, <2>1 DEF Get
  <2> QED
    BY <2>2 DEF Replies
<1>4. CASE serviceKey(name) = OtherPath
  <2>1. serviceKey(name) # BadUrl /\ serviceKey(name) \notin Hostname
    BY <1>4, NamesAssumption
  <2>2. Get(name) = [z EXCEPT !.pc = "other"]
    BY <1>1, <1>4, <2>1 DEF Get
  <2> QED
    BY <2>1, <2>2 DEF Replies
<1>5. CASE serviceKey(name) \notin {BadUrl, OtherPath}
  <2>1. Get(name) = [z EXCEPT !.pc = "check"]
    BY <1>1, <1>5 DEF Get
  <2> QED
    BY <1>2, <1>5, <2>1 DEF Replies
<1> QED
  BY <1>3, <1>4, <1>5

\* A query that a step does not touch stays as it should be.
LEMMA Untouched ==
  ASSUME Observe, NEW r \in Requests, QueryOK(r), warm => warm',
         req'[r] = req[r], handler'[r] = handler[r],
         warmAtStart'[r] = warmAtStart[r], disturbed'[r] = disturbed[r]
  PROVE  QueryOK(r)'
<1>1. CASE req[r].pc = "get"
  <2>1. window[r] \subseteq window'[r]
    BY <1>1, Observed
  <2> QED
    BY <1>1, <2>1 DEF QueryOK, UnderWay, ReplyOK, Snapshot
<1>2. CASE req[r].pc = "answered"
  <2>1. IPsOf(req[r].ips) \in window[r] => IPsOf(req[r].ips) \in window'[r]
    BY <1>2, Observed
  <2> QED
    BY <1>2, <2>1 DEF QueryOK, AnswerOK, Snapshot
<1>3. CASE req[r].pc \notin {"get", "answered"}
  BY <1>3 DEF QueryOK
<1> QED
  BY <1>1, <1>2, <1>3

\* A step of one query leaves the others alone.
LEMMA OneQuery ==
  ASSUME Observe, NEW r \in Requests, \A q \in Requests : QueryOK(q), warm => warm',
         \A q \in Requests \ {r} : /\ req'[q] = req[q] /\ handler'[q] = handler[q]
                                    /\ warmAtStart'[q] = warmAtStart[q]
                                    /\ disturbed'[q] = disturbed[q],
         QueryOK(r)'
  PROVE  \A q \in Requests : QueryOK(q)'
<1> SUFFICES ASSUME NEW q \in Requests PROVE QueryOK(q)'
  OBVIOUS
<1>1. CASE q = r
  BY <1>1
<1>2. CASE q # r
  BY <1>2, Untouched
<1> QED
  BY <1>1, <1>2

\* What Answered stores.
LEMMA AnsweredStores ==
  ASSUME QueryTypes, NEW r \in Requests, NEW ips \in Seq(IPs),
         NEW status \in {"success", "badRequest", "error"}, Answered(r, status, ips)
  PROVE  /\ req' \in [Requests -> Reqs] /\ handler' \in [Requests -> Replies]
         /\ req'[r].pc = "answered" /\ req'[r].name = req[r].name
         /\ req'[r].attempt = req[r].attempt
         /\ req'[r].status = status /\ req'[r].ips = ips
         /\ handler'[r].pc = "none"
         /\ \A q \in Requests \ {r} : req'[q] = req[q] /\ handler'[q] = handler[q]
<1>1. req[r] \in Reqs
  BY DEF QueryTypes
<1>2. PICK x : x = [req[r] EXCEPT !.pc = "answered", !.status = status, !.ips = ips]
  OBVIOUS
<1>3. /\ x \in Reqs
      /\ x.pc = "answered" /\ x.name = req[r].name /\ x.attempt = req[r].attempt
      /\ x.status = status /\ x.ips = ips
  BY <1>1, <1>2 DEF Reqs
<1>4. req' = [req EXCEPT ![r] = x]
  BY <1>2 DEF Answered
<1>5. NoReply \in Replies
  BY DEF NoReply, Replies
<1>6. handler' = [handler EXCEPT ![r] = NoReply]
  BY DEF Answered
<1>7. req' \in [Requests -> Reqs] /\ req'[r] = x /\ \A q \in Requests \ {r} : req'[q] = req[q]
  BY <1>3, <1>4 DEF QueryTypes
<1>8. /\ handler' \in [Requests -> Replies] /\ handler'[r] = NoReply
      /\ \A q \in Requests \ {r} : handler'[q] = handler[q]
  BY <1>5, <1>6 DEF QueryTypes
<1> QED
  BY <1>3, <1>7, <1>8 DEF NoReply

-----------------------------------------------------------------------------
(* Each action keeps the invariant.                                        *)

QueriesOK == QueryTypes /\ \A r \in Requests : QueryOK(r)

\* The table never takes warm back.
LEMMA WarmStays ==
  ASSUME [TableNext]_tableVars, warm
  PROVE  warm'
BY DEF TableNext, Add, Remove, SetWarm, PausePruning, ResumePruning, Shutdown, PruneCheck,
       FindStale, PruneStale, TableTick, fieldVars, tableVars

LEMMA QueryStep ==
  ASSUME QueriesOK, warm \in BOOLEAN, NEW r \in Requests, NEW dnsType,
         NEW name \in Names, Query(r, dnsType, name)
  PROVE  QueriesOK'
<1>1. /\ QueryTypes /\ QueryOK(r) /\ Observe /\ UNCHANGED disturbed
      /\ warmAtStart' = [warmAtStart EXCEPT ![r] = warm]
      /\ req[r] = Idle /\ handler[r] = NoReply
  BY DEF QueriesOK, Query, QueryOK
<1>2. warm' = warm
  BY DEF Query, tableVars
<1>3. /\ warmAtStart'[r] = warm
      /\ \A q \in Requests \ {r} : warmAtStart'[q] = warmAtStart[q]
  BY <1>1 DEF QueryTypes
<1>4. <<>> \in Seq(IPs)
  OBVIOUS
<1>5. ASSUME NEW status \in {"success", "badRequest"}, Answered(r, status, <<>>)
      PROVE  /\ QueryOK(r)'
             /\ req' \in [Requests -> Reqs] /\ handler' \in [Requests -> Replies]
             /\ \A q \in Requests \ {r} : req'[q] = req[q] /\ handler'[q] = handler[q]
  <2>1. /\ req' \in [Requests -> Reqs] /\ handler' \in [Requests -> Replies]
        /\ req'[r].pc = "answered" /\ req'[r].name = req[r].name
        /\ req'[r].status = status /\ handler'[r].pc = "none"
        /\ \A q \in Requests \ {r} : req'[q] = req[q] /\ handler'[q] = handler[q]
    BY <1>1, <1>4, <1>5, AnsweredStores
  <2>2. req'[r].name = NoName
    BY <1>1, <2>1 DEF Idle
  <2> QED
    BY <2>1, <2>2 DEF QueryOK, AnswerOK, Asks
<1>6. ASSUME name # NoName,
             req' = [req EXCEPT ![r] = [Idle EXCEPT !.pc = "get", !.name = name, !.attempt = 1]],
             handler' = [handler EXCEPT ![r] = Get(name)]
      PROVE  /\ QueryOK(r)'
             /\ req' \in [Requests -> Reqs] /\ handler' \in [Requests -> Replies]
             /\ \A q \in Requests \ {r} : req'[q] = req[q] /\ handler'[q] = handler[q]
  <2>1. PICK x : x = [Idle EXCEPT !.pc = "get", !.name = name, !.attempt = 1]
    OBVIOUS
  <2>2. Idle \in Reqs
    BY DEF Idle, Reqs, MaxAttempts, Names
  <2>3. /\ x \in Reqs /\ x.pc = "get" /\ x.name = name /\ x.attempt = 1
        /\ x.status = Idle.status
    <3>1. 1 \in 0..MaxAttempts
      BY DEF MaxAttempts
    <3>2. PICK y \in Reqs : y = Idle
      BY <2>2
    <3>3. x = [y EXCEPT !.pc = "get", !.name = name, !.attempt = 1]
      BY <2>1, <3>2
    <3>4. x \in Reqs
      BY <3>1, <3>3 DEF Reqs
    <3>5. x.pc = "get" /\ x.name = name /\ x.attempt = 1 /\ x.status = y.status
      BY <3>3 DEF Reqs
    <3> QED
      BY <3>2, <3>4, <3>5
  <2>4. PICK y : y = Get(name)
    OBVIOUS
  <2>5. /\ y \in Replies /\ y.pc \in {"none", "other", "check"}
        /\ y.pc = "check" => serviceKey(name) \in Hostname
        /\ y.pc = "other" => serviceKey(name) \notin Hostname
    BY <1>6, <2>4, GetLeads
  <2>6. /\ req' \in [Requests -> Reqs] /\ req'[r] = x
        /\ \A q \in Requests \ {r} : req'[q] = req[q]
    BY <1>1, <1>6, <2>1, <2>3 DEF QueryTypes
  <2>7. /\ handler' \in [Requests -> Replies] /\ handler'[r] = y
        /\ \A q \in Requests \ {r} : handler'[q] = handler[q]
    BY <1>1, <1>6, <2>4, <2>5 DEF QueryTypes
  <2>8. ReplyOK(r)'
    BY <1>2, <1>3, <1>6, <2>3, <2>5, <2>6, <2>7 DEF ReplyOK, Asks
  <2>9. UnderWay(r)'
    BY <1>6, <2>3, <2>6, <2>8 DEF UnderWay, Idle
  <2> QED
    BY <2>3, <2>6, <2>7, <2>9 DEF QueryOK
<1>7. /\ QueryOK(r)'
      /\ req' \in [Requests -> Reqs] /\ handler' \in [Requests -> Replies]
      /\ \A q \in Requests \ {r} : req'[q] = req[q] /\ handler'[q] = handler[q]
  <2>1. \/ Answered(r, "success", <<>>) \/ Answered(r, "badRequest", <<>>)
        \/ /\ name # NoName
           /\ req' = [req EXCEPT ![r] = [Idle EXCEPT !.pc = "get", !.name = name, !.attempt = 1]]
           /\ handler' = [handler EXCEPT ![r] = Get(name)]
    BY DEF Query
  <2> QED
    BY <1>5, <1>6, <2>1
<1>8. \A q \in Requests : QueryOK(q)'
  <2>1. \A q \in Requests : QueryOK(q)
    BY DEF QueriesOK
  <2>2. warm => warm'
    BY <1>2
  <2>3. \A q \in Requests \ {r} : /\ req'[q] = req[q] /\ handler'[q] = handler[q]
                                   /\ warmAtStart'[q] = warmAtStart[q]
                                   /\ disturbed'[q] = disturbed[q]
    BY <1>1, <1>3, <1>7
  <2> QED
    BY <1>1, <1>7, <2>1, <2>2, <2>3, OneQuery
<1>9. QueryTypes'
  BY <1>1, <1>7 DEF QueryTypes
<1> QED
  BY <1>8, <1>9 DEF QueriesOK

\* A failed exchange: the answer is an error, and known as disturbed.
LEMMA HttpErrorStep ==
  ASSUME QueriesOK, NEW r \in Requests, HttpError(r)
  PROVE  QueriesOK'
<1>1. QueryTypes /\ Observe /\ warm' = warm /\ UNCHANGED warmAtStart
  BY DEF QueriesOK, HttpError, tableVars
<1>2. <<>> \in Seq(IPs)
  OBVIOUS
<1>3. /\ req' \in [Requests -> Reqs] /\ handler' \in [Requests -> Replies]
      /\ req'[r].pc = "answered" /\ req'[r].status = "error" /\ handler'[r].pc = "none"
      /\ \A q \in Requests \ {r} : req'[q] = req[q] /\ handler'[q] = handler[q]
  BY <1>1, <1>2, AnsweredStores DEF HttpError, Failed
<1>4. /\ disturbed' \in [Requests -> BOOLEAN] /\ disturbed'[r]
      /\ \A q \in Requests \ {r} : disturbed'[q] = disturbed[q]
  BY <1>1 DEF HttpError, QueryTypes
<1>5. QueryOK(r)'
  BY <1>3, <1>4 DEF QueryOK, AnswerOK
<1>6. \A q \in Requests : QueryOK(q)'
  BY <1>1, <1>3, <1>4, <1>5, OneQuery DEF QueriesOK
<1>7. QueryTypes'
  BY <1>1, <1>3, <1>4 DEF QueryTypes
<1> QED
  BY <1>6, <1>7 DEF QueriesOK

\* The client takes a reply: a snapshot becomes the answer, anything else the
\* next attempt or, after the last one, an error.
LEMMA ReceiveStep ==
  ASSUME QueriesOK, NEW r \in Requests, Receive(r)
  PROVE  QueriesOK'
<1>1. /\ QueryTypes /\ Observe /\ warm' = warm /\ UNCHANGED <<warmAtStart, disturbed>>
      /\ req[r].pc = "get" /\ handler[r].pc = "done"
  BY DEF QueriesOK, Receive, tableVars
<1>2. UnderWay(r)
  BY <1>1 DEF QueriesOK, QueryOK
<1>3. req[r] \in Reqs /\ handler[r] \in Replies
  BY <1>1 DEF QueryTypes
<1> DEFINE Result == /\ QueryOK(r)'
                     /\ req' \in [Requests -> Reqs] /\ handler' \in [Requests -> Replies]
                     /\ \A q \in Requests \ {r} : req'[q] = req[q] /\ handler'[q] = handler[q]
<1> SUFFICES Result
  <2>1. Result => \A q \in Requests : QueryOK(q)'
    BY <1>1, OneQuery DEF QueriesOK
  <2>2. Result => QueryTypes'
    BY <1>1 DEF QueryTypes
  <2> QED
    BY <2>1, <2>2 DEF QueriesOK
<1>4. CASE handler[r].status = 200
  <2>1. PICK ips \in Shuffled(handler[r].ips) : Answered(r, "success", ips)
    BY <1>4 DEF Receive, Succeeded
  <2>2. handler[r].ips \in Seq(IPs)
    BY <1>3 DEF Replies
  <2>3. /\ ips \in Seq(IPs) /\ IPsOf(ips) = IPsOf(handler[r].ips)
        /\ IsInjective(handler[r].ips) => IsInjective(ips)
    BY <2>2, ShuffledSame
  <2>4. Asks(req[r]) => IPsOf(ips) \in window[r] /\ IsInjective(ips)
    BY <1>1, <1>2, <1>4, <2>3 DEF UnderWay, ReplyOK, Snapshot
  <2>5. /\ req' \in [Requests -> Reqs] /\ handler' \in [Requests -> Replies]
        /\ req'[r].pc = "answered" /\ req'[r].status = "success" /\ req'[r].ips = ips
        /\ req'[r].name = req[r].name /\ handler'[r].pc = "none"
        /\ \A q \in Requests \ {r} : req'[q] = req[q] /\ handler'[q] = handler[q]
    BY <1>1, <2>1, <2>3, AnsweredStores
  <2>6. Asks(req[r]) => IPsOf(ips) \in window'[r]
    BY <1>1, <2>4, <2>5, Observed
  <2>7. AnswerOK(r)'
    BY <2>4, <2>5, <2>6 DEF AnswerOK, Snapshot, Asks
  <2> QED
    BY <2>5, <2>7 DEF QueryOK
<1>5. CASE handler[r].status # 200 /\ Retry(r)
  <2>1. /\ req' = [req EXCEPT ![r].attempt = req[r].attempt + 1]
        /\ handler' = [handler EXCEPT ![r] = Get(req[r].name)]
    BY <1>5 DEF Receive, NextAttempt
  <2>2. req[r].attempt + 1 \in 0..MaxAttempts /\ req[r].attempt + 1 # 0
    BY <1>3, <1>5 DEF Retry, Reqs, MaxAttempts
  <2>3. PICK x : x = [req[r] EXCEPT !.attempt = req[r].attempt + 1]
    OBVIOUS
  <2>4. /\ x \in Reqs /\ x.attempt = req[r].attempt + 1 /\ x.pc = req[r].pc
        /\ x.name = req[r].name /\ x.status = req[r].status
    BY <1>3, <2>2, <2>3 DEF Reqs
  <2>5. PICK y : y = Get(req[r].name)
    OBVIOUS
  <2>6. /\ y \in Replies /\ y.pc \in {"none", "other", "check"}
        /\ y.pc = "check" => Asks(req[r])
        /\ y.pc = "other" => ~Asks(req[r])
    BY <1>2, <2>5, GetLeads DEF UnderWay, Asks
  <2>7. /\ req' \in [Requests -> Reqs] /\ req'[r] = x
        /\ \A q \in Requests \ {r} : req'[q] = req[q]
    BY <1>1, <2>1, <2>3, <2>4 DEF QueryTypes
  <2>8. /\ handler' \in [Requests -> Replies] /\ handler'[r] = y
        /\ \A q \in Requests \ {r} : handler'[q] = handler[q]
    BY <1>1, <2>1, <2>5, <2>6 DEF QueryTypes
  <2>9. ReplyOK(r)'
    BY <1>1, <1>2, <2>4, <2>6, <2>7, <2>8 DEF UnderWay, ReplyOK, Asks
  <2>10. UnderWay(r)'
    BY <1>2, <2>2, <2>4, <2>7, <2>9 DEF UnderWay
  <2> QED
    BY <1>1, <2>4, <2>7, <2>8, <2>10 DEF QueryOK
<1>6. CASE handler[r].status # 200 /\ ~Retry(r)
  <2>1. <<>> \in Seq(IPs)
    OBVIOUS
  <2>2. /\ req' \in [Requests -> Reqs] /\ handler' \in [Requests -> Replies]
        /\ req'[r].pc = "answered" /\ req'[r].status = "error"
        /\ req'[r].attempt = req[r].attempt /\ handler'[r].pc = "none"
        /\ req'[r].name = req[r].name
        /\ \A q \in Requests \ {r} : req'[q] = req[q] /\ handler'[q] = handler[q]
    BY <1>1, <1>6, <2>1, AnsweredStores DEF Receive, Failed
  <2>3. req[r].attempt = MaxAttempts
    BY <1>3, <1>6 DEF Retry, Reqs, MaxAttempts
  <2>4. Asks(req[r]) => ~warmAtStart[r]
    BY <1>1, <1>2, <1>6 DEF UnderWay, ReplyOK
  <2>5. AnswerOK(r)'
    BY <1>1, <2>2, <2>3, <2>4 DEF AnswerOK, Asks
  <2> QED
    BY <2>2, <2>5 DEF QueryOK
<1> QED
  BY <1>4, <1>5, <1>6

\* IsWarm: a table that was warm when the query began does not refuse it.
LEMMA CheckWarmStep ==
  ASSUME QueriesOK, NEW r \in Requests, CheckWarm(r)
  PROVE  QueriesOK'
<1>1. /\ QueryTypes /\ Observe /\ warm' = warm /\ UNCHANGED <<req, warmAtStart, disturbed>>
      /\ handler[r].pc = "check"
  BY DEF QueriesOK, CheckWarm, tableVars
<1>2. req[r].pc = "get"
  <2>1. req[r] \in Reqs
    BY <1>1 DEF QueryTypes
  <2>2. QueryOK(r)
    BY DEF QueriesOK
  <2> QED
    BY <1>1, <2>1, <2>2 DEF QueryOK, AnswerOK, NoReply, Reqs
<1>3. UnderWay(r)
  BY <1>2 DEF QueriesOK, QueryOK
<1>4. PICK y \in Replies : /\ handler' = [handler EXCEPT ![r] = y]
                           /\ \/ ~warm /\ y.pc = "done" /\ y.status = 500
                              \/ warm /\ y.pc = "lookup"
  <2>1. handler[r] \in Replies
    BY <1>1 DEF QueryTypes
  <2>2. CASE Refuses
    <3>1. PICK y : y = [handler[r] EXCEPT !.pc = "done", !.status = 500]
      OBVIOUS
    <3>2. y \in Replies /\ y.pc = "done" /\ y.status = 500
      BY <2>1, <3>1 DEF Replies
    <3>3. handler' = [handler EXCEPT ![r] = y]
      BY <2>2, <3>1 DEF CheckWarm
    <3>4. ~warm
      BY <2>2 DEF Refuses
    <3>5. y \in Replies
      BY <3>2
    <3> WITNESS y \in Replies
    <3> QED
      BY <3>2, <3>3, <3>4
  <2>3. CASE ~Refuses
    <3>1. PICK y : y = [handler[r] EXCEPT !.pc = "lookup"]
      OBVIOUS
    <3>2. y \in Replies /\ y.pc = "lookup"
      BY <2>1, <3>1 DEF Replies
    <3>3. handler' = [handler EXCEPT ![r] = y]
      BY <2>3, <3>1 DEF CheckWarm
    <3> QED
      BY <2>3, <3>2, <3>3 DEF Refuses
  <2> QED
    BY <2>2, <2>3
<1>5. /\ handler' \in [Requests -> Replies] /\ handler'[r] = y
      /\ \A q \in Requests \ {r} : handler'[q] = handler[q]
  BY <1>1, <1>4 DEF QueryTypes
<1>6. ReplyOK(r)'
  BY <1>1, <1>3, <1>4, <1>5 DEF UnderWay, ReplyOK
<1>7. QueryOK(r)'
  BY <1>1, <1>2, <1>3, <1>6 DEF QueryOK, UnderWay
<1>8. \A q \in Requests : QueryOK(q)'
  BY <1>1, <1>5, <1>7, OneQuery DEF QueriesOK
<1>9. QueryTypes'
  BY <1>1, <1>5 DEF QueryTypes
<1> QED
  BY <1>8, <1>9 DEF QueriesOK

\* Lookup: what it returns is what the warm table lists at this moment.
LEMMA DoLookupStep ==
  ASSUME GoodTable(addresses), QueriesOK, NEW r \in Requests, DoLookup(r)
  PROVE  QueriesOK'
<1>1. /\ QueryTypes /\ Observe /\ UNCHANGED <<req, warmAtStart, disturbed>>
      /\ UNCHANGED tableVars /\ warm' = warm /\ addresses' = addresses
      /\ handler[r].pc = "lookup"
  BY DEF QueriesOK, DoLookup, LookupNow, tableVars
<1>2. req[r].pc = "get"
  <2>1. req[r] \in Reqs
    BY <1>1 DEF QueryTypes
  <2>2. QueryOK(r)
    BY DEF QueriesOK
  <2> QED
    BY <1>1, <2>1, <2>2 DEF QueryOK, AnswerOK, NoReply, Reqs
<1>3. UnderWay(r) /\ warm /\ Asks(req[r])
  BY <1>1, <1>2 DEF QueriesOK, QueryOK, UnderWay, ReplyOK
<1>4. PICK ips \in Seq(IPs) : ips = Lookup(serviceKey(req[r].name)) /\ IsInjective(ips)
  BY LookupGives
<1>5. PICK y : y = [pc |-> "done", status |-> 200, ips |-> ips]
  OBVIOUS
<1>6. y \in Replies /\ y.pc = "done" /\ y.status = 200 /\ y.ips = ips
  BY <1>5 DEF Replies
<1>7. handler' = [handler EXCEPT ![r] = y]
  BY <1>4, <1>5 DEF DoLookup
<1>8. /\ handler' \in [Requests -> Replies] /\ handler'[r] = y
      /\ \A q \in Requests \ {r} : handler'[q] = handler[q]
  BY <1>1, <1>6, <1>7 DEF QueryTypes
<1>9. Listing'[serviceKey(req[r].name)] = IPsOf(ips)
  <2>1. Listing' = Listing
    BY <1>1 DEF Listing, Lookup, entriesForHostname
  <2>2. serviceKey(req[r].name) \in Hostname
    BY <1>3 DEF Asks
  <2> QED
    BY <1>4, <2>1, <2>2 DEF Listing
<1>10. IPsOf(ips) \in window'[r]
  BY <1>1, <1>2, <1>3, <1>9, Observed
<1>11. ReplyOK(r)'
  BY <1>1, <1>3, <1>4, <1>6, <1>8, <1>10 DEF UnderWay, ReplyOK, Snapshot
<1>12. QueryOK(r)'
  BY <1>1, <1>2, <1>3, <1>11 DEF QueryOK, UnderWay
<1>13. \A q \in Requests : QueryOK(q)'
  BY <1>1, <1>8, <1>12, OneQuery DEF QueriesOK
<1>14. QueryTypes'
  BY <1>1, <1>8 DEF QueryTypes
<1> QED
  BY <1>13, <1>14 DEF QueriesOK

\* Outside the endpoint nothing is promised of the answer.
LEMMA OtherPageStep ==
  ASSUME QueriesOK, NEW r \in Requests, OtherPage(r)
  PROVE  QueriesOK'
<1>1. /\ QueryTypes /\ Observe /\ warm' = warm /\ UNCHANGED <<req, warmAtStart, disturbed>>
      /\ handler[r].pc = "other"
  BY DEF QueriesOK, OtherPage, tableVars
<1>2. req[r].pc = "get"
  <2>1. req[r] \in Reqs
    BY <1>1 DEF QueryTypes
  <2>2. QueryOK(r)
    BY DEF QueriesOK
  <2> QED
    BY <1>1, <2>1, <2>2 DEF QueryOK, AnswerOK, NoReply, Reqs
<1>3. UnderWay(r) /\ ~Asks(req[r])
  BY <1>1, <1>2 DEF QueriesOK, QueryOK, UnderWay, ReplyOK
<1>4. PICK y \in Replies : handler' = [handler EXCEPT ![r] = y] /\ y.pc = "done"
  <2>1. PICK status \in {200, 404} :
          handler' = [handler EXCEPT ![r] = [pc |-> "done", status |-> status, ips |-> <<>>]]
    BY DEF OtherPage
  <2>2. <<>> \in Seq(IPs)
    OBVIOUS
  <2> DEFINE z == [pc |-> "done", status |-> status, ips |-> <<>>]
  <2>3. z \in Replies /\ z.pc = "done"
    BY <2>2 DEF Replies
  <2>4. z \in Replies
    BY <2>3
  <2>5. handler' = [handler EXCEPT ![r] = z]
    BY <2>1
  <2> HIDE DEF z
  <2> WITNESS z \in Replies
  <2> QED
    BY <2>3, <2>5
<1>5. /\ handler' \in [Requests -> Replies] /\ handler'[r] = y
      /\ \A q \in Requests \ {r} : handler'[q] = handler[q]
  BY <1>1, <1>4 DEF QueryTypes
<1>6. ReplyOK(r)'
  BY <1>1, <1>3, <1>4, <1>5 DEF UnderWay, ReplyOK
<1>7. QueryOK(r)'
  BY <1>1, <1>2, <1>3, <1>6 DEF QueryOK, UnderWay
<1>8. \A q \in Requests : QueryOK(q)'
  BY <1>1, <1>5, <1>7, OneQuery DEF QueriesOK
<1>9. QueryTypes'
  BY <1>1, <1>5 DEF QueryTypes
<1> QED
  BY <1>8, <1>9 DEF QueriesOK

\* The table changes under the queries.
LEMMA TableStepKeeps ==
  ASSUME QueriesOK, TableStep
  PROVE  QueriesOK'
<1>1. warm => warm'
  BY WarmStays DEF TableStep
<1>2. Observe /\ UNCHANGED <<req, handler, warmAtStart, disturbed>>
  BY DEF TableStep, lookupVars
<1>3. \A r \in Requests : QueryOK(r)'
  BY <1>1, <1>2, Untouched DEF QueriesOK
<1>4. QueryTypes'
  BY <1>2 DEF QueriesOK, QueryTypes
<1> QED
  BY <1>3, <1>4 DEF QueriesOK

-----------------------------------------------------------------------------
(* The theorems.                                                           *)

\* The invariant holds before the first query.
LEMMA DnsInitInv == Init => DnsInv
<1> SUFFICES ASSUME Init PROVE DnsInv
  OBVIOUS
<1>1. TableInv
  BY TableInitInv DEF Init
<1>2. Idle \in Reqs /\ NoReply \in Replies
  BY DEF Idle, NoReply, Reqs, Replies, MaxAttempts, Names
<1>3. QueryTypes
  BY <1>2 DEF Init, QueryTypes
<1>4. \A r \in Requests : req[r] = Idle /\ handler[r] = NoReply
  BY DEF Init
<1>5. Idle.pc = "idle"
  BY DEF Idle
<1>6. \A r \in Requests : QueryOK(r)
  BY <1>4, <1>5 DEF QueryOK
<1> QED
  BY <1>1, <1>3, <1>6 DEF DnsInv

\* Every step keeps it.
LEMMA DnsNextInv == DnsInv /\ [Next]_vars => DnsInv'
<1> SUFFICES ASSUME DnsInv, [Next]_vars PROVE DnsInv'
  OBVIOUS
<1>1. TableInv /\ QueriesOK /\ GoodTable(addresses) /\ warm \in BOOLEAN
  BY DEF DnsInv, QueriesOK, TableInv, ControlOK
<1>2. TableInv'
  <2>1. [TableNext]_tableVars
    BY DEF Next, Query, HttpError, Receive, CheckWarm, DoLookup, OtherPage, TableStep, vars
  <2> QED
    BY <1>1, <2>1, TableNextInv
<1>3. QueriesOK'
  <2>1. CASE \E r \in Requests, dnsType \in {NoName, TypeA, "28"}, name \in Names :
               Query(r, dnsType, name)
    BY <1>1, <2>1, QueryStep
  <2>2. CASE \E r \in Requests : HttpError(r)
    BY <1>1, <2>2, HttpErrorStep
  <2>3. CASE \E r \in Requests : Receive(r)
    BY <1>1, <2>3, ReceiveStep
  <2>4. CASE \E r \in Requests : CheckWarm(r)
    BY <1>1, <2>4, CheckWarmStep
  <2>5. CASE \E r \in Requests : DoLookup(r)
    BY <1>1, <2>5, DoLookupStep
  <2>5a. CASE \E r \in Requests : OtherPage(r)
    BY <1>1, <2>5a, OtherPageStep
  <2>6. CASE TableStep
    BY <1>1, <2>6, TableStepKeeps
  <2>7. CASE UNCHANGED vars
    BY <1>1, <2>7 DEF vars, lookupVars, tableVars, QueriesOK, QueryTypes, QueryOK, UnderWay,
                      ReplyOK, AnswerOK, Snapshot
  <2> QED
    BY <2>1, <2>2, <2>3, <2>4, <2>5, <2>5a, <2>6, <2>7 DEF Next
<1> QED
  BY <1>2, <1>3 DEF DnsInv, QueriesOK

LEMMA DnsInvariance == Spec => []DnsInv
  BY DnsInitInv, DnsNextInv, PTL DEF Spec

\* A query that has a result has been answered as it should.
LEMMA ResultsOK ==
  ASSUME DnsInv, NEW r \in Requests, req[r].status # "none"
  PROVE  AnswerOK(r) /\ req[r].ips \in Seq(IPs)
<1>1. req[r] \in Reqs /\ QueryOK(r)
  BY DEF DnsInv, QueryTypes
<1>2. req[r].pc = "answered"
  BY <1>1 DEF Reqs, QueryOK, UnderWay, Idle
<1> QED
  BY <1>1, <1>2 DEF QueryOK, Reqs

\* The two sides of every query have their types in every reachable state.
THEOREM LookupTypeCorrect == Spec => []TypeOK
<1>1. DnsInv => TypeOK
  BY TableInvTypes DEF DnsInv, QueryTypes, Reqs, Replies, TypeOK
<1> QED
  BY <1>1, DnsInvariance, PTL

\* Every successful answer is, without repetitions, what a warm table listed
\* for the hostname at one moment of the query, for any number of concurrent
\* queries, any change of the table between IsWarm, Lookup and the answer, and
\* whatever a name with characters of a URL becomes.
THEOREM AnswersExact == Spec => []AnswersAreSnapshots
<1>1. ASSUME DnsInv, NEW r \in Requests, req[r].status = "success", Asks(req[r])
      PROVE  /\ IPsOf(req[r].ips) \in window[r]
             /\ Len(req[r].ips) = Cardinality(IPsOf(req[r].ips))
  <2>1. AnswerOK(r) /\ req[r].ips \in Seq(IPs)
    BY <1>1, ResultsOK
  <2>2. Snapshot(r, req[r].ips)
    BY <1>1, <2>1 DEF AnswerOK
  <2> QED
    BY <2>1, <2>2, LengthIsCardinality DEF Snapshot
<1>2. DnsInv => AnswersAreSnapshots
  BY <1>1 DEF AnswersAreSnapshots
<1> QED
  BY <1>2, DnsInvariance, PTL

\* A controller that was warm when a query began never makes it fail.
THEOREM WarmAnswers == Spec => []WarmNeverRefuses
<1>1. DnsInv => WarmNeverRefuses
  BY ResultsOK DEF AnswerOK, WarmNeverRefuses
<1> QED
  BY <1>1, DnsInvariance, PTL

\* The client gives up on a cold controller only after its last attempt.
THEOREM AllAttemptsMade == Spec => []GivesUpLate
<1>1. DnsInv => GivesUpLate
  BY ResultsOK DEF AnswerOK, GivesUpLate
<1> QED
  BY <1>1, DnsInvariance, PTL

=============================================================================
