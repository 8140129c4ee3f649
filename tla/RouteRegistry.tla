---------------------------- MODULE RouteRegistry ----------------------------
(***************************************************************************)
(* What the address table promises to the rest of the controller: a set of *)
(* routes, each with the time since it was last registered.  Registering   *)
(* makes a route as new, unregistering takes it out, and a route nobody    *)
(* has registered for longer than the staleness threshold may be dropped,  *)
(* at any time and in any batch.  Nothing else ever changes the routes.    *)
(*                                                                         *)
(* No hostname spelling, entry order, pruning phase, pause or ticker is    *)
(* left here; AddressTable is shown to implement this specification.       *)
(***************************************************************************)
EXTENDS Integers

CONSTANTS Names,              \* fully qualified hostnames
          IPs,
          StalenessThreshold

VARIABLE routes

Route == [name: Names, ip: IPs, age: 0..(StalenessThreshold + 1)]

\* The routes that registering or unregistering names at ip is about.
Of(names, ip) == {r \in routes : r.name \in names /\ r.ip = ip}

Register(names, ip) ==
  routes' = (routes \ Of(names, ip))
              \cup {[name |-> n, ip |-> ip, age |-> 0] : n \in names}

Unregister(names, ip) == routes' = routes \ Of(names, ip)

Expire ==
  \E stale \in SUBSET {r \in routes : r.age > StalenessThreshold} :
    routes' = routes \ stale

Older(age) == IF age > StalenessThreshold THEN age ELSE age + 1

TimePasses ==
  routes' = {[name |-> r.name, ip |-> r.ip, age |-> Older(r.age)] : r \in routes}

Init == routes = {}

Next ==
  \/ \E names \in SUBSET Names, ip \in IPs : Register(names, ip)
  \/ \E names \in SUBSET Names, ip \in IPs : Unregister(names, ip)
  \/ Expire
  \/ TimePasses

Spec == Init /\ [][Next]_routes

=============================================================================
