-------------------------- MODULE MCRouteEmission --------------------------
(* One app behind one hostname, with the messages its emitter sends.        *)
EXTENDS RouteEmission

CONSTANTS a

AppName == [label |-> a, dot |-> FALSE]

EmitterMessages ==
  {[subject |-> s, json |-> TRUE, host |-> ip, uris |-> {AppName}] :
     s \in {"register", "unregister"}, ip \in IPs}

=============================================================================
