---------------------------- MODULE MCSubscriber ----------------------------
(* The subscriber on one hostname and one ip.  The messages are one of each *)
(* kind the handlers tell apart.                                            *)
EXTENDS Subscriber

CONSTANTS a, ip1

Name == [label |-> a, dot |-> FALSE]

Message(subject, json, host, uris) ==
  [subject |-> subject, json |-> json, host |-> host, uris |-> uris]

AllKinds ==
  {Message("register", TRUE, ip1, {Name}),
   Message("register", TRUE, NoHost, {Name}),
   Message("register", TRUE, ip1, {}),
   Message("register", FALSE, NoHost, {}),
   Message("unregister", TRUE, ip1, {Name}),
   Message("unregister", TRUE, NoHost, {Name}),
   Message("unregister", FALSE, NoHost, {}),
   Message("greet", FALSE, NoHost, {})}

=============================================================================
