---------------------------- MODULE MCDnsLookup ----------------------------
(* Queries against a table with one hostname, in both spellings, and for    *)
(* names that become this hostname, no URL, or another path.                *)
EXTENDS DnsLookup

CONSTANTS a, slash, percent, dots

OddKeys ==
  [name \in OddNames |-> CASE name = slash   -> [label |-> a, dot |-> FALSE]
                          [] name = percent -> BadUrl
                          [] name = dots    -> OtherPath]

=============================================================================
