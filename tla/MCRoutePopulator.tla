-------------------------- MODULE MCRoutePopulator --------------------------
(* The populator with every number of routes up to MaxRoutes and every      *)
(* number of CPUs up to MaxCPU at once.                                     *)
EXTENDS RoutePopulator

=============================================================================
