--------------------------- MODULE MCAddressTable ---------------------------
(* The address table on small instances.  Every table state is finite:     *)
(* ages and timers saturate, so no state constraint is needed.             *)
EXTENDS AddressTable

=============================================================================
