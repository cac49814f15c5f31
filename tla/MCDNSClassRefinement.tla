------------------------ MODULE MCDNSClassRefinement ------------------------
(***************************************************************************)
(* Small values for the controller with its history.                       *)
(***************************************************************************)
EXTENDS MCDNSClassController, DNSClassRefinement
=============================================================================
