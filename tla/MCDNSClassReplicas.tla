--------------------------- MODULE MCDNSClassReplicas ---------------------------
(***************************************************************************)
(* Small values for two replicas.                                          *)
(***************************************************************************)
EXTENDS MCDNSClassController, DNSClassReplicas
================================================================================
