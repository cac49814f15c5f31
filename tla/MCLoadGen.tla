------------------------------ MODULE MCLoadGen ------------------------------
(***************************************************************************)
(* Small values for the load generator.                                    *)
(***************************************************************************)
EXTENDS LoadGen

CONSTANT NotANumber

MCSettings == {NotANumber, 0, 2}
UDPFirst   == <<"udp", "tcp">>
AnyReply   == {"NOERROR", "NXDOMAIN", "SERVFAIL", "truncated", "lost"}
NoFailure  == {"NOERROR", "NXDOMAIN", "truncated", "lost"}
=============================================================================
