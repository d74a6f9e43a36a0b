---------------------------- MODULE MCEndpointCall ----------------------------
(* EndpointCall with a name that leaves room in a record of the length read,  *)
(* and one that does not; their characters look like types of values.         *)
EXTENDS EndpointCall, TLC

MCNames == {<<3>>, <<3, 0>>}
ClientSymmetry == Permutations(Clients)
=============================================================================
