-------------------------- MODULE MCMappingAttempt --------------------------
(***************************************************************************)
(* Thirty-two columns with headers of ten letters: an ID costs 17 bytes a  *)
(* column, a header 28, the quotes of the fields are escaped in their      *)
(* envelope.  A small answer, one near the limit and one above it.         *)
(***************************************************************************)
EXTENDS MappingAttempt

MCSizes == {4000, 64847, 70000}

MCStops == {1, 65536, 65537}
=============================================================================
