---------------------------- MODULE MCProtoCodec ----------------------------
(***************************************************************************)
(* Every message of the repository, with every field unset or set and one  *)
(* field varied, encoded by either codec and read by either.               *)
(***************************************************************************)
EXTENDS ProtoCodec

MCTypes == DOMAIN G!Gogo
=============================================================================
