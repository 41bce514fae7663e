--------------------------------- MODULE WebMC ---------------------------------
(* Web for TLC: no middleware, either one, and both in either order. *)
EXTENDS Web

MCChains ==
  { <<>>, <<"recover">>, <<"timeout">>, <<"recover", "timeout">>, <<"timeout", "recover">> }
================================================================================
