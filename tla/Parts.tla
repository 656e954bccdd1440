-------------------------------- MODULE Parts --------------------------------
(* Components that share no row stand one beside the other in a model; the    *)
(* one that moves in a behaviour is its part.                                 *)
VARIABLE part
=============================================================================
