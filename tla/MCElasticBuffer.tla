--------------------------- MODULE MCElasticBuffer ---------------------------
(* A buffer of three slots and three tokens.                                 *)
EXTENDS ElasticBuffer

\* No simple node occurs here.
MCCompute(op, args) == NoToken
=============================================================================
