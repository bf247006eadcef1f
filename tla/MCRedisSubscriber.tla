------------------------- MODULE MCRedisSubscriber -------------------------
(***************************************************************************)
(* RedisSubscriber for TLC.                                                *)
(***************************************************************************)
EXTENDS RedisSubscriber

CONSTANTS c1, c2
=============================================================================
