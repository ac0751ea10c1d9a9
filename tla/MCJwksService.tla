--------------------------- MODULE MCJwksService ---------------------------
(* An instance of JwksService for TLC: a key is added, an unusable document   *)
(* is published, then the first key is withdrawn and a third added.         *)
EXTENDS JwksService

Rotations == <<{"k1"}, {"k1", "k2"}, {}, {"k2", "k3"}>>
=============================================================================
