---------------------------- MODULE MCGossipMesh ----------------------------
(* Three nodes in a line for TLC: the middle one relays. *)
EXTENDS GossipMesh, TLC

CONSTANTS a, b, c

MCNodes == {a, b, c}
MCLinks == {<<a, b>>, <<b, a>>, <<b, c>>, <<c, b>>}
MCDist == a :> (a :> 0 @@ b :> 1 @@ c :> 2)
       @@ b :> (a :> 1 @@ b :> 0 @@ c :> 1)
       @@ c :> (a :> 2 @@ b :> 1 @@ c :> 0)
=============================================================================
