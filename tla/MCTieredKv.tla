----------------------------- MODULE MCTieredKv ------------------------------
(* TieredKv with three layers, the last of which shares the K and V of the  *)
(* second, a vocabulary of two tokens, tier sizes from nothing at all to    *)
(* more than the request needs, and at most four workgroups, so that slices *)
(* of two positions and an empty one occur.                                 *)
EXTENDS TieredKv

MCToken == {"a", "eos"}
MCLayers == 1 .. 3
MCDonor == <<1, 2, 2>>
\* A model that ends the text after two tokens "a" in a row.
MCArgmax(ctx) == IF Len(ctx) >= 4 /\ ctx[Len(ctx)] = "a" /\ ctx[Len(ctx) - 1] = "a"
                   THEN "eos" ELSE "a"
MCSupport(ctx) == IF Len(ctx) > 2 THEN MCToken ELSE {"a"}
MCWarmEnv == {Unset, 0, 1, 2}
MCColdEnv == {Unset, 1, 9}
=============================================================================
