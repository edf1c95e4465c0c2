--------------------------- MODULE MCArtworkCache ---------------------------
(* Instances of the artwork cache for TLC: three images, of which two fit. *)
EXTENDS ArtworkCache, TLC
CONSTANTS a, b, c
Sizes == a :> 1 @@ b :> 1 @@ c :> 2
=============================================================================
