--------------------------- MODULE MCSharedInference ---------------------------
(* A camera whose images the provider rejects and one that sends two calls.  *)
EXTENDS SharedInference

CONSTANTS c1, c2, k1, k2, k3

MCCameraOf == (k1 :> c1) @@ (k2 :> c2) @@ (k3 :> c2)
MCImagesOf == (k1 :> 2) @@ (k2 :> 2) @@ (k3 :> 1)
==============================================================================
