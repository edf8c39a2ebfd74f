--------------------------- MODULE LayerConstants ---------------------------
(***************************************************************************)
(* What the modules of the optional layers share.                          *)
(***************************************************************************)
CONSTANTS None,  \* null, undefined, or no entry in a Map
          Apps   \* names of applications
=============================================================================
