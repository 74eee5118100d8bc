-------------------------------- MODULE MCOcr --------------------------------
(* Small instances of Ocr for TLC.  No symmetry: liveness is checked. *)
EXTENDS Ocr, TLC
=============================================================================
