------------------------- MODULE MCDisplayPipeline -------------------------
(* Instances of DisplayPipeline for TLC.                                   *)
EXTENDS DisplayPipeline

CONSTANTS browser, play, inactive

=============================================================================
