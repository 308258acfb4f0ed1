------------------------- MODULE MCPublishPipeline -------------------------
(* Instances of PublishPipeline for TLC.                                   *)
EXTENDS PublishPipeline
=============================================================================
