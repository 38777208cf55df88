-------------------------- MODULE MCTextRecording --------------------------
(* The model-checking run of TextRecording.                                 *)
EXTENDS TextRecording
=============================================================================
