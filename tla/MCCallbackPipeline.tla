-------------------------- MODULE MCCallbackPipeline --------------------------
(* A small instance of CallbackPipeline.                                   *)
EXTENDS CallbackPipeline
===============================================================================
