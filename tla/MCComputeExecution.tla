------------------------- MODULE MCComputeExecution -------------------------
(* Two callers that may race on one request or work on one each, and a      *)
(* second request that may be planned and never submitted.                  *)
EXTENDS ComputeExecution
=============================================================================
