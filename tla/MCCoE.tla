--------------------------------- MODULE MCCoE ---------------------------------
(* Instances of CoE for TLC: the identities of the requests. *)
EXTENDS CoE

MCRequests == Users \X (1 .. MaxCalls) \X (0 .. Segments)
=============================================================================
