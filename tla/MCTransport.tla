---------------------------- MODULE MCTransport ----------------------------
(* Instances of Transport for TLC: what the cyclic task sends, and the symmetry   *)
(* of callers that none of them is told apart by.                                 *)
EXTENDS Transport

NoCycle    == <<>>
FullCycle  == <<"dc", "lwr", "lrd", "mbx">>
DataCycle  == <<"lwr", "lrd">>
DcCycle    == <<"dc">>

AlikeClients == Permutations(Clients)
=============================================================================
