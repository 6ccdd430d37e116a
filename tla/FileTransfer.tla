------------------------------ MODULE FileTransfer ------------------------------
(***************************************************************************)
(* What ec_foe_read and ec_foe_write promise (foe.h): a read that returns  *)
(* EC_OK returns the file, whole; after a write that returns EC_OK the     *)
(* file is on the slave, whole.  Transfers may fail at any time; the slave *)
(* holds a whole file or the one it held before.                           *)
(***************************************************************************)
EXTENDS Integers

CONSTANTS Files, NULL

VARIABLES
    transfer,  \* the call in progress: [op, file], or NULL
    result,    \* of the last call: [ok, data, of], or NULL
    stored,    \* what the slave received last
    sound      \* can calls still be trusted?

tvars == <<transfer, result, stored, sound>>

Call(op) == {[op |-> op, file |-> f] : f \in DOMAIN Files}

Init == transfer = NULL /\ result = NULL /\ stored = NULL /\ sound \in BOOLEAN

Begin == /\ transfer = NULL
         /\ transfer' \in Call("read") \cup Call("write")
         /\ result' = NULL
         /\ UNCHANGED <<stored, sound>>

\* The whole file is there, while it is being written; only once calls cannot be trusted
\* it may be anything, at any time.
Store == /\ sound => /\ transfer # NULL /\ transfer.op = "write"
                     /\ stored' = Files[transfer.file]
         /\ UNCHANGED <<transfer, result, sound>>

Kept(call, ret) == ret.ok => CASE call.op = "read"  -> ret.data = Files[call.file]
                               [] call.op = "write" -> stored = Files[call.file]

\* A call that finds no send buffer begins and ends in one step.
Finish == /\ transfer' = NULL /\ result' # NULL
          /\ transfer # NULL => result'.of = transfer
          /\ transfer = NULL => ~result'.ok
          /\ sound /\ sound' => Kept(result'.of, result')
          /\ UNCHANGED stored
          /\ sound' \in {sound, FALSE}

\* Something went wrong that a call cannot notice.
Distrust == sound' = FALSE /\ UNCHANGED <<transfer, result, stored>>

Next == Begin \/ Store \/ Finish \/ Distrust

Spec == Init /\ [][Next]_tvars
=============================================================================
