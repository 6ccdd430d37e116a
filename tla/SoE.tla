---------------------------------- MODULE SoE ----------------------------------
(***************************************************************************)
(* Servo drive access over EtherCAT: ec_soe_read and ec_soe_write (soe.c), *)
(* and the drive.  soe.lock admits one call at a time, so one thread makes *)
(* all calls.  The value of an ID number is a sequence of units of data.   *)
(***************************************************************************)
EXTENDS FoE

CONSTANTS
    MaxStrays   \* bound: messages of the drive nobody asked for

VARIABLES
    soe,        \* the thread in ec_soe_read or ec_soe_write
    soe_calls,  \* the calls it makes: [op, value, len], len being the caller's *len
    drive,      \* what the drive has received of a write, what it holds, and refused
    strays

sevars == <<soe, soe_calls, drive, strays>>

SoeMessage(op, left, payload, more) == Message("soe", op, left, payload, more)

SoeOp    == soe_calls[soe.call]
Refusal  == <<"error">>

\* The fragments of a value in mailboxes with this much room.
Fragments(value, size) ==
    LET last == IF value = <<>> THEN 0 ELSE (Len(value) - 1) \div size
    IN  [k \in 1 .. last + 1 |-> Part(value, (k - 1) * size, size)]

-----------------------------------------------------------------------------
SoeReturn(ret) == soe' = [soe EXCEPT !.pc = "idle", !.ret = ret]

SoeOnly == UNCHANGED <<soe_calls, drive, strays>>

SoeSend(m, next) == \/ SendHead(m) /\ soe' = next
                    \/ /\ send_free = 0
                       /\ soe' = [next EXCEPT !.pc = "idle", !.ret = "no_buffer"]
                       /\ UNCHANGED sends

\* Lock; a read sends its request, a write begins with its first fragment.
SoeCall == /\ soe.pc = "idle" /\ soe.call < Len(soe_calls)
           /\ LET call == soe_calls[soe.call + 1]
                  next == [pc |-> call.op, call |-> soe.call + 1, ret |-> "timeout", got |-> <<>>,
                           left |-> IF call.op = "read" THEN call.len ELSE Len(call.value),
                           first |-> TRUE, buffer |-> NULL]
              IN  IF call.op = "read" THEN SoeSend(SoeMessage("READ_REQ", next.call, <<>>, FALSE), next)
                  ELSE /\ soe' = [next EXCEPT !.pc = IF call.value = <<>> THEN "idle" ELSE "fragment"]
                       /\ UNCHANGED sends
           /\ UNCHANGED <<recvs, slave, losses, lates>>
           /\ SoeOnly

\* Mutant: each fragment is copied to the start of the caller's buffer.
SoeReadFragment_start ==
    /\ soe.pc = "read" /\ TakeAndReturn("soe") /\ Received("soe").op = "READ_RES"
    /\ LET m    == Received("soe")
           left == IF soe.first /\ soe.left = 0 /\ m.nr # 0 THEN (m.nr + 1) * Len(m.payload) ELSE soe.left
       IN  soe' = [soe EXCEPT !.pc = "returned", !.first = FALSE, !.buffer = Oldest("soe"),
                              !.got = Part(m.payload, 0, left),
                              !.left = IF left > Len(m.payload) THEN left - Len(m.payload) ELSE 0]
    /\ UNCHANGED sends
    /\ SoeOnly

\* A fragment: copied as far as it fits, and the buffer is returned.  The error bit is not
\* looked at.  A caller with *len = 0 gets room for all fragments from the first one.
SoeReadFragment ==
    /\ soe.pc = "read" /\ TakeAndReturn("soe") /\ Received("soe").op = "READ_RES"
    /\ LET m    == Received("soe")
           left == IF soe.first /\ soe.left = 0 /\ m.nr # 0 THEN (m.nr + 1) * Len(m.payload) ELSE soe.left
       IN  soe' = [soe EXCEPT !.pc = "returned", !.first = FALSE, !.buffer = Oldest("soe"),
                              !.got = @ \o Part(m.payload, 0, left),
                              !.left = IF left > Len(m.payload) THEN left - Len(m.payload) ELSE 0]
    /\ UNCHANGED sends
    /\ SoeOnly

\* Only now `incomplete' is looked up, in the buffer that was returned.
SoeReadMore == /\ soe.pc = "returned"
               /\ soe' = IF data[soe.buffer].more
                         THEN [soe EXCEPT !.pc = "read", !.buffer = NULL]
                         ELSE [soe EXCEPT !.pc = "idle", !.ret = "ok", !.buffer = NULL]
               /\ UNCHANGED port
               /\ SoeOnly

\* Any other message is returned, and p_entry, which still names its buffer, looked at again.
SoeReadSpins == /\ soe.pc = "read" /\ TakeAndReturn("soe") /\ Received("soe").op # "READ_RES"
                /\ soe' = [soe EXCEPT !.pc = "spin", !.buffer = Oldest("soe")]
                /\ UNCHANGED sends
                /\ SoeOnly

\* The next round returns the buffer once more, whatever is in it by now and wherever it is.
SoeReturnsAgain == /\ soe.pc = "spin"
                   /\ ec_mbx_return_free_recv_buffer(soe.buffer)
                   /\ soe' = [soe EXCEPT !.pc = "twice"]
                   /\ UNCHANGED <<sends, data, recv_pool, handler, slave, losses, lates>>
                   /\ SoeOnly

\* The next fragment of a write.
SoeWriteFragment ==
    /\ soe.pc = "fragment"
    /\ LET part == Part(SoeOp.value, Len(SoeOp.value) - soe.left, room.write)
           left == soe.left - Len(part)
       IN  SoeSend(SoeMessage("WRITE_REQ", 0, part, left # 0),
                   [soe EXCEPT !.pc = "write", !.left = left])
    /\ UNCHANGED <<recvs, slave, losses, lates>>
    /\ SoeOnly

\* After an answer, or none, the rest is sent; ret is not reset.
SoeGoOn(ret) == soe' = [soe EXCEPT !.pc = IF soe.left = 0 THEN "idle" ELSE "fragment", !.ret = ret]

\* The confirmation, whether the drive refused or not; other messages are passed over.
SoeWriteAnswer == /\ soe.pc = "write" /\ TakeAndReturn("soe")
                  /\ IF Received("soe").op = "WRITE_RES" THEN SoeGoOn("ok") ELSE UNCHANGED soe
                  /\ UNCHANGED sends
                  /\ SoeOnly

SoeTimeout == /\ soe.pc \in {"read", "write"}
              /\ Expires("soe")
              /\ IF soe.pc = "read" THEN SoeReturn(soe.ret) ELSE SoeGoOn(soe.ret)
              /\ SoeOnly

-----------------------------------------------------------------------------
(* The drive (external).                                                   *)

\* Answers to a read: the fragments, each with the number of those left, or a refusal.
DriveAnswers(value) ==
    LET parts == Fragments(value, room.read)
    IN  [k \in DOMAIN parts |->
            SoeMessage("READ_RES", Len(parts) - k, parts[k], k < Len(parts))]

SlaveSoe ==
    /\ wrote # NULL /\ wrote.pool = "soe"
    /\ LET got == drive.got \o wrote.payload
           yes == <<SoeMessage("WRITE_RES", 0, <<>>, FALSE)>>
       IN  \/ /\ wrote.op = "READ_REQ"
              /\ \/ SlaveTakes(DriveAnswers(soe_calls[wrote.nr].value)) /\ UNCHANGED drive
                 \/ /\ SlaveTakes(<<SoeMessage("READ_RES", 0, Refusal, FALSE)>>)
                    /\ drive' = [drive EXCEPT !.refused = TRUE]
           \/ /\ wrote.op = "WRITE_REQ"
              /\ SlaveTakes(yes)
              /\ \/ drive' = IF wrote.more THEN [drive EXCEPT !.got = got]
                             ELSE [drive EXCEPT !.got = <<>>, !.holds = got]
                 \/ drive' = [drive EXCEPT !.got = <<>>, !.refused = TRUE]
    /\ UNCHANGED <<soe, soe_calls, strays>>

\* Notifications, which the handler only logs, and emergencies come when the drive likes
\* (looked at where SoE is used).
DriveSpeaks == /\ soe_calls # <<>> /\ strays < MaxStrays /\ strays' = strays + 1
               /\ \E m \in {Message("log", "NOTIFICATION", 0, <<>>, FALSE),
                            SoeMessage("EMERGENCY", 0, <<>>, FALSE)} : SlaveSpeaks(<<m>>)
               /\ UNCHANGED <<soe, soe_calls, drive>>

-----------------------------------------------------------------------------
SoeInit(calls) ==
    /\ soe = [pc |-> "idle", call |-> 0, ret |-> NULL, got |-> <<>>, left |-> 0, first |-> FALSE,
              buffer |-> NULL]
    /\ soe_calls = calls
    /\ drive = [got |-> <<>>, holds |-> NULL, refused |-> FALSE]
    /\ strays = 0

SoeNext == \/ SoeCall \/ SoeReadFragment \/ SoeReadMore \/ SoeReadSpins \/ SoeReturnsAgain
           \/ SoeWriteFragment \/ SoeWriteAnswer \/ SoeTimeout

\* A read has returned the same buffer twice, and goes on doing so with soe.lock in its hands.
\* TAILQ_INSERT_TAIL of an entry that is the last one already links it to itself.
ReturnedTwice == soe.pc = "twice"

Ended(op) == soe.pc = "idle" /\ soe.ret = "ok" /\ SoeOp.op = op
=============================================================================
