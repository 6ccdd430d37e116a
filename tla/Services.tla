-------------------------------- MODULE Services --------------------------------
(***************************************************************************)
(* FoE, SoE and EoE on the mailbox of one slave: their threads, the thread *)
(* that handles the mailbox, and the slave.                                *)
(***************************************************************************)
EXTENDS EoE

VARIABLES
    others   \* the send buffers that mailboxes of other slaves hold all the time

vars == <<port, fvars, sevars, evars, others>>

\* The free buffers are no list any more (see SoE), or the process has crashed (see EoE): what
\* follows is undefined, and the model ends here.
Broken == ReturnedTwice \/ eoe.pc = "crash"

Lives(own) == ~Broken /\ UNCHANGED <<own, others>>

FoeThread == FoeNext /\ Lives(<<sevars, evars>>)
SoeThread == SoeNext /\ Lives(<<fvars, evars>>)
EoeThread == EoeNext /\ Lives(<<fvars, sevars>>)

Handler(step) == step /\ Lives(<<fvars, sevars, evars>>)
Pops     == Handler(HandlerPop)
Takes    == Handler(HandlerBuffer)
Ends     == Handler(HandlerEmpty \/ HandlerRead \/ HandlerRequeue)
Sends    == HandlerSends /\ Lives(<<fvars, sevars>>)
Frames   == HandlerFrames /\ Lives(<<fvars, sevars>>)

Slave == \/ SlaveFoe /\ Lives(<<sevars, evars>>)
         \/ SlaveSoe /\ Lives(<<fvars, evars>>)
         \/ SlaveEoe /\ Lives(<<fvars, sevars>>)
         \/ SlaveAnswers /\ Lives(<<fvars, sevars, evars>>)

ServicesInit(calls, sizes, frames, device, held) ==
    /\ PortInit(held) /\ others = held
    /\ FoeInit(calls.foe, sizes) /\ SoeInit(calls.soe) /\ EoeInit(calls.eoe, frames, device)

Next == \/ FoeThread \/ SoeThread \/ EoeThread
        \/ Pops \/ Takes \/ Ends \/ Sends \/ Frames
        \/ Slave
        \/ DriveSpeaks /\ Lives(<<fvars, evars>>)
        \/ NodeSends /\ Lives(<<fvars, sevars>>)

Sure == Quiet \/ UsedUp \/ lates' = lates

(* Every thread runs and the slave answers.  The handler looks at its queue *)
(* and at the slave again and again: a service that waits schedules reads,  *)
(* in PREOP it looks every millisecond.  A timer is only taken to expire    *)
(* when nothing is on its way, or nothing can be read any more.             *)
Fairness == /\ WF_vars(FoeThread /\ Sure) /\ WF_vars(SoeThread /\ Sure) /\ WF_vars(EoeThread /\ Sure)
            /\ WF_vars(Ends) /\ WF_vars(Sends) /\ WF_vars(Frames)
            /\ SF_vars(Pops) /\ SF_vars(Takes)
            /\ WF_vars(Slave)

-----------------------------------------------------------------------------
(* Properties.                                                             *)

\* Every receive buffer is in one place, once: free, with the handler, or in the pool of
\* one service.  Services, and the handler that puts frames together, return each buffer
\* they were given once, on every path (mbx.c:543-611, foe.c, soe.c, eoe.c) but one: the
\* second round of an SoE read with a message it did not expect (soe.c:297).
BuffersOnce == ~ReturnedTwice =>
    /\ \A x, y \in Places : \A j \in DOMAIN Place[x], k \in DOMAIN Place[y] :
          Place[x][j] = Place[y][k] => x = y /\ j = k
    /\ \A b \in Buffers : \E x \in Places : \E j \in DOMAIN Place[x] : Place[x][j] = b

\* Send buffers are free, queued, with the handler or with other slaves (mbx.c:613-640).
SendsKept ==
    send_free + Len(send_queued) + (IF handler.does = "send" THEN 1 ELSE 0) + others = SendBufs

\* The thread reads for the first time: an earlier read may have ended with fragments on
\* their way, which the next one takes for its own.
FirstRead == \A i \in 1 .. soe.call - 1 : soe_calls[i].op # "read"

\* An SoE read that returns EC_OK has a beginning of the value, in its order, as far as it
\* fits, unless fragments were lost or belong to an earlier call, or the drive refused: the
\* error bit is not looked at (soe.c:289-331).
SoeReadPrefix ==
    Ended("read") /\ FirstRead /\ losses = 0 /\ "soe" \notin lates /\ ~drive.refused
    => soe.got = SubSeq(SoeOp.value, 1, Len(soe.got))

\* "EC_OK on success" (soe.h): the whole value, when the caller has room for it.
SoeReadWhole ==
    Ended("read") /\ FirstRead /\ losses = 0 /\ "soe" \notin lates /\ ~drive.refused
    /\ SoeOp.len >= Len(SoeOp.value)
    => soe.got = SoeOp.value

\* After an SoE write that returns EC_OK the drive holds the value, even when answers were
\* lost, unless it refused or an answer came late (soe.c:387-444).
SoeWritten == Ended("write") /\ "soe" \notin lates /\ ~drive.refused => drive.holds = SoeOp.value

\* A call of SoE that returns EC_OK has transferred its value: a write all of it, a read
\* nothing but its beginning.  Not if the drive refused it: the error bit is not looked at,
\* and a refusal ends with EC_OK like any answer (soe.c:301-332, 429-444).
SoeTransfers == SoeReadPrefix /\ SoeWritten

\* The virtual network device gets the frames of the slave's network, whole and in order,
\* and the buffers for ethernet frames are free again after each, unless a fragment is
\* lost (eoe.c:517-635).
EoeFramesWhole ==
    veth # NULL /\ losses = 0 => veth = SubSeq(node.frames, 1, Len(veth)) /\ eth_free = FreeFrames

\* The calls that send a frame, and how many of them there are up to call c.
FrameCalls == {c \in DOMAIN eoe_calls : eoe_calls[c].op = "frame"}
FrameNr(c) == Cardinality({d \in FrameCalls : d <= c})

\* The slave's network gets the master's frames, whole and in order; a frame that fills its
\* last fragment never ends (eoe.c:469).
EoeSent ==
    (\A c \in FrameCalls : Len(eoe_calls[c].frame) % room.write # 0)
    => \A i \in DOMAIN node.has : \E c \in FrameCalls : FrameNr(c) = i /\ node.has[i] = eoe_calls[c].frame

\* Every call of FoE and SoE returns, whatever is lost or late: each wait has a timer
\* (foe.c:290-360, 400-480, soe.c:280-335, 420-445).
FoeReturns == foe.pc # "idle" ~> foe.pc = "idle"
SoeReturns == soe.pc # "idle" ~> soe.pc = "idle"

\* EoE waits without a timer for each fragment to be written (eoe.c:497).  The handler wakes
\* it, unless every receive buffer is used up for good: the slave then takes no message.
EoeReturns == []<>~UsedUp => (eoe.pc # "idle" ~> eoe.pc = "idle")

\* Every call of the services returns, as far as it has a timer or can be woken, unless a
\* read of SoE meets a message it does not expect, and then never returns (soe.c:293-298),
\* or a frame finds no send buffer for ten seconds, and the process crashes (eoe.c:462-465).
ServicesReturn == []~Broken => FoeReturns /\ SoeReturns /\ EoeReturns

\* FoE keeps what it promises (see FileTransfer): whole files, or an error (foe.c).
FilesWhole == Transfer!Spec
=============================================================================
