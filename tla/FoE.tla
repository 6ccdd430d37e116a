---------------------------------- MODULE FoE ----------------------------------
(***************************************************************************)
(* File access over EtherCAT: ec_foe_read and ec_foe_write (foe.c), and    *)
(* the slave's file server.  mbx.lock admits one call at a time, so one    *)
(* thread makes all calls.  A file is a sequence of units of data.         *)
(***************************************************************************)
EXTENDS MbxPort

CONSTANTS
    Files,    \* the files on the slave and on the master, each a sequence of units
    MaxBusy   \* bound: how often the file server asks for more time

Units == UNION {ToSet(Files[f]) : f \in DOMAIN Files}

ASSUME FoEAssumption == MaxBusy \in Nat /\ \A f \in DOMAIN Files : Files[f] \in Seq(Units)

VARIABLES
    foe,        \* the thread in ec_foe_read or ec_foe_write
    foe_calls,  \* the calls it makes: [op, file]
    room,       \* units of data that fit into the read and the write mailbox
    server,     \* the slave's side of the transfer
    store,      \* the last file the slave received to its end
    busy        \* how often the slave was busy

fvars == <<foe, foe_calls, room, server, store, busy>>

FoeMessage(op, nr, payload) == Message("foe", op, nr, payload, FALSE)

Call    == foe_calls[foe.call]
Content == Files[Call.file]

Least(a, b) == IF a < b THEN a ELSE b

\* At most size units of s behind offset n.
Part(s, n, size) == SubSeq(s, n + 1, Least(n + size, Len(s)))

-----------------------------------------------------------------------------
FoeReturn(ret) == foe' = [foe EXCEPT !.pc = "idle", !.ret = ret]

FoeOnly == UNCHANGED <<foe_calls, room, server, store, busy>>

\* Send m and go on, or end the call when there is no send buffer.
FoeSend(m, next) == \/ SendHead(m) /\ foe' = next
                    \/ /\ send_free = 0
                       /\ foe' = [next EXCEPT !.pc = "idle", !.ret = "no_buffer"]
                       /\ UNCHANGED sends

\* Lock, and send the request.
FoeCall == /\ foe.pc = "idle" /\ foe.call < Len(foe_calls)
           /\ LET call == foe_calls[foe.call + 1]
              IN  FoeSend(FoeMessage(IF call.op = "read" THEN "RRQ" ELSE "WRQ", call.file, <<>>),
                          [pc |-> call.op, call |-> foe.call + 1, ret |-> NULL, got |-> <<>>,
                           pos |-> 0, nr |-> 0, last |-> FALSE])
           /\ UNCHANGED <<recvs, slave, losses, lates>>
           /\ FoeOnly

\* Mutant: a packet that leaves room for one unit is not the last one yet.
FoeReadData_less ==
    /\ foe.pc = "read" /\ TakeAndReturn("foe") /\ Received("foe").op = "DATA"
    /\ LET m    == Received("foe")
           got  == [foe EXCEPT !.got = @ \o m.payload]
       IN  FoeSend(FoeMessage("ACK", m.nr, <<>>),
                   IF Len(m.payload) + 1 >= room.read THEN [got EXCEPT !.pc = "idle", !.ret = "ok"] ELSE got)
    /\ FoeOnly

\* A packet of the file, whatever its number is: keep it, acknowledge it, and end when it
\* does not fill the mailbox.
FoeReadData ==
    /\ foe.pc = "read" /\ TakeAndReturn("foe") /\ Received("foe").op = "DATA"
    /\ LET m    == Received("foe")
           got  == [foe EXCEPT !.got = @ \o m.payload]
       IN  FoeSend(FoeMessage("ACK", m.nr, <<>>),
                   IF Len(m.payload) < room.read THEN [got EXCEPT !.pc = "idle", !.ret = "ok"] ELSE got)
    /\ FoeOnly

\* An error ends the reading, anything else is passed over.
FoeReadOther ==
    /\ foe.pc = "read" /\ TakeAndReturn("foe") /\ Received("foe").op # "DATA"
    /\ IF Received("foe").op = "ERR" THEN FoeReturn("refused") ELSE UNCHANGED foe
    /\ UNCHANGED sends
    /\ FoeOnly

\* Only an acknowledgement, whatever its number is, brings a write on.
FoeWriteAnswer ==
    /\ foe.pc \in {"write", "sent"} /\ TakeAndReturn("foe")
    /\ LET op   == Received("foe").op
           done == foe.pc = "sent" /\ (foe.last \/ foe.pos = Len(Content))
       IN  CASE op = "ERR"           -> FoeReturn("refused")
             [] op = "ACK" /\ done   -> FoeReturn("ok")
             [] op = "ACK" /\ ~done  -> foe' = [foe EXCEPT !.pc = "packet"]
             [] OTHER                -> FoeReturn("no_ack")
    /\ UNCHANGED sends
    /\ FoeOnly

\* The next packet, as large as fits into the slave's mailbox for answers (sm[1]).
FoeWritePacket ==
    /\ foe.pc = "packet"
    /\ LET part == Part(Content, foe.pos, room.read)
       IN  FoeSend(FoeMessage("DATA", foe.nr + 1, part),
                   [foe EXCEPT !.pc = "sent", !.nr = @ + 1, !.pos = @ + Len(part),
                               !.last = Len(part) < room.read])
    /\ UNCHANGED <<recvs, slave, losses, lates>>
    /\ FoeOnly

FoeTimeout == /\ foe.pc \in {"read", "write", "sent"}
              /\ Expires("foe")
              /\ FoeReturn(IF foe.pc = "sent" THEN "no_ack" ELSE "timeout")
              /\ FoeOnly

-----------------------------------------------------------------------------
(* The slave's file server (external).                                     *)

FileDone == [mode |-> "idle", file |-> 0, pos |-> 0, nr |-> 0, got |-> <<>>]

FoeSends(s) == FoeMessage("DATA", s.nr, Part(Files[s.file], s.pos, room.read))

\* What the server may do about m: its next state, its answers, what it stores.
Served(s, replies, stored) == [server |-> s, replies |-> replies, store |-> stored]

FoeServes(m) ==
    LET say(op)  == <<FoeMessage(op, m.nr, <<>>)>>
        refuse   == Served(FileDone, say("ERR"), store)
        reading  == [FileDone EXCEPT !.mode = "read", !.file = m.nr, !.nr = 1]
        onward   == [server EXCEPT !.pos = @ + room.read, !.nr = @ + 1]
        units    == Part(m.payload, 0, room.write)
        have     == server.got \o units
        wanted   == m.nr = server.nr
    IN  CASE m.op = "RRQ"  -> {Served(reading, <<FoeSends(reading)>>, store), refuse,
                               Served(reading, say("BUSY") \o <<FoeSends(reading)>>, store)}
          [] m.op = "WRQ"  -> {Served([FileDone EXCEPT !.mode = "write", !.nr = 1], say("ACK"), store),
                               refuse, Served(FileDone, say("BUSY"), store)}
          [] m.op = "ACK"  -> IF server.mode # "read" \/ ~wanted THEN {Served(server, <<>>, store)}
                              ELSE IF Len(FoeSends(server).payload) < room.read
                                   THEN {Served(FileDone, <<>>, store)}
                                   ELSE {Served(onward, <<FoeSends(onward)>>, store)}
          [] m.op = "DATA" -> IF server.mode # "write" \/ ~wanted THEN {refuse}
                              ELSE IF Len(units) < room.write
                                   THEN {Served(FileDone, say("ACK"), have)}
                                   ELSE {Served([server EXCEPT !.nr = @ + 1, !.got = have], say("ACK"), store)}

SlaveFoe ==
    /\ wrote # NULL /\ wrote.pool = "foe"
    /\ \E s \in FoeServes(wrote) :
          LET late == \E i \in DOMAIN s.replies : s.replies[i].op = "BUSY"
          IN  /\ late => busy < MaxBusy
              /\ busy' = IF late THEN busy + 1 ELSE busy
              /\ SlaveTakes(s.replies)
              /\ server' = s.server /\ store' = s.store
    /\ UNCHANGED <<foe, foe_calls, room>>

-----------------------------------------------------------------------------
FoeInit(calls, sizes) ==
    /\ foe = [pc |-> "idle", call |-> 0, ret |-> NULL, got |-> <<>>, pos |-> 0, nr |-> 0,
              last |-> FALSE]
    /\ foe_calls = calls /\ room = sizes
    /\ server = FileDone /\ store = NULL /\ busy = 0

FoeNext == \/ FoeCall \/ FoeReadData \/ FoeReadOther \/ FoeWriteAnswer \/ FoeWritePacket
           \/ FoeTimeout

\* No call timed out while its answer was on its way, the mailboxes are of the same size,
\* and no file that is written fills its last packet: what comes of a call can be trusted.
\* Nor was a message lost when there is a second call: its request, queued at the head, may
\* overtake the last acknowledgement of the first one, which then asks for another packet;
\* when the second call then finds no send buffer, a third one takes that for its own.
Sound == /\ "foe" \notin lates /\ room.read = room.write
         /\ Len(foe_calls) <= IF losses = 0 THEN 2 ELSE 1
         /\ \A i \in DOMAIN foe_calls :
               foe_calls[i].op = "write" => Len(Files[foe_calls[i].file]) % room.read # 0
                                            \/ Files[foe_calls[i].file] = <<>>

\* What a call of the thread promises to its caller (see FileTransfer): a call in progress,
\* its result, and what is on the slave.
Transfer == INSTANCE FileTransfer WITH
    transfer <- IF foe.pc = "idle" THEN NULL ELSE Call,
    result   <- IF foe.pc # "idle" \/ foe.ret = NULL THEN NULL
                ELSE [ok |-> foe.ret = "ok", data |-> foe.got, of |-> Call],
    stored   <- store,
    sound    <- Sound
=============================================================================
