# libethercat in TLA+

TLA+ models of the EtherCAT master library in `src/` (the library proper is
`src/src/*.c` and `src/include/libethercat/*.h`), the TLC runs that check them
on small instances, and proofs, checked by TLAPS, of what holds for instances of
every size. `PROJECT.json` lists the components, runs, findings, hazards and
theorems, and maps each definition to the lines it stands for.

## The system

The library drives a bus of EtherCAT slaves from one PC. Every access to a slave
is a *datagram*; datagrams travel in Ethernet frames through all slaves and come
back. Several threads share one transport:

| Part | Code | State | Operations | Interacts with |
|---|---|---|---|---|
| Entry pool | `pool.c` | a queue of entries, a counting semaphore, a lock | open, get (timed and untimed), remove, peek, put, put_head, close | everything that owns a datagram or a mailbox message |
| Index queue | `idx.c` | the queue of free datagram indices; a binary semaphore per index | get, put, init, deinit | everything that sends |
| Hardware layer | `hw.c` | `tx_high`, `tx_low`, the sent table `tx_send[256]`, `hw_lock` | enqueue, tx, tx_low, tx_high, process_rx_frame | pops entries of all senders; runs the callbacks of all receivers |
| Raw socket device | `hw_sock_raw.c` | socket, receive thread | get_tx_buffer, send, recv | calls `hw_process_rx_frame` in its own thread |
| Transceive | `ec.c` | local index and entry | `ec_transceive` | blocks on the semaphore of its index, posted by `cb_block` |
| Cyclic datagrams | `ec.c` | `cdg.p_idx`, `cdg.p_entry`, `cdg.lock` for each group, dc and state | `ec_send_process_data`, `ec_send_distributed_clocks_sync`, `ec_send_brd_ec_state` and their callbacks | called by the application's cyclic task; callbacks run in the receive thread |
| Packet duration | `dc.c` | local index and entry | `get_packet_duration` | as transceive |
| Master state machine | `ec.c` | `master_state`, groups, logical mapping | `ec_open`, `ec_scan`, `ec_set_state`, `ec_create_pd_groups` | decides who sends; returns the cyclic datagrams |
| Slave state machine | `slave.c` | `act_state`, `expected_state`, `transition_active`, `transition_mutex` | `ec_slave_state_transition`, prepare, set, get, free | mailbox, EEPROM, FMMU and SM setup |
| Supervision | `async_loop.c` | message pools, thread | check_all, check_group, step | recovers slaves through the slave state machine |
| Mailbox handler | `mbx.c` | per slave: flags, binary semaphore, queue of messages to send, state byte | enqueue_head/tail, sched_read, do_handle, send, receive | protocols below; the receive callback sets the state byte |
| Mailbox gateway | `mbx_gateway.c` | a receive pool | handle | forwards foreign requests through the handler |
| CoE, FoE, SoE, EoE | `coe.c`, `foe.c`, `soe.c`, `eoe.c` | a receive pool and a lock per slave; toggle bit, packet and fragment numbers | uploads, downloads, reads, writes, frames | free pools shared by all slaves |
| EEPROM | `eeprom.c` | the slave's SII access rights and busy bit | read, write, dump | `ec_transceive` |
| Scan and wiring | `ec.c` | links and parent of each slave | `ec_scan` | the delays of the distributed clocks |
| Process data | `ec.c` | per group: the image, lengths, expected working counters; per slave: FMMUs, `pdin`, `pdout`, the bit of its mailbox | the two logical mappings, `ec_send_process_data`, `cb_process_data_group`, `cb_lrd_mbx_state` | the slaves' sync managers, supervision, mailbox handler, application |
| Distributed clocks | `dc.c`, callback in `ec.c` | port times, delays; the 64-bit time `dc_time` | `ec_dc_config`, sync callbacks | `ec_transceive`, cyclic datagram |
| Object dictionary of the master, MII, datagram accessors, virtual network device, other devices | `coe_master.c`, `mii.c`, `datagram.c`, `veth.c`, `hw_*.c` | | | |

`src/linux` holds modified vendor network drivers, `src/tools` example programs.

### What is hard here

* **One table for everybody.** A thread queues an entry, another thread's
  `hw_tx_pool` copies it and marks it as sent, the receive thread finds it by the
  index in the frame and calls back. Who owns index and entry at each of these
  moments is nowhere written down. `tx_send` is read and written without a lock.
* **Timeouts race with answers.** A caller that gives up returns its index and
  its entry while its frame may still be on the wire.
* **Resources run out.** Every sender takes an index and then an entry, and must
  return the first if the second is missing, once, in every cycle.
* **Two ways to get from a pool.** With a timeout through the semaphore, without
  one past it.
* **State changes under the cyclic task.** `master_state` decides who sends and is
  read without a lock.
* **One thread serves a mailbox.** A wake-up stands for several messages, the
  state of the read mailbox is a byte two threads write without a lock, the
  buffers are shared by all slaves, and users hold the CoE lock while they wait
  for the thread that may need it.
* **Two drivers of one slave.** `ec_set_state` and the supervision move the same
  slave; the second finds out what to do without the mutex and may act on it much
  later. A transition is a ladder of requests; each may be refused, lost, late, or
  overtaken by a slave that falls back or loses its power and with it its address.
* **Wait, late, lost, unasked.** Every service of the mailbox waits for "a" message of
  its protocol. A late answer, a notification or a lost fragment is taken for what was
  waited for unless the code looks closely, and a buffer that is returned too early or
  too often belongs to somebody else.
* **Two layouts of the same bytes.** Logical addresses, image offsets, FMMUs and working
  counters are counted in different loops and must agree in every combination of
  commands, overlap and slaves; the wiring is inferred from numbers of links.
* **Clocks overflow**, in the midst of a measurement or between two readings.
* Not modelled: the return of the cyclic datagrams while the cyclic task runs.

What makes each part correct: the pool loses and duplicates nothing and starves
no one (`Conservation`, `NoStarvedWaiter`); an index has one owner and is never
lost (`IndexOwnership`, `NoIndexLost`); an entry has one owner and the queues are
intact, and one kind of step alone can end that (`EntryOwnership`, `OnlyRemoveTears`);
an answer reaches who asked (`CallbackOnHeldEntry`, `ReplyMatches`); a call returns (`TransceiveReturns`), and
what nobody waits for is freed (`NoReplyFreed`). Mailbox buffers are neither lost
nor doubled (`BuffersKept`), a mailbox answer reaches who asked (`OwnAnswer`), a
call that ends with EC_OK was confirmed (`ConfirmedInTime`, with its exceptions), calls return
(`CallReturns`), the ring keeps the newest emergencies (`NewestKept`).
Requests of the AL state are legal (`NoIllegalRequest`), a transition that says EC_OK
has taken place (`OkMeansReached`), a slave that works has its mailbox handler
(`MailboxUp`), a lost slave is brought back (`Recovers`), and `ec_set_state` returns
(`SetStateReturns`). The inferred wiring and delays are the true ones (`ParentsTrue`,
`PropagationDelays`); outputs and inputs arrive where the application has them
(`OutputsArrive`, `InputsArrive`), missing slaves and new mail are noticed, and never
for nothing (`AbsenceNoticed`, `MailNoticed`); the extended clock is exact and never goes
back (`DcTimeExact`, `DcTimeMonotone`). Receive and send buffers are in one place, once
(`BuffersOnce`, `SendsKept`); files are transferred whole or with an error
(`FilesWhole`), a value the drive does not refuse is written whole, and what is read of it
is its beginning (`SoeTransfers`), Ethernet frames whole and in
order, and their buffers are free again (`EoeFramesWhole`, `EoeSent`); the calls return
(`ServicesReturn`).

## Modules

* **`Pool`** - `pool.c` as a state machine. `avail` is `pp->avail`, `avail_cnt`
  the semaphore; the pool lock makes an access of the queue one step. A timed
  `pool_get` is three steps (`GetTimed`, `WaitOk` or `WaitFails`, `GetLocked`), an
  untimed one is `GetUntimed`. `held` is a history of who got what. `Post` stops at
  `SemMax`, as `sem_post` does. `pool_put` is only ever called by who has the
  entry; what breaks that rule is the subject of `Transport`.
* **`Tailq`** - the macros of `<sys/queue.h>` on pointers. `pool_remove` is called
  for entries that may have left the queue, and what `TAILQ_REMOVE` then does
  depends on links a sequence does not have.
* **`Transport`** - `idx.c`, `hw.c`, the sending and receiving parts of `ec.c`, and
  `get_packet_duration`. Its steps are the critical sections and the unlocked
  accesses of the code:

  | Actions | Code |
  |---|---|
  | `TcIndexGet`, `TcPoolGet`, `TcEnqueue`, `TcTx`, `TcWaitOk`, `TcWaitTimeout`, `TcRemove`, `TcGiveUp`, `TcExpired`, `TcPoolPut`, `TcIndexPut` | `ec_transceive`, and for a client in `Pingers` `get_packet_duration` |
  | `TxPop`, `TxCopy`, `TxDone` | `hw_tx_pool` under `hw_lock`, in the thread that called `hw_tx` or `hw_tx_low` |
  | `CycStart`, `CycIndexGet`, `CycPoolGet`, `CycIndexPut`, `CycEnqueue`, `CycTx` | the cyclic task through its senders; `CycleSeq` says which datagrams it sends |
  | `RxFrame`, `RxSlot`, `RxClear` | the receive thread in `hw_process_rx_frame`: the read and the clearing of `tx_send` are two steps |
  | `cb_block`, `RxPost`, `cb_no_reply`, `RxIndexPut`, `RxCyclic`, `cb_distributed_clocks`, `StoPoolGet`, `StoIndexPut`, `StoPut` | the callbacks |
  | `EnterOp` | `master_state` becomes SAFEOP |
  | `LoseFrame` | the wire |

  A datagram is its index, the request it carries and whether it went through the
  slaves. A frame holds `MaxDg` datagrams instead of `mtu_size` bytes. The device
  always has a transmit buffer. The wire keeps the order of frames, as one cable
  does; the raw socket's receive thread handles them one by one.
* **`Mailbox`** - one slave's mailbox: `mbx.c`, the handler's part of `coe.c`, the
  callback `cb_lrd_mbx_state` and the slave. A step is a critical section, an
  access to the bus or an unlocked access to `*sm_state`; what a thread does next
  on its own (returning a buffer after the last look at it, resetting `*sm_state`
  before a message is handed on) belongs to the step it commutes with. The free
  pools are counters and the queues sequences: that `pool.c` keeps that promise is
  the subject of `Pool`.

  | Actions | Code |
  |---|---|
  | `HWait`, `HTimeout` | `ec_mbx_handler`: woken by the semaphore or not |
  | `HTake`, `HRecv`, `HDispatch`, `HSend`, `HRequeue`, `HPost` | `ec_mbx_do_handle`, `ec_mbx_enqueue_head` |
  | `HAsk`, `HSample`, `HClear`, `HRead`, `HWrite` | `ec_mbx_is_full`, `ec_mbx_receive`, `ec_mbx_send` |
  | `HEmergency` | `ec_coe_emergency_enqueue` |
  | `RxSample`, `RxSet`, `RxSched` | the mailbox state datagram and its callback |
  | `EnterOp` | the slave's `act_state` becomes SAFEOP |
  | `SlaveTake`, `SlaveFill`, `SlaveEvent` | the slave: takes a request, prepares answers, fills its read mailbox, sends on its own |

* **`CoE`** - extends `Mailbox` by the threads that use it: `Start`, `Lock`,
  `GetBuffer`, `Enqueue`, `PostSend`, `SchedRead`, `Receive`, `WaitAgain`,
  `WaitTimeout`, `Unlock` are the common path of the CoE services and of
  `ec_mbx_gateway_handle`; `ProcessSdo`, `ProcessInfo`, `ProcessList` and
  `ProcessGateway` are what each makes of a message; `EmergencyGetNext` is
  `ec_coe_emergency_get_next`. A message is its protocol, service, the kind of
  request it answers and that request's identity, which the code does not have:
  `OwnAnswer` compares it.
* **`SlaveState`** - the AL state machine of one slave and the functions of `slave.c`
  that drive it. `dev` is the slave: its state, its error bit, the request it has not
  served yet, and whether it still has its fixed address. A thread has the `jobs` of its
  caller and, in a transition, the `plan`: the calls of `ec_slave_set_state` the switch
  of `ec_slave_state_transition` makes with all its fall-throughs, each with what is done
  before it (start the mailbox handler, program the clocks, rewrite the address, free
  the slave).

  | Actions | Code |
  |---|---|
  | `TrCall`, `TrLock`, `TrFirst`, `TrAddress`, `TrAgain`, `TrRecheck`, `TrReset`, `TrNext`, `TrUnlock` | `ec_slave_state_transition`, in its order |
  | `PrepareSlave` | `ec_slave_prepare_state_transition`, `ec_slave_generate_mapping` |
  | `SetWrite`, `SetPoll`, `SetStatus`, `SetReached`, `SetRepeat`, `SetExpired` | `ec_slave_set_state`, a state asked for |
  | `AckWrite`, `AckRead` | `ec_slave_set_state`, an error acknowledged |
  | `Serve`, `Fault` | the slave: takes a request; refuses one, falls back, loses its power |

  Timers have no length: one expires when what its loop waits for cannot happen any more
  (`Stuck`), and, counted in `losses`, at any other moment.
* **`Supervision`** - extends `SlaveState` by its two callers, for one slave.
  `AppCall`, `AppMaster`, `AppScan`, `AppFound`, `AppReturn` are `ec_set_state` and
  `ec_scan`; `Upwards` and `Downwards` are the order of its loops over the slaves.
  `RxGroup` and `RxState` are the callbacks that notice a mismatch, `TimerExpires`
  the one timer all groups share, `AsyncTake`, `AsyncCheck`, `AsyncDecide`,
  `AsyncRepair`, `AsyncDone` the loop's thread. Other slaves show as messages and
  mismatches that are not this slave's.
* **`Topology`** - the links and parents `ec_scan` finds (`ScanSlave`) and one step of
  the loop of `ec_dc_config` for each slave (`DcConfigSlave`). The wiring is a tree the
  master does not know; slaves are numbered in the order the frame meets them, each cable
  has a length, each slave a clock with its own start that overflows, and a receive time
  may not arrive. `port_of`, `parent`, and per slave `available`, `entry`, `times` and
  `pdelay` are the fields the code computes; `Arrival` is how long the frame really takes.
* **`ProcessData`** - one group. `plan` is what the slaves are: sync managers with
  direction and length, FMMUs, mailbox, LRW. `CreateMapping` chooses between
  `ec_create_logical_mapping` (`Split`) and its overlapping variant (`Overlaid`), writes
  the FMMUs (`maps`), lengths and expected working counters (`pd`). `Exchange` is a cycle:
  what the application wrote goes past the slaves in order, each takes its outputs and
  inserts its inputs, and `cb_process_data_group` copies and judges what comes back;
  `MbxStates` is the mailbox state datagram and its callback. A byte is who wrote it and
  where, so that a byte out of place is seen.
* **`DcClock`** - the extension of the reference clock's 32 bits in
  `cb_distributed_clocks` and its reset in `ec_set_state` (`DcReset`). Time runs
  (`ClockRuns`) by up to two turns between readings. `UintMax` is `UINT_MAX`.
* **`Startup`** - composes the three as `ec_set_state` does: scan, clocks, mapping, cycles
  in SAFEOP, and back to PREOP and through it all again.
* **`MbxPort`** - the mailbox of `Mailbox` as the other protocols see it, with receive
  buffers that have identities, because these protocols look at buffers they have
  returned. `HandlerBuffer`, `HandlerRead`, `HandlerEmpty`, `HandlerPop`, `HandlerSend`,
  `HandlerRequeue` are `ec_mbx_do_handle`, each ending with its access to a pool or to
  the slave; `recv_pool` are the protocols' pools.
* **`FoE`** - `ec_foe_read` and `ec_foe_write`: `FoeCall`, `FoeReadData`, `FoeReadOther`,
  `FoeWriteAnswer`, `FoeWritePacket`, `FoeTimeout`, with a file server (`SlaveFoe`) that
  serves, refuses and asks for time. **`FileTransfer`** is the abstract transfer.
* **`SoE`** - `ec_soe_read` (`SoeReadFragment`, then `SoeReadMore`, which looks up
  `incomplete` in the returned buffer; `SoeReadSpins` and `SoeReturnsAgain`, the first two
  rounds of its loop over a message it did not expect) and `ec_soe_write`
  (`SoeWriteFragment`, `SoeWriteAnswer`), `SoeTimeout`, and the drive.
* **`EoE`** - `ec_eoe_send_frame` (`EoeFragment`, `EoeNoBuffer`, `EoeSynced`),
  `ec_eoe_set_ip_parameter`, `ec_eoe_process_recv` in the handler's thread (`EoeNoFrame`,
  `EoeNoMemory`, `EoeNoStart`, `EoeFrame`), and the slave's network. When it waits for the
  fragments of a frame the last one has arrived, so these waits take no time. The device
  gets frames padded to 32 bytes; the padding is left out.
* **`Services`** - composes FoE, SoE and EoE with the handler and the slave. Data is a
  sequence of units, of which `room.read` and `room.write` fit into a mailbox. The model
  ends when the library has no defined behaviour any more (`Broken`): a buffer was returned
  twice, so that the pool's queue links an entry to itself, or NULL was written through.
* **`QueueLemmas`** - facts about queues as sequences that the proofs share.
  **`PoolProofs`**, **`TransportProofs`**, **`CoEProofs`**, **`SupervisionProofs`**,
  **`StartupProofs`**, **`ServicesProofs`** and **`FoEProofs`**, which extends it - the
  theorems.
* **`MCPool`**, **`MCTransport`**, **`MCCoE`**, **`MCSupervision`**, **`MCStartup`**,
  **`MCServices`** - instances for TLC.

Definitions marked `Mutant:` are faulty variants of the definition they precede;
no specification uses them. They document which mistake each property catches.

## Runs

| Run | Instance | Question |
|---|---|---|
| `pool_mixed` | timed and untimed threads, pool opened full or empty | Does mixing the two kinds of `pool_get` lose or duplicate entries or starve a waiter? No. |
| `op` | 1 caller with 2 calls, clock datagram in master clock mode and a split group (LWR, LRD, mailbox state), 3 indices, 2 entries, frames of two | Does a call return whoever sends, across the change to SAFEOP, does each call get its own answer, and are the no-reply datagrams freed? Yes, without losses. |
| `loss` | 2 callers, a split group (LWR, LRD), not in master clock mode, 3 indices, 2 entries, frames of two, one loss, one timeout | Does each out-of-index, out-of-entry and timeout path return its index, once? Does an answer reach its own request, and its callback an entry that is held? What can damage the queues of entries? The first two: yes, if frames are not later than a round through the index queue, the callback as long as nothing timed out. The queues: only the removal of an entry that has already left `tx_low`. |
| `timeout` | a caller and a packet duration measurement, one loss, two timeouts, no limit on lateness | Do calls return? Yes. That their indices survive is proved (`IndicesKept`, `IndicesOwned`). |
| `mailbox` | a download in two segments and a gateway request, 1 send and 1 receive buffer | Does each call return with its own answers and without a timeout, in PREOP, in SAFEOP and across the change? Yes. |
| `mailbox_faults` | each CoE service, served or refused, 1 buffer of each kind, a failed access, a timed out wait, 2 messages of the slave's own | Does any path lose a buffer, report an unconfirmed transfer or damage the ring of emergencies? No, except that a call with a timeout, and the reading of an object dictionary list the slave refuses, may end with EC_OK. |
| `supervision` | `ec_set_state` to OP and then to PREOP, one fault of the slave (refusal, fall to INIT or SAFEOP, power), one lost access or early timer | Do the application and the supervision leave the slave and each other intact, and is a lost slave brought back? Yes, under the conditions of `Recovers`. |
| `startup` | every tree of up to 4 slaves, every choice of slaves with clocks, one overflow and one lost receive time; groups of 3 slaves with 21 kinds of process data in every setting, one slave absent; the clock of one slave over 3 overflows; two mappings | Are wiring, delays, image, working counters, mailbox bits and time right? Yes, under the conditions the properties name. |
| `services` | one service with up to two calls, or two services at once; 2 receive and 2 send buffers, one of them perhaps held by another slave; one lost message, one pool whose answers are late, one message nobody asked for, one busy server, one Ethernet buffer, with and without a virtual network device | Do files arrive whole or with an error, and values and frames unharmed, does FoE implement `FileTransfer`, are buffers neither lost nor doubled, do calls return? Yes, under the conditions the properties name: among them that the drive does not refuse, and that no read of SoE returns a buffer twice. |
| `no_reply_race` | master clock mode and a caller | `cb_no_reply` reads the index from an entry it no longer has. |
| `inputs` | a group whose areas do not overlap | Inputs are copied from where the outputs are, or from behind the payload. |
| `soe_read` | a value in two fragments | A read returns EC_OK with the first one. |

**Bounds.** The races found need two owners and one resource to fight over, so two
or three indices and entries, fewer than the threads together ask for, make every
queue wrap around, every pool run empty and every index change hands. `MaxDg` is 1 where each datagram must have its own
frame and 2 where frames must be filled and overflow. `MaxWire` limits how far the
cyclic task runs ahead of its answers. `MaxFrames` limits the frames `hw_tx_pool` sends in
one go: over a queue that `pool_remove` has torn it may pop the same entry for ever. Over
queues that are intact TLC finds no state of `op`, `timeout` and `loss` in which this bound
holds up a step, and in `op` and `timeout` none at all. `MaxLoss`, `MaxTimeouts` and `MaxCalls` only
cut runs short. In the mailbox runs one buffer of each kind makes every "out of
buffers" path happen; a ring of two slots, which holds one emergency, overflows with
two; lists have two fragments and downloads two segments, so that each loop runs
again; the slave prepares one answer at a time. In `supervision` two calls are enough
for a way up and a way down, each of several rungs, with the supervision at any place
of either; one fault and one loss reach every error path once, and a message more than
the thread has in hand lets checks become stale in the queue. In `startup` four slaves are the smallest number with a
branch, a way back from it and something behind it; three slaves in a group have one
before and one after any other, a clock of five readings has every kind of overflow, and
a second mapping finds what the first left behind. The three parts of `Startup` share
only `master_state`, so each is explored with trivial instances of the others
(`ClockedBuses`). In `services` values of one, two and three units in mailboxes of two
end inside a fragment, at its end, and in the next; two receive buffers can be used up by
two messages nobody takes; a second call meets what the first left in the pools. The
two callers of `loss` are symmetric (`AlikeClients`): nothing tells them apart, and the run
checks no liveness. No other symmetry is used: `Idx0` and the order of the queues tell
indices and entries apart.

The two instances of the transport divide its hazards. `op` has the datagrams of master
clock mode, no losses and no timeouts, and is about liveness and answers; who owns an
index is no question there, since `cb_no_reply` gets it wrong (`no_reply_race`). `loss` is
about ownership where the code keeps it: with three indices, two entries and four threads
and datagrams that want one of each, an entry is missing with an index in hand, for callers
and for the cyclic task; and the index of a call that timed out comes round to another
caller, whose semaphore may still have the count of the late answer.

`Recycle = FALSE` (run `loss`) keeps an index or entry from being handed
out again while its old datagram is under way. The code has no such check; what it
has is a queue of 256 indices. The assumption stands for a wire that is late by
less than a whole round through that queue. `Recycle = TRUE` drops it.

**Deadlock.** Checked where a cyclic task runs, which never ends; not in the
instances of callers only (and in the mailbox runs), which end when `MaxCalls` is
used up, nor in `supervision` and `services`, which end after their last call, nor in
`startup`, where time and cycles are bounded.

**Fairness** (`FairSpec`). Threads inside a call, the one that holds `hw_lock`, the
cyclic task and the receive thread are scheduled (weak fairness): they are OS
threads, none of them of a kind another can block for ever, and the cyclic task is
periodic. Two strong fairness conditions stand for fair locks: `TcTx` (a caller
waits for `hw_lock`, which the cyclic task takes and gives back in each cycle) and
the callbacks that take `cdg.lock`. A wait that has no answer times out, within
`MaxTimeouts`. Calls are not forced to start, frames are not forced to get lost.

In `CoE` the handler, the receive thread and the slave run, users inside a call
run, and locks and queues are fair to who comes back again and again (strong fairness
of `Lock`, `Receive` and `HEmergency`). The receive callback may write `*sm_state`
between the handler's two accesses, and its write is then lost; the cyclic task
repeats the datagram, and it is assumed that the repetitions do not hit that window
for ever (`RxSetLost`): a race of two instructions against a cycle of milliseconds.

In `Supervision` the two threads run and the slave serves requests (weak fairness); the
cyclic task repeats its datagram, so that a mismatch of the slave's group is reported
again and again, also at moments at which a message is free (strong fairness of
`RxGroup`). No fairness is assumed of the broadcast state callback, faults or losses.

In `Services` the threads run, the handler ends what it has begun and the slave takes and
answers messages (weak fairness). A timer is only forced to expire when nothing is on its
way or when every receive buffer is in a pool nobody empties (`Sure`); that it may expire
earlier is possible, within `MaxLates`, and never assumed. `Pops` and `Takes` are strongly
fair: they are the two things an idle handler may do, it is woken for one or the other
again and again while a service waits, and it does both in every round. No fairness of
`DriveSpeaks` and `NodeSends`. `EoeReturns` has its condition as a premise, since
`ec_eoe_send_frame` waits without a timer. `Startup` has no liveness property.

**Refinement.** `FilesWhole` is `Transfer!Spec`, the instance of `FileTransfer` in which
the call in progress, its result, and the file the slave holds are read off `foe` and
`store`. A step of FoE is the beginning or end of a transfer, the storing of a file, or a
stutter. The abstract transfer knows that a caller cannot notice everything: once `sound`
is false results mean nothing. `Sound` says when, and each of its parts is needed: an
answer that came late and is taken for the next one (packet numbers are not compared,
`foe.c:338`), mailboxes of different size, since the size of the read mailbox decides about
the length of packets that are written (`foe.c:454`), a written file that fills its last
packet, so that the server waits for another, a lost message before a second call,
whose request, queued at the head, may overtake the last acknowledgement of the first, and
a third call: when the second one, a read, finds no send buffer, the packet that this
acknowledgement asks for waits for the third and is taken for its own. `FilesStayWhole`
proves that nothing else is needed.

### What does not hold

The three runs that end in a counterexample are recorded as findings. More facts are
visible by changing an instance or a property:

* `ResendUntilExpired` fails (1 caller, `MaxLoss = 1`, `MaxTimeouts = 1`): the loop of
  `ec_transceive` ends with its first timeout (`ec.c:1504`), although `ec.c:1451`
  says "allow frames to be sent 10 times if lost on wire".
* `RemoveQueued` fails (2 callers, `MaxTimeouts = 1`): after a timeout
  `ec_transceive` calls `pool_remove` on `tx_low` for an entry that `hw_tx_pool` may
  have taken out already (`ec.c:1490`). With the second caller's entry in `tx_low` by then,
  `EntryOwnership` fails too: the queue is cut off or leads back into itself, and in the
  second case `hw_tx_pool` takes the same entry again and again with `hw_lock` held.
  `OnlyRemoveTears` says that nothing but this step does such a thing.
* `IndexOwnership` and `NoIndexLost` fail in master clock mode, for the reason of
  `no_reply_race`: where `cb_no_reply` returns an index that is not its own, one is free
  and in use and another is lost.
* `CallbackOnHeldEntry` without its condition on `timeouts` fails (1 caller,
  `Recycle = FALSE`, `MaxTimeouts = 1`): the
  loop of `ec_transceive` ends before `to_transceive` expires, so `tx_send` keeps the
  mark of an entry that is given back (`ec.c:1506`), and a late answer finds it.
* `HandlerNotBlocked` fails (1 client, an emergency, `MaxTimeouts = 1`):
  `ec_coe_emergency_enqueue` takes `coe.lock` (`coe.c:1296`), which a client holds
  while it waits for an answer that only the handler can read. Its timeout ends it.
* `OwnAnswer` without its condition on `timeouts` fails: a late answer is taken for
  the answer to the next request, since nothing compares index and subindex. It fails too
  if two threads call `ec_mbx_gateway_handle`: they share a receive pool without a lock, and
  one takes the other's answer (`OneGateway` of the theorems).
* `ConfirmedInTime` has three conditions, and fails without any of them. An object
  dictionary list that the slave refuses, with an SDO information error, ends with EC_OK and
  the bytes of the refusal as the list, since `ec_coe_odlist_read` looks at neither service
  nor opcode (`coe.c:832-866`). Of three segments or more, one in the middle that is refused
  ends the wait for its answer only: the rest is sent all the same, and the confirmation of
  the last one is EC_OK (`coe.c:694`, `coe.c:735`). And after a timeout an unconfirmed EC_OK
  is possible: `ret` is EC_OK before the wait for the list (`coe.c:793`, `coe.c:914`).
* A fragment of an object dictionary list that is lost keeps `ec_coe_odlist_read`
  in its loop, with `coe.lock` held (`coe.c:868`): every timeout goes back to waiting.
* `IndexOwnership` fails with the state datagram and no entry left: `ec.c:2176` returns
  the index and keeps it in `p_idx` (`ec.c:2032` for the clocks), so that the next cycle
  sends with an index somebody else may have. `ClockHasEntry` names the condition.
* `EmergencyOrder` (emergencies are read in the order they came) fails with three of them
  and a ring of two slots: `coe.c:1341` lets the read index leave the ring.
* `NoReplyFreed` fails in `op` with `MaxLoss = 1`: a lost system time offset
  datagram is never freed (`ec.c:1986` hands it to the low queue and forgets it).
* `SentIsHeld` fails with a client in `Pingers` beside another: the datagram of
  `get_packet_duration` has index 0 (`dc.c:95`) whatever index was taken.
* That the slave is in the master's state when neither thread is busy and no check is
  queued fails in `supervision` without any fault: the supervision reads OP, the
  application starts to lower the slave, the supervision finds it unlike
  `expected_state`, now SAFEOP, and passes that as the argument of a transition
  (`async_loop.c:177`) that then waits for the mutex; when the application has reached
  PREOP and returned, the slave is raised to SAFEOP, and stays there.
* `Recovers` fails with a lost frame or a second fault: a first write that is lost
  (`slave.c:555`) or a recovery that is given up on its way leaves `expected_state` at a
  lower rung, and the supervision compares with that, not with `master_state`.
* `MailboxUp` and `OkMeansReached` fail when the application asks for INIT a second time: a
  check that is under way when `ec_set_state` rescans acts on structures that are being
  cleared (`ec.c:802`). The theorems have `OneScan`. A transition to BOOT, which ends in
  INIT, returns EC_OK all the same.
* `MailboxUp` fails after a loss of power and two lost accesses or early timeouts: a request
  for PREOP is given up, the supervision, which has found the slave lost, ends the handler
  and asks for INIT, this request is lost, and then the slave serves the one for PREOP.
  (The attempt to prove the bound found this; with two losses at most the property was
  first thought to hold.)
* `ec_slave_state_transition` returns EC_OK for EC_STATE_UNKNOWN, which a supervision that
  knows no state to expect asks for, and has asked the slave for INIT; `OkMeansReached` has
  the condition.
* `CountExact` of `Pool` fails as soon as `UntimedUsers` is not empty: `avail_cnt`
  then exceeds the entries, and a timed `pool_get` may fail at once instead of
  waiting (`eoe.c:284` and `eoe.c:528` use one pool both ways).
* `InputsInPlace` without the condition of `InputsArrive` is the run `inputs`.
* `AbsenceNoticed` has its conditions because the counter of LWR is added to by every
  mapping and never reset, and because groups without overlap count sync managers where
  a slave counts once (`ec.c:1605`).
* `PropagationDelays` fails where a clock above overflows while the frame is under way, a
  receive time is lost, or a slave without distributed clocks hides a branch (`dc.c:415`).
* `SoeReadWhole` is the run `soe_read`.
* `BuffersOnce` without `~ReturnedTwice`, and `SoeReturns` without the premise of
  `ServicesReturn`, fail in `services` with one stray message: any message but a read
  response makes `ec_soe_read` return the same buffer again and again, with `soe.lock` held,
  since it goes on with its loop without a new message (`soe.c:293-298`).
* `EoeReturns` without that premise fails: `ec_eoe_send_frame` waits ten seconds for a send
  buffer, ignores that there was none, and writes through NULL (`eoe.c:462-467`).
* `SoeTransfers` without `~drive.refused` fails: neither `ec_soe_read` nor `ec_soe_write`
  looks at the error bit of an answer, and a refusal ends with EC_OK.
* `EoeSent` without its condition fails: a frame that fills its last fragment never ends
  (`eoe.c:485`). `ec_eoe_send_frame` never sets `ret` and so always returns
  EC_ERROR_MAILBOX_TIMEOUT (`eoe.c:441`).
* `EoeReturns` without its premise fails when all receive buffers lie in pools of services
  nobody waits for any more: the handler then reads nothing, and the slave takes nothing.
* `FilesWhole` with any part of `Sound` left out.

## Theorems

All are proved for arbitrary constants under the named assumptions of the modules
(finite sets of entries and indices, distinct names, `NULL` apart from the rest).

`PoolProofs`: `TypeCorrect`, `EntriesConserved` and `NeverStarved` rest on the
inductive `TypeOK /\ Conservation /\ NoStarvedWaiter`. `NeverStarved` needs
`Conservation`, since a post that fails at the maximum of the semaphore is harmless
only when the queue is no longer than that maximum, that is, when no entry is in it
twice and `Cardinality(Entries) <= SemMax`. `TimedCountExact` is the exact count
when `UntimedUsers` is empty.

`TransportProofs`: `Inv == TypeOK /\ CallerControl /\ CycleControl /\ RxControl /\
EntryControl` is inductive. `TypeOK` alone is not: that a step finds an index where
it uses one depends on where each thread is (`CallerControl`, `CycleControl`,
`RxControl`: which `pc` implies which of `p_idx` and `p_entry`) and on every entry that
is queued, sent or being received having an index (`EntryControl`). This holds even
though stale calls of `pool_remove` may tangle the queues, since a tangled link still
names an entry. From it:

* `TypeCorrect` - the type invariant, losses, timeouts and late answers included;
* `IndicesKept` - outside master clock mode no index is lost. Lemma `IndexMoves` says
  that a step takes an index from the queue to one owner, returns it, or leaves it;
* `IndicesOwned` - outside master clock mode, and as long as the dc and state senders
  find an entry (`ClockHasEntry`), an index is free or has one owner. Both conditions
  are needed: without the first the run `no_reply_race` is a counterexample, without
  the second an instance with the state datagram and fewer entries than senders.

What entries carry rests on `Carried`, inductive beside `Inv` and the invariants on
indices. Its thread: an index is handed out when nothing with it is under way (`Quiet`);
its holder puts one datagram with it under way at a time (`Single`: in the queue, popped,
in the frame being filled, on the wire, or received); so what comes back with it is what
its holder asked for and finds its holder's entry (`Sending`, `Loaded`), and a posted
semaphore means an answer (`Answers`). `Queued` says that each queue is the linked list
`Walk` finds, that no entry is in two, and that one in `tx_low` still waits for its first
sending. Lemmas `PutLinked` and `TakeLinked` are the pointer arithmetic
of `TAILQ_INSERT_TAIL` and `TAILQ_REMOVE`. `Walk` follows `n` links: that it finds the list
is proved by looking at the least place where it would not (`LeastOf`), which needs no
induction theorem. Hypothesis `Orderly`: no master clock mode, no `get_packet_duration`
(index 0 whatever was taken), and either no wait times out or, with timeouts, one caller
and no answer slower than a round of the queues. The last is what the code needs: with two
callers, one that times out removes an entry `hw_tx_pool` has popped already, and
`TAILQ_REMOVE` then cuts off what was queued since (`Loose` says why one caller alone does
no harm). With `ClockHasEntry` beside it:

* `EntriesOwned` - the queues are well linked and every entry has one place;
* `RepliesMatch` - `ec_transceive` returns the answer to its own request;
* `CallbackHeld` - without timeouts, a callback works on the entry of the one who asked.

`CoEProofs`: `Inv == TypeOK /\ events \in Nat /\ UserControl /\ HandlerControl /\
BuffersKept` is inductive for `CoE` over `Mailbox`, for every number of clients,
gateways, buffers, segments, fragments and ring slots, with failed accesses, timed out
waits and emergencies. `BuffersKept` counts a buffer where a thread holds it, so a step
must know that a thread at that place has a message (`UserControl`, `HandlerControl`);
and that `rest` never falls below 0 and `stage` never passes `Segments` needs that
their sum bounds the segments of a download. Each action is one of two lemmas:
`UserStep` (a user moves, and as many buffers with it) and `MailboxStep` (the handler
hands its buffers on). From it:

* `TypeCorrect` - the type invariant;
* `BuffersConserved` - no path loses or doubles a send or receive buffer.

What messages mean needs where they are. `Dialogue` puts the places a message goes through,
from the user over the queue, the handler, the write mailbox, the slave, the read mailbox
and the receive pool back to the user, in one line of *stations* for each protocol: there
is one request at most, nothing is behind it but answers to it, and the answers are in the
order of how many are left, so that behind the last one there is none. `Turns` says that
the lock (`coe.lock`; for the gateway, that there is one thread) admits one user at a time,
and `Accounts` counts the confirmations of a download against its segments. All of it holds
while no wait has timed out, and timeouts are counted, so `OwnInv` is inductive beside
`Inv`. Hypothesis of the three theorems is `OneGateway`, one thread at most in
`ec_mbx_gateway_handle`:

* `DialogueAlways` - the invariant;
* `AnswersAreOwn` - no user takes an answer to another request;
* `OkIsConfirmed` - a call that ends with EC_OK has had every request confirmed by the
  slave, or was the reading of a list the slave refused (see above), as long as no segment
  in the middle of a download can be refused.

`RingInv` says that the emergencies on their way come in the order the slave numbered them
and later than those in the ring, and that the ring is either filled from its start up to
the write index (`Fresh`) or completely, with its oldest entry at the write index (`Full`):

* `NewestAlways` - until one is fetched, the ring has the newest emergencies in their order.

`SupervisionProofs`: `Shaped` (the types of threads and plans, and that an address in a
plan is inside it) is inductive without a hypothesis. The rest rests on `Owned` (whoever is
between lock and unlock owns the mutex, and the application is where its jobs say),
`Aimed` (what each place in a transition may assume: which plan is under way, how far it
is, what was read from the slave and what of it EC_OK stands for) and `CleanInv` (as long as
no fault and no loss occurred: the rung the slave stands on is the one before the next of the
plan, so the request is legal, and outside a transition the slave has served what it was
asked). Lemma `PlanTyped` says that the plans of the switch climb one rung at a time and end
where they should.
Hypotheses are `OneScan` (the application asks for INIT, if at all, in its first call, and
not for BOOT: a rescan beside the running supervision breaks the properties, see above) and
`Watched` (the application reads the AL status of all slaves, if at all, while the master is
in INIT, PREOP, SAFEOP or OP). For every sequence of calls, number of messages, groups, faults and losses:

* `TypeCorrect` - the type invariant;
* `OneTransition` - the two threads are never in a transition of the slave at once;
* `OnlyLegalRequests` - while nothing fails, the slave never has to refuse a request;
* `OkIsReached` - EC_OK is what the slave answered, and while nothing fails it still is so
  when the mutex is returned;
* `MailboxIsUp` - between two transitions a slave in PREOP, SAFEOP or OP has its mailbox
  handler, for any number of faults, as long as one access at most is lost. Its invariant
  `MailInv` follows a request for PREOP that is still pending: while nothing is lost, only the
  thread that made it waits for it (`Awaited`) and an error that is acknowledged is the one of
  the state it was read in (`AckFits`), so an acknowledgement, which repeats a state that may
  be old, cannot raise the slave; after one loss a slave that may rise without a handler is
  being asked for INIT by the thread that ended it (`Handled`), and the answer "INIT" tells
  that it cannot rise any more (`Answered`).

`StartupProofs`: the inductive `ClockInv` (the reading is never later than the clock,
`base` never after the turn of the reading, `dc_time` a natural number, `DcTimeExact`)
holds for every width of the clock, every number of overflows, every bus and group.
Lemmas `ExtendedExact` and `ExtendedGrows` are the arithmetic of the overflow. From it:

* `DcTimeIsExact` - while readings come less than a turn apart, the extended time is the
  time that has passed, less one nanosecond for each overflow;
* `DcTimeNeverBack` - it goes back by the reset only, however many readings are missed.

Process data is proved for any number of slaves, of sync managers, FMMUs and bytes each,
every group and either kind of mapping, and any missing slaves in any cycle. The sums
of lengths that place a slave are recursive functions; that they are defined everywhere
(`SumIs`), grow with what they add (`SumStep`) and order the windows is found at the least place where it
would fail (`LeastOf`), which needs no induction theorem. `Layout` says what
`ec_create_logical_mapping` and its variant leave: each slave's windows are where the sum of
those before it says (`Laid`, `Placed`), so no two slaves' windows for the same direction
meet (`WindowsApart`). A cycle is a datagram going past the slaves one after the other, each
working on what the one before left: `BehindIs` solves that recursion, and
`ProcessDataRight` carries it to what the callback copies. Hypotheses are that the slaves
are of the model's types (`SlaveTypes`: what the fields of `ec_slave_t` can hold) and the
group has the three booleans it is configured with.

* `OutputsDoArrive` - each slave has the outputs the application wrote for it;
* `InputsDoArrive` - the application finds each slave's inputs in its window;
* `AbsenceIsNoticed` - a missing slave is noticed by the working counter, and none else;
* `MailIsNoticed` - new mail is noticed for the slave that has it.

`ServicesProofs`: `RecvInv` says that the pools are sequences of buffers, that a handler
that receives has one, and that each buffer is at one place, once (`Once`). Lemma
`MoveKeeps` says that this survives moving the first *n* elements of one queue behind
another; every step that touches buffers is such a move, or none. `SendsInv` counts the
send buffers. Both for arbitrary calls, sizes of mailboxes, frames, devices and numbers
of buffers, losses, late answers and messages nobody asked for:

* `BuffersAreOnce` - until a read of SoE returns a buffer twice, every receive buffer is in
  one place, once;
* `SendsAreKept` - no send buffer is lost or doubled.

For the frames EoE sends, `EoeInv` says that one fragment at most is in the queue or in the
handler's hands, together with `send_sync`, and what the slave's network will have when it
has taken the write mailbox (`Has`, `Partial`): the frames of the calls so far and the part
of the started one before that fragment. A message put at either end of the queue, or taken
from it, leaves that as it is (`QueuePut`, `QueueTake`), so FoE and SoE may go on beside it.
Hypotheses are that `NULL` is no message (`NoMessage`) and that the calls are well formed
and something fits into the write mailbox (`Sendable`):

* `EoeIsSent` - the slave's network gets the master's frames, each whole and in their order,
  as long as no frame fills its last fragment (see above), for all calls and sizes.

`FoEProofs`: `FoeInv` has what is on its way to the server (`Out`: the write mailbox, the
message in the handler's hands, the queue) and from it (`In`: the receive pool, the read
mailbox, the slave's answers) as two sequences, and says of `Good` states which of a few
situations they are in: where the packet, the acknowledgement or the error that belongs to
the call is, which part of the file has arrived, what the server makes of the next message.
`Sound => Good` and the types of messages and calls are the rest of it. Messages of the
other services lie between those of FoE, so lemmas about subsequences that are kept when
something is inserted or taken away (`Kept`, `Inserted`) carry each situation over a step.
Hypotheses are that `NULL` is no message, call, record or result (`NullIsNone`) and that calls and frames are
well formed with a read mailbox that has room (`Asked`):

* `FilesStayWhole` - FoE implements `FileTransfer`: initial states map to initial states,
  and every step to a step or a stutter.

For the frames EoE receives, `NetInv` adds to it a cursor, the number of a frame and of a
fragment in it, and says (`Trail`) that the messages of EoE on their way - in its receive
pool, then in the read mailbox, then among the slave's answers - are the fragments from the
cursor of the first frame the device has not got to that of the first the slave's network
has not sent, none missing and none twice. The handler puts a fragment at the end of the
pool (`FlowReads`); when the last one of a frame is there, what is taken from the pool is
that frame, and the cursor is at the next (`TrailEnds`). A frame is handed on in the step
that takes its last fragment, so one buffer for frames is enough. Hypotheses are those
above and that there is such a buffer (`FreeFrames # 0`):

* `EoeFramesAreWhole` - the device gets the frames of the slave's network whole and in
  order, and the buffers for frames are free again after each, as long as no message is
  lost, whatever FoE and SoE do at the same time.

Only model-checked: liveness (out of the prover's reach); `Topology`
(`ParentsTrue`, `PropagationDelays`), whose properties are about arbitrary trees: the time
a frame takes through a subtree is a sum along it, and the subtree of a port is what is
left of the tree behind other ports, which is induction over data; of `Services` the
values of SoE (`SoeTransfers`).

## Not modelled

No protocol in it: datagram accessors, the master's object dictionary (tables), device
specific I/O, the tap device, example programs. `src/linux`, which has by far most of the
repository's lines, is vendors' network drivers with a character device added: not part of
the library, and of another kind. EEPROM and MII access are sequences of register
transceives in one thread, with data layout around them.

In `Transport`: a device without a free transmit buffer (`hw.c:260` drops the entry it
popped), working counter statistics, `hw_close`, and the return of the cyclic datagrams in
`ec_set_state`. In `Mailbox`, `CoE` and `Services`: `ec_mbx_deinit` and the other deinits
while users wait, the way back from SAFEOP to PREOP, the sequence counter (the slave is
assumed to tell requests apart), several slaves on the shared buffers (others only hold
some), the byte layout of messages, `ec_coe_generate_mapping` and
`ec_soe_generate_mapping`, which are sequences of uploads and reads. In `Topology` and
`DcClock`: `ec_dc_sync`, the offsets of master clock mode, the reversed ports of the
ET1200, clocks of 64 bits, which need no extension. In `ProcessData`: sub-devices, which are
offsets in an image, the divisor of a group, the counters of missed answers. In
`SlaveState` and `Supervision`: `act_state` (a plain store the mailbox handler reads),
errors without a status code, the EoE settings, init commands and mapping beyond their
success, a scan that finds the slave but cannot read its type, the clock offset
message; `BOOT` and a rescan are in the operators and in no run.

## Plan

Done: `Pool`, `Tailq`, `Transport`; `Mailbox`, `CoE`; `SlaveState`, `Supervision` for one
slave; `Topology`, `ProcessData`, `DcClock`, `Startup`; `MbxPort`, `FoE` with
`FileTransfer`, `SoE`, `EoE`, `Services`. Left, in order of weight:

1. `MasterState`: the return of the cyclic datagrams by `ec_set_state` (`ec.c:1062`),
   which takes no lock, composed with `Transport`.
2. `Supervision` with the goals INIT and BOOT, two slaves and groups, and the rescan
   beside the running supervision.
3. `ec_mbx_deinit` and the sequence counter, two slaves on the shared buffers; the waits of
   `eeprom.c`.
4. Proofs: the queues of `Transport` refine `Pool`'s sequences when every
   `pool_remove` is of a queued entry; the values of SoE.
