-------------------------------- MODULE Startup --------------------------------
(***************************************************************************)
(* What ec_set_state sets up between INIT and SAFEOP, in its order: the    *)
(* scan, the distributed clocks, the process data; what the cyclic         *)
(* datagrams make of it in SAFEOP and OP; and the way back to PREOP, after *)
(* which clocks and process data are configured again.                     *)
(***************************************************************************)
EXTENDS Topology, ProcessData, DcClock

CONSTANTS
    MaxMappings,  \* bound: how often the master goes to SAFEOP
    ClockedBuses  \* bound: the numbers of slaves of the buses whose clock is followed

ASSUME StartupAssumption == MaxMappings \in Nat /\ ClockedBuses \subseteq Nat

VARIABLES
    master_state,  \* pec->master_state; SAFEOP stands for OP as well
    configured     \* slaves ec_dc_config is through with

svars == <<master_state, configured>>
vars  == <<tvars, pvars, cvars, svars>>

have_dc == \E i \in Slaves : bus.dc[i]

-----------------------------------------------------------------------------
Scan == /\ master_state = "INIT"
        /\ ScanSlave
        /\ UNCHANGED <<pvars, cvars, svars>>

ToPreop == /\ master_state = "INIT" /\ Scanned = Len(bus.up)
           /\ master_state' = "PREOP"
           /\ UNCHANGED <<tvars, pvars, cvars, configured>>

ConfigureClocks == /\ master_state = "PREOP" /\ mappings < MaxMappings
                   /\ configured < Scanned
                   /\ DcConfigSlave(configured + 1)
                   /\ configured' = configured + 1
                   /\ UNCHANGED <<bus, port_of, parent, pvars, cvars, master_state>>

ToSafeop == /\ master_state = "PREOP" /\ configured = Scanned
            /\ CreateMapping
            /\ master_state' = "SAFEOP"
            /\ UNCHANGED <<tvars, cvars, configured>>

\* ec_send_process_data and the answers, without the slaves that missed the cycle.
Cycle == /\ master_state = "SAFEOP"
         /\ \E absent \in SUBSET Members : Exchange(absent)
         /\ UNCHANGED <<tvars, cvars, svars>>

\* The mailbox state datagram.  It has nothing to do with the process data: that it comes
\* before them only saves states.
MailCycle == /\ master_state = "SAFEOP" /\ image = Nothing
             /\ \E new \in SUBSET {i \in Members : plan[i].mbx} : MbxStates(new)
             /\ UNCHANGED <<tvars, cvars, svars>>

\* The distributed clocks datagram, which is sent when there is a reference clock.
ClockCycle == /\ master_state = "SAFEOP" /\ have_dc /\ Scanned \in ClockedBuses
              /\ cb_distributed_clocks
              /\ UNCHANGED <<tvars, pvars, svars>>

Time == /\ have_dc /\ Scanned \in ClockedBuses
        /\ ClockRuns
        /\ UNCHANGED <<tvars, pvars, svars>>

BackToPreop == /\ master_state = "SAFEOP"
               /\ DcReset
               /\ master_state' = "PREOP" /\ configured' = 0
               /\ UNCHANGED <<tvars, pvars>>

-----------------------------------------------------------------------------
\* A bus w whose slaves have the process data of devices, in a group with these settings.
StartupInit(w, devices, group) ==
    /\ TopologyInit(w) /\ ProcessDataInit(devices, group) /\ DcClockInit
    /\ master_state = "INIT" /\ configured = 0

Next == \/ Scan \/ ToPreop \/ ConfigureClocks \/ ToSafeop \/ Cycle \/ MailCycle
        \/ ClockCycle \/ Time \/ BackToPreop

\* The delays of the slaves ec_dc_config is through with (see Topology).
PropagationDelays == DelaysTrue(configured)
=============================================================================
