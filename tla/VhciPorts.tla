----------------------------- MODULE VhciPorts -----------------------------
(***************************************************************************)
(* The emulated root hub of usb-vhci-hcd.c: the port table (struct        *)
(* vhci_port), the pending-update bitmask port_update with its round-robin *)
(* offset port_sched_offset, the root-hub run state and the platform      *)
(* HW_ACCESSIBLE flag.  Status and change words are sets of bit names; a  *)
(* change bit has the name of the status bit it latches (C_CONNECTION is  *)
(* "CONNECTION" in port_change).                                           *)
(*                                                                         *)
(* This module holds the port state and the handlers that touch only it:  *)
(* vhci_hub_control, ioc_port_stat, vhci_bus_suspend/resume and the        *)
(* platform suspend/resume.  The PORT_STAT branch of ioc_fetch_work is the *)
(* operator FetchPortStat, used by the composition in Vhci.tla.            *)
(***************************************************************************)
EXTENDS Integers, FiniteSets, FiniteSetsExt, Sequences, Bitwise, VhciWorkEvent

CONSTANTS
    PortCount,      \* vhc->port_count, 1..31 (ioc_register refuses pc > 31)
    HubFeatures,    \* wValue features the hub driver may send in this model
    PortEvents      \* change words user space may report in this model

StatusBits == {"CONNECTION", "ENABLE", "SUSPEND", "OVERCURRENT", "RESET",
               "POWER", "LOW_SPEED", "HIGH_SPEED"}
ChangeBits == {"CONNECTION", "ENABLE", "SUSPEND", "OVERCURRENT", "RESET"}

\* The features of ClearPortFeature/SetPortFeature that change state; the
\* others (CONNECTION, OVER_CURRENT, LOWSPEED, HIGHSPEED, INDICATOR) are
\* no-ops and TEST stalls.  "C_x" is the feature clearing/setting change x.
CFeature(x) == "C_" \o x
AllFeatures == {"SUSPEND", "POWER", "ENABLE", "RESET"}
               \cup {CFeature(x) : x \in ChangeBits}

ASSUME PortCount \in 1..31 /\ HubFeatures \subseteq AllFeatures

Ports == 1..PortCount       \* wIndex / port number, first port is 1

VARIABLES
    ports,              \* vhc->ports[]: [port_status, port_change, port_flags]
    port_update,        \* vhc->port_update, a word of IntWidth bits
    port_sched_offset,  \* vhc->port_sched_offset
    rh_state,           \* vhc->rh_state
    hw_accessible       \* HCD_FLAG_HW_ACCESSIBLE in hcd->flags

port_vars == <<ports, port_update, port_sched_offset, rh_state, hw_accessible>>

\* port_update is a u32 and the bit of port p is "1 << p", a shift of int.
\* The width is scaled with the port count: IntWidth stands for the 32 bits
\* of int and u32, so the last port's bit is the sign bit of int, as port
\* 31's is (TLC integers cannot hold 2^31).
IntWidth == PortCount + 1

\* 1 << k in an int of IntWidth bits: a shift into the sign bit is undefined
\* in C and gives INT_MIN with gcc.
Shl1(k) == IF k = IntWidth - 1 THEN -(2^(IntWidth - 1)) ELSE 2^k

\* An int converted to the unsigned word, and ~ of an int.
ToWord(x) == x % (2^IntWidth)
IntNot(x) == -x - 1

\* Port p's update bit as the hub protocol means it, for the properties.
Pending(w, p) == (w & 2^p) # 0

PortRec == [port_status : SUBSET StatusBits, port_change : SUBSET ChangeBits,
            port_flags : SUBSET {"RESUMING"}]
ZeroPort == [port_status |-> {}, port_change |-> {}, port_flags |-> {}]

PortsTypeOK ==
    /\ ports \in [Ports -> PortRec]
    /\ port_update \in {w \in 0..(2^IntWidth - 1) : w % 2 = 0}
    /\ port_sched_offset \in 0..PortCount
    /\ rh_state \in {"RESET", "SUSPENDED", "RUNNING"}
    /\ hw_accessible \in BOOLEAN

\* vhci_start: kzalloc'ed port array, offset and bitmask 0, root hub running.
PortsInit ==
    /\ ports = [p \in Ports |-> ZeroPort]
    /\ port_update = 0
    /\ port_sched_offset = 0
    /\ rh_state = "RUNNING"
    /\ hw_accessible = TRUE

-----------------------------------------------------------------------------
(* Port transitions.  Each sets ports[p] to new and raises the update bit  *)
(* (userspace_needs_port_update), or leaves everything unchanged when the  *)
(* code's condition does not hold.                                         *)

\* Mutant: the bit is raised but the waiting worker is not woken.
userspace_needs_port_update_nowake(p, new) ==
    /\ ports' = [ports EXCEPT ![p] = new]
    /\ port_update' = port_update | ToWord(Shl1(p))
    /\ UNCHANGED waiter

userspace_needs_port_update(p, new) ==
    /\ ports' = [ports EXCEPT ![p] = new]
    /\ port_update' = port_update | ToWord(Shl1(p))
    /\ trigger_work_event

\* Set or clear bits of one field of a port record.
Clr(r, f, bits) == [r EXCEPT ![f] = @ \ bits]
Put(r, f, bits) == [r EXCEPT ![f] = @ \cup bits]

\* Condition and new record of ClearPortFeature(f) on port record r.
ClearPortCond(r, f) ==
    CASE f = "SUSPEND" -> "SUSPEND" \in r.port_status
      [] f = "POWER"   -> "POWER" \in r.port_status
      [] f = "ENABLE"  -> "ENABLE" \in r.port_status
      [] OTHER         -> \E x \in ChangeBits : f = CFeature(x) /\ x \in r.port_change
\* Mutant: disabling a port leaves its suspend bit set.
ClearPortNewKeepSuspend(r, f) ==
    CASE f = "SUSPEND" -> Put(r, "port_flags", {"RESUMING"})
      [] f = "POWER"   -> [port_status |-> r.port_status \cap {"OVERCURRENT"},
                           port_change |-> r.port_change \cap {"OVERCURRENT"},
                           port_flags  |-> r.port_flags \ {"RESUMING"}]
      [] f = "ENABLE"  -> [port_status |-> r.port_status \ {"ENABLE"},
                           port_change |-> r.port_change \ {"ENABLE", "SUSPEND"},
                           port_flags  |-> r.port_flags \ {"RESUMING"}]
      [] OTHER         -> Clr(r, "port_change",
                              {x \in ChangeBits : f = CFeature(x)})
ClearPortNew(r, f) ==
    CASE f = "SUSPEND" -> Put(r, "port_flags", {"RESUMING"})
      [] f = "POWER"   -> [port_status |-> r.port_status \cap {"OVERCURRENT"},
                           port_change |-> r.port_change \cap {"OVERCURRENT"},
                           port_flags  |-> r.port_flags \ {"RESUMING"}]
      [] f = "ENABLE"  -> [port_status |-> r.port_status \ {"ENABLE", "SUSPEND"},
                           port_change |-> r.port_change \ {"ENABLE", "SUSPEND"},
                           port_flags  |-> r.port_flags \ {"RESUMING"}]
      [] OTHER         -> Clr(r, "port_change",
                              {x \in ChangeBits : f = CFeature(x)})

\* Condition and new record of SetPortFeature(f) on port record r.
SetPortCond(r, f) ==
    CASE f = "SUSPEND" -> "ENABLE" \in r.port_status /\ "SUSPEND" \notin r.port_status
      [] f = "POWER"   -> "POWER" \notin r.port_status
      [] f = "RESET"   -> "CONNECTION" \in r.port_status /\ "RESET" \notin r.port_status
      [] OTHER         -> \E x \in ChangeBits : f = CFeature(x) /\ x \notin r.port_change
SetPortNew(r, f) ==
    CASE f = "SUSPEND" -> Put(r, "port_status", {"SUSPEND"})
      [] f = "POWER"   -> Put(r, "port_status", {"POWER"})
      [] f = "RESET"   -> [port_status |-> (r.port_status \cap
                              {"POWER", "CONNECTION", "LOW_SPEED", "HIGH_SPEED",
                               "OVERCURRENT"}) \cup {"RESET"},
                           port_change |-> r.port_change,
                           port_flags  |-> r.port_flags \ {"RESUMING"}]
      [] OTHER         -> Put(r, "port_change", {x \in ChangeBits : f = CFeature(x)})

\* vhci_hub_control(ClearPortFeature / SetPortFeature, wValue = f, wIndex = p).
\* A request outside the handled domain stalls without a state change, and
\* so does a request whose condition is false; neither is a step here.
ClearPortFeature(p, f) ==
    /\ hw_accessible
    /\ f # "RESET"                  \* RESET is a no-op for ClearPortFeature
    /\ ClearPortCond(ports[p], f)
    /\ userspace_needs_port_update(p, ClearPortNew(ports[p], f))
    /\ UNCHANGED <<port_sched_offset, rh_state, hw_accessible>>

SetPortFeature(p, f) ==
    /\ hw_accessible
    /\ f # "ENABLE"                 \* SetPortFeature(ENABLE) stalls
    /\ SetPortCond(ports[p], f)
    /\ userspace_needs_port_update(p, SetPortNew(ports[p], f))
    /\ UNCHANGED <<port_sched_offset, rh_state, hw_accessible>>

-----------------------------------------------------------------------------
(* ioc_port_stat: user space reports a port event.  change is one of the  *)
(* six accepted change words, s the status bits the handler reads.        *)

PortStatChanges == {{"CONNECTION"}, {"ENABLE"}, {"SUSPEND"}, {"OVERCURRENT"},
                    {"RESET"}, {"RESET", "ENABLE"}}

\* The bits of the user's status word each case reads; others are ignored.
ASSUME PortEvents \subseteq PortStatChanges

PortStatInput(c) ==
    CASE c = {"CONNECTION"}  -> {"CONNECTION", "LOW_SPEED", "HIGH_SPEED"}
      [] c = {"OVERCURRENT"} -> {"OVERCURRENT"}
      [] c = {"ENABLE"}      -> {"ENABLE"}
      [] c = {"SUSPEND"}     -> {"SUSPEND"}
      [] OTHER               -> {"RESET", "ENABLE"}

Speed(s) == IF "LOW_SPEED" \in s THEN {"LOW_SPEED"}
            ELSE IF "HIGH_SPEED" \in s THEN {"HIGH_SPEED"} ELSE {}

\* The -EPROTO checks of each case.
PortStatOK(r, c, s) ==
    LET st == r.port_status IN
    /\ "POWER" \in st
    /\ c = {"ENABLE"}  => "CONNECTION" \in st /\ "RESET" \notin st /\ "ENABLE" \notin s
    /\ c = {"SUSPEND"} => /\ {"CONNECTION", "ENABLE"} \subseteq st
                          /\ "RESET" \notin st /\ "SUSPEND" \notin s
    /\ "RESET" \in c   => /\ {"CONNECTION", "RESET"} \subseteq st
                          /\ "RESET" \notin s
                          /\ ("ENABLE" \in c => "ENABLE" \notin s)

PortStatNew(r, c, s) ==
    LET st == r.port_status
        oc == st \cap {"OVERCURRENT"}
    IN CASE c = {"CONNECTION"} ->
              [port_status |-> {"POWER"} \cup oc \cup
                   (IF "CONNECTION" \in s THEN {"CONNECTION"} \cup Speed(s) ELSE {}),
               port_change |-> r.port_change \cup c,
               port_flags  |-> r.port_flags \ {"RESUMING"}]
         [] c = {"ENABLE"} ->
              [port_status |-> st \ {"ENABLE", "SUSPEND"},
               port_change |-> r.port_change \cup c,
               port_flags  |-> r.port_flags \ {"RESUMING"}]
         [] c = {"SUSPEND"} ->
              [port_status |-> st \ {"SUSPEND"},
               port_change |-> r.port_change \cup c,
               port_flags  |-> r.port_flags \ {"RESUMING"}]
         [] c = {"OVERCURRENT"} ->
              [r EXCEPT !.port_status = (st \ oc) \cup (s \cap {"OVERCURRENT"}),
                        !.port_change = @ \cup c]
         [] OTHER ->                 \* C_RESET, with or without C_ENABLE
              [r EXCEPT !.port_status = (st \ {"RESET"}) \cup
                            (IF "ENABLE" \in c THEN {} ELSE s \cap {"ENABLE"}),
                        !.port_change = @ \cup c]

\* Mutant: ioc_port_stat updates the port without flagging it for user space.
IocPortStatSilent(p, c, s) ==
    /\ PortStatOK(ports[p], c, s)
    /\ ports' = [ports EXCEPT ![p] = PortStatNew(ports[p], c, s)]
    /\ UNCHANGED <<port_update, port_sched_offset, rh_state, hw_accessible, waiter>>

IocPortStat(p, c, s) ==
    /\ PortStatOK(ports[p], c, s)
    /\ userspace_needs_port_update(p, PortStatNew(ports[p], c, s))
    /\ UNCHANGED <<port_sched_offset, rh_state, hw_accessible>>

-----------------------------------------------------------------------------
(* Root hub and controller power management.                              *)

\* vhci_bus_suspend: suspend every enabled, not yet suspended port.
Suspendable(r) == "ENABLE" \in r.port_status /\ "SUSPEND" \notin r.port_status
BusSuspend ==
    LET S == {p \in Ports : Suspendable(ports[p])} IN
    /\ ports' = [p \in Ports |-> IF p \in S
                    THEN [Put(ports[p], "port_status", {"SUSPEND"})
                             EXCEPT !.port_flags = @ \ {"RESUMING"}]
                    ELSE ports[p]]
    /\ port_update' = FoldSet(LAMBDA q, w : w | ToWord(Shl1(q)), port_update, S)
    /\ IF S # {} THEN trigger_work_event ELSE UNCHANGED waiter
    /\ rh_state' = "SUSPENDED"
    /\ UNCHANGED <<port_sched_offset, hw_accessible>>

\* Mutant: vhci_bus_resume without the HW_ACCESSIBLE test.
BusResumeUnchecked ==
    /\ rh_state' = "RUNNING"
    /\ UNCHANGED <<ports, port_update, port_sched_offset, hw_accessible, waiter>>

\* vhci_bus_resume: -ENODEV unless the controller is accessible.
BusResume ==
    /\ hw_accessible
    /\ rh_state' = "RUNNING"
    /\ UNCHANGED <<ports, port_update, port_sched_offset, hw_accessible, waiter>>

\* vhci_hcd_suspend: -EBUSY while the root hub runs.
HcdSuspend ==
    /\ rh_state # "RUNNING"
    /\ hw_accessible' = FALSE
    /\ UNCHANGED <<ports, port_update, port_sched_offset, rh_state, waiter>>

\* vhci_hcd_resume.
HcdResume ==
    /\ hw_accessible' = TRUE
    /\ UNCHANGED <<ports, port_update, port_sched_offset, rh_state, waiter>>

\* vhci_stop, called by usb_remove_hcd once the root hub is disconnected:
\* the port array is freed (nothing reads it again) and the root hub reset.
vhci_stop ==
    /\ rh_state' = "RESET"
    /\ UNCHANGED <<ports, port_update, port_sched_offset, hw_accessible>>

-----------------------------------------------------------------------------
(* The PORT_STAT branch of ioc_fetch_work: reset an out-of-range offset,   *)
(* scan the ports starting at the offset, report and clear the first one   *)
(* whose bit is set and move the offset past it.  Ports are 0-based in the *)
(* scan (port) and 1-based in the bitmask (port + 1).                      *)
ScanOrder(off, i) == ((i + off) % PortCount) + 1

\* The scan of the PORT_STAT branch: the offset, reset when out of range,
\* the scan positions whose port bit is set, and the first such port.
ScanOff == IF port_sched_offset >= PortCount THEN 0 ELSE port_sched_offset
ScanHits == {i \in 0..(PortCount - 1) :
                (port_update & ToWord(Shl1(ScanOrder(ScanOff, i)))) # 0}
ScanPort == ScanOrder(ScanOff, CHOOSE i \in ScanHits : \A j \in ScanHits : i <= j)

\* Report and clear the port found: the bit is cleared with &= ~(1 << port).
ClearScanned == port_update' = port_update & ToWord(IntNot(Shl1(ScanPort)))

\* Mutants of the PORT_STAT branch: the offset set one past port + 1, or
\* never moved.
FetchPortStatPastPort ==
    /\ port_update # 0 /\ ScanHits # {}
    /\ ClearScanned
    /\ port_sched_offset' = ScanPort + 1
    /\ UNCHANGED <<ports, rh_state, hw_accessible, waiter>>
FetchPortStatStuck ==
    /\ port_update # 0 /\ ScanHits # {}
    /\ ClearScanned
    /\ UNCHANGED <<ports, port_sched_offset, rh_state, hw_accessible, waiter>>

FetchPortStat ==
    /\ port_update # 0 /\ ScanHits # {}
    /\ ClearScanned
    /\ port_sched_offset' = ScanPort
    /\ UNCHANGED <<ports, rh_state, hw_accessible, waiter>>

\* No port found: the call goes on to the inbox, the offset reset if the
\* word was not 0.
PortStatMiss ==
    /\ ScanHits = {}
    /\ port_sched_offset' = IF port_update # 0 THEN ScanOff ELSE port_sched_offset
    /\ UNCHANGED <<ports, port_update, rh_state, hw_accessible>>

\* The usb core's hub requests and root-hub power management, with their
\* inputs (the hc_driver callbacks).
HubNext ==
    \/ \E p \in Ports, f \in HubFeatures : ClearPortFeature(p, f) \/ SetPortFeature(p, f)
    \/ BusSuspend \/ BusResume

\* The platform driver's system-sleep callbacks.
PlatformPM == HcdSuspend \/ HcdResume

\* The IOCPORTSTAT ioctl of user space, with its inputs.
PortStatIoctl ==
    \E p \in Ports, c \in PortEvents :
        \E s \in SUBSET PortStatInput(c) : IocPortStat(p, c, s)

\* Every port-only handler.
PortsNext == HubNext \/ PlatformPM \/ PortStatIoctl

-----------------------------------------------------------------------------
(* Properties of the port table.                                           *)

\* The USB 2.0 hub port state diagram, as the handlers must keep it: a
\* suspended port is enabled, a resuming port (the driver's private flag)
\* is still suspended, an enabled or resetting port has a device connected,
\* a resetting port is not enabled, a port with a device is powered, and a
\* device has one speed.  It is about every ClearPortFeature, SetPortFeature,
\* ioc_port_stat and bus-suspend path keeping these bits together.
PortStateLegal ==
    \A p \in Ports :
        LET st == ports[p].port_status IN
        /\ "SUSPEND" \in st => "ENABLE" \in st
        /\ "RESUMING" \in ports[p].port_flags => "SUSPEND" \in st
        /\ ("ENABLE" \in st \/ "RESET" \in st) => "CONNECTION" \in st
        /\ "RESET" \in st => "ENABLE" \notin st
        /\ "CONNECTION" \in st => "POWER" \in st
        /\ ~({"LOW_SPEED", "HIGH_SPEED"} \subseteq st)

\* User space never holds a stale picture of a port without being told so:
\* a step that changes a port's status, change or flags leaves its
\* port_update bit set, and only the PORT_STAT report of ioc_fetch_work,
\* which hands the port's current record to user space, clears it.  It is
\* about every handler that modifies a port calling
\* userspace_needs_port_update.
PortChangeNotified ==
    [][/\ \A p \in Ports : ports'[p] # ports[p] => Pending(port_update', p)
       /\ (\E p \in Ports : Pending(port_update, p) /\ ~Pending(port_update', p))
          => FetchPortStat]_port_vars

\* The controller is only made inaccessible (vhci_hcd_suspend) while the
\* root hub is suspended, and stays so until vhci_hcd_resume: the root hub
\* never runs on an inaccessible controller.
RootHubSuspendedWhenInaccessible ==
    ~hw_accessible => rh_state = "SUSPENDED"
=============================================================================
