-------------------------------- MODULE Vhci --------------------------------
(***************************************************************************)
(* The virtual host controller: the root hub (VhciPorts) and the transfer  *)
(* registry (VhciUrbs) under the single lock vhc->lock, with the one       *)
(* handler that reads both, ioc_fetch_work.  Every step is one locked      *)
(* section of a handler; vhci_urb_giveback drops the lock around the       *)
(* owner's completion, which is why a loop that gives back (the reject     *)
(* loop of ioc_fetch_work, the drain loops of vhci_hcd_remove) takes one   *)
(* step per URB and lets every other handler run in between.              *)
(*                                                                         *)
(* Actors: the kernel's USB stack (submit, unlink, hub requests, power     *)
(* management), the user-space worker (the ioctls), and the platform      *)
(* device release that runs vhci_hcd_remove.                               *)
(***************************************************************************)
EXTENDS VhciPorts, VhciUrbs

vars == <<port_vars, urb_vars, waiter>>

TypeOK == PortsTypeOK /\ UrbsTypeOK /\ waiter \in WaiterStates

\* vhci_start also runs init_waitqueue_head(&vhc->work_event).
Init == PortsInit /\ UrbsInit /\ waiter = "none"

\* has_work: a port update, a cancel or an unprocessed URB is pending.
has_work ==
    port_update # 0 \/ urbp_list["cancel"] # <<>> \/ urbp_list["inbox"] # <<>>

\* Entry of ioc_fetch_work: with work pending the call goes on to its locked
\* part; without, a call with a timeout sleeps on work_event (a call with
\* timeout 0 returns -ETIMEDOUT, no step).
FetchEnter ==
    /\ remove_pc = "running" /\ fetch_pc = "idle" /\ waiter = "none"
    /\ \/ has_work /\ fetch_pc' = "checked" /\ UNCHANGED waiter
       \/ ~has_work /\ waiter' = "asleep" /\ UNCHANGED fetch_pc
    /\ UNCHANGED <<port_vars, urbp_list, urbp_status, urb_valid, linked,
                   unlinked, completed, owed, remove_pc>>

\* A woken caller tests has_work again: it goes on, or sleeps again.
FetchWoken ==
    /\ waiter = "woken"
    /\ \/ has_work /\ waiter' = "none" /\ fetch_pc' = "checked"
       \/ ~has_work /\ waiter' = "asleep" /\ UNCHANGED fetch_pc
    /\ UNCHANGED <<port_vars, urbp_list, urbp_status, urb_valid, linked,
                   unlinked, completed, owed, remove_pc>>

\* The wait ends without work: the timeout (at most 1000 ms) expires
\* (-ETIMEDOUT) or a signal arrives (-EINTR).
FetchGiveUp ==
    /\ waiter \in {"asleep", "woken"}
    /\ waiter' = "none"
    /\ UNCHANGED <<port_vars, urb_vars>>

\* The locked part of ioc_fetch_work: a CANCEL_URB if the cancel list is not
\* empty, else a PORT_STAT if some port_update bit is set, else the inbox
\* (PROCESS_URB, rejects, -ENODATA).
ioc_fetch_work ==
    /\ fetch_pc = "checked"
    /\ \/ FetchCancel /\ UNCHANGED port_vars
       \/ /\ urbp_list["cancel"] = <<>>
          /\ FetchPortStat
          /\ fetch_pc' = "idle"
          /\ UNCHANGED <<urbp_list, urbp_status, urb_valid, linked, unlinked,
                         completed, owed, remove_pc>>
       \/ /\ urbp_list["cancel"] = <<>>
          /\ PortStatMiss
          /\ FetchUrb

\* The same call after it gave an invalid URB back: "goto repeat" re-reads
\* only the inbox.
FetchRepeat ==
    /\ fetch_pc = "repeat"
    /\ FetchUrb
    /\ UNCHANGED port_vars

\* vhci_hcd_remove: device_release runs in the task that closes the file,
\* and tasks are frozen across system sleep, so the controller is
\* accessible when removal starts; remove runs under the device lock, which
\* keeps the platform suspend and resume callbacks out until the device is
\* unbound.  After the last drain loop usb_remove_hcd disconnects the root
\* hub, so hub requests end, and calls vhci_stop.
RemoveDrain ==
    RemoveStep /\ IF remove_pc' = "done" THEN vhci_stop ELSE UNCHANGED port_vars

RemoveNext ==
    \/ RemoveStart /\ hw_accessible /\ UNCHANGED port_vars
    \/ RemoveDrain

KernelNext ==
    \/ \E u \in Urbs : vhci_urb_enqueue(u) \/ vhci_urb_dequeue(u)

WorkerNext ==
    \/ FetchEnter \/ FetchWoken \/ FetchGiveUp \/ ioc_fetch_work \/ FetchRepeat
    \/ /\ \E h \in Urbs :
             \/ \E r \in Replies, ok \in BOOLEAN, s \in WorkerStatuses :
                   ioc_giveback(h, r, ok, s)
             \/ ioc_giveback_enoent(h)
             \/ ioc_fetch_data(h)
       /\ UNCHANGED port_vars

\* After vhci_hcd_remove the controller is gone: nothing runs any more.
Removed == remove_pc = "done" /\ UNCHANGED vars

Next ==
    \/ KernelNext /\ UNCHANGED port_vars
    \/ RemoveNext
    \/ WorkerNext
    \/ remove_pc # "done" /\ HubNext /\ UNCHANGED urb_vars
    \/ remove_pc = "running" /\ PlatformPM /\ UNCHANGED urb_vars
    \/ Removed
    \/ remove_pc = "running" /\ PortStatIoctl /\ UNCHANGED urb_vars

Spec == Init /\ [][Next]_vars

\* The worker loops on ioc_fetch_work (a woken caller runs) and completes every transfer it was
\* handed; a call that started runs to its end; a started removal runs on.
\* Submissions, unlinks, hub requests and power management need not happen.
WorkerCompletes(u) ==
    /\ \E ok \in BOOLEAN, s \in WorkerStatuses : ioc_giveback(u, "process", ok, s)
    /\ UNCHANGED port_vars

Fairness ==
    /\ WF_vars(FetchEnter)
    /\ WF_vars(FetchWoken)
    /\ WF_vars(ioc_fetch_work)
    /\ WF_vars(FetchRepeat)
    /\ WF_vars(RemoveDrain)
    /\ \A u \in Urbs : WF_vars(WorkerCompletes(u))

FairSpec == Spec /\ Fairness

-----------------------------------------------------------------------------
(* Properties of the registry and of the composition.                     *)

\* Queue membership is exclusive and exact: an URB the usb core still
\* counts as linked to its endpoint is in exactly one of the four lists,
\* once, and an URB given back is in none.  It is about every list move of
\* ioc_fetch_work and vhci_urb_dequeue and the list_del of every giveback
\* path, including the loops that drop the lock between two URBs.
RegistryConsistent ==
    \A u \in Urbs :
        LET at == UNION {{<<l, i>> : i \in {j \in DOMAIN urbp_list[l] :
                                              urbp_list[l][j] = u}} : l \in ListNames}
        IN Cardinality(at) = IF linked[u] THEN 1 ELSE 0

\* The owner never gets back an URB whose buffer user space may still read
\* or fill: every URB handed out as PROCESS_URB or reported as CANCEL_URB
\* stays linked until user space itself answers it (ioc_giveback or
\* ioc_fetch_data) or the device is released.  It is about
\* vhci_urb_dequeue deferring the giveback of a fetched URB to the cancel
\* lists.
WorkerHoldsOnlyLiveUrbs ==
    \A u \in Urbs : owed[u] \cap {"process", "cancel"} # {} => linked[u]

\* No lost wake-up: a FETCHWORK caller never sleeps on work_event while
\* has_work holds.  Every step that creates work (vhci_urb_enqueue, the
\* move of a fetched URB to the cancel list in vhci_urb_dequeue, every
\* userspace_needs_port_update of the hub requests, of ioc_port_stat and
\* of vhci_bus_suspend) must call trigger_work_event; a missing one leaves
\* a caller without timeout asleep forever with work pending.
NoLostWakeup ==
    waiter = "asleep" => ~has_work

\* vhci_hcd_remove leaves no URB behind in the lists user space or a
\* cancelation would have to resolve: once its drain loops have run, an
\* URB still linked can only be one submitted during the drain, waiting in
\* the inbox for the core to flush it.  It is about the order of the four
\* loops: an unlink during the drain still moves a fetched URB to the
\* cancel list, so a list drained before it is refilled keeps an URB.
RemovalLeavesOnlyQueued ==
    remove_pc = "done" => \A u \in Urbs : linked[u] => InList(u, "inbox")

\* The owner stops submitting from some point on.
OwnerQuiet == <>[][\A u \in Urbs : ~vhci_urb_enqueue(u)]_urb_vars

\* The owner also stops generating port events from some point on: no
\* more steps of the hub driver, the platform PM callbacks or
\* IOCPORTSTAT.  A step of these leaves the URB registry alone, and a
\* registry step can satisfy the port formulas (HcdResume, say, holds of
\* any step that leaves the port table and waiter unchanged), so the port
\* steps are told apart by both.
PortsQuiet == <>[][~(PortsNext /\ UNCHANGED urb_vars)]_vars

\* Every submitted URB is eventually given back (or left for the core to
\* flush after vhci_hcd_remove), once submissions and port events cease:
\* cancels reach the worker, URBs in a cancel list are resolved by the
\* worker's ioctls, the inbox is served.
UrbsEventuallyGivenBack ==
    (OwnerQuiet /\ PortsQuiet) =>
        \A u \in Urbs : linked[u] ~> (~linked[u] \/ remove_pc = "done")

\* Round robin over ports: a port whose update is pending is eventually
\* reported to user space, however often the hub driver keeps other ports
\* busy, once submissions cease.  It is about port_sched_offset moving past
\* the port last served in ioc_fetch_work.  vhci_hcd_remove ends the
\* service: the device file is closed by then.
PortUpdatesServed ==
    OwnerQuiet =>
        \A p \in Ports : Pending(port_update, p) ~> (~Pending(port_update, p) \/ remove_pc # "running")

\* Once the device is released, vhci_hcd_remove ends: each of its four
\* drain loops empties its list although it drops the lock for every URB
\* it gives back, provided the owner stops submitting (the spec makes
\* that the caller's duty during shutdown).  It is about the loops of
\* lines 1119-1143 re-reading the list head after each giveback.
RemoveTerminates ==
    OwnerQuiet => (remove_pc # "running" ~> remove_pc = "done")

-----------------------------------------------------------------------------
(* Refinement: the registry implements VhciTransfer.  A transfer is idle  *)
(* when not linked to its endpoint; canceled when urb->unlinked is set    *)
(* (the code gives an unlinked inbox URB back at once, so such an URB is  *)
(* in cancel or canceling); queued while in the inbox; handed otherwise   *)
(* (fetched).  Removal is "stopping" while vhci_hcd_remove drains.        *)

TransferPhase ==
    [u \in Urbs |->
        IF ~linked[u] THEN "idle"
        ELSE IF unlinked[u] THEN "canceled"
        ELSE IF InList(u, "inbox") THEN "queued"
        ELSE "handed"]

ControllerPhase ==
    IF remove_pc = "running" THEN "running"
    ELSE IF remove_pc = "done" THEN "stopped" ELSE "stopping"

Transfer == INSTANCE VhciTransfer
    WITH Transfers <- Urbs, Outcomes <- Statuses, Reset <- "ECONNRESET",
         NoOutcome <- NoStatus,
         phase <- TransferPhase, outcome <- completed, ctl <- ControllerPhase

\* Every step of the kernel entry points, the ioctls and removal is a step
\* of the transfer lifecycle: a transfer is handed to user space only from
\* the queue and only before removal, ends exactly once, with the unlink
\* status exactly when it was unlinked, and an unlink of a handed-out
\* transfer defers its end to user space or removal.  It is about the list
\* moves of vhci_urb_dequeue, ioc_fetch_work, ioc_giveback, ioc_fetch_data
\* and the drain of vhci_hcd_remove taken together.
TransferRefinement == Transfer!AbsSpec

-----------------------------------------------------------------------------
(* Statements of the spec that the code does not meet (violation runs).   *)

\* Spec 4.2 and 8: a malformed transfer is rejected at dispatch and given
\* back with the Stall status -EPIPE (ioc_fetch_work, invalid_urb).  The
\* step meant is the one that takes a malformed URB from the inbox and
\* gives it back although nobody unlinked it, before removal: the reject.
RejectedUrbStalls ==
    [][\A u \in Urbs :
          (/\ InList(u, "inbox") /\ ~urb_valid[u] /\ remove_pc = "running"
           /\ ~unlinked'[u] /\ ~linked'[u])
          => completed'[u] = "EPIPE"]_vars

\* Spec 4.2: a work fetch hands out a transfer only when no cancel is
\* pending (strict priority of CANCEL_URB over PROCESS_URB).
CancelsBeforeTransfers ==
    [][\A u \in Urbs :
          (~InList(u, "fetched") /\ urbp_list'["fetched"] # urbp_list["fetched"]
           /\ Contains(urbp_list'["fetched"], u))
          => urbp_list["cancel"] = <<>>]_vars

\* Spec 2 and 6: a handle is unique while outstanding, and a reply for a
\* handle already resolved finds nothing (NotFound).  A reply user space
\* still owes for a transfer that ended by another path (the answer to a
\* PROCESS_URB after the CANCEL_URB acknowledgement gave the URB back, or
\* the reverse) never completes a transfer (ioc_giveback_common looks the
\* handle up by URB pointer).
StaleReplyFindsNothing ==
    [][\A h \in Urbs, ok \in BOOLEAN, s \in WorkerStatuses :
          ~ioc_giveback(h, "stale", ok, s)]_vars

\* Every ioc_fetch_work call returns: the reject loop ends.
FetchWorkReturns == fetch_pc = "repeat" ~> fetch_pc = "idle"

=============================================================================
