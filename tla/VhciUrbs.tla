------------------------------ MODULE VhciUrbs ------------------------------
(***************************************************************************)
(* The transfer registry of usb-vhci-hcd.c: the four urbp lists of struct  *)
(* vhci (inbox, fetched, cancel, canceling), the atomic status of each    *)
(* struct vhci_urb_priv, and the part of the usb core an URB's owner sees: *)
(* whether it is linked to its endpoint, whether it was unlinked, and the  *)
(* status its completion reported.  An URB is a model value standing for   *)
(* the pointer that is also its handle; it may be resubmitted after its    *)
(* completion, so a handle can name several transfers over time.          *)
(*                                                                         *)
(* The handlers here touch only the registry: vhci_urb_enqueue,            *)
(* vhci_urb_dequeue, ioc_giveback, ioc_fetch_data and the drain loops of  *)
(* vhci_hcd_remove.  The CANCEL_URB and PROCESS_URB branches of            *)
(* ioc_fetch_work are the operators FetchCancel and FetchUrb, composed     *)
(* with the PORT_STAT branch in Vhci.tla.                                  *)
(***************************************************************************)
EXTENDS Naturals, Sequences, SequencesExt, VhciWorkEvent

CONSTANTS
    Urbs,            \* the URBs (handles) the kernel side submits
    WorkerStatuses   \* the statuses user space passes to ioc_giveback

\* Status values: "0" is success.  ECONNRESET stands for the unlink status
\* usb_hcd_check_unlink_urb records in urb->unlinked.
Statuses == {"0", "EINPROGRESS", "EPIPE", "ESHUTDOWN", "ECONNRESET"}
            \cup WorkerStatuses
NoStatus == "none"

ASSUME WorkerStatuses \subseteq Statuses /\ "0" \in WorkerStatuses

ListNames == {"inbox", "fetched", "cancel", "canceling"}

\* The replies user space owes for a handle: its answer to a PROCESS_URB,
\* its acknowledgement of a CANCEL_URB, and "stale", a reply still owed for
\* a transfer that has ended by another path.  The handle is the URB
\* pointer, so a stale reply names the URB's next transfer as well.
Replies == {"process", "cancel", "stale"}

VARIABLES
    urbp_list,     \* [ListNames -> Seq(Urbs)]: vhc->urbp_list_*
    urbp_status,   \* [Urbs -> Statuses]: atomic urbp->status
    urb_valid,     \* [Urbs -> BOOLEAN]: the URB passes ioc_fetch_work's checks
    linked,        \* [Urbs -> BOOLEAN]: linked to its endpoint (owner waits)
    unlinked,      \* [Urbs -> BOOLEAN]: urb->unlinked set by the core
    completed,     \* [Urbs -> Statuses \cup {NoStatus}]: last status given back
    owed,          \* [Urbs -> SUBSET Replies]: the ioctl replies user space
                   \* still owes for the handle
    fetch_pc,      \* "idle"; "checked": has_work let a FETCHWORK call through
                   \* to its locked part; "repeat": inside the reject loop
    remove_pc      \* "running", the list vhci_hcd_remove drains, or "done"

urb_vars == <<urbp_list, urbp_status, urb_valid, linked, unlinked, completed,
              owed, fetch_pc, remove_pc>>

InList(u, l) == Contains(urbp_list[l], u)
Registered(u) == \E l \in ListNames : InList(u, l)

UrbsTypeOK ==
    /\ urbp_list \in [ListNames -> Seq(Urbs)]
    /\ urbp_status \in [Urbs -> Statuses]
    /\ urb_valid \in [Urbs -> BOOLEAN]
    /\ linked \in [Urbs -> BOOLEAN]
    /\ unlinked \in [Urbs -> BOOLEAN]
    /\ completed \in [Urbs -> Statuses \cup {NoStatus}]
    /\ owed \in [Urbs -> SUBSET Replies]
    /\ fetch_pc \in {"idle", "checked", "repeat"}
    /\ remove_pc \in {"running", "done"} \cup ListNames

\* vhci_start: four empty lists; no URB submitted yet.
UrbsInit ==
    /\ urbp_list = [l \in ListNames |-> <<>>]
    /\ urbp_status = [u \in Urbs |-> "0"]
    /\ urb_valid = [u \in Urbs |-> TRUE]
    /\ linked = [u \in Urbs |-> FALSE]
    /\ unlinked = [u \in Urbs |-> FALSE]
    /\ completed = [u \in Urbs |-> NoStatus]
    /\ owed = [u \in Urbs |-> {}]
    /\ fetch_pc = "idle"
    /\ remove_pc = "running"

-----------------------------------------------------------------------------
(* Helpers                                                                 *)

\* maybe_set_status: atomic_cmpxchg(&urbp->status, -EINPROGRESS, status).
maybe_set_status(st, u, s) ==
    IF st[u] = "EINPROGRESS" THEN [st EXCEPT ![u] = s] ELSE st

\* vhci_urb_giveback with the status function st the caller leaves and the
\* URB's urb->unlinked flag unl: unlink the urbp from its list and give the
\* URB back; usb_hcd_giveback_urb reports the unlink status instead of the
\* HCD's for an unlinked URB.
vhci_urb_giveback(u, st, unl) ==
    /\ urbp_list' = [l \in ListNames |-> Remove(urbp_list[l], u)]
    /\ linked' = [linked EXCEPT ![u] = FALSE]
    /\ completed' = [completed EXCEPT ![u] = IF unl THEN "ECONNRESET" ELSE st[u]]
    /\ urbp_status' = st

\* Mutant: list_add_tail instead of list_move_tail.
MoveHeadCopy(from, to) ==
    [urbp_list EXCEPT ![to] = Append(@, Head(urbp_list[from]))]

\* list_move_tail of the head of list from onto list to.
MoveHead(from, to) ==
    [urbp_list EXCEPT ![from] = Tail(@),
                      ![to] = Append(@, Head(urbp_list[from]))]

\* The list a handle is found in by ioc_giveback_common (fetched, then
\* canceling, then cancel) and by ioc_fetch_data_common (fetched, cancel,
\* canceling); at most one holds it, so the search order is immaterial.
FoundIn(u, ls) == {l \in ls : InList(u, l)}

\* The replies owed for h after a reply r ended its transfer: any other
\* reply for h is stale now.
StaleAfter(h, r) == IF owed[h] \ {r} = {} THEN {} ELSE {"stale"}

-----------------------------------------------------------------------------
(* Kernel-side entry points                                                *)

\* vhci_urb_enqueue: kzalloc the urbp (status 0), link the URB to its
\* endpoint and append it to the inbox.  Owners submit an URB that is not
\* in flight and whose last completion, if any, succeeded or reported the
\* unlink (a driver does not resubmit after an error, but resubmits an URB
\* it killed, e.g. on resume); submissions are refused once the
\* controller is removed.  The -EINVAL/-ENOMEM returns change nothing.
vhci_urb_enqueue(u) ==
    /\ ~linked[u]
    /\ completed[u] \in {NoStatus, "0", "ECONNRESET"}
    /\ remove_pc # "done"
    /\ \E valid \in BOOLEAN : urb_valid' = [urb_valid EXCEPT ![u] = valid]
    /\ urbp_list' = [urbp_list EXCEPT !["inbox"] = Append(@, u)]
    /\ urbp_status' = [urbp_status EXCEPT ![u] = "0"]
    /\ linked' = [linked EXCEPT ![u] = TRUE]
    /\ unlinked' = [unlinked EXCEPT ![u] = FALSE]
    /\ trigger_work_event
    /\ UNCHANGED <<completed, owed, fetch_pc, remove_pc>>

\* Mutant: vhci_urb_dequeue gives a fetched URB back at once.
vhci_urb_dequeue_eager(u) ==
    /\ linked[u] /\ ~unlinked[u]
    /\ unlinked' = [unlinked EXCEPT ![u] = TRUE]
    /\ IF InList(u, "inbox") \/ InList(u, "fetched")
       THEN vhci_urb_giveback(u, urbp_status, TRUE)
       ELSE UNCHANGED <<urbp_list, urbp_status, linked, completed>>
    /\ UNCHANGED <<urb_valid, owed, fetch_pc, remove_pc, waiter>>

\* Mutant: a fetched URB moves to the cancel list without waking the worker.
vhci_urb_dequeue_nowake(u) ==
    /\ linked[u] /\ ~unlinked[u]
    /\ unlinked' = [unlinked EXCEPT ![u] = TRUE]
    /\ IF InList(u, "inbox")
       THEN vhci_urb_giveback(u, urbp_status, TRUE) /\ UNCHANGED waiter
       ELSE /\ urbp_list' =
                 IF InList(u, "fetched")
                 THEN [urbp_list EXCEPT !["fetched"] = Remove(@, u),
                                        !["cancel"] = Append(@, u)]
                 ELSE urbp_list
            /\ UNCHANGED <<urbp_status, linked, completed, waiter>>
    /\ UNCHANGED <<urb_valid, owed, fetch_pc, remove_pc>>

\* vhci_urb_dequeue: usb_hcd_check_unlink_urb marks the URB unlinked (it
\* refuses an URB already given back or already unlinked); an URB still
\* in the inbox is given back at once, a fetched one moves to the cancel
\* list, one in cancel or canceling stays where it is.
vhci_urb_dequeue(u) ==
    /\ linked[u] /\ ~unlinked[u]
    /\ unlinked' = [unlinked EXCEPT ![u] = TRUE]
    /\ IF InList(u, "inbox")
       THEN vhci_urb_giveback(u, urbp_status, TRUE) /\ UNCHANGED waiter
       ELSE /\ IF InList(u, "fetched")
               THEN /\ urbp_list' = [urbp_list EXCEPT !["fetched"] = Remove(@, u),
                                                      !["cancel"] = Append(@, u)]
                    /\ trigger_work_event
               ELSE UNCHANGED <<urbp_list, waiter>>
            /\ UNCHANGED <<urbp_status, linked, completed>>
    /\ UNCHANGED <<urb_valid, owed, fetch_pc, remove_pc>>

\* vhci_hcd_remove: the device file is released, so no ioctl runs and user
\* space holds no handle any more; drain the lists in order, each URB with
\* maybe_set_status(-ESHUTDOWN) and vhci_urb_giveback, which drops the lock.
\* Mutant: after the canceling list the drain starts over at the inbox.
DrainNextRestart == [inbox |-> "fetched", fetched |-> "cancel",
                     cancel |-> "canceling", canceling |-> "inbox"]

\* Mutant: the cancel list drained before the fetched list.
DrainNextSwapped == [inbox |-> "cancel", cancel |-> "fetched",
                     fetched |-> "canceling", canceling |-> "done"]

DrainNext == [inbox |-> "fetched", fetched |-> "cancel",
              cancel |-> "canceling", canceling |-> "done"]

RemoveStart ==
    /\ remove_pc = "running" /\ fetch_pc = "idle" /\ waiter = "none"
    /\ remove_pc' = "inbox"
    /\ owed' = [u \in Urbs |-> {}]
    /\ UNCHANGED <<urbp_list, urbp_status, urb_valid, linked, unlinked,
                   completed, fetch_pc, waiter>>

RemoveStep ==
    /\ remove_pc \in ListNames
    /\ IF urbp_list[remove_pc] # <<>>
       THEN /\ vhci_urb_giveback(Head(urbp_list[remove_pc]),
                   maybe_set_status(urbp_status, Head(urbp_list[remove_pc]),
                                    "ESHUTDOWN"),
                   unlinked[Head(urbp_list[remove_pc])])
            /\ UNCHANGED remove_pc
       ELSE /\ remove_pc' = DrainNext[remove_pc]
            /\ UNCHANGED <<urbp_list, urbp_status, linked, completed>>
    /\ UNCHANGED <<urb_valid, unlinked, owed, fetch_pc, waiter>>

-----------------------------------------------------------------------------
(* User-space entry points (ioctls), possible while the device is open.   *)

\* Mutant: ioc_giveback looks the handle up in the fetched list only.
ioc_giveback_fetched_only(h, r, ok, s) ==
    /\ remove_pc = "running"
    /\ r \in owed[h]
    /\ InList(h, "fetched")
    /\ vhci_urb_giveback(h, IF ok THEN maybe_set_status(urbp_status, h, s)
                                  ELSE urbp_status, unlinked[h])
    /\ owed' = [owed EXCEPT ![h] = StaleAfter(h, r)]
    /\ UNCHANGED <<urb_valid, unlinked, fetch_pc, remove_pc, waiter>>

\* ioc_giveback(handle h, status s), sent as the reply r user space owes
\* for h: ok says whether the buffer, length and iso arguments pass the
\* checks.  Not found: -ENOENT (ioc_giveback_enoent).  Found in a cancel
\* list: -ECANCELED, but given back all the same.  Failed checks give back
\* without setting the status (done_with_errors).
ioc_giveback(h, r, ok, s) ==
    /\ remove_pc = "running"
    /\ r \in owed[h]
    /\ FoundIn(h, {"fetched", "cancel", "canceling"}) # {}
    /\ vhci_urb_giveback(h, IF ok THEN maybe_set_status(urbp_status, h, s)
                                  ELSE urbp_status, unlinked[h])
    /\ owed' = [owed EXCEPT ![h] = StaleAfter(h, r)]
    /\ UNCHANGED <<urb_valid, unlinked, fetch_pc, remove_pc, waiter>>

\* A reply whose handle is in no list: -ENOENT, nothing changes but that
\* user space no longer owes it.  Only a stale reply can find nothing.
ioc_giveback_enoent(h) ==
    /\ remove_pc = "running"
    /\ "stale" \in owed[h]
    /\ FoundIn(h, {"fetched", "cancel", "canceling"}) = {}
    /\ owed' = [owed EXCEPT ![h] = @ \ {"stale"}]
    /\ UNCHANGED <<urbp_list, urbp_status, urb_valid, linked, unlinked,
                   completed, fetch_pc, remove_pc, waiter>>

\* ioc_fetch_data(handle h), sent while processing a PROCESS_URB: a fetched
\* URB's data is copied out with no state change; one found in a cancel
\* list is given back at once (-ECANCELED), since user space now knows of
\* the cancelation, and it answers the PROCESS_URB.
ioc_fetch_data(h) ==
    /\ remove_pc = "running"
    /\ "process" \in owed[h]
    /\ FoundIn(h, {"cancel", "canceling"}) # {}
    /\ vhci_urb_giveback(h, urbp_status, unlinked[h])
    /\ owed' = [owed EXCEPT ![h] = StaleAfter(h, "process")]
    /\ UNCHANGED <<urb_valid, unlinked, fetch_pc, remove_pc, waiter>>

\* The CANCEL_URB branch of ioc_fetch_work: report the oldest URB of the
\* cancel list and move it to canceling; user space owes an acknowledgement
\* (a giveback), besides its answer to the PROCESS_URB.
FetchCancel ==
    /\ urbp_list["cancel"] # <<>>
    /\ urbp_list' = MoveHead("cancel", "canceling")
    /\ owed' = [owed EXCEPT ![Head(urbp_list["cancel"])] = @ \cup {"cancel"}]
    /\ fetch_pc' = "idle"
    /\ UNCHANGED <<urbp_status, urb_valid, linked, unlinked, completed,
                   remove_pc, waiter>>

\* The PROCESS_URB branch (label repeat): hand the oldest inbox URB to user
\* space and move it to fetched, or give an invalid one back with -EPIPE
\* (the lock is dropped in vhci_urb_giveback) and loop; with an empty inbox
\* the call returns -ENODATA, also when the work has_work saw is gone by the
\* time the lock is taken.
FetchUrb ==
    LET u == Head(urbp_list["inbox"]) IN
    \/ /\ urbp_list["inbox"] # <<>> /\ urb_valid[u]
       /\ urbp_list' = MoveHead("inbox", "fetched")
       /\ owed' = [owed EXCEPT ![u] = @ \cup {"process"}]
       /\ fetch_pc' = "idle"
       /\ UNCHANGED <<urbp_status, urb_valid, linked, unlinked, completed, remove_pc, waiter>>
    \/ /\ urbp_list["inbox"] # <<>> /\ ~urb_valid[u]
       /\ vhci_urb_giveback(u, maybe_set_status(urbp_status, u, "EPIPE"), unlinked[u])
       /\ fetch_pc' = "repeat"
       /\ UNCHANGED <<urb_valid, unlinked, owed, remove_pc, waiter>>
    \/ /\ urbp_list["inbox"] = <<>> /\ fetch_pc \in {"checked", "repeat"}
       /\ fetch_pc' = "idle"
       /\ UNCHANGED <<urbp_list, urbp_status, urb_valid, linked, unlinked,
                      completed, owed, remove_pc, waiter>>
=============================================================================
