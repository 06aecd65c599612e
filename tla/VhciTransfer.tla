---------------------------- MODULE VhciTransfer ----------------------------
(***************************************************************************)
(* What the host controller promises the usb core about each transfer     *)
(* (spec sections 4.1-4.3 and 6): a submitted transfer is queued, may be  *)
(* handed to user space while the controller runs, and ends exactly once: *)
(* an unlink of a transfer not yet handed out ends it at once with the    *)
(* unlink status; an unlink of a handed-out one only marks it, and it     *)
(* ends with the unlink status when the controller is done with it; any   *)
(* other end reports a status other than the unlink status.  Removal      *)
(* stops the hand-outs; once it is over the controller ends nothing more. *)
(*                                                                         *)
(* Vhci.tla maps the four lists, urb->unlinked and the completions onto   *)
(* this specification and checks that it implements it.                   *)
(***************************************************************************)
CONSTANTS
    Transfers,   \* the transfers (URBs) of the owner
    Outcomes,    \* completion statuses
    Reset,       \* the unlink status (-ECONNRESET), in Outcomes
    NoOutcome    \* not completed yet

VARIABLES
    phase,       \* [Transfers -> Phases]
    outcome,     \* [Transfers -> Outcomes \cup {NoOutcome}]: last status
    ctl          \* "running", "stopping" (removal drains) or "stopped"

Phases == {"idle", "queued", "handed", "canceled"}

abs_vars == <<phase, outcome, ctl>>

AbsTypeOK ==
    /\ phase \in [Transfers -> Phases]
    /\ outcome \in [Transfers -> Outcomes \cup {NoOutcome}]
    /\ ctl \in {"running", "stopping", "stopped"}

AbsInit ==
    /\ phase = [t \in Transfers |-> "idle"]
    /\ outcome = [t \in Transfers |-> NoOutcome]
    /\ ctl = "running"

Submit(t) ==
    /\ phase[t] = "idle" /\ ctl # "stopped"
    /\ phase' = [phase EXCEPT ![t] = "queued"]
    /\ UNCHANGED <<outcome, ctl>>

HandOut(t) ==
    /\ phase[t] = "queued" /\ ctl = "running"
    /\ phase' = [phase EXCEPT ![t] = "handed"]
    /\ UNCHANGED <<outcome, ctl>>

\* The unlink of a queued transfer ends it; of a handed one marks it.
Unlink(t) ==
    /\ \/ /\ phase[t] = "queued"
          /\ phase' = [phase EXCEPT ![t] = "idle"]
          /\ outcome' = [outcome EXCEPT ![t] = Reset]
       \/ /\ phase[t] = "handed"
          /\ phase' = [phase EXCEPT ![t] = "canceled"]
          /\ UNCHANGED outcome
    /\ UNCHANGED ctl

\* The controller ends a live transfer: a canceled one with the unlink
\* status, any other with some other status.
Complete(t) ==
    /\ phase[t] \in {"queued", "handed", "canceled"} /\ ctl # "stopped"
    /\ phase' = [phase EXCEPT ![t] = "idle"]
    /\ \E s \in Outcomes :
         /\ (s = Reset) = (phase[t] = "canceled")
         /\ outcome' = [outcome EXCEPT ![t] = s]
    /\ UNCHANGED ctl

Stop ==
    /\ ctl = "running"
    /\ ctl' = "stopping"
    /\ UNCHANGED <<phase, outcome>>

Stopped ==
    /\ ctl = "stopping"
    /\ ctl' = "stopped"
    /\ UNCHANGED <<phase, outcome>>

AbsNext ==
    \/ \E t \in Transfers : Submit(t) \/ HandOut(t) \/ Unlink(t) \/ Complete(t)
    \/ Stop \/ Stopped

AbsSpec == AbsInit /\ [][AbsNext]_abs_vars
=============================================================================
