---------------------------- MODULE VhciWorkEvent ----------------------------
(***************************************************************************)
(* vhc->work_event, the wait queue a FETCHWORK caller sleeps on in         *)
(* wait_event_interruptible(_timeout)(vhc->work_event, has_work(vhc)).    *)
(* The worker fetches from one thread, so the queue holds at most one     *)
(* task: waiter is "none" (no caller waits), "asleep" (queued, found      *)
(* has_work false) or "woken" (made runnable by a wake-up, about to test  *)
(* has_work again).  wait_event queues the task before it tests the       *)
(* condition, so a wake-up between the test and the sleep is not lost;   *)
(* the test and the sleep are therefore one step.                         *)
(***************************************************************************)
VARIABLE waiter

WaiterStates == {"none", "asleep", "woken"}

\* trigger_work_event: wake_up_interruptible(&vhc->work_event).
trigger_work_event ==
    waiter' = IF waiter = "asleep" THEN "woken" ELSE waiter
=============================================================================
