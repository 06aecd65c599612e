# TLA+ models of usb-vhci-hcd

This directory holds TLA+ models of `src/usb-vhci-hcd.c`, the virtual USB
host controller driver. The driver hands the URBs (transfer requests) that
the kernel submits to a user-space worker through ioctls. It also emulates a
root hub whose ports that worker drives. All modules are checked with TLC.

The model follows the driver built without `OLD_GIVEBACK_MECH`. That is the
configuration for kernels that use `usb_hcd_link_urb_to_ep` and the atomic
`urbp->status`. It is the branch every `#ifndef OLD_GIVEBACK_MECH` in the
file selects.

## The system

All shared state lives in `struct vhci` (lines 124-156). It is guarded by
the one spinlock `vhc->lock`.

| Part | State | Operations (code) |
|---|---|---|
| Port table / root hub | `ports[]` (status, change, flags), `port_update` bitmask, `port_sched_offset`, `rh_state`, `HCD_FLAG_HW_ACCESSIBLE` | `vhci_hub_control`, `ioc_port_stat`, `vhci_bus_suspend/resume`, `vhci_hcd_suspend/resume` |
| Transfer registry | lists `inbox`, `fetched`, `cancel`, `canceling` of `vhci_urb_priv`; atomic `urbp->status` | `vhci_urb_enqueue`, `vhci_urb_dequeue`, `vhci_urb_giveback`, `maybe_set_status`, drain loops of `vhci_hcd_remove` |
| Work dispatcher | `work_event` wait queue; reads all of the above | `has_work`, the sleep on `work_event` and `trigger_work_event`; `ioc_fetch_work`: CANCEL_URB, else PORT_STAT (round robin), else PROCESS_URB with the reject loop `goto repeat` |
| Completion protocol | registry | `ioc_giveback(_common)`, `ioc_fetch_data(_common)` |
| Root-hub replies | port count, `port_change` words | `hub_descriptor` (GetHubDescriptor), `vhci_hub_status` |
| Controller lifecycle | `file->private_data` (the `vhci_conf`), registered platform devices, `dev_enum_lock` | `device_open`, `ioc_register`, `vhci_hcd_probe`, `device_release` |
| Not modelled | | sysfs/debug dump, compat32 shims, frame counter |

### Actors

There are three actors, and they interleave at lock boundaries.

- **The kernel USB stack** submits and unlinks URBs. It also sends hub requests and runs power management.
- **The user-space worker** calls the ioctls.
- **The platform release** (`device_release`, which leads to `vhci_hcd_remove`) drains the lists.

`vhci_urb_giveback` drops the lock around the owner's completion
(lines 237-246). So a loop that gives back takes one model step per URB:

- the reject loop of `ioc_fetch_work`;
- the four drain loops of `vhci_hcd_remove`.

Any other handler can run between two of those steps. This includes the
owner resubmitting from its completion.

## Modules

- `VhciPorts.tla` models the port table. Status and change words are sets of bit names.
  - `port_update` is a number, the `u32` word of the code. It is set with `1 << port` (line 438), an `int` shift, and tested and cleared with `1 << (port + 1)` and `~(1 << (port + 1))` (lines 1576-1578).
  - The word is `PortCount + 1` bits wide (`IntWidth`), so the last port's bit is the `int` sign bit, as port 31's is in the 32-bit build (`ioc_register` caps the count at 31, line 1244). `Shl1` gives gcc's `INT_MIN` for that shift; `ToWord` converts to the unsigned word. TLC integers cannot hold 2^31, which is why the width is scaled.
  - With `PortCount = 1` in the `ports` run, every update goes through the sign bit. `PortChangeNotified` and `PortUpdatesServed` hold there, so the shift into the sign bit and its clear are harmless with gcc.
  - Each handler is one action:
    - `ClearPortFeature`
    - `SetPortFeature`
    - `IocPortStat`
    - `BusSuspend`
    - `BusResume`
    - `HcdSuspend`
    - `HcdResume`
  - Each handler's condition and new record are separate operators, translated from its `switch` (`ClearPortCond`/`ClearPortNew`, `SetPortCond`/`SetPortNew`, `PortStatOK`/`PortStatNew`).
  - `FetchPortStat` is the PORT_STAT branch of `ioc_fetch_work`.
- `VhciUrbs.tla` models the registry.
  - An URB is a model value. It stands both for the pointer and for the handle that user space passes back.
  - `linked`, `unlinked` and `completed` are the parts of the USB core the owner sees:
    - whether the URB is linked to its endpoint;
    - whether `urb->unlinked` is set;
    - the status its completion reported. The core reports the unlink status for an unlinked URB.
  - `urb_valid` abstracts the buffer and setup-packet checks of `ioc_fetch_work`.
  - `owed` records, per URB, the replies user space still owes: `process` (its answer to a PROCESS_URB), `cancel` (its acknowledgement of a CANCEL_URB) and `stale` (a reply still owed for a transfer that has already ended by another path).
    - A worker that processes transfers asynchronously can owe both a `process` and a `cancel` reply for one URB. The first giveback ends the transfer, and the other reply becomes `stale`.
    - `ioc_giveback(h, r, ok, s)` sends reply `r`. `ioc_giveback_enoent` is a stale reply that finds nothing (`-ENOENT`).
  - `fetch_pc` marks a call that is inside the reject loop.
  - `remove_pc` is the list that `vhci_hcd_remove` is draining.
- `VhciWorkEvent.tla` models `vhc->work_event` from the side of the one thread that calls FETCHWORK: `waiter` is `none`, `asleep` (in `wait_event`, `has_work` was false) or `woken`. `trigger_work_event` (lines 249-252) wakes a sleeper. `VhciPorts` and `VhciUrbs` call it exactly where the code does: in `vhci_urb_enqueue`, in `vhci_urb_dequeue` when it moves a fetched URB to the cancel list, and in `userspace_needs_port_update`, which every hub request, `ioc_port_stat` and `vhci_bus_suspend` reach.
- `Vhci.tla` composes the modules.
  - `RemoveNext` is `vhci_hcd_remove`. `device_release` runs in the task that closes the file, and tasks are frozen across system sleep, so removal starts only on an accessible controller. Removal holds the device lock, which keeps the platform suspend and resume callbacks (`PlatformPM`) out. After the last drain loop, `usb_remove_hcd` disconnects the root hub, so hub requests end, and calls `vhci_stop`, which resets `rh_state` (`RemoveDrain`). `Removed` is the stop that follows: nothing runs any more.
  - `FetchEnter` is the entry of `ioc_fetch_work` (lines 1518-1552): it tests `has_work` and either goes on to the locked part or sleeps. `wait_event` registers on the queue before it tests, so the test and the sleep are one step. `FetchWoken` re-tests after a wake-up. `FetchGiveUp` is the timeout or the signal that ends the wait with `-ETIMEDOUT` or `-EINTR`.
  - The locked part (`ioc_fetch_work`) runs only after a positive test. It may find the work gone (an unlink or another handler ran in between) and return `-ENODATA` with no change.
  - It holds `ioc_fetch_work`, which is cancel, then port, then inbox, and `FetchRepeat` (the loop back to `repeat:`).
  - It also holds the next-state relation, the fairness and the cross-component properties.
- `VhciTransfer.tla` is the abstract specification of what the controller promises about each transfer.
  - Each transfer is `idle`, `queued`, `handed` or `canceled`. The controller is `running`, `stopping` or `stopped`.
  - Its actions are `Submit`, `HandOut` (only while running), `Unlink`, `Complete`, `Stop` and `Stopped`.
  - An unlink ends a queued transfer at once with the unlink status. It only marks a handed one.
  - A transfer ends exactly once: with the unlink status if and only if it was canceled.
  - `Vhci.tla` instantiates it as `Transfer` with a refinement mapping:
    - `TransferPhase`: not linked is idle; `urb->unlinked` is canceled; in the inbox is queued; otherwise handed.
    - `ControllerPhase`: from `remove_pc`.
    - `outcome` is `completed`.
- `VhciHub.tla` models the two root-hub replies as operators over byte arrays.
  - `hub_descriptor` and `vhci_hub_status` are translated step by step (memsets, field stores, `memcpy`, the bit loop `StatusLoop`).
  - Each is checked against a reference written from USB 2.0 (`RefDescriptorReply`, `RefStatusBitmap`).
  - The state is the arguments of one call, chosen by `HubInit`, and never changes.
  - The uninitialized bytes of the on-stack `desc` are an argument `junk` over `JunkBytes`. That covers the values the build may find there.
- `MCVhciHub.tla` instantiates `VhciHub` for every port count 1..31.
- `VhciFiles.tla` models the controller lifecycle over open files: `device_open`, `ioc_register`, `vhci_hcd_probe` (which may succeed or fail) and `device_release`, which unregisters the device. `MCVhciFiles.tla` instantiates it for three files and two device ids (the code has 10000).
  - `ioc_register` is two steps, because `unlocked_ioctl` serialises nothing. `ioc_register_enter` is the `private_data` test (line 1237); `calls[f]` counts the calls of file `f` past it, up to `MaxCalls`. `ioc_register_locked` is the section under `dev_enum_lock` (1248-1292): a return before `platform_device_add`, or the search, the store to `private_data` and `platform_device_add`.
  - The search (`FreeIds`) skips only devices bound to the driver, because `driver_for_each_device` walks those. After a failed probe it returns the unbound device's id, and `platform_device_add` fails for it; then `private_data` is set back to NULL (1296).
  - `device_release` runs on the last `fput`, so never while an ioctl of the file is in flight.
- `MCVhci.tla` is the TLC instance. It defines:
  - URB model values;
  - the feature and event sets each run enables;
  - URB symmetry.

The owner is modelled as a typical USB driver:

- It submits an URB that is not in flight.
- It resubmits only after a completion with status 0 or with the unlink status: a driver does not resubmit after an error, but it does resubmit an URB it killed (on resume, for example).
- It submits nothing after removal.

Allocation failures (`-ENOMEM`, `-EINVAL`) and calls that find nothing to do change no state, so they are not steps; in `ioc_register` they end a call in flight.

## Runs

| Run | Result | What it shows |
|---|---|---|
| `ports` (1 port, every hub request and port event) | pass, 55,503 states | `NoLostWakeup`: the fetching thread never sleeps while `has_work` holds. `PortStateLegal`: the hub bits stay consistent. `PortChangeNotified`: every port change raises its update bit, and only a PORT_STAT report clears it. `RootHubSuspendedWhenInaccessible`. |
| `urbs` (2 URBs, one change-bit hub request, fairness) | pass, 122,733 states | `UrbsEventuallyGivenBack` holds once submissions and port events cease. `RemoveTerminates`: the four drain loops of `vhci_hcd_remove` end once submissions cease. `RemovalLeavesOnlyQueued`: after `vhci_hcd_remove` an URB still linked can only be one submitted during the drain, waiting in the inbox. `TransferRefinement`: the registry implements `VhciTransfer`; every step is a lifecycle step or a stutter.  `NoLostWakeup` for enqueue and unlink. `RegistryConsistent`: a linked URB is in exactly one list, and a given-back URB is in none. `WorkerHoldsOnlyLiveUrbs`: an URB is never given back while user space holds it. |
| `hubreplies` (port counts 1..31, `wLength` 0..16, up to 2 changed ports) | pass, 186,558 states | `DescriptorSizedForPorts`: the descriptor reply has the standard length truncated to the request. `HubStatusMatchesBitmap`: exactly the standard change bits are set, and the return value says whether any is. `HubTypeOK`: both replies are bytes. |
| `hubdescbytes` | violation | `DescriptorMatchesStandard`: the `memcpy` of `desc` overwrites the bitmaps with uninitialized stack bytes. |
| `sched` (3 busy ports, fairness) | pass, 29,319 states | `PortUpdatesServed`: round robin serves every port, however busy the others are. |
| `files` (3 files, 2 device ids, 2 calls of a file in flight) | pass, 464 states | `ControllersUnshared`: a registered file is open, its controller is on the bus, and no other file drives it. `FilesTypeOK` bounds the id search. |
| `race` | violation | `DevicesOwned`: two IOCREGISTER calls of one file leave a controller that no file owns. |
| `probe` | violation | `RegisteredDeviceBound`: a file is registered to a device whose probe failed. |
| `stale` (1 URB) | violation | `StaleReplyFindsNothing`: a reply still owed for a killed transfer completes the next transfer of the same URB. |
| `stall` | violation | A rejected URB completes with 0, not `-EPIPE`. By the same cause, the worker's giveback status never reaches the owner (line 1833). |
| `priority` | violation | After a rejection, a transfer is handed out ahead of a pending cancel. |
| `fetchloop` | violation | An owner that resubmits from its completion keeps the reject loop running forever. |

The runs `stall` and `fetchloop` share one root cause. `vhci_urb_enqueue` allocates the urbp with `kzalloc`, so its status starts at 0. `maybe_set_status` only replaces `-EINPROGRESS`. As a result, every status set by the rejection, by the worker or by removal is lost.

`hubdescbytes` is a separate bug, at line 431. `hub_descriptor` memsets the DeviceRemovable bytes of `buf` to 0 and the PortPwrCtrlMask bytes to 0xff. Then `memcpy(buf, &desc, l)` copies `l` bytes of `desc` over them, but only the first 7 bytes of `desc` were initialized. So the reply leaks stack bytes, and the power mask is not all ones even on a zeroed stack. TLC finds this for 1 port and `wLength` 8, when the stack byte copied over the mask is not 0xff.

`race` is a fourth bug, at line 1237. `ioc_register` tests `file->private_data` before it takes `dev_enum_lock`, and nothing serialises the ioctls of one file. Two threads calling IOCREGISTER on one file both pass the test. The first registers device 0 and stores its conf; the second overwrites `private_data` (1287), or clears it when its `platform_device_add` fails (1296). `device_release` unregisters only what `private_data` names, so device 0 stays on the bus with no owner. TLC's trace is six states: open, two tests, two locked sections.

`probe` is a third bug, at line 1315. The driver core ignores a failing probe, so `platform_device_add` returns 0 even when `vhci_hcd_probe` failed (`usb_create_hcd` or `usb_add_hcd` returned an error). `ioc_register` then reads `hcd->self.busnum` through `platform_get_drvdata(pdev)` of a device without an HCD, and `device_do_ioctl` (line 2090) does the same on every later ioctl.

`stale` is a disagreement with the spec, at line 1727. The spec says a handle is unique while outstanding, and a reply for a resolved handle is NotFound. It also lets a giveback race a late cancel notice. The code's handle is the URB pointer, and `ioc_giveback_common` looks it up in the lists. TLC's trace:
1. The URB is handed out as PROCESS_URB.
2. The owner kills it, and it is reported as CANCEL_URB.
3. The acknowledgement gives it back with the unlink status.
4. The owner resubmits it, and it is handed out again.
5. The late answer to the first PROCESS_URB completes the new transfer with the old transfer's status.

Each property of a passing run has a mutant in `PROJECT.json`: a plausible bug in the mapped code, which TLC finds.

### Bounds

- **Three files, two device ids.** Every file can register, fail to find an id, close and reopen; ids are reused.
- **Two calls of a file in flight.** Enough for two threads of one file to race between the `private_data` test and the lock. `probe` uses one, so its trace is the failed probe alone.
- **Hub requests in the registry runs.** `urbs` runs without hub requests, because port updates multiply its states past what TLC checks in minutes. Port work competing with transfers is checked by `urbs` (one change-bit request, two URBs) and `ports`; `urbs` has no symmetry because it checks liveness.
- **Three URBs** in `priority`. This is enough for a fetched URB being cancelled while an invalid URB sits ahead of a valid one in the inbox. Two URBs suffice for the drain order of `RemovalLeavesOnlyQueued`: one given back while the other is unlinked during the lock drop.
- **Resubmission.** It lets one handle name several transfers over time.
- **One port.** This suffices for the per-port state machine, because ports share nothing but the scheduler.
- **Three ports for the scheduler.** With three ports the offset wraps and a port can be passed over.
- **Root-hub replies.** Every port count `ioc_register` accepts (1..31) is checked. Request lengths run from 0 to one past the largest descriptor, and change sets have up to two ports. Those bounds cover every byte boundary of the bitmaps, at ports 7, 8, 15, 16 and so on.
- **Stack bytes.** `{0, 165}`: a zeroed stack and a pattern that is neither 0 nor 0xff.
- **Worker statuses.** `{"0", "EIO"}` is enough to tell a delivered error from success.

### Fairness

The fairness in `Vhci.tla` is as follows:

- `ioc_fetch_work` and `FetchRepeat` are weakly fair. A worker loops on FETCHWORK, and a started call runs to its end.
- `RemoveStep` is weakly fair. A started removal runs on.
- `FetchEnter` and `FetchWoken` are weakly fair: the worker calls FETCHWORK again and a woken thread runs. `FetchGiveUp` (timeout or signal) has no fairness; the liveness properties hold without it.
- The worker completes each URB it holds (`WorkerCompletes`). This is the worker's contract.

Submissions, unlinks, hub requests and power management get no fairness. The liveness properties assume quiescence instead (`OwnerQuiet`, `PortsQuiet`). `PortsQuiet` forbids steps of the port side that leave the URB registry unchanged; a registry step alone can satisfy `HcdResume` and the bus PM formulas, so `~PortsNext` by itself would forbid registry steps too.

## Not modelled, and the plan

- **Data copies and ISO packet descriptors.** These are abstracted to one "checks pass" boolean.
- **The 32-bit compat ioctls.** They only convert arguments and call the same common functions.
- **Removal with a resubmitting owner.** `RemoveTerminates` assumes that submissions cease. The spec makes that the caller's duty during shutdown.
- **The port array freed by `vhci_stop`.** Nothing reads it after the root hub is disconnected, so `vhci_stop` only resets `rh_state` in the model.
- **The frame counter.** `vhci_get_frame` returns `frame_num`, which `vhci_start` sets to 0 and nothing else writes (the timer is a TODO), so it has no state change.
- **Sleeping under `dev_enum_lock`.** `ioc_register` holds a spinlock across `kmalloc(GFP_KERNEL)` and `platform_device_add`. Whether a callee sleeps is not an interleaving question.
- **sysfs/debug output, frame counter, module registration.** These are formatting or I/O with no protocol state.
