------------------------------ MODULE VhciFiles ------------------------------
(***************************************************************************)
(* The control device /dev/vhci-ctrl and the controllers it creates.  Each *)
(* open file may register one virtual host controller (IOCREGISTER): the   *)
(* driver finds the lowest platform device id not in use, under           *)
(* dev_enum_lock, allocates the platform device, stores its vhci_conf in  *)
(* file->private_data and adds the device, which probes the HCD.  Closing *)
(* the file unregisters the device, which runs vhci_hcd_remove (modelled  *)
(* in VhciUrbs) and frees the HCD.                                         *)
(*                                                                         *)
(* The probe (vhci_hcd_probe: usb_create_hcd, usb_add_hcd, vhci_start) may *)
(* fail (-ENOMEM, a failed device_create_file); the driver core ignores a  *)
(* failed probe, so platform_device_add still succeeds and the device     *)
(* stays on the bus without an HCD.                                        *)
(*                                                                         *)
(* IOCREGISTER is not serialised per file: unlocked_ioctl takes no lock,  *)
(* and ioc_register tests file->private_data (line 1237) before it takes  *)
(* dev_enum_lock (1248).  A call is therefore two steps: the test, after   *)
(* which the call is in flight, and the locked section that searches,     *)
(* stores private_data (1287) and adds the device.  Threads sharing one   *)
(* file may have several calls in flight; the returns before              *)
(* platform_device_add (-EINVAL, -EBUSY, -ENOMEM, a failed                *)
(* platform_device_add_data) only end the call.                           *)
(***************************************************************************)
EXTENDS Integers, FiniteSets

CONSTANTS
    Files,      \* struct file objects of /dev/vhci-ctrl
    MaxIds,     \* ids the search tries: 0 .. MaxIds - 1 (10000 in the code)
    MaxCalls    \* IOCREGISTER calls of one file in flight at once

ASSUME MaxIds \in Nat \ {0} /\ MaxCalls \in Nat \ {0}

DevIds == 0..(MaxIds - 1)
NoConf == -1     \* file->private_data = NULL

VARIABLES
    fopen,      \* [Files -> BOOLEAN]: the file is open
    conf,       \* [Files -> DevIds \cup {NoConf}]: conf->pdev->id of private_data
    devices,    \* ids of the vhci_hcd platform devices on the bus
    bound,      \* ids of devices whose probe succeeded (drvdata is an HCD)
    calls       \* [Files -> Nat]: IOCREGISTER calls past the private_data test

files_vars == <<fopen, conf, devices, bound, calls>>

FilesTypeOK ==
    /\ fopen \in [Files -> BOOLEAN]
    /\ conf \in [Files -> DevIds \cup {NoConf}]
    /\ devices \subseteq DevIds
    /\ bound \subseteq devices
    /\ calls \in [Files -> 0..MaxCalls]

FilesInit ==
    /\ fopen = [f \in Files |-> FALSE]
    /\ conf = [f \in Files |-> NoConf]
    /\ devices = {}
    /\ bound = {}
    /\ calls = [f \in Files |-> 0]

\* device_open: a new struct file has private_data NULL.
device_open(f) ==
    /\ ~fopen[f]
    /\ fopen' = [fopen EXCEPT ![f] = TRUE]
    /\ UNCHANGED <<conf, devices, bound, calls>>

\* The search loop of ioc_register: driver_for_each_device with
\* device_enum fails for an id in use, so the loop stops at the lowest
\* free id; none below MaxIds gives -EBUSY.  The walk visits the devices
\* bound to vhci_hcd_driver only, so the id of a device whose probe failed
\* counts as free.
\* Mutant: the search loop runs while i <= 10000.
FreeIdsInclusive == (0..MaxIds) \ bound

FreeIds == DevIds \ bound
LowestFreeId == CHOOSE i \in FreeIds : \A j \in FreeIds : i <= j

\* platform_device_add of device i probes it: vhci_hcd_probe succeeds or
\* fails (usb_put_hcd), and the device is added either way.
vhci_hcd_probe(i) ==
    \E ok \in BOOLEAN : bound' = IF ok THEN bound \cup {i} ELSE bound

\* The call passes the private_data test: NULL, so not registered yet.
ioc_register_enter(f) ==
    /\ fopen[f]
    /\ conf[f] = NoConf
    /\ calls[f] < MaxCalls
    /\ calls' = [calls EXCEPT ![f] = @ + 1]
    /\ UNCHANGED <<fopen, conf, devices, bound>>

\* Under dev_enum_lock: private_data is set to the new conf (1287) and the
\* device added.  platform_device_add fails for an id already on the bus
\* (the search may return one, see FreeIds) or for want of memory; then
\* conf is freed and private_data set to NULL (1296).
platform_device_add(f, i) ==
    \/ /\ i \notin devices
       /\ conf' = [conf EXCEPT ![f] = i]
       /\ devices' = devices \cup {i}
       /\ vhci_hcd_probe(i)
    \/ /\ conf' = [conf EXCEPT ![f] = NoConf]
       /\ UNCHANGED <<devices, bound>>

\* The rest of the call, from spin_lock(&dev_enum_lock): a return before
\* platform_device_add changes nothing here, else the device is added.
ioc_register_locked(f) ==
    /\ calls[f] > 0
    /\ calls' = [calls EXCEPT ![f] = @ - 1]
    /\ UNCHANGED fopen
    /\ \/ UNCHANGED <<conf, devices, bound>>
       \/ /\ FreeIds # {}
          /\ platform_device_add(f, LowestFreeId)

\* device_release: private_data is cleared; a registered controller is
\* unregistered (platform_device_unregister, which runs vhci_hcd_remove on
\* a bound device) and its conf freed.  It runs on the last fput, so
\* never while an ioctl of the file is in flight.
\* Mutant: private_data is left set (line 1334 dropped).
device_release_keep(f) ==
    /\ fopen[f] /\ calls[f] = 0
    /\ fopen' = [fopen EXCEPT ![f] = FALSE]
    /\ devices' = devices \ {conf[f]}
    /\ bound' = bound \ {conf[f]}
    /\ UNCHANGED <<conf, calls>>

device_release(f) ==
    /\ fopen[f] /\ calls[f] = 0
    /\ fopen' = [fopen EXCEPT ![f] = FALSE]
    /\ conf' = [conf EXCEPT ![f] = NoConf]
    /\ devices' = devices \ {conf[f]}
    /\ bound' = bound \ {conf[f]}
    /\ UNCHANGED calls

FilesNext ==
    \E f \in Files : \/ device_open(f)
                     \/ ioc_register_enter(f) \/ ioc_register_locked(f)
                     \/ device_release(f)

FilesSpec == FilesInit /\ [][FilesNext]_files_vars

-----------------------------------------------------------------------------
\* A registered file's controller is on the bus, the file is open, and no
\* other file drives the same controller.  It is about the lowest-id
\* search under dev_enum_lock (which may return the id of a device whose
\* probe failed, so that platform_device_add fails), private_data cleared
\* on that failure, and device_release clearing private_data and
\* unregistering the file's own device, over opens, registrations and
\* closes of several files with concurrent IOCREGISTER calls.
ControllersUnshared ==
    /\ \A f \in Files : conf[f] # NoConf => fopen[f] /\ conf[f] \in devices
    /\ \A f, g \in Files : f # g /\ conf[f] # NoConf => conf[f] # conf[g]

\* Every virtual controller belongs to exactly one open file, so closing
\* the file unregisters it.  ioc_register's "-EPROTO if private_data is
\* set" (line 1237, "IOCREGISTER already done?") is meant to allow one
\* controller per file; two IOCREGISTER calls of one file that both pass
\* the test before either takes dev_enum_lock register two devices, and
\* the second store to private_data (1287) leaves the first owned by none.
DevicesOwned ==
    /\ \A i \in devices : Cardinality({f \in Files : conf[f] = i}) = 1
    /\ ControllersUnshared

\* A registered file drives a working controller: ioc_register reads
\* hcd->self.busnum of platform_get_drvdata(pdev) before it returns 0, and
\* every later ioctl of the file (device_do_ioctl) uses the same drvdata,
\* so the device of every registered file must have an HCD.
RegisteredDeviceBound ==
    \A f \in Files : conf[f] # NoConf => conf[f] \in bound
=============================================================================
