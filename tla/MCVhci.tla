------------------------------- MODULE MCVhci -------------------------------
(* Model-checking instance of Vhci: URBs are model values.                 *)
EXTENDS Vhci

CONSTANTS u1, u2, u3

\* Requests that toggle one change bit, enough to keep a port busy.
ChurnFeatures == {"C_CONNECTION", "POWER"}
\* One request that sets and clears a change bit: a port update to serve.
ChangeFeature == {"C_CONNECTION"}
\* Every change word ioc_port_stat accepts.
AllPortEvents == PortStatChanges
\* No port events from user space: runs about the registry and the scheduler.
NoPortEvents == {}
\* No hub requests: the hub driver is idle.
NoFeatures == {}
\* URBs are interchangeable handles: no handler compares two of them.
UrbSymmetry == Permutations({u1, u2, u3})
=============================================================================
