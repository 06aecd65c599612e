\* Three files of /dev/vhci-ctrl, two device ids and two IOCREGISTER calls
\* of one file in flight: a registration can find every id taken (-EBUSY),
\* reuse the id of a device whose probe failed, or race another call of
\* its file; a close frees an id the search must then find.
CONSTANTS
    f1 = f1
    f2 = f2
    f3 = f3
    Files = {f1, f2, f3}
    MaxIds = 2
    MaxCalls = 2
SPECIFICATION FilesSpec
INVARIANTS FilesTypeOK ControllersUnshared
SYMMETRY FileSymmetry
