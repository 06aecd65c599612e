\* Three files of /dev/vhci-ctrl, two device ids, so that a registration
\* can find every id taken.
CONSTANTS
    f1 = f1
    f2 = f2
    f3 = f3
    Files = {f1, f2, f3}
    MaxIds = 2
    MaxCalls = 1
SPECIFICATION FilesSpec
INVARIANT RegisteredDeviceBound
