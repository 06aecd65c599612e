\* Two threads of one file both pass the private_data test of IOCREGISTER:
\* the first controller is left without an owner.
CONSTANTS
    f1 = f1
    f2 = f2
    f3 = f3
    Files = {f1, f2, f3}
    MaxIds = 2
    MaxCalls = 2
SPECIFICATION FilesSpec
INVARIANT DevicesOwned
