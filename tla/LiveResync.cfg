SPECIFICATION LiveSpec
CONSTANTS
    Kinds = {k1, k2}
    Names = {n1}
    Owners = {a1}
    Absent = Absent
    FirstOwner = a1
    ChannelCap = 2
    ReconnectAfter = 2
    MaxFailures = 2
    MaxDisturbances = 0
INVARIANT StoreInSync
CHECK_DEADLOCK FALSE
