CONSTANTS
    n1 = n1
    n2 = n2
    a = a
    b = b
    c = c
    k0 = k0
    k1 = k1
    NetworkNames <- MCNetworkNames
    DeviceNames <- MCDeviceNames
    AddressLists = {1}
    SettingsValues = {0, 1}
    Keys <- MCKeys
    ZeroKey = k0
    InitSpec <- MCInitSpec
    Identities <- MCIdentities
    PatchRequests <- MCPatchRequests
    StaleReports <- MCStaleReports
    NewSpecs <- MCNewSpecs
    MaxCopies = 2
SPECIFICATION Spec
INVARIANTS
    TypeOK
    LatestConfirmed
PROPERTY ServerImplementsBoard
