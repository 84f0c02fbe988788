CONSTANTS
    n1 = n1
    n2 = n2
    a = a
    b = b
    c = c
    k0 = k0
    k1 = k1
    NetworkNames <- MCNetworkNames
    DeviceNames <- MCDeviceNames
    AddressLists = {1}
    SettingsValues = {0, 1}
    Keys <- MCKeys
    ZeroKey = k0
    InitSpec <- MCOneNetwork
    Identities <- MCOneDevice
    PatchRequests <- MCSmallPatches
    StaleReports = {}
    NewSpecs <- MCEmptySpecs
    MaxCopies = 1
    h1 = h1
    h2 = h2
    h3 = h3
    Handlers <- MCHandlers
    NoHandler = NoHandler
    ReadCalls <- MCOneDevice
SPECIFICATION FairHandlers
PROPERTY Answered
