CONSTANTS
    n1 = n1
    n2 = n2
    a = a
    b = b
    c = c
    k0 = k0
    k1 = k1
    NetworkNames <- MCNetworkNames
    DeviceNames <- MCDeviceNames
    AddressLists = {1}
    SettingsValues = {0, 1}
    Keys <- MCKeys
    ZeroKey = k0
    InitSpec <- MCInitSpec
    Identities <- MCHandlerIdentities
    PatchRequests <- MCKeyPatches
    StaleReports = {}
    NewSpecs = {}
    MaxCopies = 1
    h1 = h1
    h2 = h2
    h3 = h3
    Handlers <- MCHandlers
    NoHandler = NoHandler
    ReadCalls <- MCReadCalls
SPECIFICATION HandlersSpec
SYMMETRY MCSymmetry
INVARIANTS
    HandlersTypeOK
    NoDataRace
    AnswersHold
PROPERTY ServerIsAtomic
