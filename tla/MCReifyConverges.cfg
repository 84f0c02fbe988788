CONSTANTS
    net = net
    a = a
    b = b
    m = m
    NetworkNames = {net}
    DeviceNames <- MCDevices
    AddressLists = {"sorted", "unsorted"}
    SettingsValues = {0}
    Keys <- MCKeys
    ZeroKey = 0
    InitSpec <- MCBlindSpec
    Identities <- MCIdentities
    PatchRequests = {}
    StaleReports = {}
    NewSpecs = {}
    MaxCopies = 1
    Net = net
    Clients <- MCAllClients
    Forwarders = {a}
    DNSClients = {a}
    PrivateKey <- MCPrivateKey
    DeviceOrder <- MCOrder
    IPv4Lists = {"sorted", "unsorted"}
    IPv6Lists = {}
    SortAddresses <- MCSortAddresses
    InitReach <- MCReach
    Disturbances = {"lost", "late", "apply", "crash", "reboot", "restart", "reach", "dns"}
    MaxDisturbances = 1
SPECIFICATION FairProtocol
INVARIANT NamesMatchTunnels
PROPERTY Converges
