CONSTANTS
    net = net
    a = a
    b = b
    m = m
    NetworkNames = {net}
    DeviceNames <- MCDevices
    AddressLists = {"sorted", "unsorted"}
    SettingsValues = {0}
    Keys <- MCKeys
    ZeroKey = 0
    InitSpec <- MCOpenSpec
    Identities <- MCIdentities
    PatchRequests = {}
    StaleReports = {}
    NewSpecs = {}
    MaxCopies = 1
    Net = net
    Clients <- MCClients
    Forwarders = {a}
    DNSClients = {a}
    PrivateKey <- MCPrivateKey
    DeviceOrder <- MCOrder
    IPv4Lists = {"sorted", "unsorted"}
    IPv6Lists = {}
    SortAddresses <- MCSortAddresses
    InitReach <- MCReach
    Disturbances = {"lost", "apply", "crash", "reboot", "restart", "reach", "dns"}
    MaxDisturbances = 2
SPECIFICATION Protocol
INVARIANTS
    ProtocolTypeOK
    SettledIsApplied
    TunnelKeysAgree
    NamesMatchTunnels
    ForwardersServe
