CONSTANTS
    n1 = n1
    n2 = n2
    me = me
    p = p
    q = q
    NoName = NoName
    NetworkNames = {n1, n2}
    DeviceNames <- MCDevices
    AddressLists <- MCAddressLists
    SettingsValues = {0, 5, 7}
    Keys = {0, 1}
    ZeroKey = 0
    DeviceOrder <- MCOrder
    IPv4Lists <- MCIPv4Lists
    IPv6Lists <- MCIPv6Lists
    MaxElement = 3
    MaxLength = 4
    AddressWidth = 4
    Parents <- MCParents
    Me = me
    Views <- MCViews
    InitView <- MCInitView
    IPv6Addresses <- MCIPv6Addresses
    Symbols <- MCSymbols
    Dot = "."
    Text <- MCText
    AssumeProc = FALSE
    MaxDisturbances = 0
SPECIFICATION HostSpec
INVARIANT NamesAnswered
