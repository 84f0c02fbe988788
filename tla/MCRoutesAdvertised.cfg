CONSTANTS
    net = net
    me = me
    n1 = n1
    n2 = n2
    n3 = n3
    NetworkNames = {net}
    DeviceNames <- MCDevices
    AddressLists = {"v4"}
    SettingsValues = {0}
    Keys = {0, 1}
    ZeroKey = 0
    DeviceOrder <- MCOrder
    IPv4Lists = {"v4"}
    IPv6Lists = {}
    Me = me
    CanForward = TRUE
    Views <- MCKeyedViews
    Scorings <- MCScorings
    Unreachable = Unreachable
SPECIFICATION ChoiceSpec
CHECK_DEADLOCK FALSE
INVARIANT AdvertisedIsRouted
