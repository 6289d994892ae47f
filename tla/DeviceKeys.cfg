CONSTANTS
    Devices = {"d1"}
    TenantOf <- OneTenant
    MachineOf <- OneMachine
    Configs = {"cfg"}
    Calls = {c1}
    c1 = c1
    NoDevice = NoDevice
    Keys = {"k1"}
    DeviceOf <- KeysOfOne
    Logins = {w1}
    Admins = {a1}
    w1 = w1
    a1 = a1
    TTL = 2
    TouchEvery = 1
SPECIFICATION FairSpec
PROPERTIES
    RevocationSticks
    RefusedInTheEnd
