CONSTANTS
    Devices = {"d1"}
    TenantOf <- OneTenant
    MachineOf <- OneMachine
    Configs = {"cfg"}
    Calls = {}
    NoDevice = NoDevice
    Keys = {"k1"}
    DeviceOf <- KeysOfOne
    Logins = {w1, w2}
    Admins = {a1}
    w1 = w1
    w2 = w2
    a1 = a1
    TTL = 2
    TouchEvery = 1
SPECIFICATION Spec
INVARIANT RevokedThenRefused
