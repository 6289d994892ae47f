CONSTANTS
    Devices = {"d1", "d2"}
    TenantOf <- OneTenant
    MachineOf <- OneMachine
    Configs = {"old", "new"}
    Calls = {c1, c2}
    c1 = c1
    c2 = c2
    NoDevice = NoDevice
SPECIFICATION Spec
INVARIANTS
    HealthHasEvidence
PROPERTIES
    ActivityKept
    DisableSticks
