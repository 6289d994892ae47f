CONSTANTS
    Devices = {"d1"}
    Tenants = {"t1"}
    Machines <- MCMachines
    EventIds <- MCEventIds
    Events <- MixedEvents
    Requests = {r1, r2}
    TenantOf <- MixedTenantOf
    MachineOf <- MixedMachineOf
    Owner <- MixedOwner
    Raw <- MixedRaw
    EdgeBatch = 3
    MaxEvents = 3
    EventBytes = 1
    MaxBodyBytes = 3
    MaxFaults = 2
    NoValue = NoValue
    NoRequest = NoRequest
    r1 = r1
    r2 = r2
SPECIFICATION Spec
INVARIANT BadRequestIsHopeless
CHECK_DEADLOCK FALSE
