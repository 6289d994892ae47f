--------------------------- MODULE DeviceRegistry ---------------------------
(***************************************************************************)
(* The registry of edge devices (internal/app/edge_devices over the table  *)
(* edge_devices): registration, edition, enabling and disabling, and the   *)
(* checks a user triggers on a Pi, each of which leaves an audit event and *)
(* then refreshes the health columns of the row.                           *)
(*                                                                         *)
(* Every SQL statement is atomic; an operation that issues several is cut  *)
(* between them, and calls of different users interleave there.  A slot of *)
(* Calls holds the locals of one UpdateDevice, StatusCheck or HealthCheck. *)
(***************************************************************************)
EXTENDS Naturals, FiniteSets

CONSTANTS
    Devices,     \* device ids the server may hand out
    TenantOf,    \* device -> tenant it is registered under
    MachineOf,   \* device -> machine_id of the registration
    Configs,     \* contents of name, description, URL and PLC address
    Calls,       \* slots for operations in progress
    NoDevice     \* the device of a free slot

ASSUME RegistryAssumption ==
    /\ DOMAIN TenantOf = Devices /\ DOMAIN MachineOf = Devices
    /\ NoDevice \notin Devices
    /\ Configs # {}

VARIABLES
    row,        \* device -> its row of edge_devices
    events,     \* rows of device_events, as <<device, overall_status>>
    call        \* slot -> locals of the operation

registryVars == <<row, events, call>>

Statuses     == {"ACTIVE", "DISABLED"}
HealthValues == {"OK", "DEGRADED", "ERROR", "UNKNOWN"}   \* CHECK constraint

(* "absent" is a device that is not registered.                            *)
NoRow == [status |-> "absent", config |-> CHOOSE c \in Configs : TRUE,
          health |-> "UNKNOWN", seen |-> FALSE]

NoCall == [pc |-> "free", dev |-> NoDevice, copy |-> NoRow,
           result |-> "UNKNOWN"]

Registered(d) == row[d].status # "absent"

Init ==
    /\ row = [d \in Devices |-> NoRow]
    /\ events = {}
    /\ call = [c \in Calls |-> NoCall]

-----------------------------------------------------------------------------
(* CreateDevice: one INSERT under uq_edge_devices_tenant_machine; a clash  *)
(* is ErrMachineIDConflict and changes nothing.                            *)

CreateDevice(d) ==
    /\ ~Registered(d)
    /\ ~\E o \in Devices : /\ Registered(o)
                           /\ TenantOf[o] = TenantOf[d]
                           /\ MachineOf[o] = MachineOf[d]
    /\ \E cfg \in Configs : row' = [row EXCEPT ![d] =
           [status |-> "ACTIVE", config |-> cfg, health |-> "UNKNOWN", seen |-> FALSE]]
    /\ UNCHANGED <<events, call>>

(* EnableDevice and DisableDevice: one UPDATE of the status.               *)
SetStatus(d, s) ==
    /\ Registered(d)
    /\ row' = [row EXCEPT ![d].status = s]
    /\ UNCHANGED <<events, call>>

EnableDevice(d)  == SetStatus(d, "ACTIVE")
DisableDevice(d) == SetStatus(d, "DISABLED")

(* TouchLastSeen, called by the ingest path.                               *)
TouchLastSeen(d) ==
    /\ Registered(d)
    /\ row' = [row EXCEPT ![d].seen = TRUE]
    /\ UNCHANGED <<events, call>>

-----------------------------------------------------------------------------
(* UpdateDevice: GetByID, then an UPDATE of the four editable columns and  *)
(* of status, all from the copy.                                           *)
UpdateRead(c, d) ==
    /\ call[c].pc = "free"
    /\ Registered(d)
    /\ \E cfg \in Configs : call' = [call EXCEPT ![c] =
           [NoCall EXCEPT !.pc = "update", !.dev = d,
                          !.copy = [row[d] EXCEPT !.config = cfg]]]
    /\ UNCHANGED <<row, events>>

(* Mutant: every column of the copy is written.                            *)
UpdateWriteAll(c) ==
    /\ call[c].pc = "update"
    /\ row' = [row EXCEPT ![call[c].dev] = call[c].copy]
    /\ call' = [call EXCEPT ![c] = NoCall]
    /\ UNCHANGED events

(* Mutant: an edition puts the device in service.                          *)
UpdateWriteEnables(c) ==
    /\ call[c].pc = "update"
    /\ row' = [row EXCEPT ![call[c].dev].config = call[c].copy.config,
                          ![call[c].dev].status = "ACTIVE"]
    /\ call' = [call EXCEPT ![c] = NoCall]
    /\ UNCHANGED events

UpdateWrite(c) ==
    LET d == call[c].dev
    IN  /\ call[c].pc = "update"
        /\ row' = [row EXCEPT ![d].config = call[c].copy.config,
                              ![d].status = call[c].copy.status]
        /\ call' = [call EXCEPT ![c] = NoCall]
        /\ UNCHANGED events

-----------------------------------------------------------------------------
(* StatusCheck and HealthCheck: the same steps, with another URL of the Pi *)
(* and another check_type in the event.                                    *)

(* GetByID; a disabled device is refused (ErrDeviceDisabled).              *)
CheckBegin(c, d) ==
    /\ call[c].pc = "free"
    /\ row[d].status = "ACTIVE"
    /\ call' = [call EXCEPT ![c] = [NoCall EXCEPT !.pc = "ask", !.dev = d]]
    /\ UNCHANGED <<row, events>>

(* The Pi's answer: what its JSON says, which need not be a value of the   *)
(* table's CHECK ("odd"); a device that cannot be reached or that answers  *)
(* outside 2xx is an ERROR.                                                *)
CheckAnswer(c) ==
    /\ call[c].pc = "ask"
    /\ \E s \in HealthValues \cup {"odd"} :
           call' = [call EXCEPT ![c].pc = "save", ![c].result = s]
    /\ UNCHANGED <<row, events>>

(* Mutant: the audit event is best effort, like the health columns.        *)
SaveEventBestEffort(c) ==
    /\ call[c].pc = "save"
    /\ call[c].result \in HealthValues
    /\ events' \in {events, events \cup {<<call[c].dev, call[c].result>>}}
    /\ call' = [call EXCEPT ![c].pc = "health"]
    /\ UNCHANGED row

(* SaveEvent: the audit event is in the table; only then does the check    *)
(* go on.                                                                  *)
SaveEvent(c) ==
    /\ call[c].pc = "save"
    /\ call[c].result \in HealthValues
    /\ events' = events \cup {<<call[c].dev, call[c].result>>}
    /\ call' = [call EXCEPT ![c].pc = "health"]
    /\ UNCHANGED row

(* SaveEvent fails (the CHECK, or Postgres): the operation fails.          *)
SaveEventFails(c) ==
    /\ call[c].pc = "save"
    /\ call' = [call EXCEPT ![c] = NoCall]
    /\ UNCHANGED <<row, events>>

(* UpdateHealthState: the health columns, nothing else.                    *)
UpdateHealthState(c) ==
    /\ call[c].pc = "health"
    /\ row' = [row EXCEPT ![call[c].dev].health = call[c].result]
    /\ call' = [call EXCEPT ![c] = NoCall]
    /\ UNCHANGED events

(* Its failure is logged and the check succeeds all the same.              *)
UpdateHealthStateFails(c) ==
    /\ call[c].pc = "health"
    /\ call' = [call EXCEPT ![c] = NoCall]
    /\ UNCHANGED <<row, events>>

(* A StatusCheck or HealthCheck in progress.                               *)
Check(c) ==
    \/ CheckAnswer(c) \/ SaveEvent(c) \/ SaveEventFails(c)
    \/ UpdateHealthState(c) \/ UpdateHealthStateFails(c)

-----------------------------------------------------------------------------
Next ==
    \/ \E d \in Devices :
           CreateDevice(d) \/ EnableDevice(d) \/ DisableDevice(d) \/ TouchLastSeen(d)
    \/ \E c \in Calls, d \in Devices : UpdateRead(c, d) \/ CheckBegin(c, d)
    \/ \E c \in Calls : UpdateWrite(c) \/ Check(c)

Spec == Init /\ [][Next]_registryVars

-----------------------------------------------------------------------------
(* Properties.                                                             *)

RowType  == [status : Statuses \cup {"absent"}, config : Configs,
             health : HealthValues, seen : BOOLEAN]
CallType == [pc : {"free", "update", "ask", "save", "health"},
             dev : Devices \cup {NoDevice}, copy : RowType,
             result : HealthValues \cup {"odd"}]

(* Every variable keeps its shape; an operation in progress is on a        *)
(* registered device, and what it will write satisfies the table's CHECKs. *)
TypeOK ==
    /\ row \in [Devices -> RowType]
    /\ events \subseteq Devices \X HealthValues
    /\ call \in [Calls -> CallType]
    /\ \A c \in Calls : call[c].pc # "free" => call[c].dev \in Devices /\ Registered(call[c].dev)
    /\ \A c \in Calls : call[c].pc = "update" => call[c].copy.status \in Statuses
    /\ \A c \in Calls : call[c].pc = "health" => call[c].result \in HealthValues

(* RF-017: whatever the order of concurrent checks and the failures of     *)
(* either write, a health shown on the device is one that the audit trail  *)
(* of that device accounts for.                                            *)
HealthHasEvidence ==
    \A d \in Devices : row[d].health # "UNKNOWN" =>
        <<d, row[d].health>> \in events

(* An edition that read the row long ago never takes back what a check or  *)
(* the ingest path wrote meanwhile: a device seen stays seen, and a health *)
(* once known changes only to another one in the audit trail.              *)
ActivityKept ==
    [][\A d \in Devices :
          /\ row[d].seen => row'[d].seen
          /\ row'[d].health # row[d].health =>
                 <<d, row'[d].health>> \in events]_registryVars

(* Out of service for good: the device is disabled and no edition holds a  *)
(* copy of the row from before.                                            *)
OutOfService(d) ==
    /\ row[d].status = "DISABLED"
    /\ \A c \in Calls : call[c].pc = "update" /\ call[c].dev = d =>
                           call[c].copy.status = "DISABLED"

(* Only an edition that read the row before DisableDevice takes the        *)
(* decision back: once those have ended, no edition, check or measurement  *)
(* puts the device back in service, only EnableDevice does.                *)
DisableSticks ==
    [][\A d \in Devices : OutOfService(d) => OutOfService(d)' \/ EnableDevice(d)]_registryVars
=============================================================================
