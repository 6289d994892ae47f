--------------------------- MODULE RegistryProofs ---------------------------
(***************************************************************************)
(* Proofs about DeviceRegistry, for any devices, tenants and operations in *)
(* progress.                                                               *)
(***************************************************************************)
EXTENDS DeviceRegistry, TLAPS

(* A check about to refresh the health columns has its event in the audit  *)
(* trail already.                                                          *)
CheckAudited ==
    \A c \in Calls : call[c].pc = "health" => <<call[c].dev, call[c].result>> \in events

(* A device that is not registered has no history.                         *)
AbsentIsBlank == \A d \in Devices : Registered(d) \/ row[d] = NoRow

RegistryInv == TypeOK /\ CheckAudited /\ AbsentIsBlank /\ HealthHasEvidence

(* The default row and the free slot have their types.                     *)
LEMMA DefaultsTyped == NoRow \in RowType /\ NoCall \in CallType /\ NoCall.pc = "free"
<1>1. (CHOOSE c \in Configs : TRUE) \in Configs
  BY RegistryAssumption
<1>2. NoRow \in RowType
  BY <1>1 DEF NoRow, RowType, HealthValues
<1>. QED  BY <1>2 DEF NoCall, CallType, HealthValues

(* Nothing is registered and nothing is known.                             *)
LEMMA RegistryInit == Init => RegistryInv
<1>. SUFFICES ASSUME Init PROVE RegistryInv
  OBVIOUS
<1>1. TypeOK
  BY DefaultsTyped DEF Init, TypeOK, Registered
<1>2. CheckAudited
  BY DefaultsTyped DEF Init, CheckAudited
<1>3. HealthHasEvidence /\ AbsentIsBlank
  BY DEF Init, HealthHasEvidence, AbsentIsBlank, NoRow
<1>. QED  BY <1>1, <1>2, <1>3 DEF RegistryInv

(* A step that changes at most one row, keeping it registered, typed and   *)
(* of a health in evidence, and no slot.                                   *)
LEMMA RowFrame ==
    ASSUME RegistryInv, NEW d \in Devices, NEW new \in RowType,
           row' = [row EXCEPT ![d] = new], new.status # "absent",
           new.health # "UNKNOWN" => <<d, new.health>> \in events,
           UNCHANGED <<events, call>>
    PROVE  RegistryInv'
<1>1. row \in [Devices -> RowType]
  BY DEF RegistryInv, TypeOK
<1>2. row' \in [Devices -> RowType] /\ row'[d] = new
      /\ \A o \in Devices : o # d => row'[o] = row[o]
  BY <1>1
<1>3. TypeOK'
  BY <1>1, <1>2 DEF RegistryInv, TypeOK, Registered
<1>4. CheckAudited'
  BY DEF RegistryInv, CheckAudited
<1>5. HealthHasEvidence' /\ AbsentIsBlank'
  BY <1>2 DEF RegistryInv, HealthHasEvidence, AbsentIsBlank, Registered
<1>. QED  BY <1>3, <1>4, <1>5 DEF RegistryInv

(* A step that only moves one slot, on a registered device.                *)
LEMMA CallFrame ==
    ASSUME RegistryInv, NEW c \in Calls, NEW new \in CallType,
           call' = [call EXCEPT ![c] = new],
           new.pc # "free" => new.dev \in Devices /\ Registered(new.dev),
           new.pc = "update" => new.copy.status \in Statuses,
           new.pc = "health" => /\ new.result \in HealthValues
                                /\ <<new.dev, new.result>> \in events',
           events \subseteq events', events' \subseteq Devices \X HealthValues,
           UNCHANGED row
    PROVE  RegistryInv'
<1>1. call \in [Calls -> CallType]
  BY DEF RegistryInv, TypeOK
<1>2. call' \in [Calls -> CallType] /\ call'[c] = new
      /\ \A o \in Calls : o # c => call'[o] = call[o]
  BY <1>1
<1>3. TypeOK'
  BY <1>2 DEF RegistryInv, TypeOK, Registered
<1>4. CheckAudited'
  BY <1>2 DEF RegistryInv, CheckAudited
<1>5. HealthHasEvidence' /\ AbsentIsBlank'
  BY DEF RegistryInv, HealthHasEvidence, AbsentIsBlank, Registered
<1>. QED  BY <1>3, <1>4, <1>5 DEF RegistryInv

(* A typed row with another status, or seen, or with another health.       *)
LEMMA RowUpdates ==
    ASSUME NEW w \in RowType, NEW s \in Statuses, NEW h \in HealthValues, NEW k \in Configs
    PROVE  /\ [w EXCEPT !.status = s] \in RowType
           /\ [w EXCEPT !.seen = TRUE] \in RowType
           /\ [w EXCEPT !.health = h] \in RowType
           /\ [w EXCEPT !.config = k] \in RowType
           /\ [w EXCEPT !.config = k, !.status = s] \in RowType
           /\ w.status \in Statuses \cup {"absent"} /\ w.config \in Configs
BY DEF RowType

(* The rows: registration, status, activity.                               *)
LEMMA RowSteps ==
    ASSUME RegistryInv, NEW d \in Devices,
           CreateDevice(d) \/ EnableDevice(d) \/ DisableDevice(d) \/ TouchLastSeen(d)
    PROVE  RegistryInv'
<1>1. /\ row \in [Devices -> RowType] /\ row[d] \in RowType
      /\ row[d].health # "UNKNOWN" => <<d, row[d].health>> \in events
  BY DEF RegistryInv, TypeOK, HealthHasEvidence
<1>2. CASE CreateDevice(d)
  <2>1. PICK cfg \in Configs : row' = [row EXCEPT ![d] =
            [status |-> "ACTIVE", config |-> cfg, health |-> "UNKNOWN", seen |-> FALSE]]
    BY <1>2 DEF CreateDevice
  <2>. DEFINE new == [status |-> "ACTIVE", config |-> cfg, health |-> "UNKNOWN",
                      seen |-> FALSE]
  <2>2. new \in RowType /\ new.status # "absent" /\ new.health = "UNKNOWN"
    BY DEF RowType, Statuses, HealthValues
  <2>3. UNCHANGED <<events, call>>
    BY <1>1, <1>2 DEF CreateDevice, Statuses
  <2>. HIDE DEF new
  <2>. QED  BY <2>1, <2>2, <2>3, RowFrame DEF new
<1>3. ASSUME NEW s \in Statuses, SetStatus(d, s) PROVE RegistryInv'
  <2>. DEFINE new == [row[d] EXCEPT !.status = s]
  <2>1. new \in RowType /\ new.status # "absent" /\ new.health = row[d].health
    BY <1>1, RowUpdates DEF Statuses, RowType
  <2>2. row' = [row EXCEPT ![d] = new]
    BY <1>3 DEF SetStatus
  <2>3. UNCHANGED <<events, call>>
    BY <1>1, <1>3 DEF SetStatus
  <2>. HIDE DEF new
  <2>. QED  BY <1>1, <2>1, <2>2, <2>3, RowFrame
<1>4. CASE TouchLastSeen(d)
  <2>. DEFINE new == [row[d] EXCEPT !.seen = TRUE]
  <2>1. new \in RowType /\ new.status # "absent" /\ new.health = row[d].health
    BY <1>1, <1>4 DEF TouchLastSeen, Registered, RowType
  <2>2. row' = [row EXCEPT ![d] = new] /\ UNCHANGED <<events, call>>
    BY <1>4 DEF TouchLastSeen
  <2>. HIDE DEF new
  <2>. QED  BY <1>1, <2>1, <2>2, RowFrame
<1>. QED  BY <1>2, <1>3, <1>4 DEF EnableDevice, DisableDevice, Statuses

(* A step that ends an operation by writing the row of its device.         *)
LEMMA ReleaseFrame ==
    ASSUME RegistryInv, NEW c \in Calls, NEW d \in Devices, NEW new \in RowType,
           row' = [row EXCEPT ![d] = new], new.status # "absent",
           new.health # "UNKNOWN" => <<d, new.health>> \in events,
           call' = [call EXCEPT ![c] = NoCall],
           UNCHANGED events
    PROVE  RegistryInv'
<1>1. row \in [Devices -> RowType] /\ call \in [Calls -> CallType]
  BY DEF RegistryInv, TypeOK
<1>2. /\ row' \in [Devices -> RowType] /\ row'[d] = new
      /\ \A o \in Devices : o # d => row'[o] = row[o]
      /\ call' \in [Calls -> CallType] /\ call'[c].pc = "free"
      /\ \A o \in Calls : o # c => call'[o] = call[o]
  BY <1>1, DefaultsTyped
<1>3. TypeOK'
  BY <1>1, <1>2 DEF RegistryInv, TypeOK, Registered
<1>4. CheckAudited'
  BY <1>2 DEF RegistryInv, CheckAudited
<1>5. HealthHasEvidence' /\ AbsentIsBlank'
  BY <1>2 DEF RegistryInv, HealthHasEvidence, AbsentIsBlank, Registered
<1>. QED  BY <1>3, <1>4, <1>5 DEF RegistryInv

(* An operation begins: UpdateDevice copies the row, a check its device.   *)
LEMMA BeginSteps ==
    ASSUME RegistryInv, NEW c \in Calls, NEW d \in Devices,
           UpdateRead(c, d) \/ CheckBegin(c, d)
    PROVE  RegistryInv'
<1>1. row[d] \in RowType /\ events \subseteq Devices \X HealthValues
  BY DEF RegistryInv, TypeOK
<1>2. CASE UpdateRead(c, d)
  <2>1. PICK cfg \in Configs : call' = [call EXCEPT ![c] =
            [NoCall EXCEPT !.pc = "update", !.dev = d,
                           !.copy = [row[d] EXCEPT !.config = cfg]]]
    BY <1>2 DEF UpdateRead
  <2>. DEFINE copy == [row[d] EXCEPT !.config = cfg]
              new  == [NoCall EXCEPT !.pc = "update", !.dev = d, !.copy = copy]
  <2>2. copy \in RowType /\ copy.status = row[d].status /\ Registered(d)
    BY <1>1, <1>2 DEF RowType, UpdateRead
  <2>3. copy.status \in Statuses
    BY <1>1, <2>2 DEF RowType, Registered
  <2>. HIDE DEF copy
  <2>4. new \in CallType /\ new.pc = "update" /\ new.dev = d /\ new.copy = copy
    BY <2>2, DefaultsTyped DEF CallType
  <2>5. call' = [call EXCEPT ![c] = new] /\ UNCHANGED <<row, events>>
    BY <1>2, <2>1 DEF UpdateRead, copy
  <2>. HIDE DEF new
  <2>. QED  BY <1>1, <2>2, <2>3, <2>4, <2>5, CallFrame
<1>3. CASE CheckBegin(c, d)
  <2>. DEFINE new == [NoCall EXCEPT !.pc = "ask", !.dev = d]
  <2>1. new \in CallType /\ new.pc = "ask" /\ new.dev = d
    BY DefaultsTyped DEF CallType
  <2>2. /\ call' = [call EXCEPT ![c] = new] /\ UNCHANGED <<row, events>>
        /\ Registered(d)
    BY <1>3 DEF CheckBegin, Registered
  <2>. HIDE DEF new
  <2>. QED  BY <1>1, <2>1, <2>2, CallFrame
<1>. QED  BY <1>2, <1>3

(* The later steps of an operation.                                        *)
LEMMA OperationSteps ==
    ASSUME RegistryInv, NEW c \in Calls,
           \/ UpdateWrite(c) \/ CheckAnswer(c) \/ SaveEvent(c) \/ SaveEventFails(c)
           \/ UpdateHealthState(c) \/ UpdateHealthStateFails(c)
    PROVE  RegistryInv'
<1>. DEFINE d == call[c].dev
<1>0. /\ row \in [Devices -> RowType] /\ call[c] \in CallType
      /\ events \subseteq Devices \X HealthValues
      /\ call[c].pc # "free" => d \in Devices /\ Registered(d)
  BY DEF RegistryInv, TypeOK
<1>1. CASE UpdateWrite(c)
  <2>1. call[c].pc = "update" /\ d \in Devices /\ row[d] \in RowType
    BY <1>0, <1>1 DEF UpdateWrite
  <2>2. call[c].copy.status \in Statuses /\ call[c].copy.config \in Configs
    BY <1>0, <2>1 DEF RegistryInv, TypeOK, CallType, RowType
  <2>. DEFINE new == [row[d] EXCEPT !.config = call[c].copy.config,
                                    !.status = call[c].copy.status]
  <2>3. new \in RowType /\ new.status # "absent" /\ new.health = row[d].health
    BY <2>1, <2>2 DEF RowType, Statuses
  <2>4. /\ row' = [row EXCEPT ![d] = new] /\ call' = [call EXCEPT ![c] = NoCall]
        /\ UNCHANGED events
    BY <1>0, <1>1, <2>1 DEF UpdateWrite
  <2>5. row[d].health # "UNKNOWN" => <<d, row[d].health>> \in events
    BY <2>1 DEF RegistryInv, HealthHasEvidence
  <2>. HIDE DEF new, d
  <2>. QED  BY <2>1, <2>3, <2>4, <2>5, ReleaseFrame
<1>2. CASE CheckAnswer(c)
  <2>1. PICK s \in HealthValues \cup {"odd"} :
            call' = [call EXCEPT ![c].pc = "save", ![c].result = s]
    BY <1>2 DEF CheckAnswer
  <2>. DEFINE new == [call[c] EXCEPT !.pc = "save", !.result = s]
  <2>2. new \in CallType /\ new.pc = "save" /\ new.dev = d
    BY <1>0 DEF CallType
  <2>3. call' = [call EXCEPT ![c] = new] /\ UNCHANGED <<row, events>>
        /\ d \in Devices /\ Registered(d)
    BY <1>0, <1>2, <2>1 DEF CheckAnswer, RegistryInv, TypeOK
  <2>. HIDE DEF new, d
  <2>. QED  BY <1>0, <2>2, <2>3, CallFrame
<1>3. CASE SaveEvent(c)
  <2>. DEFINE new == [call[c] EXCEPT !.pc = "health"]
  <2>1. new \in CallType /\ new.pc = "health" /\ new.dev = d /\ new.result = call[c].result
    BY <1>0 DEF CallType
  <2>2. /\ call' = [call EXCEPT ![c] = new] /\ UNCHANGED row
        /\ d \in Devices /\ Registered(d) /\ call[c].result \in HealthValues
        /\ events' = events \cup {<<d, call[c].result>>}
    BY <1>0, <1>3 DEF SaveEvent, RegistryInv, TypeOK
  <2>3. /\ events \subseteq events' /\ events' \subseteq Devices \X HealthValues
        /\ <<d, call[c].result>> \in events'
    BY <1>0, <2>2
  <2>. HIDE DEF new, d
  <2>. QED  BY <2>1, <2>2, <2>3, CallFrame
<1>4. CASE SaveEventFails(c) \/ UpdateHealthStateFails(c)
  <2>1. call' = [call EXCEPT ![c] = NoCall] /\ UNCHANGED <<row, events>>
    BY <1>4 DEF SaveEventFails, UpdateHealthStateFails
  <2>. QED  BY <1>0, <2>1, DefaultsTyped, CallFrame
<1>5. CASE UpdateHealthState(c)
  <2>1. call[c].pc = "health" /\ d \in Devices /\ row[d] \in RowType /\ Registered(d)
    BY <1>0, <1>5 DEF UpdateHealthState
  <2>2. call[c].result \in HealthValues /\ <<d, call[c].result>> \in events
    BY <2>1 DEF RegistryInv, TypeOK, CheckAudited
  <2>. DEFINE new == [row[d] EXCEPT !.health = call[c].result]
  <2>3. new \in RowType /\ new.status # "absent" /\ new.health = call[c].result
    BY <2>1, <2>2 DEF RowType, Registered
  <2>4. /\ row' = [row EXCEPT ![d] = new] /\ call' = [call EXCEPT ![c] = NoCall]
        /\ UNCHANGED events
    BY <1>0, <1>5, <2>1 DEF UpdateHealthState
  <2>. HIDE DEF new, d
  <2>. QED  BY <2>1, <2>2, <2>3, <2>4, ReleaseFrame
<1>. QED  BY <1>1, <1>2, <1>3, <1>4, <1>5

(* Every step keeps the invariant.                                         *)
LEMMA RegistryNext == RegistryInv /\ [Next]_registryVars => RegistryInv'
<1>. SUFFICES ASSUME RegistryInv, [Next]_registryVars PROVE RegistryInv'
  OBVIOUS
<1>1. CASE Next
  BY <1>1, RowSteps, BeginSteps, OperationSteps DEF Next, Check
<1>2. CASE UNCHANGED registryVars
  BY <1>2 DEF registryVars, RegistryInv, TypeOK, CheckAudited, AbsentIsBlank,
              HealthHasEvidence, Registered
<1>. QED  BY <1>1, <1>2

(* Type correctness, and RF-017 for any number of concurrent checks: every *)
(* health shown has its event, because the event is written first.         *)
THEOREM RegistrySafe == Spec => [](TypeOK /\ HealthHasEvidence)
<1>1. RegistryInv => TypeOK /\ HealthHasEvidence
  BY DEF RegistryInv
<1>. QED  BY <1>1, RegistryInit, RegistryNext, PTL DEF Spec

(* What a step does to one row, seen from the two columns activity is      *)
(* recorded in.                                                            *)
Kept(d) == /\ row[d].seen => row'[d].seen
           /\ row'[d].health # row[d].health => <<d, row'[d].health>> \in events

(* One step takes back nothing.                                            *)
LEMMA StepKeeps ==
    ASSUME RegistryInv, [Next]_registryVars, NEW d \in Devices
    PROVE  Kept(d)
<1>0. /\ row \in [Devices -> RowType] /\ call \in [Calls -> CallType]
      /\ Registered(d) \/ (~row[d].seen /\ row[d].health = "UNKNOWN")
  BY DEF RegistryInv, TypeOK, AbsentIsBlank, NoRow
<1>1. ASSUME row' = row PROVE Kept(d)
  BY <1>1 DEF Kept
<1>2. ASSUME NEW o \in Devices, CreateDevice(o) PROVE Kept(d)
  BY <1>0, <1>2 DEF CreateDevice, Kept, RowType, Registered
<1>3. ASSUME NEW o \in Devices, EnableDevice(o) \/ DisableDevice(o) \/ TouchLastSeen(o)
      PROVE  Kept(d)
  BY <1>0, <1>3 DEF EnableDevice, DisableDevice, SetStatus, TouchLastSeen, Kept, RowType
<1>4. ASSUME NEW c \in Calls, UpdateWrite(c) PROVE Kept(d)
  BY <1>0, <1>4 DEF UpdateWrite, Kept, RowType
<1>5. ASSUME NEW c \in Calls, UpdateHealthState(c) PROVE Kept(d)
  <2>1. <<call[c].dev, call[c].result>> \in events
    BY <1>5 DEF UpdateHealthState, RegistryInv, CheckAudited
  <2>. QED  BY <1>0, <1>5, <2>1 DEF UpdateHealthState, Kept, RowType
<1>6. ASSUME NEW c \in Calls, NEW o \in Devices, UpdateRead(c, o) \/ CheckBegin(c, o)
      PROVE  row' = row
  BY <1>6 DEF UpdateRead, CheckBegin
<1>7. ASSUME NEW c \in Calls, \/ CheckAnswer(c) \/ SaveEvent(c) \/ SaveEventFails(c)
                              \/ UpdateHealthStateFails(c)
      PROVE  row' = row
  BY <1>7 DEF CheckAnswer, SaveEvent, SaveEventFails, UpdateHealthStateFails
<1>8. CASE UNCHANGED registryVars
  BY <1>1, <1>8 DEF registryVars
<1>. QED  BY <1>1, <1>2, <1>3, <1>4, <1>5, <1>6, <1>7, <1>8 DEF Next, Check

(* An edition never takes back what a check or the ingest path wrote,      *)
(* however long ago it read the row.                                       *)
THEOREM RegistryKeepsActivity == Spec => ActivityKept
<1>1. RegistryInv /\ [Next]_registryVars =>
          [\A d \in Devices : /\ row[d].seen => row'[d].seen
                              /\ row'[d].health # row[d].health =>
                                     <<d, row'[d].health>> \in events]_registryVars
  BY StepKeeps DEF Kept
<1>. QED  BY <1>1, RegistryInit, RegistryNext, PTL DEF Spec, ActivityKept

-----------------------------------------------------------------------------
(* An edition that begins reads a disabled row, and writes back what it    *)
(* read.                                                                   *)
LEMMA StepSticks ==
    ASSUME RegistryInv, [Next]_registryVars, NEW d \in Devices, OutOfService(d),
           ~EnableDevice(d)
    PROVE  OutOfService(d)'
<1>0. /\ row \in [Devices -> RowType] /\ call \in [Calls -> CallType]
      /\ row[d].status = "DISABLED"
      /\ \A c \in Calls : call[c].pc = "update" /\ call[c].dev = d =>
                             call[c].copy.status = "DISABLED"
  BY DEF RegistryInv, TypeOK, OutOfService
(* A step of the row's own operations, and one of a slot.                  *)
<1>1. ASSUME row'[d].status = "DISABLED", call' = call PROVE OutOfService(d)'
  BY <1>0, <1>1 DEF OutOfService
<1>2. ASSUME NEW c \in Calls, NEW new, call' = [call EXCEPT ![c] = new],
             new.pc = "update" /\ new.dev = d => new.copy.status = "DISABLED",
             row'[d].status = "DISABLED"
      PROVE  OutOfService(d)'
  BY <1>0, <1>2 DEF OutOfService
<1>3. ASSUME NEW o \in Devices, \/ CreateDevice(o) \/ EnableDevice(o)
                                \/ DisableDevice(o) \/ TouchLastSeen(o)
      PROVE  OutOfService(d)'
  <2>1. call' = call
    BY <1>3 DEF CreateDevice, EnableDevice, DisableDevice, SetStatus, TouchLastSeen
  <2>2. row'[d].status = "DISABLED"
    <3>1. CASE CreateDevice(o)
      BY <1>0, <3>1 DEF CreateDevice, Registered, RowType
    <3>2. CASE EnableDevice(o) \/ DisableDevice(o) \/ TouchLastSeen(o)
      BY <1>0, <3>2 DEF EnableDevice, DisableDevice, SetStatus, TouchLastSeen, RowType
    <3>. QED  BY <1>3, <3>1, <3>2
  <2>. QED  BY <1>1, <2>1, <2>2
<1>4. ASSUME NEW c \in Calls, NEW o \in Devices, UpdateRead(c, o) PROVE OutOfService(d)'
  <2>1. PICK cfg \in Configs : call' = [call EXCEPT ![c] =
            [NoCall EXCEPT !.pc = "update", !.dev = o, !.copy = [row[o] EXCEPT !.config = cfg]]]
    BY <1>4 DEF UpdateRead
  <2>. DEFINE new == [NoCall EXCEPT !.pc = "update", !.dev = o,
                                    !.copy = [row[o] EXCEPT !.config = cfg]]
  <2>2. new.dev = o /\ new.copy.status = row[o].status
    BY <1>0 DEF NoCall, RowType
  <2>3. row' = row
    BY <1>4 DEF UpdateRead
  <2>. HIDE DEF new
  <2>4. call' = [call EXCEPT ![c] = new]
    BY <2>1 DEF new
  <2>. QED  BY <1>0, <1>2, <2>2, <2>3, <2>4
<1>5. ASSUME NEW c \in Calls, NEW o \in Devices, CheckBegin(c, o) PROVE OutOfService(d)'
  <2>. DEFINE new == [NoCall EXCEPT !.pc = "ask", !.dev = o]
  <2>1. new.pc = "ask" /\ call' = [call EXCEPT ![c] = new] /\ row' = row
    BY <1>5 DEF CheckBegin, NoCall
  <2>. HIDE DEF new
  <2>. QED  BY <1>0, <1>2, <2>1
<1>6. ASSUME NEW c \in Calls, UpdateWrite(c) \/ UpdateHealthState(c) PROVE OutOfService(d)'
  <2>1. row'[d].status = "DISABLED"
    BY <1>0, <1>6 DEF UpdateWrite, UpdateHealthState, RowType
  <2>2. call' = [call EXCEPT ![c] = NoCall]
    BY <1>6 DEF UpdateWrite, UpdateHealthState
  <2>. QED  BY <1>2, <2>1, <2>2, DefaultsTyped
<1>7. ASSUME NEW c \in Calls, \/ CheckAnswer(c) \/ SaveEvent(c) \/ SaveEventFails(c)
                              \/ UpdateHealthStateFails(c)
      PROVE  OutOfService(d)'
  <2>1. row' = row /\ \A b \in Calls : call'[b].pc # "update" \/ call'[b] = call[b]
    BY <1>0, <1>7, DefaultsTyped
    DEF CheckAnswer, SaveEvent, SaveEventFails, UpdateHealthStateFails, CallType
  <2>. QED  BY <1>0, <2>1 DEF OutOfService
<1>8. CASE UNCHANGED registryVars
  BY <1>0, <1>1, <1>8 DEF registryVars
<1>. QED  BY <1>3, <1>4, <1>5, <1>6, <1>7, <1>8 DEF Next, Check

(* A disabled device stays disabled until EnableDevice, once the editions  *)
(* that read its row before have ended, for any number of calls.           *)
THEOREM RegistryStaysDisabled == Spec => DisableSticks
<1>1. RegistryInv /\ [Next]_registryVars =>
          [\A d \in Devices : OutOfService(d) => OutOfService(d)' \/ EnableDevice(d)]_registryVars
  BY StepSticks
<1>. QED  BY <1>1, RegistryInit, RegistryNext, PTL DEF Spec, DisableSticks
=============================================================================
