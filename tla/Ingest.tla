------------------------------- MODULE Ingest -------------------------------
(***************************************************************************)
(* The measurement ingest path: POST /api/v1/consumers/events.             *)
(*                                                                         *)
(* An Edge Pi keeps every measurement in an outbox row until the cloud     *)
(* answers for it.  A request carries a batch of rows; the handler checks  *)
(* the envelope, validates the events one by one (internal/app/ingest),    *)
(* encodes the valid ones one by one and hands them to MongoDB in one      *)
(* unordered InsertMany (internal/repo/mongo/measurements).  What the      *)
(* answer says about each position of the batch decides what the Edge does *)
(* with the row: acknowledge and forget it, bury it as DEAD, or retry it.  *)
(*                                                                         *)
(* Requests run concurrently (an Edge that gave up on a slow request sends *)
(* the same rows again while the first one is still being served), MongoDB *)
(* applies the documents of a batch one at a time and may keep applying    *)
(* them after the driver gave up, answers get lost, and the process dies   *)
(* and boots again.  Positions are 1-based here and 0-based in the code.   *)
(***************************************************************************)
EXTENDS Naturals, Sequences, FiniteSets

CONSTANTS
    Devices,       \* edge devices, each with one API key
    Tenants,
    EventIds,      \* values of eventId; two tenants may use the same one
    Machines,      \* machine_id values; unique per tenant only
    Events,        \* rows of the outboxes of all devices
    Requests,      \* slots for requests being served concurrently
    TenantOf,      \* device -> tenant, from the resolved API key
    MachineOf,     \* device -> machine, from the resolved API key
    Owner,         \* outbox row -> the device that holds it
    Raw,           \* outbox row -> the event as it travels (see RawEvent)
    EdgeBatch,     \* most rows the Edge puts in one batch
    MaxEvents,     \* INGEST_MAX_EVENTS
    EventBytes,    \* size of one event in the body
    MaxBodyBytes,  \* INGEST_MAX_BODY_BYTES
    MaxFaults,     \* bound on the faults of the environment in a behaviour
    NoValue,       \* an absent (or empty) string field, or no device
    NoRequest      \* "the Edge is not waiting for an answer"

(* The classes of values ValidateEvent tells apart in each field.          *)
RawEvent == [ decodes       : BOOLEAN,
              eventId       : EventIds \cup {NoValue},
              machineId     : Machines \cup {NoValue},
              ts            : {"absent", "malformed", "rfc3339"},
              kind          : {"absent", "known", "unknown"},
              schemaVersion : {"absent", "invalid", "known", "ahead"},
              seq           : {"absent", "invalid", "valid"},
              payload       : {"absent", "encodable", "poison"} ]

ASSUME IngestAssumption ==
    /\ TenantOf  \in [Devices -> Tenants]
    /\ MachineOf \in [Devices -> Machines]
    /\ Owner     \in [Events -> Devices]
    /\ Raw       \in [Events -> RawEvent]
    /\ NoValue   \notin EventIds \cup Machines \cup Devices
    /\ NoRequest \notin Requests
    /\ {EdgeBatch, MaxEvents, EventBytes, MaxBodyBytes, MaxFaults} \subseteq Nat

VARIABLES
    proc,      \* the API process: down, serving, degraded (no Mongo at boot)
    index,     \* unique index on measurements: none, legacy, tenant
    store,     \* <<tenant, eventId>> -> number of documents
    orphans,   \* documents the server may still apply for abandoned calls
    outbox,    \* row -> pending, acked, dead
    waiting,   \* device -> the request whose answer it waits for
    cause,     \* history: what the answer that buried a row spoke of
    req,       \* request slot -> locals of IngestEvents and of what it calls
    lastSeen,  \* devices whose last_seen_at was refreshed
    faults     \* faults of the environment so far

procVars  == <<proc, index>>
edgeVars  == <<outbox, waiting, cause>>
mongoVars == <<store, orphans>>
vars      == <<procVars, edgeVars, mongoVars, req, lastSeen, faults>>

-----------------------------------------------------------------------------
(* Codes of the frozen contract with the Edge.                             *)
CodeDuplicate          == "DUPLICATE"
CodeInvalidSchema      == "INVALID_SCHEMA"
CodeValidationFailed   == "VALIDATION_FAILED"
CodeStorageUnavailable == "STORAGE_UNAVAILABLE"
TerminalCodes == {CodeInvalidSchema, CodeValidationFailed}
Codes         == TerminalCodes \cup {CodeDuplicate, CodeStorageUnavailable}

(* ValidateEvent: the verdict on the envelope of one event; "ok" is a nil  *)
(* EventError.  An unknown kind and a schemaVersion ahead of this build    *)
(* are accepted, payload is never looked at.                               *)
MissingField(raw) ==
    \/ raw.eventId = NoValue
    \/ raw.machineId = NoValue
    \/ "absent" \in {raw.ts, raw.kind, raw.schemaVersion, raw.payload}

MalformedField(raw) ==
    raw.ts = "malformed" \/ raw.schemaVersion = "invalid" \/ raw.seq = "invalid"

(* Mutant: the machine of the body is believed.                            *)
ValidateEventAnyMachine(raw, d) ==
    IF ~raw.decodes \/ MissingField(raw) \/ MalformedField(raw)
    THEN CodeInvalidSchema
    ELSE "ok"

ValidateEvent(raw, d) ==
    IF ~raw.decodes \/ MissingField(raw) \/ MalformedField(raw)
    THEN CodeInvalidSchema
    ELSE IF raw.machineId # MachineOf[d] THEN CodeValidationFailed
    ELSE "ok"

(* bson.Marshal fails on a payload it cannot encode (a NUL byte in a key). *)
Encodable(raw) == raw.payload # "poison"

(* The key of the document that stores a row: the tenant comes from the    *)
(* API key, never from the body.                                           *)
DocKey(d, e) == <<TenantOf[d], Raw[e].eventId>>

-----------------------------------------------------------------------------
(* The locals of one request:                                              *)
(*   dev        device resolved by APIKeyAuth                              *)
(*   batch      the events array of the body                               *)
(*   cursor     next position of the loop the handler is in                *)
(*   origIndex  position in batch of each valid event                      *)
(*   sent       position in origIndex of each encoded document             *)
(*   todo       documents (positions in sent) the server did not apply yet *)
(*   wErrors    WriteErrors of the server, by position in sent             *)
(*   invalid    report.Invalid, by position in origIndex                   *)
(*   errs       errors[] collected so far                                  *)
(*   status     HTTP status of the answer                                  *)
(*   body       whole, or cut when it could not be read to its end         *)
Request(p, d, b) ==
    [pc |-> p, dev |-> d, batch |-> b, cursor |-> 1, origIndex |-> <<>>,
     sent |-> <<>>, todo |-> {}, wErrors |-> {}, invalid |-> {}, errs |-> {},
     status |-> 0, body |-> "whole"]

Idle == Request("idle", NoValue, <<>>)

(* The outbox row behind position j of valid[], and its document's key.    *)
ValidRow(q, j) == q.batch[q.origIndex[j]]
SentKey(q, k)  == DocKey(q.dev, ValidRow(q, q.sent[k]))

Init ==
    /\ proc = "down"
    /\ index \in {"none", "legacy"}
    /\ store = [k \in Tenants \X EventIds |-> 0]
    /\ orphans = {}
    /\ outbox = [e \in Events |-> "pending"]
    /\ waiting = [d \in Devices |-> NoRequest]
    /\ cause = [e \in Events |-> "none"]
    /\ req = [r \in Requests |-> Idle]
    /\ lastSeen = {}
    /\ faults = 0

(* One more fault of the environment.                                      *)
Fault == faults < MaxFaults /\ faults' = faults + 1

-----------------------------------------------------------------------------
(* Boot and crash of the process (connectMeasurementsRepo, EnsureIndexes). *)

(* Mutant: the old global index is left in place.                          *)
EnsureIndexesKeepsLegacy == index' = IF index = "legacy" THEN "legacy" ELSE "tenant"

(* Mutant: the unique index is not created.                                *)
EnsureIndexesNoUnique == index' = "none"

(* EnsureIndexes succeeds: the legacy index is gone, the new one exists.   *)
EnsureIndexes == index' = "tenant"

Boot ==
    /\ proc = "down"
    /\ proc' = "serving"
    /\ EnsureIndexes
    /\ UNCHANGED <<edgeVars, mongoVars, req, lastSeen, faults>>

(* Mongo cannot be reached: the Unavailable stub stays in place for the    *)
(* whole life of the process.                                              *)
BootDegraded ==
    /\ proc = "down"
    /\ Fault
    /\ proc' = "degraded"
    /\ UNCHANGED <<index, edgeVars, mongoVars, req, lastSeen>>

(* EnsureIndexes fails: the process exits, perhaps after the legacy index  *)
(* was dropped.                                                            *)
BootFails ==
    /\ proc = "down"
    /\ Fault
    /\ index' \in {index} \cup (IF index = "legacy" THEN {"none"} ELSE {})
    /\ UNCHANGED <<proc, edgeVars, mongoVars, req, lastSeen>>

(* What the server may still apply of the InsertMany of a request.         *)
Unapplied(q) == {SentKey(q, k) : k \in q.todo}

(* The process dies: every request is lost, the Edge sees its connection   *)
(* break, and the server may still apply documents it already received.    *)
Crash ==
    /\ proc # "down"
    /\ Fault
    /\ proc' = "down"
    /\ orphans' = orphans \cup UNION {Unapplied(req[r]) : r \in Requests}
    /\ waiting' = [d \in Devices |-> NoRequest]
    /\ req' = [r \in Requests |-> Idle]
    /\ UNCHANGED <<index, store, outbox, cause, lastSeen>>

-----------------------------------------------------------------------------
(* The Edge (external): batches of pending rows, one request at a time.    *)

Batches(d) ==
    {b \in UNION {[1..n -> {e \in Events : Owner[e] = d}] : n \in 1..EdgeBatch} :
        /\ \A i \in DOMAIN b : outbox[b[i]] = "pending"
        /\ \A i, j \in DOMAIN b : b[i] = b[j] => i = j}

EdgeSend(d, r) ==
    /\ proc # "down"
    /\ waiting[d] = NoRequest
    /\ req[r].pc = "idle"
    /\ \E b \in Batches(d) : req' = [req EXCEPT ![r] = Request("arrived", d, b)]
    /\ waiting' = [waiting EXCEPT ![d] = r]
    /\ UNCHANGED <<procVars, outbox, cause, mongoVars, lastSeen, faults>>

(* The Edge gives up on its request; the handler keeps running.            *)
EdgeTimeout(d) ==
    /\ waiting[d] # NoRequest
    /\ Fault
    /\ waiting' = [waiting EXCEPT ![d] = NoRequest]
    /\ UNCHANGED <<procVars, outbox, cause, mongoVars, req, lastSeen>>

(* The limits of the envelope, shared by the handler and CauseOf.          *)
EnvelopeOK(b) ==
    /\ Len(b) * EventBytes <= MaxBodyBytes
    /\ Len(b) # 0
    /\ Len(b) <= MaxEvents

(* What the Edge does with the row at position i of an answered batch.     *)
CodesAt(q, i) == {x.code : x \in {y \in q.errs : y.index = i}}

RowAfter(q, i) ==
    CASE q.status = 400 -> "dead"
      [] q.status = 200 /\ CodesAt(q, i) \cap TerminalCodes # {} -> "dead"
      [] q.status = 200 /\ CodesAt(q, i) \subseteq {CodeDuplicate} -> "acked"
      [] OTHER -> "pending"

(* What such an answer speaks of: each event, the envelope, or the body.   *)
CauseOf(q) ==
    IF q.status = 200 THEN "event"
    ELSE IF q.body = "cut" THEN "body"
    ELSE IF ~EnvelopeOK(q.batch) THEN "envelope" ELSE "none"

Deliver(r) ==
    LET q == req[r]
        At(e) == {i \in DOMAIN q.batch : q.batch[i] = e}
        After(e) == RowAfter(q, CHOOSE i \in At(e) : TRUE)
    IN  /\ q.pc = "reply"
        /\ waiting[q.dev] = r
        /\ outbox' = [e \in Events |-> IF At(e) = {} THEN outbox[e] ELSE After(e)]
        /\ cause' = [e \in Events |-> IF At(e) # {} /\ After(e) = "dead" THEN CauseOf(q)
                                      ELSE cause[e]]
        /\ waiting' = [waiting EXCEPT ![q.dev] = NoRequest]
        /\ req' = [req EXCEPT ![r] = Idle]
        /\ UNCHANGED <<procVars, mongoVars, lastSeen, faults>>

(* The answer reaches nobody: the Edge had given up.                       *)
DropReply(r) ==
    /\ req[r].pc = "reply"
    /\ waiting[req[r].dev] # r
    /\ req' = [req EXCEPT ![r] = Idle]
    /\ UNCHANGED <<procVars, edgeVars, mongoVars, lastSeen, faults>>

-----------------------------------------------------------------------------
(* The handler.  Answer(r, s) is every early return of it.                 *)
Answer(r, s) == req' = [req EXCEPT ![r].pc = "reply", ![r].status = s]

(* APIKeyAuth answers 403 or 500, RateLimit answers 429.                   *)
Refuse(r) ==
    /\ req[r].pc = "arrived"
    /\ Fault
    /\ \E s \in {403, 429, 500} : Answer(r, s)
    /\ UNCHANGED <<procVars, edgeVars, mongoVars, lastSeen>>

AnswerUnread(r, s) ==
    req' = [req EXCEPT ![r].pc = "reply", ![r].status = s, ![r].body = "cut"]

(* io.ReadAll fails: the Edge went away in the middle of the body, or it   *)
(* still waits and the server's ReadTimeout cut a slow body short.  The    *)
(* answer is 400 either way; only the second one can reach somebody.       *)
BodyUnreadable(r) ==
    /\ req[r].pc = "arrived"
    /\ IF waiting[req[r].dev] = r THEN Fault ELSE UNCHANGED faults
    /\ AnswerUnread(r, 400)
    /\ UNCHANGED <<procVars, edgeVars, mongoVars, lastSeen>>

IngestEvents(r) ==
    /\ req[r].pc = "arrived"
    /\ EnvelopeOK(req[r].batch)
    /\ req' = [req EXCEPT ![r].pc = "validate"]
    /\ UNCHANGED <<procVars, edgeVars, mongoVars, lastSeen, faults>>

RejectEnvelope(r) ==
    /\ req[r].pc = "arrived"
    /\ ~EnvelopeOK(req[r].batch)
    /\ Answer(r, 400)
    /\ UNCHANGED <<procVars, edgeVars, mongoVars, lastSeen, faults>>

(* One iteration of the validation loop of IngestBatch.                    *)
ValidateNext(r) ==
    LET q == req[r]
        verdict == ValidateEvent(Raw[q.batch[q.cursor]], q.dev)
    IN  /\ q.pc = "validate"
        /\ q.cursor <= Len(q.batch)
        /\ req' = IF verdict = "ok"
                  THEN [req EXCEPT ![r].cursor = q.cursor + 1,
                                   ![r].origIndex = Append(q.origIndex, q.cursor)]
                  ELSE [req EXCEPT ![r].cursor = q.cursor + 1,
                                   ![r].errs = q.errs \cup
                                       {[index |-> q.cursor, code |-> verdict]}]
        /\ UNCHANGED <<procVars, edgeVars, mongoVars, lastSeen, faults>>

(* End of the loop: with nothing valid the answer is ready; otherwise      *)
(* InsertMany starts encoding.                                             *)
ValidateDone(r) ==
    /\ req[r].pc = "validate"
    /\ req[r].cursor > Len(req[r].batch)
    /\ IF req[r].origIndex = <<>>
       THEN Answer(r, 200)
       ELSE req' = [req EXCEPT ![r].pc = "encode", ![r].cursor = 1]
    /\ UNCHANGED <<procVars, edgeVars, mongoVars, lastSeen, faults>>

(* Mutant: a storage failure is answered as a broken request.              *)
InsertFailed400(r) == Answer(r, 400)

(* An error of InsertMany: 500, the Edge will retry.                       *)
InsertFailed(r) == Answer(r, 500)

(* The stub of a degraded process fails every InsertMany.                  *)
InsertUnavailable(r) ==
    /\ req[r].pc = "encode"
    /\ proc = "degraded"
    /\ InsertFailed(r)
    /\ UNCHANGED <<procVars, edgeVars, mongoVars, lastSeen, faults>>

(* Mutant: encoding is left to the driver, so that one poisonous document  *)
(* makes the call fail.                                                    *)
EncodeNextAborts(r) ==
    LET q == req[r]
    IN  /\ q.pc = "encode"
        /\ proc = "serving"
        /\ q.cursor <= Len(q.origIndex)
        /\ req' = IF Encodable(Raw[ValidRow(q, q.cursor)])
                  THEN [req EXCEPT ![r].cursor = q.cursor + 1,
                                   ![r].sent = Append(q.sent, q.cursor)]
                  ELSE [req EXCEPT ![r].pc = "failed"]
        /\ UNCHANGED <<procVars, edgeVars, mongoVars, lastSeen, faults>>

(* One iteration of the encoding loop of InsertMany: the document that     *)
(* cannot be encoded is set apart, the others travel.                      *)
EncodeNext(r) ==
    LET q == req[r]
    IN  /\ q.pc = "encode"
        /\ proc = "serving"
        /\ q.cursor <= Len(q.origIndex)
        /\ req' = IF Encodable(Raw[ValidRow(q, q.cursor)])
                  THEN [req EXCEPT ![r].cursor = q.cursor + 1,
                                   ![r].sent = Append(q.sent, q.cursor)]
                  ELSE [req EXCEPT ![r].cursor = q.cursor + 1,
                                   ![r].invalid = q.invalid \cup {q.cursor}]
        /\ UNCHANGED <<procVars, edgeVars, mongoVars, lastSeen, faults>>

(* The encoded documents go to the server; with none the call returns.     *)
EncodeDone(r) ==
    /\ req[r].pc = "encode"
    /\ proc = "serving"
    /\ req[r].cursor > Len(req[r].origIndex)
    /\ req' = [req EXCEPT ![r].pc = "insert", ![r].todo = DOMAIN req[r].sent]
    /\ UNCHANGED <<procVars, edgeVars, mongoVars, lastSeen, faults>>

-----------------------------------------------------------------------------
(* MongoDB (external).                                                     *)

(* E11000: the unique index already holds the key of the document.         *)
IndexHit(key) ==
    CASE index = "tenant" -> store[key] > 0
      [] index = "legacy" -> \E t \in Tenants : store[<<t, key[2]>>] > 0
      [] OTHER -> FALSE

(* ordered:false: the documents of the batch are applied one by one, and   *)
(* one failing does not stop the others.                                   *)
MongoApply(r, k) ==
    LET q == req[r]
        key == SentKey(q, k)
        dup == IF IndexHit(key) THEN {[index |-> k, code |-> "E11000"]} ELSE {}
    IN  /\ q.pc = "insert"
        /\ k \in q.todo
        /\ store' = IF IndexHit(key) THEN store ELSE [store EXCEPT ![key] = @ + 1]
        /\ req' = [req EXCEPT ![r].todo = q.todo \ {k}, ![r].wErrors = q.wErrors \cup dup]
        /\ UNCHANGED <<procVars, edgeVars, orphans, lastSeen, faults>>

(* The server rejects one document for another reason.                     *)
MongoReject(r, k) ==
    LET q == req[r]
    IN  /\ q.pc = "insert"
        /\ k \in q.todo
        /\ Fault
        /\ req' = [req EXCEPT ![r].todo = q.todo \ {k},
                              ![r].wErrors = q.wErrors \cup
                                  {[index |-> k, code |-> "other"]}]
        /\ UNCHANGED <<procVars, edgeVars, mongoVars, lastSeen>>

(* A document of an abandoned call is applied after all, or never.         *)
OrphanApply(key) ==
    /\ key \in orphans
    /\ orphans' = orphans \ {key}
    /\ store' = IF IndexHit(key) THEN store ELSE [store EXCEPT ![key] = @ + 1]
    /\ UNCHANGED <<procVars, edgeVars, req, lastSeen, faults>>

OrphanDrop(key) ==
    /\ key \in orphans
    /\ orphans' = orphans \ {key}
    /\ UNCHANGED <<procVars, edgeVars, store, req, lastSeen, faults>>

-----------------------------------------------------------------------------
(* InsertMany returns.                                                     *)

(* No error, or a BulkWriteException without a write concern error.        *)
InsertReturns(r) ==
    /\ req[r].pc = "insert"
    /\ req[r].todo = {}
    /\ req' = [req EXCEPT ![r].pc = "record"]
    /\ UNCHANGED <<procVars, edgeVars, mongoVars, lastSeen, faults>>

(* Total failure: connection lost, timeout, cancelled request, or a write  *)
(* concern error.  The server may still apply what it had not applied yet. *)
InsertFails(r) ==
    /\ req[r].pc = "insert"
    /\ req[r].sent # <<>>
    /\ Fault
    /\ orphans' = orphans \cup Unapplied(req[r])
    /\ req' = [req EXCEPT ![r].pc = "failed", ![r].todo = {}]
    /\ UNCHANGED <<procVars, edgeVars, store, lastSeen>>

(* The error goes up through IngestBatch to the handler.                   *)
FailBatch(r) ==
    /\ req[r].pc = "failed"
    /\ InsertFailed(r)
    /\ UNCHANGED <<procVars, edgeVars, mongoVars, lastSeen, faults>>

(* Mutant: positions of the driver's slice taken for positions of docs.    *)
ReportedAsUntranslated(q, c) == {w.index : w \in {x \in q.wErrors : x.code = c}}

(* Report of the repository, by position in origIndex: WriteErrors come    *)
(* back by position in the slice the driver received and go through sent.  *)
ReportedAs(q, c) == {q.sent[w.index] : w \in {x \in q.wErrors : x.code = c}}

(* Mutant: a document the server refused is reported as a broken one.      *)
ReportEntriesAllTerminal(q) ==
    LET At(S, c) == {[index |-> q.origIndex[j], code |-> c] : j \in S}
    IN  At(ReportedAs(q, "E11000"), CodeDuplicate)
            \cup At(q.invalid \cup ReportedAs(q, "other"), CodeInvalidSchema)

(* errors[] entries for the report, by position in the original batch.     *)
ReportEntries(q) ==
    LET At(S, c) == {[index |-> q.origIndex[j], code |-> c] : j \in S}
        dup == ReportedAs(q, "E11000")
    IN  At(dup, CodeDuplicate)
            \cup At(q.invalid \ dup, CodeInvalidSchema)
            \cup At(ReportedAs(q, "other") \ (dup \cup q.invalid), CodeStorageUnavailable)

(* recordActivity: best effort, whatever happens the answer follows.       *)
RecordActivity(d) ==
    \/ lastSeen' = lastSeen \cup {d} /\ faults' = faults
    \/ lastSeen' = lastSeen /\ Fault

(* Rest of IngestBatch after a successful InsertMany.                      *)
FinishBatch(r) ==
    /\ req[r].pc = "record"
    /\ RecordActivity(req[r].dev)
    /\ req' = [req EXCEPT ![r].errs = req[r].errs \cup ReportEntries(req[r]),
                          ![r].pc = "reply", ![r].status = 200]
    /\ UNCHANGED <<procVars, edgeVars, mongoVars>>

(* accepted and rejected of the answer.                                    *)
Rejected(q) == Cardinality(q.errs)
Accepted(q) == Len(q.batch) - Rejected(q)

-----------------------------------------------------------------------------
Handler(r) ==
    \/ IngestEvents(r) \/ RejectEnvelope(r) \/ ValidateNext(r) \/ ValidateDone(r)
    \/ InsertUnavailable(r) \/ EncodeNext(r) \/ EncodeDone(r)
    \/ InsertReturns(r) \/ FailBatch(r) \/ FinishBatch(r)

MongoStep(r) == \E k \in req[r].todo : MongoApply(r, k)

Environment ==
    \/ BootDegraded \/ BootFails \/ Crash
    \/ \E d \in Devices : EdgeTimeout(d)
    \/ \E r \in Requests : Refuse(r) \/ BodyUnreadable(r) \/ InsertFails(r)
    \/ \E r \in Requests : \E k \in req[r].todo : MongoReject(r, k)
    \/ \E key \in orphans : OrphanApply(key) \/ OrphanDrop(key)

Next ==
    \/ Boot
    \/ \E d \in Devices, r \in Requests : EdgeSend(d, r)
    \/ \E r \in Requests : Handler(r) \/ MongoStep(r) \/ Deliver(r) \/ DropReply(r)
    \/ Environment

Spec == Init /\ [][Next]_vars

(* The process supervisor restarts what died, the Edge keeps sending what  *)
(* is pending, goroutines and MongoDB make progress, and HTTP delivers what*)
(* the handler wrote to whoever still waits.  Nothing is assumed of the    *)
(* environment's faults except that MaxFaults bounds them.                 *)
FairSpec ==
    /\ Spec
    /\ WF_vars(Boot)
    /\ \A d \in Devices : WF_vars(\E r \in Requests : EdgeSend(d, r))
    /\ \A r \in Requests : WF_vars(Handler(r) \/ MongoStep(r) \/ Deliver(r) \/ DropReply(r))

-----------------------------------------------------------------------------
(* Properties.                                                             *)

(* A row the contract allows (RF-008 to RF-010): every required field is   *)
(* there and well formed, the machine is the device's own, and the payload *)
(* has a BSON form.  An unknown kind or a newer schemaVersion is allowed.  *)
Storable(e) ==
    /\ Raw[e] \in [decodes : {TRUE}, eventId : EventIds, machineId : Machines,
                   ts : {"rfc3339"}, kind : {"known", "unknown"},
                   schemaVersion : {"known", "ahead"}, seq : {"absent", "valid"},
                   payload : {"encodable"}]
    /\ Raw[e].machineId = MachineOf[Owner[e]]

RowKey(e) == DocKey(Owner[e], e)

Stored(e) == Storable(e) /\ store[RowKey(e)] > 0

(* The Edge's batches respect the limits of the handler's envelope.        *)
BatchesFit == EdgeBatch <= MaxEvents /\ EdgeBatch * EventBytes <= MaxBodyBytes

PCs == {"idle", "arrived", "validate", "encode", "insert", "failed", "record", "reply"}

RequestType ==
    [pc : PCs, dev : Devices \cup {NoValue}, batch : Seq(Events), cursor : Nat,
     origIndex : Seq(Nat), sent : Seq(Nat), todo : SUBSET Nat,
     wErrors : SUBSET [index : Nat, code : {"E11000", "other"}],
     invalid : SUBSET Nat, errs : SUBSET [index : Nat, code : Codes], status : Nat,
     body : {"whole", "cut"}]

(* Every variable keeps its shape, and a request that is being served      *)
(* belongs to a device.                                                    *)
TypeOK ==
    /\ proc \in {"down", "serving", "degraded"}
    /\ index \in {"none", "legacy", "tenant"}
    /\ store \in [Tenants \X EventIds -> Nat]
    /\ orphans \subseteq Tenants \X EventIds
    /\ outbox \in [Events -> {"pending", "acked", "dead"}]
    /\ waiting \in [Devices -> Requests \cup {NoRequest}]
    /\ cause \in [Events -> {"none", "event", "envelope", "body"}]
    /\ req \in [Requests -> RequestType]
    /\ \A r \in Requests : req[r].pc # "idle" => req[r].dev \in Devices
    /\ lastSeen \subseteq Devices
    /\ faults \in 0..MaxFaults

(* I-1 and I-3: a row the Edge forgets is in the database of its tenant,   *)
(* whatever was retried, answered late, crashed or rejected in between.    *)
AckedIsStored == \A e \in Events : outbox[e] = "acked" => Stored(e)

(* I-2: a row that could be stored is buried for two reasons only: its     *)
(* batch could not be read to the end, or the Edge's batches break the     *)
(* limits of the envelope.  A storage failure, a neighbour in the batch, a *)
(* copy of the request or a lost answer never condemns a row.              *)
DeadIsUnstorable ==
    \A e \in Events : outbox[e] = "dead" =>
        \/ ~Storable(e)
        \/ cause[e] = "body"
        \/ cause[e] = "envelope" /\ ~BatchesFit

(* What the handler's comment promises of a 400: it is kept for requests   *)
(* that no retry can save, so that no row which could be stored is buried  *)
(* by an Edge whose batches fit.  It does not hold: a body cut short by    *)
(* the server's ReadTimeout is answered 400 as well.                       *)
BadRequestIsHopeless ==
    BatchesFit => \A e \in Events : outbox[e] = "dead" => ~Storable(e)

(* Idempotency: retries, overlapping requests and late writes leave one    *)
(* document per tenant and eventId.                                        *)
NoDuplicates == \A k \in Tenants \X EventIds : store[k] <= 1

(* A document exists only for a row some device of that tenant sent about  *)
(* its own machine (RF-009 and D-10).                                      *)
StoredOnlyByOwner ==
    \A k \in Tenants \X EventIds :
        store[k] > 0 => \E e \in Events : Storable(e) /\ RowKey(e) = k

(* I-3 and I-4: a 200 answer says of every position of the original batch  *)
(* exactly one thing, the thing is true, and accepted counts the rows the  *)
(* database holds that no entry mentions.                                  *)
AnswerFaithful ==
    \A r \in Requests :
        LET q == req[r]
        IN  (q.pc = "reply" /\ q.status = 200) =>
                /\ \A x \in q.errs : x.index \in DOMAIN q.batch
                /\ \A x, y \in q.errs : x.index = y.index => x = y
                /\ \A i \in DOMAIN q.batch :
                       /\ CodesAt(q, i) \subseteq {CodeDuplicate} => Stored(q.batch[i])
                       /\ CodesAt(q, i) \cap TerminalCodes # {} => ~Storable(q.batch[i])
                /\ Accepted(q) = Cardinality({i \in DOMAIN q.batch : CodesAt(q, i) = {}})

(* I-2: a 400, on which the Edge buries the whole batch, says that the     *)
(* batch broke the limits of the envelope or could not be read, and it is  *)
(* given before any of the batch was handed to the storage: a failure in   *)
(* the middle of the work never takes that form.                           *)
BadRequestIsEnvelope ==
    \A r \in Requests :
        (req[r].pc = "reply" /\ req[r].status = 400) =>
            /\ ~EnvelopeOK(req[r].batch) \/ req[r].body = "cut"
            /\ req[r].origIndex = <<>> /\ req[r].sent = <<>>

(* CE-004: every row is settled in the end, unless the process booted      *)
(* without Mongo and was never restarted since.                            *)
DrainsUnlessDegraded ==
    \A e \in Events : <>(outbox[e] # "pending") \/ <>[](proc = "degraded")

(* What CE-004 and the comment of connectMeasurementsRepo promise: once    *)
(* Mongo answers again (its faults are bounded) the retries get through.   *)
(* It does not hold: a process that is degraded stays so.                  *)
DrainsAfterRecovery == \A e \in Events : <>(outbox[e] # "pending")
=============================================================================
