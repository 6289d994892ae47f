-------------------------- MODULE IngestInvariant ---------------------------
(***************************************************************************)
(* The inductive invariant behind the safety of Ingest.  What an answer    *)
(* says of a row rests on what the two loops and the server did to it      *)
(* before, so each stage of a request carries the facts the next one needs.*)
(***************************************************************************)
EXTENDS IngestDelivery

Valid(e) == ValidateEvent(Raw[e], Owner[e]) = "ok"

Settling == {"encode", "insert", "record"}

(* Positions of batch the validation loop has been through, and positions  *)
(* of origIndex the encoding loop has been through.                        *)
Validated(q) == {i \in DOMAIN q.batch : q.pc \in Settling \/ i < q.cursor}
Encoded(q)   == {j \in DOMAIN q.origIndex : q.pc # "encode" \/ j < q.cursor}

(* What has not been reached yet is empty.                                 *)
FreshInv(q) ==
    /\ q.pc \in {"arrived", "validate"} => q.sent = <<>> /\ q.invalid = {}
    /\ q.pc \in {"arrived", "validate", "encode"} => q.wErrors = {}
    /\ q.pc = "arrived" => q.origIndex = <<>> /\ q.errs = {} /\ q.cursor = 1
    /\ q.pc # "insert" => q.todo = {}

(* A request carries rows of its own device, as many as the Edge sends.    *)
BatchInv(q) ==
    q.pc # "idle" => /\ Len(q.batch) \in 1..EdgeBatch
                     /\ \A i \in DOMAIN q.batch : Owner[q.batch[i]] = q.dev

(* origIndex lists the valid rows seen, errs condemns the others.          *)
ValidationInv(q) ==
    q.pc \in Settling \cup {"validate"} =>
        /\ q.cursor >= 1
        /\ \A j \in DOMAIN q.origIndex :
               q.origIndex[j] \in Validated(q) /\ Valid(ValidRow(q, j))
        /\ \A i \in Validated(q) :
               IF Valid(q.batch[i])
               THEN \E j \in DOMAIN q.origIndex : q.origIndex[j] = i
               ELSE \E x \in q.errs : x.index = i /\ x.code \in TerminalCodes
        /\ \A x \in q.errs : /\ x.index \in Validated(q)
                             /\ x.code \in TerminalCodes
                             /\ ~Valid(q.batch[x.index])

(* sent lists the encodable documents seen, invalid holds the others.      *)
EncodingInv(q) ==
    q.pc \in Settling =>
        /\ \A k \in DOMAIN q.sent :
               q.sent[k] \in Encoded(q) /\ Encodable(Raw[ValidRow(q, q.sent[k])])
        /\ \A j \in Encoded(q) :
               IF Encodable(Raw[ValidRow(q, j)])
               THEN \E k \in DOMAIN q.sent : q.sent[k] = j
               ELSE j \in q.invalid
        /\ \A j \in q.invalid : j \in Encoded(q) /\ ~Encodable(Raw[ValidRow(q, j)])

(* A document the server is done with is stored, or was refused for a      *)
(* reason other than its key; one refused for its key is stored.           *)
InsertInv(q) ==
    q.pc \in {"insert", "record"} =>
        /\ q.todo \subseteq DOMAIN q.sent
        /\ \A w \in q.wErrors : w.index \in DOMAIN q.sent
        /\ \A w \in q.wErrors : w.code = "E11000" => store[SentKey(q, w.index)] > 0
        /\ \A k \in DOMAIN q.sent \ q.todo :
               \/ store[SentKey(q, k)] > 0
               \/ \E w \in q.wErrors : w.index = k /\ w.code = "other"

(* A 200 answer acknowledges only stored rows and condemns only hopeless   *)
(* ones.                                                                   *)
ReplyInv(q) ==
    (q.pc = "reply" /\ q.status = 200) =>
        \A i \in DOMAIN q.batch :
            /\ CodesAt(q, i) \subseteq {CodeDuplicate} => Stored(q.batch[i])
            /\ CodesAt(q, i) \cap TerminalCodes # {} => ~Storable(q.batch[i])

RequestInv(q) ==
    /\ FreshInv(q)
    /\ BatchInv(q)
    /\ ValidationInv(q)
    /\ EncodingInv(q)
    /\ InsertInv(q)
    /\ ReplyInv(q)

(* The unique index is in place whenever something can be written.         *)
IndexInv ==
    /\ (proc = "serving" \/ orphans # {}) => index = "tenant"
    /\ \A r \in Requests : req[r].pc = "insert" => proc = "serving"

(* A late write is of a row that may be stored.                            *)
OrphansInv == \A k \in orphans : \E e \in Events : Storable(e) /\ RowKey(e) = k

(* A row whose answer is awaited is still pending.                         *)
AwaitedInv ==
    \A r \in Requests :
        (req[r].pc # "idle" /\ waiting[req[r].dev] = r) =>
            \A i \in DOMAIN req[r].batch : outbox[req[r].batch[i]] = "pending"

(* Only a buried row has a reason to be.                                   *)
CauseInv == \A e \in Events : cause[e] # "none" => outbox[e] = "dead"

IInv ==
    /\ TypeOK
    /\ \A r \in Requests : RequestInv(req[r])
    /\ IndexInv
    /\ OrphansInv
    /\ AwaitedInv
    /\ CauseInv
    /\ BadRequestIsEnvelope
    /\ NoDuplicates
    /\ StoredOnlyByOwner
    /\ AckedIsStored
    /\ DeadIsUnstorable

(* No position of the batch is spoken of twice: origIndex lists it once,   *)
(* and errors[] has one entry for it at most.                              *)
OnceInv(q) ==
    /\ q.pc \in Settling \cup {"validate"} =>
           \A i, j \in DOMAIN q.origIndex : q.origIndex[i] = q.origIndex[j] => i = j
    /\ (q.pc \in Settling \cup {"validate"} \/ (q.pc = "reply" /\ q.status = 200)) =>
           /\ \A x \in q.errs : x.index \in DOMAIN q.batch
           /\ \A x, y \in q.errs : x.index = y.index => x = y

SpokenOnce == \A r \in Requests : OnceInv(req[r])
=============================================================================
