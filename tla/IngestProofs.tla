---------------------------- MODULE IngestProofs ----------------------------
EXTENDS IngestInvariant, FiniteSetTheorems, TLAPS

(* The contract's description of a storable row and what the code computes *)
(* (ValidateEvent, then bson.Marshal) agree.                               *)
LEMMA StorableIsComputed ==
    ASSUME NEW e \in Events
    PROVE  Storable(e) <=> Valid(e) /\ Encodable(Raw[e])
<1>1. Raw[e] \in RawEvent /\ Owner[e] \in Devices /\ MachineOf[Owner[e]] \in Machines
  BY IngestAssumption
<1>. DEFINE w == Raw[e]
<1>2. /\ w.decodes \in BOOLEAN /\ w.eventId \in EventIds \cup {NoValue}
      /\ w.machineId \in Machines \cup {NoValue}
      /\ w.ts \in {"absent", "malformed", "rfc3339"}
      /\ w.kind \in {"absent", "known", "unknown"}
      /\ w.schemaVersion \in {"absent", "invalid", "known", "ahead"}
      /\ w.seq \in {"absent", "invalid", "valid"}
      /\ w.payload \in {"absent", "encodable", "poison"}
      /\ w = [decodes |-> w.decodes, eventId |-> w.eventId, machineId |-> w.machineId,
              ts |-> w.ts, kind |-> w.kind, schemaVersion |-> w.schemaVersion,
              seq |-> w.seq, payload |-> w.payload]
  BY <1>1 DEF RawEvent
<1>3. Storable(e) <=> /\ w.decodes /\ ~MissingField(w) /\ ~MalformedField(w)
                      /\ w.machineId = MachineOf[Owner[e]] /\ w.payload = "encodable"
  BY <1>1, <1>2, IngestAssumption DEF Storable, MissingField, MalformedField
<1>4. Valid(e) <=> /\ w.decodes /\ ~MissingField(w) /\ ~MalformedField(w)
                   /\ w.machineId = MachineOf[Owner[e]]
  BY DEF Valid, ValidateEvent, CodeInvalidSchema, CodeValidationFailed
<1>5. ~MissingField(w) => (Encodable(w) <=> w.payload = "encodable")
  BY <1>2 DEF MissingField, Encodable
<1>. QED  BY <1>3, <1>4, <1>5

(* The key of a valid row is a key of the collection.                      *)
LEMMA ValidKey ==
    ASSUME NEW e \in Events, Valid(e)
    PROVE  RowKey(e) \in Tenants \X EventIds
<1>1. Raw[e] \in RawEvent /\ Owner[e] \in Devices /\ TenantOf[Owner[e]] \in Tenants
  BY IngestAssumption
<1>2. ~MissingField(Raw[e])
  BY DEF Valid, ValidateEvent, CodeInvalidSchema
<1>3. Raw[e].eventId \in EventIds
  BY <1>1, <1>2 DEF MissingField, RawEvent
<1>. QED  BY <1>1, <1>3 DEF RowKey, DocKey

(* Initially nothing happened: every part of the invariant holds.          *)
LEMMA InitInv == Init => IInv
<1>. SUFFICES ASSUME Init PROVE IInv
  OBVIOUS
<1>. USE DEF Init
<1>1. Idle \in RequestType /\ Idle.pc = "idle" /\ Idle.todo = {}
  BY DEF Idle, Request, RequestType, PCs
<1>2. TypeOK
  BY <1>1, IngestAssumption DEF TypeOK
<1>3. \A r \in Requests : RequestInv(req[r])
  BY <1>1 DEF RequestInv, FreshInv, BatchInv, ValidationInv, EncodingInv, InsertInv,
              ReplyInv, Settling
<1>4. IndexInv /\ OrphansInv /\ AwaitedInv /\ BadRequestIsEnvelope
  BY <1>1 DEF IndexInv, OrphansInv, AwaitedInv, BadRequestIsEnvelope
<1>5. NoDuplicates /\ StoredOnlyByOwner /\ AckedIsStored /\ DeadIsUnstorable /\ CauseInv
  BY DEF NoDuplicates, StoredOnlyByOwner, AckedIsStored, CauseInv, DeadIsUnstorable
<1>. QED  BY <1>2, <1>3, <1>4, <1>5 DEF IInv

-----------------------------------------------------------------------------
(* Facts about one request, whatever the other ones do.                    *)

(* A document on its way to the server is that of a storable row.          *)
LEMMA SentIsStorable ==
    ASSUME NEW q \in RequestType, RequestInv(q), q.pc \in {"insert", "record"},
           NEW k \in DOMAIN q.sent
    PROVE  /\ ValidRow(q, q.sent[k]) \in Events
           /\ Storable(ValidRow(q, q.sent[k]))
           /\ SentKey(q, k) = RowKey(ValidRow(q, q.sent[k]))
           /\ SentKey(q, k) \in Tenants \X EventIds
<1>. DEFINE row == ValidRow(q, q.sent[k])
<1>1. q.sent[k] \in DOMAIN q.origIndex /\ Encodable(Raw[row])
  BY DEF RequestInv, EncodingInv, Encoded, Settling
<1>2. q.origIndex[q.sent[k]] \in DOMAIN q.batch /\ Valid(row)
  BY <1>1 DEF RequestInv, ValidationInv, Validated, Settling, ValidRow
<1>3. row \in Events /\ Owner[row] = q.dev
  <2>1. q.batch \in Seq(Events)
    BY DEF RequestType
  <2>2. \A i \in DOMAIN q.batch : q.batch[i] \in Events /\ Owner[q.batch[i]] = q.dev
    BY <2>1 DEF RequestInv, BatchInv
  <2>. QED  BY <1>2, <2>2 DEF ValidRow
<1>4. Storable(row)
  BY <1>1, <1>2, <1>3, StorableIsComputed
<1>5. SentKey(q, k) = RowKey(row)
  BY <1>3 DEF SentKey, RowKey
<1>. QED  BY <1>2, <1>3, <1>4, <1>5, ValidKey

(* Writes of others never hurt a request: what was stored stays stored.    *)
LEMMA RequestFrame ==
    ASSUME TypeOK, TypeOK', NEW s \in Requests, req'[s] = req[s], RequestInv(req[s]),
           \A k \in Tenants \X EventIds : store'[k] >= store[k]
    PROVE  RequestInv(req[s])'
<1>. DEFINE q == req[s]
<1>1. q \in RequestType /\ store \in [Tenants \X EventIds -> Nat]
                        /\ store' \in [Tenants \X EventIds -> Nat]
  BY DEF TypeOK
<1>2. InsertInv(q)'
  <2>. SUFFICES ASSUME q.pc \in {"insert", "record"}
                PROVE  InsertInv(q)'
    BY DEF InsertInv
  <2>1. \A k \in DOMAIN q.sent : SentKey(q, k) \in Tenants \X EventIds
    BY <1>1, SentIsStorable
  <2>2. \A k \in DOMAIN q.sent : store[SentKey(q, k)] > 0 => store'[SentKey(q, k)] > 0
    BY <1>1, <2>1
  <2>3. InsertInv(q)
    BY DEF RequestInv
  <2>4. \A k : SentKey(q, k)' = SentKey(q, k)
    BY DEF SentKey, ValidRow
  <2>. QED  BY <2>2, <2>3, <2>4 DEF InsertInv
<1>3. ReplyInv(q)'
  <2>. SUFFICES ASSUME q.pc = "reply", q.status = 200, NEW i \in DOMAIN q.batch,
                       CodesAt(q, i) \subseteq {CodeDuplicate}, Stored(q.batch[i])
                PROVE  store'[RowKey(q.batch[i])] > 0
    BY DEF ReplyInv, RequestInv, CodesAt, Stored
  <2>1. q.batch[i] \in Events
    BY <1>1 DEF RequestType
  <2>2. RowKey(q.batch[i]) \in Tenants \X EventIds
    BY <2>1, ValidKey, StorableIsComputed DEF Stored
  <2>. QED  BY <1>1, <2>2 DEF Stored
<1>4. FreshInv(q)' /\ BatchInv(q)'
  BY DEF RequestInv, FreshInv, BatchInv
<1>5. ValidationInv(q)'
  BY SMTT(20) DEF RequestInv, ValidationInv, Validated, ValidRow
<1>6. EncodingInv(q)'
  BY DEF RequestInv, EncodingInv, Encoded, ValidRow
<1>. QED  BY <1>2, <1>3, <1>4, <1>5, <1>6 DEF RequestInv

(* The validation loop: an event that passes is listed in origIndex.       *)
LEMMA ValidatePass ==
    ASSUME NEW q \in RequestType, RequestInv(q), q.pc = "validate",
           q.cursor <= Len(q.batch),
           ValidateEvent(Raw[q.batch[q.cursor]], q.dev) = "ok",
           NEW n, n = [q EXCEPT !.cursor = q.cursor + 1,
                                !.origIndex = Append(q.origIndex, q.cursor)]
    PROVE  n \in RequestType /\ RequestInv(n)
<1>1. /\ q.cursor \in Nat /\ q.batch \in Seq(Events) /\ q.origIndex \in Seq(Nat)
      /\ q.cursor >= 1 /\ q.cursor \in DOMAIN q.batch
  BY DEF RequestType, RequestInv, ValidationInv
<1>2. n \in RequestType
  <2>1. Append(q.origIndex, q.cursor) \in Seq(Nat) /\ q.cursor + 1 \in Nat
    BY <1>1
  <2>. QED  BY <2>1 DEF RequestType
<1>3. /\ n.pc = "validate" /\ n.batch = q.batch /\ n.dev = q.dev /\ n.errs = q.errs
      /\ n.sent = q.sent /\ n.invalid = q.invalid /\ n.wErrors = q.wErrors
      /\ n.todo = q.todo /\ n.cursor = q.cursor + 1
      /\ n.origIndex = Append(q.origIndex, q.cursor)
  BY DEF RequestType
<1>4. /\ DOMAIN n.origIndex = DOMAIN q.origIndex \cup {Len(q.origIndex) + 1}
      /\ \A j \in DOMAIN q.origIndex : n.origIndex[j] = q.origIndex[j]
      /\ n.origIndex[Len(q.origIndex) + 1] = q.cursor
  BY <1>1, <1>3
<1>5. Validated(n) = Validated(q) \cup {q.cursor}
  BY <1>1, <1>3 DEF Validated, Settling
<1>6. Valid(q.batch[q.cursor])
  BY <1>1 DEF RequestInv, BatchInv, Valid
<1>7. ValidationInv(n)
  <2>1. \A j \in DOMAIN n.origIndex :
            n.origIndex[j] \in Validated(n) /\ Valid(ValidRow(n, j))
    <3>. SUFFICES ASSUME NEW j \in DOMAIN n.origIndex
                  PROVE  n.origIndex[j] \in Validated(n) /\ Valid(q.batch[n.origIndex[j]])
      BY <1>3 DEF ValidRow
    <3>1. CASE j \in DOMAIN q.origIndex
      BY <1>4, <1>5, <3>1 DEF RequestInv, ValidationInv, ValidRow
    <3>2. CASE j = Len(q.origIndex) + 1
      BY <1>4, <1>5, <1>6, <3>2
    <3>. QED  BY <1>4, <3>1, <3>2
  <2>2. \A i \in Validated(n) :
            IF Valid(n.batch[i])
            THEN \E j \in DOMAIN n.origIndex : n.origIndex[j] = i
            ELSE \E x \in n.errs : x.index = i /\ x.code \in TerminalCodes
    <3>. SUFFICES ASSUME NEW i \in Validated(n)
                  PROVE  IF Valid(q.batch[i])
                         THEN \E j \in DOMAIN n.origIndex : n.origIndex[j] = i
                         ELSE \E x \in q.errs : x.index = i /\ x.code \in TerminalCodes
      BY <1>3
    <3>1. CASE i = q.cursor
      BY <1>4, <1>6, <3>1
    <3>2. CASE i \in Validated(q)
      <4>1. IF Valid(q.batch[i])
            THEN \E j \in DOMAIN q.origIndex : q.origIndex[j] = i
            ELSE \E x \in q.errs : x.index = i /\ x.code \in TerminalCodes
        BY <3>2 DEF RequestInv, ValidationInv
      <4>. QED  BY <1>4, <4>1
    <3>. QED  BY <1>5, <3>1, <3>2
  <2>3. \A x \in n.errs : /\ x.index \in Validated(n)
                          /\ x.code \in TerminalCodes
                          /\ ~Valid(n.batch[x.index])
    BY <1>3, <1>5 DEF RequestInv, ValidationInv
  <2>. QED  BY <1>1, <1>3, <2>1, <2>2, <2>3, SMTT(20) DEF ValidationInv
<1>8. FreshInv(n) /\ BatchInv(n) /\ EncodingInv(n) /\ InsertInv(n) /\ ReplyInv(n)
  BY <1>3 DEF RequestInv, FreshInv, BatchInv, EncodingInv, InsertInv, ReplyInv, Settling
<1>. QED  BY <1>2, <1>7, <1>8 DEF RequestInv

(* The validation loop: an event that fails gets a terminal entry.         *)
LEMMA ValidateFail ==
    ASSUME NEW q \in RequestType, RequestInv(q), q.pc = "validate",
           q.cursor <= Len(q.batch),
           NEW v, v = ValidateEvent(Raw[q.batch[q.cursor]], q.dev), v # "ok",
           NEW n, n = [q EXCEPT !.cursor = q.cursor + 1,
                                !.errs = q.errs \cup {[index |-> q.cursor, code |-> v]}]
    PROVE  n \in RequestType /\ RequestInv(n)
<1>1. /\ q.cursor \in Nat /\ q.batch \in Seq(Events) /\ q.origIndex \in Seq(Nat)
      /\ q.cursor >= 1 /\ q.cursor \in DOMAIN q.batch
  BY DEF RequestType, RequestInv, ValidationInv
<1>2. v \in TerminalCodes /\ v \in Codes
  BY DEF ValidateEvent, TerminalCodes, Codes
<1>3. n \in RequestType
  <2>1. q.errs \in SUBSET [index : Nat, code : Codes]
    BY DEF RequestType
  <2>2. q.errs \cup {[index |-> q.cursor, code |-> v]} \in SUBSET [index : Nat, code : Codes]
    BY <1>1, <1>2, <2>1
  <2>3. q.cursor + 1 \in Nat
    BY <1>1
  <2>. QED  BY <2>2, <2>3 DEF RequestType
<1>4. /\ n.pc = "validate" /\ n.batch = q.batch /\ n.dev = q.dev
      /\ n.errs = q.errs \cup {[index |-> q.cursor, code |-> v]}
      /\ n.sent = q.sent /\ n.invalid = q.invalid /\ n.wErrors = q.wErrors
      /\ n.todo = q.todo /\ n.cursor = q.cursor + 1 /\ n.origIndex = q.origIndex
  BY DEF RequestType
<1>5. Validated(n) = Validated(q) \cup {q.cursor}
  BY <1>1, <1>4, SMTT(20) DEF Validated, Settling
<1>6. ~Valid(q.batch[q.cursor])
  BY <1>1 DEF RequestInv, BatchInv, Valid
<1>7. ValidationInv(n)
  <2>. DEFINE new == [index |-> q.cursor, code |-> v]
  <2>1. new \in n.errs /\ new.index = q.cursor /\ new.code = v
    BY <1>4
  <2>2. \A j \in DOMAIN n.origIndex :
            n.origIndex[j] \in Validated(n) /\ Valid(ValidRow(n, j))
    BY <1>4, <1>5 DEF RequestInv, ValidationInv, ValidRow
  <2>3. \A i \in Validated(n) :
            IF Valid(n.batch[i])
            THEN \E j \in DOMAIN n.origIndex : n.origIndex[j] = i
            ELSE \E x \in n.errs : x.index = i /\ x.code \in TerminalCodes
    <3>. SUFFICES ASSUME NEW i \in Validated(n)
                  PROVE  IF Valid(q.batch[i])
                         THEN \E j \in DOMAIN q.origIndex : q.origIndex[j] = i
                         ELSE \E x \in n.errs : x.index = i /\ x.code \in TerminalCodes
      BY <1>4
    <3>1. CASE i = q.cursor
      BY <1>2, <1>6, <2>1, <3>1
    <3>2. CASE i \in Validated(q)
      BY <1>4, <3>2 DEF RequestInv, ValidationInv
    <3>. QED  BY <1>5, <3>1, <3>2
  <2>4. \A x \in n.errs : /\ x.index \in Validated(n)
                          /\ x.code \in TerminalCodes
                          /\ ~Valid(n.batch[x.index])
    <3>. SUFFICES ASSUME NEW x \in n.errs
                  PROVE  /\ x.index \in Validated(n)
                         /\ x.code \in TerminalCodes
                         /\ ~Valid(n.batch[x.index])
      OBVIOUS
    <3>1. CASE x \in q.errs
      BY <1>4, <1>5, <3>1 DEF RequestInv, ValidationInv
    <3>2. CASE x = new
      BY <1>2, <1>4, <1>5, <1>6, <2>1, <3>2
    <3>. QED  BY <1>4, <3>1, <3>2
  <2>. QED  BY <1>1, <1>4, <2>2, <2>3, <2>4 DEF ValidationInv
<1>8. FreshInv(n) /\ BatchInv(n) /\ EncodingInv(n) /\ InsertInv(n) /\ ReplyInv(n)
  BY <1>4 DEF RequestInv, FreshInv, BatchInv, EncodingInv, InsertInv, ReplyInv, Settling
<1>. QED  BY <1>3, <1>7, <1>8 DEF RequestInv

(* The end of the validation loop, with and without a valid event.         *)
LEMMA ValidateEnds ==
    ASSUME NEW q \in RequestType, RequestInv(q), q.pc = "validate",
           q.cursor > Len(q.batch),
           NEW n, n = IF q.origIndex = <<>>
                      THEN [q EXCEPT !.pc = "reply", !.status = 200]
                      ELSE [q EXCEPT !.pc = "encode", !.cursor = 1]
    PROVE  n \in RequestType /\ RequestInv(n)
<1>1. /\ q.cursor \in Nat /\ q.batch \in Seq(Events) /\ q.origIndex \in Seq(Nat)
      /\ Validated(q) = DOMAIN q.batch
  BY DEF RequestType, Validated
<1>2. /\ n.batch = q.batch /\ n.dev = q.dev /\ n.errs = q.errs /\ n.sent = q.sent
      /\ n.invalid = q.invalid /\ n.wErrors = q.wErrors /\ n.todo = q.todo
      /\ n.origIndex = q.origIndex
  BY DEF RequestType
<1>3. CASE q.origIndex = <<>>
  <2>. DEFINE m == [q EXCEPT !.pc = "reply", !.status = 200]
  <2>0. n = m
    BY <1>3
  <2>1. n \in RequestType /\ n.pc = "reply" /\ n.status = 200
    <3>0. "reply" \in PCs
      BY DEF PCs
    <3>1. m \in RequestType /\ m.pc = "reply" /\ m.status = 200
      BY <3>0, ZenonT(40) DEF RequestType
    <3>. QED  BY <2>0, <3>1
  <2>2. \A i \in DOMAIN q.batch :
            \E x \in q.errs : x.index = i /\ x.code \in TerminalCodes /\ ~Valid(q.batch[i])
    BY <1>1, <1>3 DEF RequestInv, ValidationInv
  <2>3. \A i \in DOMAIN q.batch : ~Storable(q.batch[i])
    BY <1>1, <2>2, StorableIsComputed
  <2>4. \A i \in DOMAIN q.batch : ~(CodesAt(n, i) \subseteq {CodeDuplicate})
    <3>1. CodeDuplicate \notin TerminalCodes
      BY DEF TerminalCodes, CodeDuplicate, CodeInvalidSchema, CodeValidationFailed
    <3>2. \A i \in DOMAIN q.batch : \E c \in CodesAt(n, i) : c \in TerminalCodes
      BY <1>2, <2>2 DEF CodesAt
    <3>. QED  BY <3>1, <3>2
  <2>. QED  BY <1>2, <2>1, <2>3, <2>4
            DEF RequestInv, FreshInv, BatchInv, ValidationInv, EncodingInv, InsertInv,
                ReplyInv, Settling
<1>4. CASE q.origIndex # <<>>
  <2>1. n \in RequestType /\ n.pc = "encode" /\ n.cursor = 1
    BY <1>4 DEF RequestType, PCs
  <2>2. Validated(n) = DOMAIN q.batch /\ Encoded(n) = {}
    BY <1>1, <1>2, <2>1 DEF Validated, Encoded, Settling
  <2>3. ValidationInv(n)
    BY <1>1, <1>2, <2>1, <2>2 DEF RequestInv, ValidationInv, ValidRow, Settling
  <2>4. EncodingInv(n)
    BY <1>1, <1>2, <2>1, <2>2 DEF RequestInv, EncodingInv, FreshInv
  <2>. QED  BY <1>2, <2>1, <2>3, <2>4
            DEF RequestInv, FreshInv, BatchInv, InsertInv, ReplyInv, Settling
<1>. QED  BY <1>3, <1>4

(* The encoding loop: a document that encodes is listed in sent.           *)
LEMMA EncodePass ==
    ASSUME NEW q \in RequestType, RequestInv(q), q.pc = "encode",
           q.cursor <= Len(q.origIndex),
           Encodable(Raw[ValidRow(q, q.cursor)]),
           NEW n, n = [q EXCEPT !.cursor = q.cursor + 1,
                                !.sent = Append(q.sent, q.cursor)]
    PROVE  n \in RequestType /\ RequestInv(n)
<1>1. /\ q.cursor \in Nat /\ q.sent \in Seq(Nat) /\ q.origIndex \in Seq(Nat)
      /\ q.cursor >= 1 /\ q.cursor \in DOMAIN q.origIndex
  BY DEF RequestType, RequestInv, ValidationInv, Settling
<1>2. n \in RequestType
  <2>1. Append(q.sent, q.cursor) \in Seq(Nat) /\ q.cursor + 1 \in Nat
    BY <1>1
  <2>. QED  BY <2>1 DEF RequestType
<1>3. /\ n.pc = "encode" /\ n.batch = q.batch /\ n.dev = q.dev /\ n.errs = q.errs
      /\ n.origIndex = q.origIndex /\ n.invalid = q.invalid /\ n.wErrors = q.wErrors
      /\ n.todo = q.todo /\ n.cursor = q.cursor + 1
      /\ n.sent = Append(q.sent, q.cursor)
  BY DEF RequestType
<1>4. /\ DOMAIN n.sent = DOMAIN q.sent \cup {Len(q.sent) + 1}
      /\ \A k \in DOMAIN q.sent : n.sent[k] = q.sent[k]
      /\ n.sent[Len(q.sent) + 1] = q.cursor
  BY <1>1, <1>3, SMTT(20)
<1>5. Encoded(n) = Encoded(q) \cup {q.cursor} /\ Validated(n) = Validated(q)
  BY <1>1, <1>3, SMTT(20) DEF Encoded, Validated, Settling
<1>6. \A j : ValidRow(n, j) = ValidRow(q, j)
  BY <1>3 DEF ValidRow
<1>7. EncodingInv(n)
  <2>1. \A k \in DOMAIN n.sent :
            n.sent[k] \in Encoded(n) /\ Encodable(Raw[ValidRow(n, n.sent[k])])
    BY <1>3, <1>4, <1>5, <1>6 DEF RequestInv, EncodingInv, Settling
  <2>2. \A j \in Encoded(n) : IF Encodable(Raw[ValidRow(n, j)])
                              THEN \E k \in DOMAIN n.sent : n.sent[k] = j
                              ELSE j \in n.invalid
    BY <1>3, <1>4, <1>5, <1>6 DEF RequestInv, EncodingInv, Settling
  <2>3. \A j \in n.invalid : j \in Encoded(n) /\ ~Encodable(Raw[ValidRow(n, j)])
    BY <1>3, <1>5, <1>6 DEF RequestInv, EncodingInv, Settling
  <2>. QED  BY <2>1, <2>2, <2>3 DEF EncodingInv
<1>8. ValidationInv(n)
  BY <1>1, <1>3, <1>5, <1>6 DEF RequestInv, ValidationInv, Settling
<1>9. FreshInv(n) /\ BatchInv(n) /\ InsertInv(n) /\ ReplyInv(n)
  BY <1>3 DEF RequestInv, FreshInv, BatchInv, InsertInv, ReplyInv, Settling
<1>. QED  BY <1>2, <1>7, <1>8, <1>9 DEF RequestInv

(* The encoding loop: a document that does not encode is set apart.        *)
LEMMA EncodeFail ==
    ASSUME NEW q \in RequestType, RequestInv(q), q.pc = "encode",
           q.cursor <= Len(q.origIndex),
           ~Encodable(Raw[ValidRow(q, q.cursor)]),
           NEW n, n = [q EXCEPT !.cursor = q.cursor + 1,
                                !.invalid = q.invalid \cup {q.cursor}]
    PROVE  n \in RequestType /\ RequestInv(n)
<1>1. /\ q.cursor \in Nat /\ q.sent \in Seq(Nat) /\ q.origIndex \in Seq(Nat)
      /\ q.cursor >= 1 /\ q.cursor \in DOMAIN q.origIndex
  BY DEF RequestType, RequestInv, ValidationInv, Settling
<1>2. n \in RequestType
  <2>1. q.invalid \cup {q.cursor} \in SUBSET Nat /\ q.cursor + 1 \in Nat
    BY <1>1 DEF RequestType
  <2>. QED  BY <2>1 DEF RequestType
<1>3. /\ n.pc = "encode" /\ n.batch = q.batch /\ n.dev = q.dev /\ n.errs = q.errs
      /\ n.origIndex = q.origIndex /\ n.sent = q.sent /\ n.wErrors = q.wErrors
      /\ n.todo = q.todo /\ n.cursor = q.cursor + 1
      /\ n.invalid = q.invalid \cup {q.cursor}
  BY DEF RequestType
<1>4. Encoded(n) = Encoded(q) \cup {q.cursor} /\ Validated(n) = Validated(q)
  BY <1>1, <1>3, SMTT(20) DEF Encoded, Validated, Settling
<1>5. \A j : ValidRow(n, j) = ValidRow(q, j)
  BY <1>3 DEF ValidRow
<1>6. EncodingInv(n)
  BY <1>3, <1>4, <1>5 DEF RequestInv, EncodingInv, Settling
<1>7. ValidationInv(n)
  BY <1>1, <1>3, <1>4, <1>5 DEF RequestInv, ValidationInv, Settling
<1>8. FreshInv(n) /\ BatchInv(n) /\ InsertInv(n) /\ ReplyInv(n)
  BY <1>3 DEF RequestInv, FreshInv, BatchInv, InsertInv, ReplyInv, Settling
<1>. QED  BY <1>2, <1>6, <1>7, <1>8 DEF RequestInv

(* The documents go to the server: none of them is applied yet.            *)
LEMMA EncodeEnds ==
    ASSUME NEW q \in RequestType, RequestInv(q), q.pc = "encode",
           q.cursor > Len(q.origIndex),
           NEW n, n = [q EXCEPT !.pc = "insert", !.todo = DOMAIN q.sent]
    PROVE  n \in RequestType /\ RequestInv(n)
<1>1. /\ q.cursor \in Nat /\ q.sent \in Seq(Nat) /\ q.origIndex \in Seq(Nat)
  BY DEF RequestType
<1>2. n \in RequestType
  <2>1. DOMAIN q.sent \in SUBSET Nat
    BY <1>1
  <2>. QED  BY <2>1 DEF RequestType, PCs
<1>3. /\ n.pc = "insert" /\ n.batch = q.batch /\ n.dev = q.dev /\ n.errs = q.errs
      /\ n.origIndex = q.origIndex /\ n.sent = q.sent /\ n.wErrors = q.wErrors
      /\ n.todo = DOMAIN q.sent /\ n.invalid = q.invalid /\ n.cursor = q.cursor
  BY DEF RequestType
<1>4. Encoded(n) = Encoded(q) /\ Validated(n) = Validated(q)
  BY <1>1, <1>3 DEF Encoded, Validated, Settling
<1>5. \A j : ValidRow(n, j) = ValidRow(q, j)
  BY <1>3 DEF ValidRow
<1>6. EncodingInv(n)
  BY <1>3, <1>4, <1>5 DEF RequestInv, EncodingInv, Settling
<1>7. ValidationInv(n)
  BY <1>1, <1>3, <1>4, <1>5 DEF RequestInv, ValidationInv, Settling
<1>8. FreshInv(n) /\ BatchInv(n) /\ InsertInv(n) /\ ReplyInv(n)
  BY <1>3 DEF RequestInv, FreshInv, BatchInv, InsertInv, ReplyInv, Settling
<1>. QED  BY <1>2, <1>6, <1>7, <1>8 DEF RequestInv

(* The server is done with document k: it is stored, or refused for a      *)
(* reason other than its key.                                              *)
LEMMA ServerAnswers ==
    ASSUME NEW q \in RequestType, RequestInv(q), q.pc = "insert", NEW k \in q.todo,
           NEW E \in SUBSET [index : {k}, code : {"E11000", "other"}],
           NEW n, n = [q EXCEPT !.todo = q.todo \ {k}, !.wErrors = q.wErrors \cup E],
           store[SentKey(q, k)] > 0 \/ E = {[index |-> k, code |-> "other"]}
    PROVE  n \in RequestType /\ RequestInv(n)
<1>1. k \in DOMAIN q.sent /\ k \in Nat
  BY DEF RequestInv, InsertInv, RequestType
<1>2. n \in RequestType
  <2>1. /\ q.todo \in SUBSET Nat
        /\ q.wErrors \in SUBSET [index : Nat, code : {"E11000", "other"}]
    BY DEF RequestType
  <2>2. q.wErrors \cup E \in SUBSET [index : Nat, code : {"E11000", "other"}]
    BY <1>1, <2>1
  <2>3. q.todo \ {k} \in SUBSET Nat
    BY <2>1
  <2>. QED  BY <2>2, <2>3 DEF RequestType
<1>3. /\ n.pc = "insert" /\ n.batch = q.batch /\ n.dev = q.dev /\ n.errs = q.errs
      /\ n.origIndex = q.origIndex /\ n.sent = q.sent /\ n.cursor = q.cursor
      /\ n.wErrors = q.wErrors \cup E /\ n.todo = q.todo \ {k} /\ n.invalid = q.invalid
  BY DEF RequestType
<1>4. Encoded(n) = Encoded(q) /\ Validated(n) = Validated(q)
  BY <1>3 DEF Encoded, Validated, Settling
<1>5. \A j : ValidRow(n, j) = ValidRow(q, j) /\ SentKey(n, j) = SentKey(q, j)
  BY <1>3 DEF ValidRow, SentKey
<1>6. InsertInv(n)
  <2>1. \A w \in E : w.index = k /\ w.code \in {"E11000", "other"}
    OBVIOUS
  <2>2. /\ q.todo \subseteq DOMAIN q.sent
        /\ \A w \in q.wErrors : w.index \in DOMAIN q.sent
        /\ \A w \in q.wErrors : w.code = "E11000" => store[SentKey(q, w.index)] > 0
        /\ \A j \in DOMAIN q.sent \ q.todo :
               \/ store[SentKey(q, j)] > 0
               \/ \E w \in q.wErrors : w.index = j /\ w.code = "other"
    BY DEF RequestInv, InsertInv
  <2>3. \A w \in n.wErrors : w.index \in DOMAIN n.sent
    BY <1>1, <1>3, <2>1, <2>2
  <2>4. \A w \in n.wErrors : w.code = "E11000" => store[SentKey(n, w.index)] > 0
    <3>. SUFFICES ASSUME NEW w \in n.wErrors, w.code = "E11000"
                  PROVE  store[SentKey(q, w.index)] > 0
      BY <1>5
    <3>1. CASE w \in E
      <4>1. E # {[index |-> k, code |-> "other"]}
        BY <3>1
      <4>. QED  BY <2>1, <3>1, <4>1
    <3>. QED  BY <1>3, <2>2, <3>1
  <2>5. \A j \in DOMAIN n.sent \ n.todo :
            \/ store[SentKey(n, j)] > 0
            \/ \E w \in n.wErrors : w.index = j /\ w.code = "other"
    <3>. SUFFICES ASSUME NEW j \in DOMAIN q.sent \ n.todo
                  PROVE  \/ store[SentKey(q, j)] > 0
                         \/ \E w \in n.wErrors : w.index = j /\ w.code = "other"
      BY <1>3, <1>5
    <3>1. CASE j = k
      <4>1. CASE E = {[index |-> k, code |-> "other"]}
        BY <1>3, <3>1, <4>1
      <4>. QED  BY <3>1, <4>1
    <3>2. CASE j \notin q.todo
      BY <1>3, <2>2, <3>2
    <3>. QED  BY <1>3, <3>1, <3>2
  <2>. QED  BY <1>3, <2>2, <2>3, <2>4, <2>5 DEF InsertInv
<1>7. EncodingInv(n)
  BY <1>3, <1>4, <1>5 DEF RequestInv, EncodingInv, Settling
<1>8. ValidationInv(n)
  BY <1>3, <1>4, <1>5 DEF RequestInv, ValidationInv, Settling
<1>9. FreshInv(n) /\ BatchInv(n) /\ ReplyInv(n)
  BY <1>3 DEF RequestInv, FreshInv, BatchInv, ReplyInv
<1>. QED  BY <1>2, <1>6, <1>7, <1>8, <1>9 DEF RequestInv

(* InsertMany returns with an answer for every document.                   *)
LEMMA InsertEnds ==
    ASSUME NEW q \in RequestType, RequestInv(q), q.pc = "insert", q.todo = {},
           NEW n, n = [q EXCEPT !.pc = "record"]
    PROVE  n \in RequestType /\ RequestInv(n)
<1>1. /\ n \in RequestType
      /\ n.pc = "record" /\ n.batch = q.batch /\ n.dev = q.dev /\ n.errs = q.errs
      /\ n.origIndex = q.origIndex /\ n.sent = q.sent /\ n.cursor = q.cursor
      /\ n.wErrors = q.wErrors /\ n.todo = q.todo /\ n.invalid = q.invalid
  BY DEF RequestType, PCs
<1>2. Encoded(n) = Encoded(q) /\ Validated(n) = Validated(q)
  BY <1>1 DEF Encoded, Validated, Settling
<1>3. \A j : ValidRow(n, j) = ValidRow(q, j) /\ SentKey(n, j) = SentKey(q, j)
  BY <1>1 DEF ValidRow, SentKey
<1>4. EncodingInv(n)
  BY <1>1, <1>2, <1>3 DEF RequestInv, EncodingInv, Settling
<1>5. ValidationInv(n)
  BY <1>1, <1>2, <1>3 DEF RequestInv, ValidationInv, Settling
<1>6. InsertInv(n)
  BY <1>1, <1>3 DEF RequestInv, InsertInv
<1>7. FreshInv(n) /\ BatchInv(n) /\ ReplyInv(n)
  BY <1>1 DEF RequestInv, FreshInv, BatchInv, ReplyInv
<1>. QED  BY <1>1, <1>4, <1>5, <1>6, <1>7 DEF RequestInv

(* An answer other than 200 says nothing of single rows.                   *)
LEMMA AnswerEnds ==
    ASSUME NEW q \in RequestType, RequestInv(q), q.pc # "idle", q.todo = {},
           NEW c \in Nat \ {200}, NEW n, n = [q EXCEPT !.pc = "reply", !.status = c]
    PROVE  n \in RequestType /\ RequestInv(n)
<1>1. /\ n \in RequestType /\ n.pc = "reply" /\ n.status = c
      /\ n.batch = q.batch /\ n.dev = q.dev /\ n.todo = {}
  BY DEF RequestType, PCs
<1>. QED
  BY <1>1 DEF RequestInv, FreshInv, BatchInv, ValidationInv, EncodingInv, InsertInv,
              ReplyInv, Settling

(* A body that could not be read leaves nothing behind.                    *)
LEMMA BodyEnds ==
    ASSUME NEW q \in RequestType, RequestInv(q), q.pc = "arrived",
           NEW c \in Nat \ {200}, NEW n,
           n = [q EXCEPT !.pc = "reply", !.status = c, !.body = "cut"]
    PROVE  n \in RequestType /\ RequestInv(n)
<1>1. /\ n.pc = "reply" /\ n.status = c /\ n.body = "cut"
      /\ n.batch = q.batch /\ n.dev = q.dev /\ n.todo = q.todo
      /\ n.origIndex = q.origIndex /\ n.sent = q.sent
  BY DEF RequestType
<1>2. n \in RequestType
  BY DEF RequestType, PCs
<1>3. q.todo = {} /\ q.origIndex = <<>> /\ q.sent = <<>>
  BY DEF RequestInv, FreshInv
<1>4. RequestInv(n)
  BY <1>1, <1>3 DEF RequestInv, FreshInv, BatchInv, ValidationInv, EncodingInv, InsertInv,
                    ReplyInv, Settling
<1>. QED  BY <1>2, <1>4

(* The answer built from the report is faithful: I-3 through both slices.  *)
LEMMA FinishEnds ==
    ASSUME NEW q \in RequestType, RequestInv(q), q.pc = "record",
           NEW n, n = [q EXCEPT !.errs = q.errs \cup ReportEntries(q),
                                !.pc = "reply", !.status = 200]
    PROVE  n \in RequestType /\ RequestInv(n)
<1>. DEFINE dup  == ReportedAs(q, "E11000")
            oth  == ReportedAs(q, "other")
            At(S, c) == {[index |-> q.origIndex[j], code |-> c] : j \in S}
<1>1. /\ q.todo = {}
      /\ q.batch \in Seq(Events) /\ q.origIndex \in Seq(Nat) /\ q.sent \in Seq(Nat)
      /\ q.errs \in SUBSET [index : Nat, code : Codes]
      /\ \A k \in DOMAIN q.sent : q.sent[k] \in DOMAIN q.origIndex
      /\ \A j \in q.invalid : j \in DOMAIN q.origIndex
      /\ \A w \in q.wErrors : w.index \in DOMAIN q.sent
  BY DEF RequestType, RequestInv, FreshInv, EncodingInv, InsertInv, Encoded, Settling
<1>2. dup \subseteq DOMAIN q.origIndex /\ oth \subseteq DOMAIN q.origIndex
  BY <1>1 DEF ReportedAs
<1>3. ReportEntries(q) = At(dup, CodeDuplicate)
                           \cup At(q.invalid \ dup, CodeInvalidSchema)
                           \cup At(oth \ (dup \cup q.invalid), CodeStorageUnavailable)
  BY DEF ReportEntries
<1>4. n \in RequestType
  <2>1. \A j \in DOMAIN q.origIndex : q.origIndex[j] \in Nat
    BY <1>1
  <2>2. {CodeDuplicate, CodeInvalidSchema, CodeStorageUnavailable} \subseteq Codes
    BY DEF Codes, TerminalCodes
  <2>3. ReportEntries(q) \in SUBSET [index : Nat, code : Codes]
    BY <1>1, <1>2, <1>3, <2>1, <2>2
  <2>4. q.errs \cup ReportEntries(q) \in SUBSET [index : Nat, code : Codes]
    BY <1>1, <2>3
  <2>5. "reply" \in PCs
    BY DEF PCs
  <2>. QED  BY <2>4, <2>5, ZenonT(40) DEF RequestType
<1>5. /\ n.pc = "reply" /\ n.status = 200 /\ n.batch = q.batch /\ n.dev = q.dev
      /\ n.todo = {} /\ n.errs = q.errs \cup ReportEntries(q)
  BY <1>1 DEF RequestType
<1>6. ASSUME NEW i \in DOMAIN q.batch, CodesAt(n, i) \cap TerminalCodes # {}
      PROVE  ~Storable(q.batch[i])
  <2>1. PICK x \in n.errs : x.index = i /\ x.code \in TerminalCodes
    BY <1>6 DEF CodesAt
  <2>2. q.batch[i] \in Events
    BY <1>1
  <2>3. CASE x \in q.errs
    <3>1. ~Valid(q.batch[i])
      BY <2>1, <2>3 DEF RequestInv, ValidationInv, Settling
    <3>. QED  BY <2>2, <3>1, StorableIsComputed
  <2>4. CASE x \in At(q.invalid \ dup, CodeInvalidSchema)
    <3>1. PICK j \in q.invalid : q.origIndex[j] = i
      BY <2>1, <2>4
    <3>2. ~Encodable(Raw[q.batch[i]])
      BY <3>1 DEF RequestInv, EncodingInv, Settling, ValidRow
    <3>. QED  BY <2>2, <3>2, StorableIsComputed
  <2>5. CASE x \in At(dup, CodeDuplicate)
                 \cup At(oth \ (dup \cup q.invalid), CodeStorageUnavailable)
    BY <2>1, <2>5 DEF TerminalCodes, CodeDuplicate, CodeStorageUnavailable,
                      CodeInvalidSchema, CodeValidationFailed
  <2>. QED  BY <1>3, <1>5, <2>1, <2>3, <2>4, <2>5
<1>7. ASSUME NEW i \in DOMAIN q.batch, CodesAt(n, i) \subseteq {CodeDuplicate}
      PROVE  Stored(q.batch[i])
  <2>. DEFINE e == q.batch[i]
  <2>1. \A x \in n.errs : x.index = i => x.code = CodeDuplicate
    BY <1>7 DEF CodesAt
  <2>2. Validated(q) = DOMAIN q.batch /\ Encoded(q) = DOMAIN q.origIndex
    BY DEF Validated, Encoded, Settling
  <2>3. Valid(e)
    <3>1. CodeDuplicate \notin TerminalCodes
      BY DEF TerminalCodes, CodeDuplicate, CodeInvalidSchema, CodeValidationFailed
    <3>2. ~(\E x \in q.errs : x.index = i /\ x.code \in TerminalCodes)
      BY <1>5, <2>1, <3>1
    <3>. QED  BY <2>2, <3>2 DEF RequestInv, ValidationInv, Settling
  <2>4. PICK j \in DOMAIN q.origIndex : q.origIndex[j] = i
    BY <2>2, <2>3 DEF RequestInv, ValidationInv, Settling
  <2>6. \A k \in DOMAIN q.sent : q.sent[k] = j => SentKey(q, k) = RowKey(e)
    BY <2>4 DEF SentKey, ValidRow, RowKey, RequestInv, BatchInv
  <2>7. j \in dup => store[RowKey(e)] > 0
    BY <1>1, <2>6, SMTT(30) DEF ReportedAs, RequestInv, InsertInv
  <2>8. j \notin q.invalid \ dup
    <3>. SUFFICES ASSUME j \in q.invalid \ dup PROVE FALSE
      OBVIOUS
    <3>1. [index |-> i, code |-> CodeInvalidSchema] \in n.errs
      <4>1. [index |-> i, code |-> CodeInvalidSchema] \in At(q.invalid \ dup, CodeInvalidSchema)
        BY <2>4
      <4>. HIDE DEF At, dup, oth
      <4>. QED  BY <1>3, <1>5, <4>1
    <3>. QED  BY <2>1, <3>1 DEF CodeDuplicate, CodeInvalidSchema
  <2>9. j \notin oth \ (dup \cup q.invalid)
    <3>. SUFFICES ASSUME j \in oth \ (dup \cup q.invalid) PROVE FALSE
      OBVIOUS
    <3>1. [index |-> i, code |-> CodeStorageUnavailable] \in n.errs
      <4>1. [index |-> i, code |-> CodeStorageUnavailable] \in At(oth \ (dup \cup q.invalid), CodeStorageUnavailable)
        BY <2>4
      <4>. HIDE DEF At, dup, oth
      <4>. QED  BY <1>3, <1>5, <4>1
    <3>. QED  BY <2>1, <3>1 DEF CodeDuplicate, CodeStorageUnavailable
  <2>10. j \notin q.invalid
    <3>1. j \in dup => Encodable(Raw[ValidRow(q, j)])
      BY <1>1 DEF ReportedAs, RequestInv, EncodingInv, Settling
    <3>2. j \in q.invalid => ~Encodable(Raw[ValidRow(q, j)])
      BY DEF RequestInv, EncodingInv, Settling
    <3>. QED  BY <2>8, <3>1, <3>2
  <2>11. Encodable(Raw[ValidRow(q, j)])
    BY <2>2, <2>10 DEF RequestInv, EncodingInv, Settling
  <2>12. PICK k \in DOMAIN q.sent : q.sent[k] = j
    BY <2>2, <2>11 DEF RequestInv, EncodingInv, Settling
  <2>13. store[RowKey(e)] > 0
    <3>1. CASE store[SentKey(q, k)] > 0
      BY <2>6, <2>12, <3>1
    <3>2. CASE \E w \in q.wErrors : w.index = k /\ w.code = "other"
      <4>1. j \in oth
        BY <2>12, <3>2 DEF ReportedAs
      <4>. QED  BY <2>7, <2>9, <2>10, <4>1
    <3>. QED  BY <1>1, <3>1, <3>2 DEF RequestInv, InsertInv
  <2>14. e \in Events /\ Encodable(Raw[e])
    BY <1>1, <2>4, <2>11 DEF ValidRow
  <2>. QED  BY <2>3, <2>13, <2>14, StorableIsComputed DEF Stored
<1>8. ReplyInv(n)
  BY <1>5, <1>6, <1>7 DEF ReplyInv
<1>9. /\ FreshInv(n) /\ BatchInv(n) /\ ValidationInv(n) /\ EncodingInv(n)
      /\ InsertInv(n)
  BY <1>5 DEF RequestInv, FreshInv, BatchInv, ValidationInv, EncodingInv, InsertInv,
              Settling
<1>. QED  BY <1>4, <1>8, <1>9 DEF RequestInv

-----------------------------------------------------------------------------
(* The whole system, one step at a time.                                   *)

(* A step that only moves one request keeps the invariant when the request *)
(* it leaves behind is in order.                                           *)
LEMMA MoveFrame ==
    ASSUME IInv, NEW r \in Requests, NEW n \in RequestType, RequestInv(n),
           req' = [req EXCEPT ![r] = n],
           n.pc # "idle" => /\ req[r].pc # "idle"
                            /\ n.dev = req[r].dev /\ n.batch = req[r].batch,
           UNCHANGED <<procVars, edgeVars, store>>,
           orphans' \subseteq Tenants \X EventIds, OrphansInv',
           orphans' # {} => index = "tenant",
           lastSeen' \subseteq Devices, faults' \in 0..MaxFaults,
           n.pc = "insert" => proc = "serving",
           (n.pc = "reply" /\ n.status = 400) =>
               /\ ~EnvelopeOK(n.batch) \/ n.body = "cut"
               /\ n.origIndex = <<>> /\ n.sent = <<>>
    PROVE  IInv'
<1>. USE DEF procVars, edgeVars
<1>1. TypeOK /\ req \in [Requests -> RequestType]
  BY DEF IInv, TypeOK
<1>2. req'[r] = n /\ \A s \in Requests \ {r} : req'[s] = req[s]
  BY <1>1
<1>3. TypeOK'
  BY <1>1, <1>2 DEF TypeOK
<1>4. \A s \in Requests : RequestInv(req[s])'
  <2>. SUFFICES ASSUME NEW s \in Requests PROVE RequestInv(req[s])'
    OBVIOUS
  <2>1. CASE s = r
    <3>1. FreshInv(req[s])' /\ BatchInv(req[s])'
      BY <1>2, <2>1 DEF RequestInv, FreshInv, BatchInv
    <3>2. ValidationInv(req[s])'
      BY <1>2, <2>1 DEF RequestInv, ValidationInv, Validated, ValidRow
    <3>3. EncodingInv(req[s])'
      <4>1. Encoded(req[s])' = Encoded(n)
        BY <1>2, <2>1 DEF Encoded
      <4>2. \A j : ValidRow(req[s], j)' = ValidRow(n, j)
        BY <1>2, <2>1 DEF ValidRow
      <4>. QED  BY <1>2, <2>1, <4>1, <4>2 DEF RequestInv, EncodingInv
    <3>4. InsertInv(req[s])'
      <4>1. \A k : SentKey(req[s], k)' = SentKey(n, k)
        BY <1>2, <2>1 DEF SentKey, ValidRow
      <4>. QED  BY <1>2, <2>1, <4>1 DEF RequestInv, InsertInv
    <3>5. ReplyInv(req[s])'
      BY <1>2, <2>1 DEF RequestInv, ReplyInv, CodesAt, Stored
    <3>. QED  BY <3>1, <3>2, <3>3, <3>4, <3>5 DEF RequestInv
  <2>2. CASE s # r
    <3>1. \A k \in Tenants \X EventIds : store'[k] >= store[k]
      BY <1>1 DEF TypeOK
    <3>. QED  BY <1>1, <1>2, <1>3, <2>2, <3>1, RequestFrame DEF IInv
  <2>. QED  BY <2>1, <2>2
<1>5. IndexInv'
  BY <1>2 DEF IInv, IndexInv
<1>6. AwaitedInv' /\ BadRequestIsEnvelope'
  BY <1>2 DEF IInv, AwaitedInv, BadRequestIsEnvelope
<1>7. NoDuplicates' /\ StoredOnlyByOwner' /\ AckedIsStored' /\ DeadIsUnstorable' /\ CauseInv'
  BY DEF IInv, NoDuplicates, StoredOnlyByOwner, AckedIsStored, CauseInv, DeadIsUnstorable, Stored
<1>. QED  BY <1>3, <1>4, <1>5, <1>6, <1>7 DEF IInv

(* The same, when MongoDB is not involved at all.                          *)
LEMMA HandlerFrame ==
    ASSUME IInv, NEW r \in Requests, NEW n \in RequestType, RequestInv(n),
           req' = [req EXCEPT ![r] = n], req[r].pc # "idle",
           n.dev = req[r].dev, n.batch = req[r].batch,
           UNCHANGED <<procVars, edgeVars, mongoVars>>,
           lastSeen' \subseteq Devices, faults' \in 0..MaxFaults,
           n.pc = "insert" => proc = "serving",
           (n.pc = "reply" /\ n.status = 400) =>
               /\ ~EnvelopeOK(n.batch) \/ n.body = "cut"
               /\ n.origIndex = <<>> /\ n.sent = <<>>
    PROVE  IInv'
<1>1. store' = store /\ orphans' = orphans /\ UNCHANGED <<procVars, edgeVars>>
  BY DEF mongoVars
<1>2. /\ orphans' \subseteq Tenants \X EventIds
      /\ orphans' # {} => index = "tenant"
  BY <1>1 DEF IInv, TypeOK, IndexInv
<1>3. OrphansInv'
  BY <1>1 DEF IInv, OrphansInv
<1>. QED  BY <1>1, <1>2, <1>3, MoveFrame

(* The handler's steps, IngestEvents to FinishBatch.                       *)
LEMMA HandlerInv ==
    ASSUME IInv, NEW r \in Requests, Handler(r)
    PROVE  IInv'
<1>. DEFINE q == req[r]
<1>1. /\ q \in RequestType /\ RequestInv(q) /\ req \in [Requests -> RequestType]
      /\ lastSeen \subseteq Devices /\ faults \in 0..MaxFaults
      /\ MaxFaults \in Nat /\ (q.pc # "idle" => q.dev \in Devices)
  BY IngestAssumption DEF IInv, TypeOK
<1>2. q.pc # "insert" => q.todo = {}
  BY <1>1 DEF RequestInv, FreshInv
<1>3. ASSUME NEW c \in Nat \ {200}, Answer(r, c), q.pc \notin {"idle", "insert"},
             c = 400 => q.pc = "arrived" /\ ~EnvelopeOK(q.batch),
             UNCHANGED <<procVars, edgeVars, mongoVars, lastSeen, faults>>
      PROVE  IInv'
  <2>. DEFINE n == [q EXCEPT !.pc = "reply", !.status = c]
  <2>1. req' = [req EXCEPT ![r] = n]
    BY <1>1, <1>3 DEF Answer
  <2>2. n \in RequestType /\ RequestInv(n)
    BY <1>1, <1>2, <1>3, AnswerEnds
  <2>3. /\ n.pc = "reply" /\ n.status = c /\ n.dev = q.dev /\ n.batch = q.batch
        /\ c = 400 => n.origIndex = <<>> /\ n.sent = <<>>
    BY <1>1, <1>3 DEF RequestType, RequestInv, FreshInv
  <2>. HIDE DEF n
  <2>. QED  BY <1>1, <1>3, <2>1, <2>2, <2>3, HandlerFrame
<1>4. CASE IngestEvents(r)
  <2>. DEFINE n == [q EXCEPT !.pc = "validate"]
  <2>1. q.pc = "arrived" /\ req' = [req EXCEPT ![r] = n]
    BY <1>1, <1>4 DEF IngestEvents
  <2>2. /\ n \in RequestType /\ n.pc = "validate" /\ n.dev = q.dev /\ n.batch = q.batch
        /\ n.cursor = 1 /\ n.origIndex = <<>> /\ n.sent = <<>> /\ n.invalid = {}
        /\ n.errs = {} /\ n.wErrors = {} /\ n.todo = {}
    BY <1>1, <2>1 DEF RequestType, PCs, RequestInv, FreshInv
  <2>3. Validated(n) = {}
    BY <2>2 DEF Validated, Settling, RequestType
  <2>4. RequestInv(n)
    BY <1>1, <2>1, <2>2, <2>3 DEF RequestInv, FreshInv, BatchInv, ValidationInv,
       EncodingInv, InsertInv, ReplyInv, Settling
  <2>. HIDE DEF n
  <2>. QED  BY <1>1, <1>4, <2>1, <2>2, <2>4, HandlerFrame DEF IngestEvents
<1>5. CASE RejectEnvelope(r)
  BY <1>3, <1>5 DEF RejectEnvelope
<1>6. CASE ValidateNext(r)
  <2>. DEFINE v == ValidateEvent(Raw[q.batch[q.cursor]], q.dev)
              n == IF v = "ok"
                   THEN [q EXCEPT !.cursor = q.cursor + 1,
                                  !.origIndex = Append(q.origIndex, q.cursor)]
                   ELSE [q EXCEPT !.cursor = q.cursor + 1,
                                  !.errs = q.errs \cup {[index |-> q.cursor, code |-> v]}]
  <2>1. /\ q.pc = "validate" /\ q.cursor <= Len(q.batch)
        /\ req' = [req EXCEPT ![r] = n]
    BY <1>1, <1>6 DEF ValidateNext
  <2>2. n \in RequestType /\ RequestInv(n)
    BY <1>1, <2>1, ValidatePass, ValidateFail
  <2>3. n.pc = "validate" /\ n.dev = q.dev /\ n.batch = q.batch
    BY <1>1, <2>1 DEF RequestType
  <2>. HIDE DEF n
  <2>. QED  BY <1>1, <1>6, <2>1, <2>2, <2>3, HandlerFrame DEF ValidateNext
<1>7. CASE ValidateDone(r)
  <2>. DEFINE n == IF q.origIndex = <<>>
                   THEN [q EXCEPT !.pc = "reply", !.status = 200]
                   ELSE [q EXCEPT !.pc = "encode", !.cursor = 1]
  <2>1. /\ q.pc = "validate" /\ q.cursor > Len(q.batch)
        /\ req' = [req EXCEPT ![r] = n]
    BY <1>1, <1>7 DEF ValidateDone, Answer
  <2>2. n \in RequestType /\ RequestInv(n)
    BY <1>1, <2>1, ValidateEnds, ZenonT(40)
  <2>3. /\ n.pc \in {"reply", "encode"} /\ n.dev = q.dev /\ n.batch = q.batch
        /\ n.pc = "reply" => n.status # 400
    BY <1>1, <2>1 DEF RequestType
  <2>. HIDE DEF n
  <2>. QED  BY <1>1, <1>7, <2>1, <2>2, <2>3, HandlerFrame, ZenonT(60) DEF ValidateDone
<1>8. CASE InsertUnavailable(r)
  BY <1>3, <1>8 DEF InsertUnavailable, InsertFailed
<1>9. CASE EncodeNext(r)
  <2>. DEFINE n == IF Encodable(Raw[ValidRow(q, q.cursor)])
                   THEN [q EXCEPT !.cursor = q.cursor + 1,
                                  !.sent = Append(q.sent, q.cursor)]
                   ELSE [q EXCEPT !.cursor = q.cursor + 1,
                                  !.invalid = q.invalid \cup {q.cursor}]
  <2>1. /\ q.pc = "encode" /\ q.cursor <= Len(q.origIndex)
        /\ req' = [req EXCEPT ![r] = n]
    BY <1>1, <1>9 DEF EncodeNext
  <2>2. n \in RequestType /\ RequestInv(n)
    BY <1>1, <2>1, EncodePass, EncodeFail
  <2>3. n.pc = "encode" /\ n.dev = q.dev /\ n.batch = q.batch
    BY <1>1, <2>1 DEF RequestType
  <2>. HIDE DEF n
  <2>. QED  BY <1>1, <1>9, <2>1, <2>2, <2>3, HandlerFrame DEF EncodeNext
<1>10. CASE EncodeDone(r)
  <2>. DEFINE n == [q EXCEPT !.pc = "insert", !.todo = DOMAIN q.sent]
  <2>1. /\ q.pc = "encode" /\ q.cursor > Len(q.origIndex)
        /\ req' = [req EXCEPT ![r] = n]
    BY <1>1, <1>10 DEF EncodeDone
  <2>2. n \in RequestType /\ RequestInv(n)
    BY <1>1, <2>1, EncodeEnds
  <2>3. n.pc = "insert" /\ n.dev = q.dev /\ n.batch = q.batch
    BY <1>1, <2>1 DEF RequestType
  <2>. HIDE DEF n
  <2>. QED  BY <1>1, <1>10, <2>1, <2>2, <2>3, HandlerFrame DEF EncodeDone
<1>11. CASE InsertReturns(r)
  <2>. DEFINE n == [q EXCEPT !.pc = "record"]
  <2>1. q.pc = "insert" /\ q.todo = {} /\ req' = [req EXCEPT ![r] = n]
    BY <1>1, <1>11 DEF InsertReturns
  <2>2. n \in RequestType /\ RequestInv(n)
    BY <1>1, <2>1, InsertEnds
  <2>3. n.pc = "record" /\ n.dev = q.dev /\ n.batch = q.batch
    BY <1>1, <2>1 DEF RequestType
  <2>. HIDE DEF n
  <2>. QED  BY <1>1, <1>11, <2>1, <2>2, <2>3, HandlerFrame DEF InsertReturns
<1>12. CASE FailBatch(r)
  BY <1>3, <1>12 DEF FailBatch, InsertFailed
<1>13. CASE FinishBatch(r)
  <2>. DEFINE n == [q EXCEPT !.errs = q.errs \cup ReportEntries(q),
                             !.pc = "reply", !.status = 200]
  <2>1. q.pc = "record" /\ req' = [req EXCEPT ![r] = n]
    BY <1>1, <1>13 DEF FinishBatch
  <2>2. n \in RequestType /\ RequestInv(n)
    BY <1>1, <2>1, FinishEnds
  <2>3. n.pc = "reply" /\ n.status # 400 /\ n.dev = q.dev /\ n.batch = q.batch
    BY <1>1, <2>1 DEF RequestType
  <2>4. lastSeen' \subseteq Devices /\ faults' \in 0..MaxFaults
    BY <1>1, <1>13, <2>1 DEF FinishBatch, RecordActivity, Fault
  <2>. HIDE DEF n
  <2>. QED  BY <1>1, <1>13, <2>1, <2>2, <2>3, <2>4, HandlerFrame, ZenonT(60) DEF FinishBatch
<1>. QED
  BY <1>4, <1>5, <1>6, <1>7, <1>8, <1>9, <1>10, <1>11, <1>12, <1>13 DEF Handler

(* An idle slot asks nothing of the invariant.                             *)
LEMMA IdleInOrder == Idle \in RequestType /\ RequestInv(Idle) /\ Idle.pc = "idle" /\ Idle.todo = {}
BY DEF Idle, Request, RequestType, PCs, RequestInv, FreshInv, BatchInv, ValidationInv,
       EncodingInv, InsertInv, ReplyInv, Settling

(* What a request leaves unapplied belongs to storable rows.               *)
LEMMA UnappliedIsStorable ==
    ASSUME IInv, NEW r \in Requests, NEW k \in Unapplied(req[r])
    PROVE  /\ k \in Tenants \X EventIds
           /\ \E e \in Events : Storable(e) /\ RowKey(e) = k
           /\ index = "tenant"
<1>1. req[r] \in RequestType /\ RequestInv(req[r])
  BY DEF IInv, TypeOK
<1>2. PICK j \in req[r].todo : k = SentKey(req[r], j)
  BY DEF Unapplied
<1>3. req[r].pc = "insert" /\ j \in DOMAIN req[r].sent
  BY <1>1, <1>2 DEF RequestInv, FreshInv, InsertInv
<1>4. index = "tenant"
  BY <1>3 DEF IInv, IndexInv
<1>. QED  BY <1>1, <1>2, <1>3, <1>4, SentIsStorable

(* One more document, under the unique index of tenant and eventId.        *)
LEMMA WriteInv ==
    ASSUME IInv, index = "tenant", NEW e \in Events, Storable(e), outbox' = outbox,
           cause' = cause,
           store' = IF IndexHit(RowKey(e)) THEN store
                    ELSE [store EXCEPT ![RowKey(e)] = @ + 1]
    PROVE  /\ store' \in [Tenants \X EventIds -> Nat]
           /\ \A k \in Tenants \X EventIds : store'[k] >= store[k]
           /\ store'[RowKey(e)] > 0
           /\ NoDuplicates' /\ StoredOnlyByOwner' /\ AckedIsStored' /\ DeadIsUnstorable' /\ CauseInv'
<1>1. store \in [Tenants \X EventIds -> Nat]
  BY DEF IInv, TypeOK
<1>2. RowKey(e) \in Tenants \X EventIds
  BY StorableIsComputed, ValidKey
<1>3. IndexHit(RowKey(e)) <=> store[RowKey(e)] > 0
  BY DEF IndexHit
<1>4. /\ store' \in [Tenants \X EventIds -> Nat]
      /\ \A k \in Tenants \X EventIds : store'[k] >= store[k]
      /\ store'[RowKey(e)] > 0
      /\ \A k \in Tenants \X EventIds : k # RowKey(e) => store'[k] = store[k]
  BY <1>1, <1>2, <1>3
<1>5. NoDuplicates'
  BY <1>1, <1>2, <1>3 DEF IInv, NoDuplicates
<1>6. StoredOnlyByOwner'
  BY <1>4 DEF IInv, StoredOnlyByOwner
<1>7. AckedIsStored'
  <2>. SUFFICES ASSUME NEW x \in Events, outbox[x] = "acked"
                PROVE  Storable(x) /\ store'[RowKey(x)] > 0
    BY DEF AckedIsStored, Stored
  <2>1. Storable(x) /\ store[RowKey(x)] > 0
    BY DEF IInv, AckedIsStored, Stored
  <2>2. RowKey(x) \in Tenants \X EventIds
    BY <2>1, StorableIsComputed, ValidKey
  <2>. QED  BY <1>1, <1>4, <2>1, <2>2
<1>8. DeadIsUnstorable' /\ CauseInv'
  BY DEF IInv, DeadIsUnstorable, CauseInv
<1>. QED  BY <1>4, <1>5, <1>6, <1>7, <1>8

(* MongoDB applies or refuses one document of a running call.              *)
LEMMA MongoInv ==
    ASSUME IInv, NEW r \in Requests, NEW k \in req[r].todo,
           MongoApply(r, k) \/ MongoReject(r, k)
    PROVE  IInv'
<1>. DEFINE q == req[r]
<1>1. /\ q \in RequestType /\ RequestInv(q) /\ req \in [Requests -> RequestType]
      /\ lastSeen \subseteq Devices /\ faults \in 0..MaxFaults /\ MaxFaults \in Nat
      /\ store \in [Tenants \X EventIds -> Nat]
  BY IngestAssumption DEF IInv, TypeOK
<1>2. q.pc = "insert" /\ proc = "serving" /\ index = "tenant"
  BY DEF MongoApply, MongoReject, IInv, IndexInv
<1>3. k \in DOMAIN q.sent
  BY <1>1, <1>2 DEF RequestInv, InsertInv
<1>4. PICK e \in Events : Storable(e) /\ SentKey(q, k) = RowKey(e)
  BY <1>1, <1>2, <1>3, SentIsStorable
<1>5. ASSUME NEW E \in SUBSET [index : {k}, code : {"E11000", "other"}],
             store[SentKey(q, k)] > 0 \/ E = {[index |-> k, code |-> "other"]},
             req' = [req EXCEPT ![r] = [q EXCEPT !.todo = q.todo \ {k},
                                                 !.wErrors = q.wErrors \cup E]],
             UNCHANGED <<procVars, edgeVars, mongoVars, lastSeen>>,
             faults' \in 0..MaxFaults
      PROVE  IInv'
  <2>. DEFINE n == [q EXCEPT !.todo = q.todo \ {k}, !.wErrors = q.wErrors \cup E]
  <2>1. n \in RequestType /\ RequestInv(n)
    BY <1>1, <1>2, <1>5, ServerAnswers
  <2>2. n.pc = "insert" /\ n.dev = q.dev /\ n.batch = q.batch
    BY <1>1, <1>2 DEF RequestType
  <2>3. req' = [req EXCEPT ![r] = n]
    BY <1>5
  <2>. HIDE DEF n
  <2>. QED  BY <1>1, <1>2, <1>5, <2>1, <2>2, <2>3, HandlerFrame
<1>6. CASE MongoReject(r, k)
  <2>. DEFINE E == {[index |-> k, code |-> "other"]}
  <2>1. E \in SUBSET [index : {k}, code : {"E11000", "other"}]
    OBVIOUS
  <2>2. req' = [req EXCEPT ![r] = [q EXCEPT !.todo = q.todo \ {k},
                                            !.wErrors = q.wErrors \cup E]]
    BY <1>1, <1>6 DEF MongoReject
  <2>3. faults' \in 0..MaxFaults
    BY <1>1, <1>6 DEF MongoReject, Fault
  <2>. QED  BY <1>5, <1>6, <2>1, <2>2, <2>3 DEF MongoReject
<1>7. CASE MongoApply(r, k) /\ IndexHit(SentKey(q, k))
  <2>. DEFINE E == {[index |-> k, code |-> "E11000"]}
  <2>1. E \in SUBSET [index : {k}, code : {"E11000", "other"}]
    OBVIOUS
  <2>2. /\ req' = [req EXCEPT ![r] = [q EXCEPT !.todo = q.todo \ {k},
                                               !.wErrors = q.wErrors \cup E]]
        /\ store' = store
    BY <1>1, <1>7 DEF MongoApply
  <2>3. store[SentKey(q, k)] > 0
    BY <1>2, <1>7 DEF IndexHit
  <2>. QED  BY <1>1, <1>5, <1>7, <2>1, <2>2, <2>3 DEF MongoApply, mongoVars
<1>8. CASE MongoApply(r, k) /\ ~IndexHit(SentKey(q, k))
  <2>. DEFINE n == [q EXCEPT !.todo = q.todo \ {k}]
  <2>1. /\ req' = [req EXCEPT ![r] = n]
        /\ store' = [store EXCEPT ![SentKey(q, k)] = @ + 1]
        /\ UNCHANGED <<procVars, edgeVars, orphans, lastSeen, faults>>
    <3>1. q.wErrors \cup {} = q.wErrors
      OBVIOUS
    <3>2. [q EXCEPT !.todo = q.todo \ {k}, !.wErrors = q.wErrors] = n
      BY <1>1 DEF RequestType
    <3>. QED  BY <1>1, <1>8, <3>1, <3>2 DEF MongoApply
  <2>. USE DEF procVars, edgeVars
  <2>2. /\ n \in RequestType /\ n.pc = "insert" /\ n.dev = q.dev /\ n.batch = q.batch
        /\ n.cursor = q.cursor /\ n.origIndex = q.origIndex /\ n.sent = q.sent
        /\ n.todo = q.todo \ {k} /\ n.wErrors = q.wErrors /\ n.invalid = q.invalid
        /\ n.errs = q.errs
    BY <1>1, <1>2 DEF RequestType
  <2>. HIDE DEF n
  <2>3. req'[r] = n /\ \A s \in Requests \ {r} : req'[s] = req[s]
    BY <1>1, <2>1
  <2>4. /\ store' \in [Tenants \X EventIds -> Nat]
        /\ \A x \in Tenants \X EventIds : store'[x] >= store[x]
        /\ store'[RowKey(e)] > 0
        /\ NoDuplicates' /\ StoredOnlyByOwner' /\ AckedIsStored' /\ DeadIsUnstorable' /\ CauseInv'
    BY <1>2, <1>4, <1>8, <2>1, WriteInv
  <2>5. TypeOK'
    <3>1. req' \in [Requests -> RequestType]
      BY <1>1, <2>1, <2>2
    <3>2. \A s \in Requests : req'[s].pc # "idle" => req'[s].dev \in Devices
      BY <1>2, <2>2, <2>3 DEF IInv, TypeOK
    <3>. QED  BY <2>1, <2>4, <3>1, <3>2 DEF IInv, TypeOK
  <2>6. \A s \in Requests \ {r} : RequestInv(req[s])'
    BY <2>3, <2>4, <2>5, RequestFrame DEF IInv
  <2>7. RequestInv(req[r])'
    <3>1. InsertInv(req[r])'
      <4>1. \A j : SentKey(req[r], j)' = SentKey(q, j)
        BY <2>2, <2>3 DEF SentKey, ValidRow
      <4>2. \A j \in DOMAIN q.sent : SentKey(q, j) \in Tenants \X EventIds
        BY <1>1, <1>2, SentIsStorable
      <4>3. \A j \in DOMAIN q.sent : store[SentKey(q, j)] > 0 => store'[SentKey(q, j)] > 0
        BY <1>1, <2>4, <4>2
      <4>. QED  BY <1>2, <1>4, <2>2, <2>3, <2>4, <4>1, <4>3 DEF InsertInv, RequestInv, IInv
    <3>2. /\ FreshInv(req[r])' /\ BatchInv(req[r])' /\ ReplyInv(req[r])'
      BY <1>1, <1>2, <2>2, <2>3 DEF RequestInv, FreshInv, BatchInv, ReplyInv
    <3>3. ValidationInv(req[r])'
      <4>1. \A j : ValidRow(req[r], j)' = ValidRow(q, j)
        BY <2>2, <2>3 DEF ValidRow
      <4>2. Validated(req[r])' = Validated(q)
        BY <1>2, <2>2, <2>3 DEF Validated
      <4>. QED  BY <1>1, <1>2, <2>2, <2>3, <4>1, <4>2 DEF RequestInv, ValidationInv
    <3>4. EncodingInv(req[r])'
      <4>1. \A j : ValidRow(req[r], j)' = ValidRow(q, j)
        BY <2>2, <2>3 DEF ValidRow
      <4>2. Encoded(req[r])' = Encoded(q)
        BY <1>2, <2>2, <2>3 DEF Encoded
      <4>. QED  BY <1>1, <1>2, <2>2, <2>3, <4>1, <4>2 DEF RequestInv, EncodingInv
    <3>. QED  BY <3>1, <3>2, <3>3, <3>4 DEF RequestInv
  <2>8. IndexInv' /\ OrphansInv'
    BY <1>2, <2>1, <2>2, <2>3 DEF IInv, IndexInv, OrphansInv
  <2>9. AwaitedInv' /\ BadRequestIsEnvelope'
    BY <1>2, <2>1, <2>2, <2>3 DEF IInv, AwaitedInv, BadRequestIsEnvelope
  <2>. QED  BY <2>4, <2>5, <2>6, <2>7, <2>8, <2>9 DEF IInv
<1>. QED  BY <1>6, <1>7, <1>8

(* A step that touches neither the store nor the requests, rows or answers.*)
LEMMA QuietFrame ==
    ASSUME IInv, TypeOK', IndexInv', OrphansInv', AwaitedInv', BadRequestIsEnvelope',
           req' = req, UNCHANGED <<store, outbox, cause>>
    PROVE  IInv'
<1>1. \A k \in Tenants \X EventIds : store'[k] >= store[k]
  BY DEF IInv, TypeOK
<1>2. \A r \in Requests : RequestInv(req[r])'
  BY <1>1, RequestFrame DEF IInv
<1>3. NoDuplicates' /\ StoredOnlyByOwner' /\ AckedIsStored' /\ DeadIsUnstorable' /\ CauseInv'
  BY DEF IInv, NoDuplicates, StoredOnlyByOwner, AckedIsStored, CauseInv, DeadIsUnstorable, Stored
<1>. QED  BY <1>2, <1>3 DEF IInv

(* Boots, the crash, and the late writes of abandoned calls.               *)
LEMMA ProcessInv ==
    ASSUME IInv, Boot \/ BootDegraded \/ BootFails \/ Crash
    PROVE  IInv'
<1>. USE DEF procVars, edgeVars, mongoVars
<1>1. TypeOK /\ MaxFaults \in Nat
  BY IngestAssumption DEF IInv
<1>2. CASE Boot \/ BootDegraded \/ BootFails
  <2>1. /\ UNCHANGED <<edgeVars, mongoVars, req, lastSeen>>
        /\ proc = "down"
    BY <1>2 DEF Boot, BootDegraded, BootFails
  <2>2. TypeOK'
    BY <1>1, <1>2, <2>1 DEF TypeOK, Boot, EnsureIndexes, BootDegraded, BootFails, Fault
  <2>3. IndexInv'
    BY <1>2, <2>1 DEF IInv, IndexInv, Boot, EnsureIndexes, BootDegraded, BootFails
  <2>4. OrphansInv' /\ AwaitedInv' /\ BadRequestIsEnvelope'
    BY <2>1 DEF IInv, OrphansInv, AwaitedInv, BadRequestIsEnvelope
  <2>. QED  BY <2>1, <2>2, <2>3, <2>4, QuietFrame
<1>3. CASE Crash
  <2>1. /\ req' = [r \in Requests |-> Idle]
        /\ orphans' = orphans \cup UNION {Unapplied(req[r]) : r \in Requests}
        /\ UNCHANGED <<index, store, outbox, cause, lastSeen>>
        /\ waiting' = [d \in Devices |-> NoRequest] /\ proc' = "down"
        /\ faults' \in 0..MaxFaults
    BY <1>1, <1>3 DEF Crash, Fault, TypeOK
  <2>2. \A k \in orphans' : /\ k \in Tenants \X EventIds
                            /\ \E e \in Events : Storable(e) /\ RowKey(e) = k
                            /\ index = "tenant"
    <3>. SUFFICES ASSUME NEW k \in orphans'
                  PROVE  /\ k \in Tenants \X EventIds
                         /\ \E e \in Events : Storable(e) /\ RowKey(e) = k
                         /\ index = "tenant"
      OBVIOUS
    <3>1. CASE k \in orphans
      BY <1>1, <3>1 DEF IInv, TypeOK, OrphansInv, IndexInv
    <3>2. CASE \E r \in Requests : k \in Unapplied(req[r])
      BY <3>2, UnappliedIsStorable
    <3>. QED  BY <2>1, <3>1, <3>2
  <2>3. TypeOK'
    BY <1>1, <2>1, <2>2, IdleInOrder DEF TypeOK
  <2>4. \A r \in Requests : RequestInv(req[r])'
    BY <2>1, IdleInOrder DEF RequestInv, FreshInv, BatchInv, ValidationInv, EncodingInv,
                             InsertInv, ReplyInv, Settling
  <2>5. IndexInv' /\ OrphansInv'
    BY <2>1, <2>2, IdleInOrder DEF IndexInv, OrphansInv
  <2>6. AwaitedInv' /\ BadRequestIsEnvelope'
    BY <2>1, IdleInOrder DEF AwaitedInv, BadRequestIsEnvelope
  <2>7. NoDuplicates' /\ StoredOnlyByOwner' /\ AckedIsStored' /\ DeadIsUnstorable' /\ CauseInv'
    BY <2>1 DEF IInv, NoDuplicates, StoredOnlyByOwner, AckedIsStored, CauseInv, DeadIsUnstorable,
                Stored
  <2>. QED  BY <2>3, <2>4, <2>5, <2>6, <2>7 DEF IInv
<1>. QED  BY <1>2, <1>3

(* A late write, applied under the unique index or dropped.                *)
LEMMA OrphanInv ==
    ASSUME IInv, NEW key \in orphans, OrphanApply(key) \/ OrphanDrop(key)
    PROVE  IInv'
<1>. USE DEF procVars, edgeVars
<1>1. TypeOK /\ index = "tenant"
  BY DEF IInv, IndexInv
<1>2. /\ UNCHANGED <<procVars, edgeVars, req, lastSeen, faults>>
      /\ orphans' = orphans \ {key}
  BY DEF OrphanApply, OrphanDrop
<1>3. OrphansInv' /\ IndexInv' /\ AwaitedInv' /\ BadRequestIsEnvelope'
  BY <1>2 DEF IInv, OrphansInv, IndexInv, AwaitedInv, BadRequestIsEnvelope
<1>4. CASE OrphanDrop(key)
  <2>1. TypeOK' /\ store' = store
    BY <1>1, <1>2, <1>4 DEF TypeOK, OrphanDrop
  <2>. QED  BY <1>2, <1>3, <2>1, QuietFrame
<1>5. CASE OrphanApply(key)
  <2>1. PICK e \in Events : Storable(e) /\ RowKey(e) = key
    BY DEF IInv, OrphansInv
  <2>2. /\ store' \in [Tenants \X EventIds -> Nat]
        /\ \A k \in Tenants \X EventIds : store'[k] >= store[k]
        /\ NoDuplicates' /\ StoredOnlyByOwner' /\ AckedIsStored' /\ DeadIsUnstorable' /\ CauseInv'
    BY <1>1, <1>2, <1>5, <2>1, WriteInv DEF OrphanApply
  <2>3. TypeOK'
    BY <1>1, <1>2, <2>2 DEF TypeOK
  <2>4. \A r \in Requests : RequestInv(req[r])'
    BY <1>1, <1>2, <2>2, <2>3, RequestFrame DEF IInv
  <2>. QED  BY <1>3, <2>2, <2>3, <2>4 DEF IInv
<1>. QED  BY <1>4, <1>5

(* A call that fails as a whole, and answers before or without the loops.  *)
LEMMA RefusalInv ==
    ASSUME IInv, NEW r \in Requests, Refuse(r) \/ BodyUnreadable(r) \/ InsertFails(r)
    PROVE  IInv'
<1>. DEFINE q == req[r]
<1>1. /\ q \in RequestType /\ RequestInv(q) /\ req \in [Requests -> RequestType]
      /\ lastSeen \subseteq Devices /\ faults \in 0..MaxFaults /\ MaxFaults \in Nat
  BY IngestAssumption DEF IInv, TypeOK
<1>2. ASSUME NEW c \in Nat \ {200}, Answer(r, c), q.pc = "arrived",
             c # 400, faults' \in 0..MaxFaults,
             UNCHANGED <<procVars, edgeVars, mongoVars, lastSeen>>
      PROVE  IInv'
  <2>. DEFINE n == [q EXCEPT !.pc = "reply", !.status = c]
  <2>1. req' = [req EXCEPT ![r] = n]
    BY <1>1, <1>2 DEF Answer
  <2>2. n \in RequestType /\ RequestInv(n)
    <3>1. q.todo = {}
      BY <1>1, <1>2 DEF RequestInv, FreshInv
    <3>. QED  BY <1>1, <1>2, <3>1, AnswerEnds
  <2>3. n.pc = "reply" /\ n.status = c /\ n.dev = q.dev /\ n.batch = q.batch
    BY <1>1 DEF RequestType
  <2>. HIDE DEF n
  <2>. QED  BY <1>1, <1>2, <2>1, <2>2, <2>3, HandlerFrame, ZenonT(40)
<1>3. CASE Refuse(r)
  <2>1. faults' \in 0..MaxFaults
    BY <1>1, <1>3 DEF Refuse, Fault
  <2>2. PICK c \in {403, 429, 500} : Answer(r, c)
    BY <1>3 DEF Refuse
  <2>3. c \in Nat \ {200} /\ c # 400
    BY <2>2
  <2>. QED  BY <1>2, <1>3, <2>1, <2>2, <2>3 DEF Refuse
<1>4. CASE BodyUnreadable(r)
  <2>0. PICK c \in Nat \ {200} : c = 400
    OBVIOUS
  <2>. DEFINE n == [q EXCEPT !.pc = "reply", !.status = c, !.body = "cut"]
  <2>1. q.pc = "arrived" /\ UNCHANGED <<procVars, edgeVars, mongoVars, lastSeen>>
    BY <1>4 DEF BodyUnreadable
  <2>2. req' = [req EXCEPT ![r] = n]
    <3>1. AnswerUnread(r, c)
      BY <1>4, <2>0 DEF BodyUnreadable
    <3>. QED  BY <1>1, <3>1 DEF AnswerUnread
  <2>3. faults' \in 0..MaxFaults
    BY <1>1, <1>4 DEF BodyUnreadable, Fault
  <2>4. n \in RequestType /\ RequestInv(n)
    BY <1>1, <2>1, BodyEnds
  <2>5. /\ n.pc = "reply" /\ n.status = c /\ n.body = "cut"
        /\ n.dev = q.dev /\ n.batch = q.batch
        /\ n.origIndex = q.origIndex /\ n.sent = q.sent
    BY <1>1 DEF RequestType
  <2>6. q.origIndex = <<>> /\ q.sent = <<>>
    BY <1>1, <2>1 DEF RequestInv, FreshInv
  <2>. HIDE DEF n
  <2>7. (n.pc = "reply" /\ n.status = 400) =>
            /\ ~EnvelopeOK(n.batch) \/ n.body = "cut"
            /\ n.origIndex = <<>> /\ n.sent = <<>>
    BY <2>5, <2>6
  <2>8. n.pc # "insert" /\ req[r].pc # "idle" /\ lastSeen' \subseteq Devices
    BY <1>1, <2>1, <2>5
  <2>. QED  BY <2>1, <2>2, <2>3, <2>4, <2>5, <2>7, <2>8, HandlerFrame
<1>5. CASE InsertFails(r)
  <2>. DEFINE n == [q EXCEPT !.pc = "failed", !.todo = {}]
  <2>1. /\ req' = [req EXCEPT ![r] = n] /\ q.pc = "insert"
        /\ orphans' = orphans \cup Unapplied(q)
        /\ faults' \in 0..MaxFaults
    <3>1. /\ q.pc = "insert" /\ orphans' = orphans \cup Unapplied(q)
          /\ req' = [req EXCEPT ![r].pc = "failed", ![r].todo = {}]
      BY <1>5 DEF InsertFails
    <3>2. faults' \in 0..MaxFaults
      BY <1>1, <1>5 DEF InsertFails, Fault
    <3>3. req' = [req EXCEPT ![r] = n]
      BY <1>1, <3>1
    <3>. QED  BY <3>1, <3>2, <3>3
  <2>2. /\ n \in RequestType /\ n.pc = "failed" /\ n.todo = {}
        /\ n.dev = q.dev /\ n.batch = q.batch
    BY <1>1 DEF RequestType, PCs
  <2>3. RequestInv(n)
    BY <1>1, <2>1, <2>2 DEF RequestInv, FreshInv, BatchInv, ValidationInv, EncodingInv,
                            InsertInv, ReplyInv, Settling
  <2>4. \A k \in orphans' : /\ k \in Tenants \X EventIds
                            /\ \E e \in Events : Storable(e) /\ RowKey(e) = k
                            /\ index = "tenant"
    <3>. SUFFICES ASSUME NEW k \in orphans'
                  PROVE  /\ k \in Tenants \X EventIds
                         /\ \E e \in Events : Storable(e) /\ RowKey(e) = k
                         /\ index = "tenant"
      OBVIOUS
    <3>1. CASE k \in orphans
      BY <3>1 DEF IInv, TypeOK, OrphansInv, IndexInv
    <3>2. CASE k \in Unapplied(q)
      BY <3>2, UnappliedIsStorable
    <3>. QED  BY <2>1, <3>1, <3>2
  <2>5. OrphansInv'
    BY <2>4 DEF OrphansInv
  <2>6. UNCHANGED <<procVars, edgeVars, store>> /\ lastSeen' \subseteq Devices
    BY <1>1, <1>5 DEF InsertFails
  <2>. HIDE DEF n
  <2>. QED  BY <2>1, <2>2, <2>3, <2>4, <2>5, <2>6, MoveFrame
<1>. QED  BY <1>3, <1>4, <1>5

(* A batch the Edge builds fits the envelope when its settings do.         *)
LEMMA FittingBatch ==
    ASSUME BatchesFit, NEW b \in Seq(Events), Len(b) \in 1..EdgeBatch
    PROVE  EnvelopeOK(b)
<1>1. /\ Len(b) \in Nat /\ EdgeBatch \in Nat /\ EventBytes \in Nat
      /\ MaxEvents \in Nat /\ MaxBodyBytes \in Nat
  BY IngestAssumption
<1>2. Len(b) # 0 /\ Len(b) <= EdgeBatch
  BY <1>1
<1>3. \A x, y, z \in Nat : x <= y => x * z <= y * z
  OBVIOUS
<1>4. Len(b) * EventBytes <= EdgeBatch * EventBytes
  BY <1>1, <1>2, <1>3
<1>5. /\ Len(b) * EventBytes \in Nat /\ EdgeBatch * EventBytes \in Nat
  BY <1>1
<1>. QED  BY <1>1, <1>2, <1>4, <1>5 DEF BatchesFit, EnvelopeOK

(* What an answer does to a row: one that speaks of events acknowledges    *)
(* stored rows and buries hopeless ones, a 400 buries whatever it carries. *)
RowSettled(q, e) ==
    \/ outbox'[e] = outbox[e] /\ cause'[e] = cause[e]
    \/ /\ outbox[e] = "pending"
       /\ \/ /\ q.status # 400 /\ outbox'[e] = "acked" /\ Stored(e)
             /\ cause'[e] = cause[e]
          \/ /\ q.status # 400 /\ outbox'[e] = "dead" /\ ~Storable(e)
             /\ cause'[e] = "event"
          \/ /\ q.status = 400 /\ outbox'[e] = "dead"
             /\ cause'[e] = "body" \/ (cause'[e] = "envelope" /\ ~BatchesFit)

(* What an answer that arrives does to its rows.                           *)
LEMMA DeliverRows ==
    ASSUME IInv, NEW r \in Requests, Deliver(r), NEW e \in Events
    PROVE  RowSettled(req[r], e)
<1>. DEFINE q == req[r]
            At == {i \in DOMAIN q.batch : q.batch[i] = e}
            i == CHOOSE x \in At : TRUE
<1>1. /\ q \in RequestType /\ RequestInv(q) /\ q.pc = "reply" /\ waiting[q.dev] = r
      /\ outbox' = [x \in Events |->
                      IF {y \in DOMAIN q.batch : q.batch[y] = x} = {} THEN outbox[x]
                      ELSE RowAfter(q, CHOOSE z \in {y \in DOMAIN q.batch : q.batch[y] = x} : TRUE)]
  BY DEF IInv, TypeOK, Deliver
<1>0. cause' = [x \in Events |->
                  IF /\ {y \in DOMAIN q.batch : q.batch[y] = x} # {}
                     /\ RowAfter(q, CHOOSE z \in {y \in DOMAIN q.batch : q.batch[y] = x} : TRUE)
                            = "dead"
                  THEN CauseOf(q) ELSE cause[x]]
  BY DEF Deliver
<1>. USE DEF RowSettled
<1>2. CASE At = {}
  BY <1>0, <1>1, <1>2
<1>3. CASE At # {}
  <2>1. i \in DOMAIN q.batch /\ q.batch[i] = e
    BY <1>3
  <2>2. /\ outbox'[e] = RowAfter(q, i)
        /\ cause'[e] = IF RowAfter(q, i) = "dead" THEN CauseOf(q) ELSE cause[e]
    BY <1>0, <1>1, <1>3
  <2>. HIDE DEF i
  <2>3. outbox[e] = "pending"
    BY <1>1, <2>1 DEF IInv, AwaitedInv
  <2>4. CASE q.status = 400
    <3>1. ~EnvelopeOK(q.batch) \/ q.body = "cut"
      BY <1>1, <2>4 DEF IInv, BadRequestIsEnvelope
    <3>2. q.batch \in Seq(Events) /\ Len(q.batch) \in 1..EdgeBatch
      BY <1>1 DEF RequestType, RequestInv, BatchInv
    <3>3. CauseOf(q) = "body" \/ (CauseOf(q) = "envelope" /\ ~BatchesFit)
      <4>1. CASE q.body = "cut"
        BY <2>4, <4>1 DEF CauseOf
      <4>2. CASE q.body # "cut"
        <5>1. ~EnvelopeOK(q.batch) /\ ~BatchesFit
          BY <3>1, <3>2, <4>2, FittingBatch
        <5>. QED  BY <2>4, <4>2, <5>1 DEF CauseOf
      <4>. QED  BY <4>1, <4>2
    <3>4. RowAfter(q, i) = "dead"
      BY <2>4 DEF RowAfter
    <3>. QED  BY <2>2, <2>3, <2>4, <3>3, <3>4
  <2>5. CASE q.status = 200
    <3>1. /\ CodesAt(q, i) \subseteq {CodeDuplicate} => Stored(e)
          /\ CodesAt(q, i) \cap TerminalCodes # {} => ~Storable(e)
      BY <1>1, <2>1, <2>5 DEF RequestInv, ReplyInv
    <3>2. CASE CodesAt(q, i) \cap TerminalCodes # {}
      <4>1. RowAfter(q, i) = "dead"
        <5>1. ~(CodesAt(q, i) \subseteq {CodeDuplicate})
          BY <3>1, <3>2 DEF Stored
        <5>. QED  BY <2>5, <3>2, <5>1 DEF RowAfter
      <4>2. CauseOf(q) = "event"
        BY <2>5 DEF CauseOf
      <4>. QED  BY <2>2, <2>3, <2>5, <3>1, <3>2, <4>1, <4>2
    <3>3. CASE CodesAt(q, i) \subseteq {CodeDuplicate} /\ CodesAt(q, i) \cap TerminalCodes = {}
      <4>1. RowAfter(q, i) = "acked"
        BY <2>5, <3>3 DEF RowAfter
      <4>. QED  BY <2>2, <2>3, <2>5, <3>1, <3>3, <4>1
    <3>4. CASE ~(CodesAt(q, i) \subseteq {CodeDuplicate}) /\ CodesAt(q, i) \cap TerminalCodes = {}
      <4>1. RowAfter(q, i) = "pending"
        BY <2>5, <3>4 DEF RowAfter
      <4>. QED  BY <2>2, <2>3, <4>1
    <3>. QED  BY <3>2, <3>3, <3>4
  <2>6. CASE q.status \notin {200, 400}
    <3>1. RowAfter(q, i) = "pending"
      BY <2>6 DEF RowAfter
    <3>. QED  BY <2>2, <2>3, <3>1
  <2>. QED  BY <2>4, <2>5, <2>6
<1>. QED  BY <1>2, <1>3

(* The Edge's steps.                                                       *)
LEMMA EdgeInv ==
    ASSUME IInv,
           \/ \E d \in Devices, r \in Requests : EdgeSend(d, r)
           \/ \E d \in Devices : EdgeTimeout(d)
           \/ \E r \in Requests : Deliver(r) \/ DropReply(r)
    PROVE  IInv'
<1>. USE DEF procVars, edgeVars, mongoVars
<1>1. /\ TypeOK /\ req \in [Requests -> RequestType] /\ MaxFaults \in Nat
      /\ \A k \in Tenants \X EventIds : store[k] \in Nat
  BY IngestAssumption DEF IInv, TypeOK
<1>2. ASSUME NEW d \in Devices, NEW r \in Requests, EdgeSend(d, r)
      PROVE  IInv'
  <2>1. PICK b \in Batches(d) : req' = [req EXCEPT ![r] = Request("arrived", d, b)]
    BY <1>2 DEF EdgeSend
  <2>2. /\ b \in Seq(Events) /\ Len(b) \in 1..EdgeBatch
        /\ \A i \in DOMAIN b : Owner[b[i]] = d /\ outbox[b[i]] = "pending"
    <3>1. PICK m \in 1..EdgeBatch : b \in [1..m -> {e \in Events : Owner[e] = d}]
      BY DEF Batches
    <3>2. m \in Nat /\ b \in Seq(Events) /\ Len(b) = m /\ DOMAIN b = 1..m
      BY <3>1, IngestAssumption
    <3>. QED  BY <3>1, <3>2 DEF Batches
  <2>. DEFINE n == Request("arrived", d, b)
  <2>3. /\ n \in RequestType /\ n.pc = "arrived" /\ n.dev = d /\ n.batch = b
        /\ n.cursor = 1 /\ n.origIndex = <<>> /\ n.sent = <<>> /\ n.todo = {}
        /\ n.wErrors = {} /\ n.invalid = {} /\ n.errs = {} /\ n.status = 0
    BY <2>2 DEF Request, RequestType, PCs
  <2>. HIDE DEF n
  <2>4. req'[r] = n /\ \A s \in Requests \ {r} : req'[s] = req[s]
    BY <1>1, <2>1 DEF n
  <2>5. /\ req[r].pc = "idle" /\ waiting' = [waiting EXCEPT ![d] = r]
        /\ UNCHANGED <<procVars, outbox, cause, mongoVars, lastSeen, faults>>
    BY <1>2 DEF EdgeSend
  <2>6. TypeOK'
    <3>1. req' \in [Requests -> RequestType]
      BY <1>1, <2>1, <2>3 DEF n
    <3>2. waiting' \in [Devices -> Requests \cup {NoRequest}]
      BY <1>1, <2>5 DEF TypeOK
    <3>3. \A s \in Requests : req'[s].pc # "idle" => req'[s].dev \in Devices
      BY <1>1, <2>3, <2>4 DEF TypeOK
    <3>. QED  BY <1>1, <2>5, <3>1, <3>2, <3>3 DEF TypeOK
  <2>7. \A s \in Requests : RequestInv(req[s])'
    <3>1. RequestInv(req[r])'
      BY <2>2, <2>3, <2>4 DEF RequestInv, FreshInv, BatchInv, ValidationInv, EncodingInv,
                              InsertInv, ReplyInv, Settling
    <3>2. \A s \in Requests \ {r} : RequestInv(req[s])'
      BY <1>1, <2>4, <2>5, <2>6, RequestFrame DEF IInv
    <3>. QED  BY <3>1, <3>2
  <2>8. IndexInv' /\ OrphansInv'
    BY <2>3, <2>4, <2>5 DEF IInv, IndexInv, OrphansInv
  <2>9. AwaitedInv'
    <3>. SUFFICES ASSUME NEW s \in Requests, req'[s].pc # "idle", waiting'[req'[s].dev] = s,
                         NEW i \in DOMAIN req'[s].batch
                  PROVE  outbox[req'[s].batch[i]] = "pending"
      BY <2>5 DEF AwaitedInv
    <3>1. CASE s = r
      BY <2>2, <2>3, <2>4, <3>1
    <3>2. CASE s # r
      <4>1. req[s].dev \in Devices /\ waiting[req[s].dev] = s
        BY <1>1, <2>4, <2>5, <3>2 DEF TypeOK
      <4>. QED  BY <2>4, <3>2, <4>1 DEF IInv, AwaitedInv
    <3>. QED  BY <3>1, <3>2
  <2>10. BadRequestIsEnvelope'
    BY <2>3, <2>4 DEF IInv, BadRequestIsEnvelope, EnvelopeOK
  <2>11. NoDuplicates' /\ StoredOnlyByOwner' /\ AckedIsStored' /\ DeadIsUnstorable' /\ CauseInv'
    BY <2>5 DEF IInv, NoDuplicates, StoredOnlyByOwner, AckedIsStored, CauseInv, DeadIsUnstorable,
                Stored
  <2>. QED  BY <2>6, <2>7, <2>8, <2>9, <2>10, <2>11 DEF IInv
<1>3. ASSUME NEW d \in Devices, EdgeTimeout(d)
      PROVE  IInv'
  <2>1. /\ waiting' = [waiting EXCEPT ![d] = NoRequest] /\ faults' \in 0..MaxFaults
        /\ UNCHANGED <<procVars, outbox, cause, mongoVars, req, lastSeen>>
    BY <1>1, <1>3 DEF EdgeTimeout, Fault, TypeOK
  <2>2. TypeOK'
    BY <1>1, <2>1 DEF TypeOK
  <2>3. \A x \in Devices, s \in Requests : waiting'[x] = s => waiting[x] = s
    BY <1>1, <2>1, IngestAssumption DEF TypeOK
  <2>4. \A s \in Requests : req[s].pc # "idle" => req[s].dev \in Devices
    BY <1>1 DEF TypeOK
  <2>5. AwaitedInv' /\ BadRequestIsEnvelope'
    BY <2>1, <2>3, <2>4 DEF IInv, AwaitedInv, BadRequestIsEnvelope
  <2>6. IndexInv' /\ OrphansInv'
    BY <2>1 DEF IInv, IndexInv, OrphansInv
  <2>. QED  BY <2>1, <2>2, <2>5, <2>6, QuietFrame
<1>4. ASSUME NEW r \in Requests, DropReply(r)
      PROVE  IInv'
  <2>1. /\ req' = [req EXCEPT ![r] = Idle]
        /\ UNCHANGED <<procVars, edgeVars, store, orphans, lastSeen, faults>>
    BY <1>4 DEF DropReply
  <2>2. /\ orphans' \subseteq Tenants \X EventIds /\ lastSeen' \subseteq Devices
        /\ faults' \in 0..MaxFaults /\ (orphans' # {} => index = "tenant")
    BY <1>1, <2>1 DEF IInv, TypeOK, IndexInv
  <2>3. OrphansInv'
    BY <2>1 DEF IInv, OrphansInv
  <2>. QED  BY <2>1, <2>2, <2>3, IdleInOrder, MoveFrame
<1>5. ASSUME NEW r \in Requests, Deliver(r)
      PROVE  IInv'
  <2>1. /\ req' = [req EXCEPT ![r] = Idle]
        /\ waiting' = [waiting EXCEPT ![req[r].dev] = NoRequest]
        /\ waiting[req[r].dev] = r /\ req[r].pc = "reply"
        /\ UNCHANGED <<procVars, mongoVars, lastSeen, faults>>
        /\ DOMAIN outbox' = Events /\ DOMAIN cause' = Events
        /\ outbox' = [e \in Events |-> outbox'[e]]
        /\ cause' = [e \in Events |-> cause'[e]]
    BY <1>5 DEF Deliver
  <2>2. \A e \in Events : RowSettled(req[r], e)
    BY <1>5, DeliverRows
  <2>3. req'[r] = Idle /\ \A s \in Requests \ {r} : req'[s] = req[s]
    BY <1>1, <2>1
  <2>4. TypeOK'
    <3>1. req' \in [Requests -> RequestType]
      BY <1>1, <2>1, IdleInOrder
    <3>2. outbox' \in [Events -> {"pending", "acked", "dead"}]
      <4>1. \A e \in Events : outbox'[e] \in {"pending", "acked", "dead"}
        BY <1>1, <2>2 DEF TypeOK, RowSettled
      <4>. QED  BY <2>1, <4>1
    <3>5. cause' \in [Events -> {"none", "event", "envelope", "body"}]
      <4>1. \A e \in Events : cause'[e] \in {"none", "event", "envelope", "body"}
        BY <1>1, <2>2 DEF TypeOK, RowSettled
      <4>. QED  BY <2>1, <4>1
    <3>3. waiting' \in [Devices -> Requests \cup {NoRequest}]
      BY <1>1, <2>1 DEF TypeOK
    <3>4. \A s \in Requests : req'[s].pc # "idle" => req'[s].dev \in Devices
      BY <1>1, <2>3, IdleInOrder DEF TypeOK
    <3>. QED  BY <1>1, <2>1, <3>1, <3>2, <3>3, <3>4, <3>5 DEF TypeOK
  <2>5. \A s \in Requests : RequestInv(req[s])'
    <3>1. RequestInv(req[r])'
      BY <2>3, IdleInOrder DEF RequestInv, FreshInv, BatchInv, ValidationInv, EncodingInv,
                               InsertInv, ReplyInv, Settling
    <3>2. \A s \in Requests \ {r} : RequestInv(req[s])'
      BY <1>1, <2>1, <2>3, <2>4, RequestFrame DEF IInv
    <3>. QED  BY <3>1, <3>2
  <2>6. IndexInv' /\ OrphansInv'
    BY <2>1, <2>3, IdleInOrder DEF IInv, IndexInv, OrphansInv
  <2>7. \A s \in Requests :
            (req'[s].pc # "idle" /\ waiting'[req'[s].dev] = s) =>
                /\ s # r /\ req'[s] = req[s] /\ waiting[req[s].dev] = s
                /\ req[s].dev # req[r].dev
    <3>. SUFFICES ASSUME NEW s \in Requests, req'[s].pc # "idle", waiting'[req'[s].dev] = s
                  PROVE  /\ s # r /\ req'[s] = req[s] /\ waiting[req[s].dev] = s
                         /\ req[s].dev # req[r].dev
      OBVIOUS
    <3>1. s # r /\ req'[s] = req[s]
      BY <2>3, IdleInOrder
    <3>2. req[s].dev \in Devices /\ waiting \in [Devices -> Requests \cup {NoRequest}]
      BY <1>1, <3>1 DEF TypeOK
    <3>3. req[s].dev # req[r].dev
      BY <2>1, <3>1, <3>2, IngestAssumption
    <3>. QED  BY <2>1, <3>1, <3>2, <3>3
  <2>8. AwaitedInv'
    <3>. SUFFICES ASSUME NEW s \in Requests, req'[s].pc # "idle", waiting'[req'[s].dev] = s,
                         NEW i \in DOMAIN req[s].batch
                  PROVE  outbox'[req[s].batch[i]] = "pending"
      BY <2>7 DEF AwaitedInv
    <3>. DEFINE e == req[s].batch[i]
    <3>1. outbox[e] = "pending" /\ Owner[e] = req[s].dev /\ e \in Events
      <4>1. RequestInv(req[s]) /\ req[s] \in RequestType
        BY <1>1 DEF IInv
      <4>2. e \in Events
        BY <4>1 DEF RequestType
      <4>. QED  BY <2>7, <4>1, <4>2 DEF IInv, AwaitedInv, RequestInv, BatchInv
    <3>2. \A j \in DOMAIN req[r].batch : req[r].batch[j] # e
      <4>1. RequestInv(req[r])
        BY DEF IInv
      <4>. QED  BY <2>1, <2>7, <3>1, <4>1 DEF RequestInv, BatchInv
    <3>3. {y \in DOMAIN req[r].batch : req[r].batch[y] = e} = {}
      BY <3>2
    <3>. HIDE DEF e
    <3>4. outbox'[e] = outbox[e]
      BY <1>5, <3>1, <3>3 DEF Deliver
    <3>. QED  BY <3>1, <3>4 DEF e
  <2>9. BadRequestIsEnvelope'
    BY <2>3, IdleInOrder DEF IInv, BadRequestIsEnvelope, EnvelopeOK
  <2>10. NoDuplicates' /\ StoredOnlyByOwner'
    BY <2>1 DEF IInv, NoDuplicates, StoredOnlyByOwner
  <2>11. AckedIsStored'
    BY <2>1, <2>2 DEF IInv, AckedIsStored, Stored, RowSettled
  <2>12. DeadIsUnstorable'
    BY <2>1, <2>2 DEF IInv, DeadIsUnstorable, RowSettled
  <2>13. CauseInv'
    BY <2>1, <2>2 DEF IInv, CauseInv, RowSettled
  <2>. QED  BY <2>4, <2>5, <2>6, <2>8, <2>9, <2>10, <2>11, <2>12, <2>13 DEF IInv
<1>. QED  BY <1>2, <1>3, <1>4, <1>5

-----------------------------------------------------------------------------
(* Theorems.                                                               *)

(* Every step of the ingest path keeps the invariant.                      *)
LEMMA NextInv == IInv /\ [Next]_vars => IInv'
<1>. SUFFICES ASSUME IInv, [Next]_vars PROVE IInv'
  OBVIOUS
<1>1. CASE UNCHANGED vars
  <2>1. UNCHANGED <<proc, index, store, orphans, outbox, waiting, cause, req, lastSeen, faults>>
    BY <1>1 DEF vars, procVars, edgeVars, mongoVars
  <2>2. TypeOK' /\ IndexInv' /\ OrphansInv' /\ AwaitedInv' /\ BadRequestIsEnvelope'
    BY <2>1 DEF IInv, TypeOK, IndexInv, OrphansInv, AwaitedInv, BadRequestIsEnvelope
  <2>. QED  BY <2>1, <2>2, QuietFrame
<1>2. CASE Boot
  BY <1>2, ProcessInv
<1>3. CASE \E d \in Devices, r \in Requests : EdgeSend(d, r)
  BY <1>3, EdgeInv
<1>4. CASE \E r \in Requests : Handler(r)
  BY <1>4, HandlerInv
<1>5. CASE \E r \in Requests : MongoStep(r)
  BY <1>5, MongoInv DEF MongoStep
<1>6. CASE \E r \in Requests : Deliver(r) \/ DropReply(r)
  BY <1>6, EdgeInv
<1>7. CASE Environment
  <2>1. CASE BootDegraded \/ BootFails \/ Crash
    BY <2>1, ProcessInv
  <2>2. CASE \E d \in Devices : EdgeTimeout(d)
    BY <2>2, EdgeInv
  <2>3. CASE \E r \in Requests : Refuse(r) \/ BodyUnreadable(r) \/ InsertFails(r)
    BY <2>3, RefusalInv
  <2>4. CASE \E r \in Requests : \E k \in req[r].todo : MongoReject(r, k)
    BY <2>4, MongoInv
  <2>5. CASE \E key \in orphans : OrphanApply(key) \/ OrphanDrop(key)
    BY <2>5, OrphanInv
  <2>. QED  BY <1>7, <2>1, <2>2, <2>3, <2>4, <2>5 DEF Environment
<1>. QED  BY <1>1, <1>2, <1>3, <1>4, <1>5, <1>6, <1>7 DEF Next

(* The invariant holds in every reachable state, for any number of devices,*)
(* tenants, rows, concurrent requests and faults.                          *)
THEOREM IngestInvariantHolds == Spec => []IInv
BY InitInv, NextInv, PTL DEF Spec

(* Type correctness of the ingest path.                                    *)
THEOREM IngestTyped == Spec => []TypeOK
<1>1. IInv => TypeOK
  BY DEF IInv
<1>. QED  BY <1>1, IngestInvariantHolds, PTL

(* A row the Edge forgets is stored, through every crash, lost answer,     *)
(* retry and partial write.                                                *)
THEOREM IngestKeepsAcked == Spec => []AckedIsStored
<1>1. IInv => AckedIsStored
  BY DEF IInv
<1>. QED  BY <1>1, IngestInvariantHolds, PTL

(* A row the Edge buries could not be stored, or it was in a batch whose   *)
(* body the server failed to read, or in one beyond the envelope's limits, *)
(* which an Edge whose batches fit never sends.                            *)
THEOREM IngestBuriesHopeless == Spec => []DeadIsUnstorable
<1>1. IInv => DeadIsUnstorable
  BY DEF IInv
<1>. QED  BY <1>1, IngestInvariantHolds, PTL

(* One document per tenant and eventId, even when a row is sent again      *)
(* while its first write is still on the way.                              *)
THEOREM IngestStoresOnce == Spec => []NoDuplicates
<1>1. IInv => NoDuplicates
  BY DEF IInv
<1>. QED  BY <1>1, IngestInvariantHolds, PTL

(* Every document was written for a row of that tenant about a machine     *)
(* of its own.                                                             *)
THEOREM IngestStoresOwn == Spec => []StoredOnlyByOwner
<1>1. IInv => StoredOnlyByOwner
  BY DEF IInv
<1>. QED  BY <1>1, IngestInvariantHolds, PTL

(* A 400 means a batch beyond the limits or a body that was not read to    *)
(* its end, and no event of the batch has been looked at by then.          *)
THEOREM IngestRefusesEnvelopesOnly == Spec => []BadRequestIsEnvelope
<1>1. IInv => BadRequestIsEnvelope
  BY DEF IInv
<1>. QED  BY <1>1, IngestInvariantHolds, PTL

-----------------------------------------------------------------------------
(* The answer.                                                             *)

(* A step that moves one request.                                          *)
LEMMA OnceMove ==
    ASSUME TypeOK, SpokenOnce, NEW r \in Requests, NEW n, req' = [req EXCEPT ![r] = n],
           OnceInv(n)
    PROVE  SpokenOnce'
<1>1. req'[r] = n /\ \A s \in Requests \ {r} : req'[s] = req[s]
  BY DEF TypeOK
<1>. SUFFICES ASSUME NEW s \in Requests PROVE OnceInv(req[s]')
  BY DEF SpokenOnce, OnceInv
<1>2. CASE s = r
  BY <1>1, <1>2
<1>3. CASE s # r
  BY <1>1, <1>3 DEF SpokenOnce
<1>. QED  BY <1>2, <1>3

(* Only the loops and the report speak of positions.                       *)
LEMMA OnceKept ==
    ASSUME NEW q \in RequestType, NEW n, RequestInv(q), OnceInv(q),
           n.batch = q.batch, n.origIndex = q.origIndex, n.errs = q.errs,
           \/ n.pc \in Settling \cup {"validate"} /\ q.pc \in Settling \cup {"validate"}
           \/ n.pc \notin Settling \cup {"validate", "reply"}
           \/ n.pc = "reply" /\ (n.status = 200 => q.pc = "validate")
    PROVE  OnceInv(n)
BY DEF OnceInv, Settling

LEMMA OnceValidated ==
    ASSUME NEW q \in RequestType, RequestInv(q), OnceInv(q), q.pc = "validate",
           q.cursor <= Len(q.batch), NEW v,
           NEW n, n = IF v = "ok"
                      THEN [q EXCEPT !.cursor = q.cursor + 1,
                                     !.origIndex = Append(q.origIndex, q.cursor)]
                      ELSE [q EXCEPT !.cursor = q.cursor + 1,
                                     !.errs = q.errs \cup {[index |-> q.cursor, code |-> v]}]
    PROVE  OnceInv(n)
<1>1. /\ q.cursor \in Nat /\ q.batch \in Seq(Events) /\ q.origIndex \in Seq(Nat)
      /\ q.cursor >= 1 /\ q.cursor \in DOMAIN q.batch
  BY DEF RequestType, RequestInv, ValidationInv
<1>2. n.pc = "validate" /\ n.batch = q.batch
  BY DEF RequestType
<1>3. \A i \in Validated(q) : i < q.cursor
  BY DEF Validated, Settling
<1>4. \A j \in DOMAIN q.origIndex : q.origIndex[j] # q.cursor
  <2>1. ASSUME NEW j \in DOMAIN q.origIndex PROVE q.origIndex[j] # q.cursor
    <3>1. q.origIndex[j] \in Nat /\ q.origIndex[j] < q.cursor
      BY <1>1, <1>3 DEF RequestInv, ValidationInv
    <3>. QED  BY <1>1, <3>1
  <2>. QED  BY <2>1
<1>5. \A x \in q.errs : x.index # q.cursor
  <2>1. ASSUME NEW x \in q.errs PROVE x.index # q.cursor
    <3>1. x.index \in Nat /\ x.index < q.cursor
      BY <1>3 DEF RequestInv, ValidationInv, RequestType
    <3>. QED  BY <1>1, <3>1
  <2>. QED  BY <2>1
<1>6. /\ \A i, j \in DOMAIN q.origIndex : q.origIndex[i] = q.origIndex[j] => i = j
      /\ \A x \in q.errs : x.index \in DOMAIN q.batch
      /\ \A x, y \in q.errs : x.index = y.index => x = y
  BY DEF OnceInv
<1>7. CASE v = "ok"
  <2>1. n.origIndex = Append(q.origIndex, q.cursor) /\ n.errs = q.errs
    BY <1>7 DEF RequestType
  <2>2. /\ DOMAIN n.origIndex = 1 .. Len(q.origIndex) + 1
        /\ DOMAIN q.origIndex = 1 .. Len(q.origIndex) /\ Len(q.origIndex) \in Nat
        /\ n.origIndex[Len(q.origIndex) + 1] = q.cursor
        /\ \A i \in DOMAIN q.origIndex : n.origIndex[i] = q.origIndex[i]
    BY <1>1, <2>1
  <2>3. ASSUME NEW i \in DOMAIN n.origIndex, NEW j \in DOMAIN n.origIndex,
               n.origIndex[i] = n.origIndex[j]
        PROVE  i = j
    <3>1. \A k \in DOMAIN n.origIndex : k \in DOMAIN q.origIndex \/ k = Len(q.origIndex) + 1
      BY <2>2
    <3>. QED  BY <1>4, <1>6, <2>2, <2>3, <3>1
  <2>. QED  BY <1>2, <1>6, <2>1, <2>3 DEF OnceInv
<1>8. CASE v # "ok"
  <2>1. n.origIndex = q.origIndex /\ n.errs = q.errs \cup {[index |-> q.cursor, code |-> v]}
    BY <1>8 DEF RequestType
  <2>2. [index |-> q.cursor, code |-> v].index = q.cursor
    OBVIOUS
  <2>3. \A x \in n.errs : x.index \in DOMAIN q.batch
    BY <1>1, <1>6, <2>1, <2>2
  <2>4. \A x, y \in n.errs : x.index = y.index => x = y
    BY <1>5, <1>6, <2>1, <2>2
  <2>. QED  BY <1>2, <1>6, <2>1, <2>3, <2>4, ZenonT(40) DEF OnceInv
<1>. QED  BY <1>7, <1>8

(* The report speaks of valid rows, the validation of the others, and the  *)
(* three kinds of entries of the report of different rows.                 *)
LEMMA OnceReported ==
    ASSUME NEW q \in RequestType, RequestInv(q), OnceInv(q), q.pc = "record",
           NEW n, n = [q EXCEPT !.errs = q.errs \cup ReportEntries(q),
                                !.pc = "reply", !.status = 200]
    PROVE  OnceInv(n)
<1>. DEFINE dup == ReportedAs(q, "E11000")
            oth == ReportedAs(q, "other")
            At(S, c) == {[index |-> q.origIndex[j], code |-> c] : j \in S}
            A == At(dup, CodeDuplicate)
            B == At(q.invalid \ dup, CodeInvalidSchema)
            C == At(oth \ (dup \cup q.invalid), CodeStorageUnavailable)
<1>1. /\ \A k \in DOMAIN q.sent : q.sent[k] \in DOMAIN q.origIndex
      /\ q.invalid \subseteq DOMAIN q.origIndex
      /\ \A w \in q.wErrors : w.index \in DOMAIN q.sent
  BY DEF RequestInv, EncodingInv, InsertInv, Encoded, Settling
<1>2. dup \subseteq DOMAIN q.origIndex /\ oth \subseteq DOMAIN q.origIndex
  BY <1>1 DEF ReportedAs
<1>3. n.errs = q.errs \cup A \cup B \cup C /\ n.pc = "reply" /\ n.batch = q.batch
  BY DEF ReportEntries, RequestType
<1>4. \A j \in DOMAIN q.origIndex : q.origIndex[j] \in DOMAIN q.batch /\ Valid(q.batch[q.origIndex[j]])
  BY DEF RequestInv, ValidationInv, Validated, Settling, ValidRow
<1>5. /\ \A i, j \in DOMAIN q.origIndex : q.origIndex[i] = q.origIndex[j] => i = j
      /\ \A x \in q.errs : x.index \in DOMAIN q.batch /\ ~Valid(q.batch[x.index])
      /\ \A x, y \in q.errs : x.index = y.index => x = y
  BY DEF OnceInv, RequestInv, ValidationInv, Settling
<1>6. /\ \A x \in A : \E j \in dup : x = [index |-> q.origIndex[j], code |-> CodeDuplicate]
      /\ \A x \in B : \E j \in q.invalid \ dup :
             x = [index |-> q.origIndex[j], code |-> CodeInvalidSchema]
      /\ \A x \in C : \E j \in oth \ (dup \cup q.invalid) :
             x = [index |-> q.origIndex[j], code |-> CodeStorageUnavailable]
  OBVIOUS
<1>. HIDE DEF A, B, C, dup, oth
<1>7. \A x \in A \cup B \cup C : x.index \in DOMAIN q.batch /\ Valid(q.batch[x.index])
  <2>1. \A x \in A : \E j \in DOMAIN q.origIndex : x.index = q.origIndex[j]
    BY <1>2, <1>6
  <2>2. \A x \in B : \E j \in DOMAIN q.origIndex : x.index = q.origIndex[j]
    BY <1>1, <1>6
  <2>3. \A x \in C : \E j \in DOMAIN q.origIndex : x.index = q.origIndex[j]
    BY <1>2, <1>6
  <2>. QED  BY <1>4, <2>1, <2>2, <2>3
<1>8. \A x, y \in A \cup B \cup C : x.index = y.index => x = y
  <2>. SUFFICES ASSUME NEW x \in A \cup B \cup C, NEW y \in A \cup B \cup C, x.index = y.index
                PROVE  x = y
    OBVIOUS
  <2>. DEFINE Code(j) == IF j \in dup THEN CodeDuplicate
                         ELSE IF j \in q.invalid THEN CodeInvalidSchema
                         ELSE CodeStorageUnavailable
  <2>1. ASSUME NEW z \in A \cup B \cup C
        PROVE  \E j \in DOMAIN q.origIndex : z = [index |-> q.origIndex[j], code |-> Code(j)]
    <3>1. CASE z \in A
      BY <1>2, <1>6, <3>1
    <3>2. CASE z \in B
      BY <1>1, <1>6, <3>2
    <3>3. CASE z \in C
      BY <1>2, <1>6, <3>3
    <3>. QED  BY <2>1, <3>1, <3>2, <3>3
  <2>. HIDE DEF Code
  <2>2. PICK i \in DOMAIN q.origIndex : x = [index |-> q.origIndex[i], code |-> Code(i)]
    BY <2>1
  <2>3. PICK j \in DOMAIN q.origIndex : y = [index |-> q.origIndex[j], code |-> Code(j)]
    BY <2>1
  <2>4. x.index = q.origIndex[i] /\ y.index = q.origIndex[j]
    BY <2>2, <2>3
  <2>5. i = j
    BY <1>5, <2>4
  <2>. QED  BY <2>2, <2>3, <2>5
<1>9. \A x \in n.errs : x.index \in DOMAIN q.batch
  BY <1>3, <1>5, <1>7
<1>10. \A x, y \in n.errs : x.index = y.index => x = y
  <2>. SUFFICES ASSUME NEW x \in n.errs, NEW y \in n.errs, x.index = y.index PROVE x = y
    OBVIOUS
  <2>1. CASE x \in q.errs /\ y \in q.errs
    BY <1>5, <2>1
  <2>2. CASE x \in A \cup B \cup C /\ y \in A \cup B \cup C
    BY <1>8, <2>2
  <2>3. ~(x \in q.errs /\ y \in A \cup B \cup C) /\ ~(y \in q.errs /\ x \in A \cup B \cup C)
    BY <1>5, <1>7
  <2>. QED  BY <1>3, <2>1, <2>2, <2>3
<1>. QED  BY <1>3, <1>9, <1>10 DEF OnceInv, Settling

LEMMA OnceNext ==
    ASSUME IInv, SpokenOnce, [Next]_vars
    PROVE  SpokenOnce'
<1>0. /\ TypeOK /\ req \in [Requests -> RequestType]
      /\ \A r \in Requests : req[r] \in RequestType /\ RequestInv(req[r]) /\ OnceInv(req[r])
  BY DEF IInv, TypeOK, SpokenOnce
<1>1. ASSUME req' = req PROVE SpokenOnce'
  BY <1>1 DEF SpokenOnce, OnceInv
<1>2. ASSUME NEW r \in Requests, NEW n, req' = [req EXCEPT ![r] = n],
             n.batch = req[r].batch, n.origIndex = req[r].origIndex, n.errs = req[r].errs,
             \/ /\ n.pc \in Settling \cup {"validate"}
                /\ req[r].pc \in Settling \cup {"validate"}
             \/ n.pc \notin Settling \cup {"validate", "reply"}
             \/ n.pc = "reply" /\ (n.status = 200 => req[r].pc = "validate")
      PROVE  SpokenOnce'
  <2>1. OnceInv(n)
    BY <1>0, <1>2, OnceKept
  <2>. QED  BY <1>0, <1>2, <2>1, OnceMove
<1>3. ASSUME NEW r \in Requests, NEW c \in Nat \ {200}, Answer(r, c) PROVE SpokenOnce'
  <2>. DEFINE n == [req[r] EXCEPT !.pc = "reply", !.status = c]
  <2>1. req' = [req EXCEPT ![r] = n]
    BY <1>0, <1>3 DEF Answer
  <2>2. /\ n.batch = req[r].batch /\ n.origIndex = req[r].origIndex /\ n.errs = req[r].errs
        /\ n.pc = "reply" /\ n.status # 200
    BY <1>0 DEF RequestType
  <2>. HIDE DEF n
  <2>. QED  BY <1>2, <2>1, <2>2
<1>4. OnceInv(Idle)
  BY IdleInOrder DEF OnceInv, Settling
<1>5. ASSUME NEW r \in Requests, Handler(r) PROVE SpokenOnce'
  <2>. DEFINE q == req[r]
  <2>0. q \in RequestType /\ RequestInv(q) /\ OnceInv(q)
    BY <1>0
  <2>1. CASE IngestEvents(r)
    <3>. DEFINE n == [q EXCEPT !.pc = "validate"]
    <3>1. q.pc = "arrived" /\ req' = [req EXCEPT ![r] = n]
      BY <1>0, <2>1 DEF IngestEvents
    <3>2. q.origIndex = <<>> /\ q.errs = {}
      BY <2>0, <3>1 DEF RequestInv, FreshInv
    <3>3. n.origIndex = <<>> /\ n.errs = {}
      BY <2>0, <3>2 DEF RequestType
    <3>. HIDE DEF n
    <3>4. OnceInv(n)
      BY <3>3 DEF OnceInv
    <3>. QED  BY <1>0, <3>1, <3>4, OnceMove
  <2>2. CASE RejectEnvelope(r) \/ InsertUnavailable(r) \/ FailBatch(r)
    BY <1>3, <2>2 DEF RejectEnvelope, InsertUnavailable, FailBatch, InsertFailed
  <2>3. CASE ValidateNext(r)
    <3>. DEFINE v == ValidateEvent(Raw[q.batch[q.cursor]], q.dev)
                n == IF v = "ok"
                     THEN [q EXCEPT !.cursor = q.cursor + 1,
                                    !.origIndex = Append(q.origIndex, q.cursor)]
                     ELSE [q EXCEPT !.cursor = q.cursor + 1,
                                    !.errs = q.errs \cup {[index |-> q.cursor, code |-> v]}]
    <3>1. q.pc = "validate" /\ q.cursor <= Len(q.batch) /\ req' = [req EXCEPT ![r] = n]
      BY <1>0, <2>3 DEF ValidateNext
    <3>. HIDE DEF v
    <3>2. OnceInv(n)
      BY <2>0, <3>1, OnceValidated
    <3>. HIDE DEF n
    <3>. QED  BY <1>0, <3>1, <3>2, OnceMove
  <2>4. CASE ValidateDone(r)
    <3>. DEFINE n == IF q.origIndex = <<>>
                     THEN [q EXCEPT !.pc = "reply", !.status = 200]
                     ELSE [q EXCEPT !.pc = "encode", !.cursor = 1]
    <3>1. q.pc = "validate" /\ req' = [req EXCEPT ![r] = n]
      BY <1>0, <2>4 DEF ValidateDone, Answer
    <3>2. /\ n.batch = q.batch /\ n.origIndex = q.origIndex /\ n.errs = q.errs
          /\ n.pc \in {"reply", "encode"}
      BY <2>0 DEF RequestType
    <3>. HIDE DEF n
    <3>. QED  BY <1>2, <3>1, <3>2 DEF Settling
  <2>5. CASE EncodeNext(r)
    <3>. DEFINE n == IF Encodable(Raw[ValidRow(q, q.cursor)])
                     THEN [q EXCEPT !.cursor = q.cursor + 1,
                                    !.sent = Append(q.sent, q.cursor)]
                     ELSE [q EXCEPT !.cursor = q.cursor + 1,
                                    !.invalid = q.invalid \cup {q.cursor}]
    <3>1. q.pc = "encode" /\ req' = [req EXCEPT ![r] = n]
      BY <1>0, <2>5 DEF EncodeNext
    <3>2. /\ n.batch = q.batch /\ n.origIndex = q.origIndex /\ n.errs = q.errs
          /\ n.pc = "encode"
      BY <2>0, <3>1 DEF RequestType
    <3>. HIDE DEF n
    <3>. QED  BY <1>2, <3>1, <3>2 DEF Settling
  <2>6. CASE EncodeDone(r)
    <3>. DEFINE n == [q EXCEPT !.pc = "insert", !.todo = DOMAIN q.sent]
    <3>1. q.pc = "encode" /\ req' = [req EXCEPT ![r] = n]
      BY <1>0, <2>6 DEF EncodeDone
    <3>2. /\ n.batch = q.batch /\ n.origIndex = q.origIndex /\ n.errs = q.errs
          /\ n.pc = "insert"
      BY <2>0 DEF RequestType
    <3>. HIDE DEF n
    <3>. QED  BY <1>2, <3>1, <3>2 DEF Settling
  <2>7. CASE InsertReturns(r)
    <3>. DEFINE n == [q EXCEPT !.pc = "record"]
    <3>1. q.pc = "insert" /\ req' = [req EXCEPT ![r] = n]
      BY <1>0, <2>7 DEF InsertReturns
    <3>2. /\ n.batch = q.batch /\ n.origIndex = q.origIndex /\ n.errs = q.errs
          /\ n.pc = "record"
      BY <2>0 DEF RequestType
    <3>. HIDE DEF n
    <3>. QED  BY <1>2, <3>1, <3>2 DEF Settling
  <2>8. CASE FinishBatch(r)
    <3>. DEFINE n == [q EXCEPT !.errs = q.errs \cup ReportEntries(q),
                               !.pc = "reply", !.status = 200]
    <3>1. q.pc = "record" /\ req' = [req EXCEPT ![r] = n]
      BY <1>0, <2>8 DEF FinishBatch
    <3>2. OnceInv(n)
      BY <2>0, <3>1, OnceReported
    <3>. HIDE DEF n
    <3>. QED  BY <1>0, <3>1, <3>2, OnceMove
  <2>. QED  BY <1>5, <2>1, <2>2, <2>3, <2>4, <2>5, <2>6, <2>7, <2>8 DEF Handler
<1>6. ASSUME NEW r \in Requests, NEW k \in req[r].todo, MongoApply(r, k) \/ MongoReject(r, k)
      PROVE  SpokenOnce'
  <2>. DEFINE q == req[r]
  <2>1. PICK W : req' = [req EXCEPT ![r] = [q EXCEPT !.todo = q.todo \ {k}, !.wErrors = W]]
    <3>1. CASE MongoApply(r, k)
      <4>. DEFINE W == q.wErrors \cup (IF IndexHit(SentKey(q, k))
                                       THEN {[index |-> k, code |-> "E11000"]} ELSE {})
      <4>. SUFFICES req' = [req EXCEPT ![r] = [q EXCEPT !.todo = q.todo \ {k}, !.wErrors = W]]
        OBVIOUS
      <4>. QED  BY <1>0, <3>1 DEF MongoApply
    <3>2. CASE MongoReject(r, k)
      <4>. DEFINE W == q.wErrors \cup {[index |-> k, code |-> "other"]}
      <4>. SUFFICES req' = [req EXCEPT ![r] = [q EXCEPT !.todo = q.todo \ {k}, !.wErrors = W]]
        OBVIOUS
      <4>. QED  BY <1>0, <3>2 DEF MongoReject
    <3>. QED  BY <1>6, <3>1, <3>2
  <2>. DEFINE n == [q EXCEPT !.todo = q.todo \ {k}, !.wErrors = W]
  <2>2. q.pc = "insert"
    BY <1>6 DEF MongoApply, MongoReject
  <2>3. /\ n.batch = q.batch /\ n.origIndex = q.origIndex /\ n.errs = q.errs /\ n.pc = q.pc
    BY <1>0 DEF RequestType
  <2>4. req' = [req EXCEPT ![r] = n]
    BY <2>1
  <2>. HIDE DEF n
  <2>. QED  BY <1>2, <2>2, <2>3, <2>4 DEF Settling
<1>7. ASSUME NEW d \in Devices, NEW r \in Requests, EdgeSend(d, r) PROVE SpokenOnce'
  <2>1. PICK b \in Batches(d) : req' = [req EXCEPT ![r] = Request("arrived", d, b)]
    BY <1>7 DEF EdgeSend
  <2>2. OnceInv(Request("arrived", d, b))
    BY DEF OnceInv, Request, Settling
  <2>. QED  BY <1>0, <2>1, <2>2, OnceMove
<1>8. ASSUME NEW r \in Requests, Deliver(r) \/ DropReply(r) PROVE SpokenOnce'
  <2>1. req' = [req EXCEPT ![r] = Idle]
    BY <1>8 DEF Deliver, DropReply
  <2>. QED  BY <1>0, <1>4, <2>1, OnceMove
<1>9. CASE Crash
  <2>1. \A r \in Requests : req'[r] = Idle
    BY <1>9 DEF Crash
  <2>. QED  BY <1>4, <2>1 DEF SpokenOnce, OnceInv
<1>10. ASSUME NEW r \in Requests, Refuse(r) \/ BodyUnreadable(r) PROVE SpokenOnce'
  <2>1. CASE Refuse(r)
    BY <1>3, <2>1 DEF Refuse
  <2>2. CASE BodyUnreadable(r)
    <3>. DEFINE n == [req[r] EXCEPT !.pc = "reply", !.status = 400, !.body = "cut"]
    <3>1. req' = [req EXCEPT ![r] = n]
      BY <1>0, <2>2, ZenonT(60) DEF BodyUnreadable, AnswerUnread
    <3>2. /\ n.batch = req[r].batch /\ n.origIndex = req[r].origIndex
          /\ n.errs = req[r].errs /\ n.pc = "reply" /\ n.status # 200
      BY <1>0 DEF RequestType
    <3>. HIDE DEF n
    <3>. QED  BY <1>2, <3>1, <3>2
  <2>. QED  BY <1>10, <2>1, <2>2
<1>11. ASSUME NEW r \in Requests, InsertFails(r) PROVE SpokenOnce'
  <2>. DEFINE n == [req[r] EXCEPT !.pc = "failed", !.todo = {}]
  <2>1. req' = [req EXCEPT ![r] = n]
    BY <1>0, <1>11 DEF InsertFails
  <2>2. /\ n.batch = req[r].batch /\ n.origIndex = req[r].origIndex /\ n.errs = req[r].errs
        /\ n.pc = "failed"
    BY <1>0 DEF RequestType
  <2>. HIDE DEF n
  <2>. QED  BY <1>2, <2>1, <2>2 DEF Settling
<1>12. CASE \/ Boot \/ BootDegraded \/ BootFails \/ \E d \in Devices : EdgeTimeout(d)
            \/ \E key \in orphans : OrphanApply(key) \/ OrphanDrop(key)
  BY <1>1, <1>12 DEF Boot, BootDegraded, BootFails, EdgeTimeout, OrphanApply, OrphanDrop
<1>13. CASE UNCHANGED vars
  BY <1>1, <1>13 DEF vars
<1>. QED
  BY <1>5, <1>6, <1>7, <1>8, <1>9, <1>10, <1>11, <1>12, <1>13
  DEF Next, Environment, MongoStep

(* One entry per position: as many positions are mentioned as there are    *)
(* entries, and accepted counts the others.                                *)
LEMMA AcceptedCounts ==
    ASSUME NEW q \in RequestType, \A x \in q.errs : x.index \in DOMAIN q.batch,
           \A x, y \in q.errs : x.index = y.index => x = y
    PROVE  Accepted(q) = Cardinality({i \in DOMAIN q.batch : CodesAt(q, i) = {}})
<1>. DEFINE I == {x.index : x \in q.errs}
            D == DOMAIN q.batch
            f == [x \in q.errs |-> x.index]
<1>1. D = 1 .. Len(q.batch) /\ Len(q.batch) \in Nat
  BY DEF RequestType
<1>2. IsFiniteSet(D) /\ Cardinality(D) = Len(q.batch)
  BY <1>1, FS_Interval
<1>3. I \subseteq D
  OBVIOUS
<1>4. IsFiniteSet(I) /\ Cardinality(D \cap I) = Cardinality(I)
  <2>1. D \cap I = I
    BY <1>3
  <2>. QED  BY <1>2, <1>3, <2>1, FS_Subset
<1>5. f \in Bijection(q.errs, I)
  BY DEF Bijection, Injection, Surjection, IsInjective
<1>6. f \in Injection(q.errs, I) /\ f \in Surjection(q.errs, I)
  BY <1>5 DEF Bijection
<1>7. Cardinality(q.errs) = Cardinality(I)
  BY <1>4, <1>6, FS_Injection
<1>8. {i \in D : CodesAt(q, i) = {}} = D \ I
  BY DEF CodesAt
<1>9. Cardinality(D \ I) = Cardinality(D) - Cardinality(D \cap I)
  BY <1>2, FS_Difference
<1>. QED  BY <1>2, <1>4, <1>7, <1>8, <1>9 DEF Accepted, Rejected

(* I-3 and I-4: a 200 says one true thing of every position of the batch   *)
(* that was sent, through the two slices that renumber it, and accepted    *)
(* counts the rows it says nothing of, which are stored.                   *)
THEOREM IngestAnswersFaithfully == Spec => []AnswerFaithful
<1>1. Init => SpokenOnce
  BY IdleInOrder DEF Init, SpokenOnce, OnceInv, Settling
<1>2. IInv /\ SpokenOnce => AnswerFaithful
  <2>. SUFFICES ASSUME IInv, SpokenOnce, NEW r \in Requests,
                       req[r].pc = "reply", req[r].status = 200
                PROVE  /\ \A x \in req[r].errs : x.index \in DOMAIN req[r].batch
                       /\ \A x, y \in req[r].errs : x.index = y.index => x = y
                       /\ \A i \in DOMAIN req[r].batch :
                              /\ CodesAt(req[r], i) \subseteq {CodeDuplicate} => Stored(req[r].batch[i])
                              /\ CodesAt(req[r], i) \cap TerminalCodes # {} => ~Storable(req[r].batch[i])
                       /\ Accepted(req[r]) = Cardinality({i \in DOMAIN req[r].batch : CodesAt(req[r], i) = {}})
    BY DEF AnswerFaithful
  <2>1. req[r] \in RequestType /\ ReplyInv(req[r])
    BY DEF IInv, TypeOK, RequestInv
  <2>2. /\ \A x \in req[r].errs : x.index \in DOMAIN req[r].batch
        /\ \A x, y \in req[r].errs : x.index = y.index => x = y
    BY DEF SpokenOnce, OnceInv
  <2>. QED  BY <2>1, <2>2, AcceptedCounts DEF ReplyInv
<1>. QED  BY <1>1, <1>2, InitInv, NextInv, OnceNext, PTL DEF Spec

-----------------------------------------------------------------------------
(* Ingest implements OutboxDelivery.                                       *)

(* A step either only adds documents or only settles rows.                 *)
LEMMA StepShape ==
    ASSUME IInv, Next
    PROVE  \/ /\ outbox' = outbox /\ cause' = cause
              /\ \A k \in Tenants \X EventIds : store'[k] >= store[k]
           \/ /\ store' = store
              /\ \E r \in Requests : Deliver(r)
<1>. USE DEF procVars, edgeVars, mongoVars
<1>1. store \in [Tenants \X EventIds -> Nat]
  BY DEF IInv, TypeOK
<1>2. ASSUME UNCHANGED <<outbox, cause, store>>
      PROVE  /\ outbox' = outbox /\ cause' = cause
             /\ \A k \in Tenants \X EventIds : store'[k] >= store[k]
  BY <1>1, <1>2
<1>3. ASSUME NEW key, outbox' = outbox, cause' = cause,
             store' = IF IndexHit(key) THEN store ELSE [store EXCEPT ![key] = @ + 1]
      PROVE  /\ outbox' = outbox /\ cause' = cause
             /\ \A k \in Tenants \X EventIds : store'[k] >= store[k]
  BY <1>1, <1>3
<1>4. CASE Boot \/ \E d \in Devices, r \in Requests : EdgeSend(d, r)
  BY <1>2, <1>4 DEF Boot, EdgeSend
<1>5. CASE \E r \in Requests : Handler(r)
  BY <1>2, <1>5 DEF Handler, IngestEvents, RejectEnvelope, ValidateNext, ValidateDone,
     InsertUnavailable, EncodeNext, EncodeDone, InsertReturns, FailBatch, FinishBatch
<1>6. CASE \E r \in Requests : MongoStep(r)
  BY <1>3, <1>6 DEF MongoStep, MongoApply
<1>7. CASE \E r \in Requests : DropReply(r)
  BY <1>2, <1>7 DEF DropReply
<1>8. CASE \E r \in Requests : Deliver(r)
  BY <1>8 DEF Deliver
<1>9. CASE Environment
  <2>1. CASE BootDegraded \/ BootFails \/ Crash \/ \E d \in Devices : EdgeTimeout(d)
    BY <1>2, <2>1 DEF BootDegraded, BootFails, Crash, EdgeTimeout
  <2>2. CASE \E r \in Requests : Refuse(r) \/ BodyUnreadable(r) \/ InsertFails(r)
    BY <1>2, <2>2 DEF Refuse, BodyUnreadable, InsertFails
  <2>3. CASE \E r \in Requests : \E k \in req[r].todo : MongoReject(r, k)
    BY <1>2, <2>3 DEF MongoReject
  <2>4. CASE \E key \in orphans : OrphanApply(key)
    BY <1>3, <2>4 DEF OrphanApply
  <2>5. CASE \E key \in orphans : OrphanDrop(key)
    BY <1>2, <2>5 DEF OrphanDrop
  <2>. QED  BY <1>9, <2>1, <2>2, <2>3, <2>4, <2>5 DEF Environment
<1>. QED  BY <1>4, <1>5, <1>6, <1>7, <1>8, <1>9 DEF Next

(* Documents that appear are a Persist step of the promise.                *)
LEMMA WritesPersist ==
    ASSUME IInv, outbox' = outbox, cause' = cause,
           \A k \in Tenants \X EventIds : store'[k] >= store[k],
           store' \in [Tenants \X EventIds -> Nat]
    PROVE  Delivery!Next
<1>. DEFINE S == {e \in Events : Storable(e) /\ store'[RowKey(e)] > 0}
<1>1. store \in [Tenants \X EventIds -> Nat]
  BY DEF IInv, TypeOK
<1>2. \A e \in Events : Storable(e) => RowKey(e) \in Tenants \X EventIds
  BY StorableIsComputed, ValidKey
<1>3. {e \in Events : Stored(e)} \subseteq S
  BY <1>1, <1>2 DEF Stored
<1>4. {e \in Events : Stored(e)}' = S
  BY DEF Stored
<1>5. S \subseteq {e \in Events : Storable(e)}
  OBVIOUS
<1>6. {e \in Events : Stored(e)}' = {e \in Events : Stored(e)} \cup S
  BY <1>3, <1>4
<1>. HIDE DEF S
<1>7. Delivery!Persist(S)
  BY <1>5, <1>6 DEF Delivery!Persist
<1>8. S \in SUBSET Events
  BY DEF S
<1>. QED  BY <1>7, <1>8 DEF Delivery!Next

(* An answer about events that arrives is a Settle step of the promise.    *)
LEMMA AnswersSettle ==
    ASSUME IInv, IInv', NEW r \in Requests, Deliver(r), store' = store,
           req[r].status # 400
    PROVE  Delivery!Next
<1>. DEFINE A == {e \in Events : outbox[e] = "pending" /\ outbox'[e] = "acked"}
            D == {e \in Events : outbox[e] = "pending" /\ outbox'[e] = "dead"}
<1>1. /\ outbox' \in [Events -> {"pending", "acked", "dead"}]
      /\ CauseInv
  BY DEF IInv, TypeOK
<1>2. \A e \in Events : RowSettled(req[r], e)
  BY DeliverRows
<1>3. A \subseteq {e \in Events : Stored(e)}
  BY <1>2 DEF RowSettled
<1>4. D \cap {e \in Events : Storable(e)} = {}
  BY <1>2 DEF RowSettled
<1>5. outbox' = [e \in Events |-> IF e \in A THEN "acked"
                                  ELSE IF e \in D THEN "dead" ELSE outbox[e]]
  BY <1>1, <1>2 DEF RowSettled
<1>6. {e \in Events : Stored(e)}' = {e \in Events : Stored(e)}
  BY DEF Stored
<1>7. \A e \in A \cup D : outbox[e] = "pending"
  OBVIOUS
<1>8. A \in SUBSET Events /\ D \in SUBSET Events
  OBVIOUS
<1>9. {e \in Events : cause[e] \in {"envelope", "body"}}'
        = {e \in Events : cause[e] \in {"envelope", "body"}}
  <2>. SUFFICES ASSUME NEW e \in Events
                PROVE  cause'[e] \in {"envelope", "body"} <=> cause[e] \in {"envelope", "body"}
    OBVIOUS
  <2>1. RowSettled(req[r], e) /\ (outbox[e] = "pending" => cause[e] = "none")
    BY <1>1, <1>2 DEF CauseInv
  <2>. QED  BY <2>1 DEF RowSettled
<1>. HIDE DEF A, D
<1>10. Delivery!Settle(A, D)
  BY <1>3, <1>4, <1>5, <1>6, <1>7, <1>9 DEF Delivery!Settle
<1>. QED  BY <1>8, <1>10 DEF Delivery!Next

(* An answer about the whole request that arrives is a Lose step.          *)
LEMMA AnswersLose ==
    ASSUME IInv, IInv', NEW r \in Requests, Deliver(r), store' = store,
           req[r].status = 400
    PROVE  Delivery!Next
<1>. DEFINE S == {e \in Events : outbox[e] = "pending" /\ outbox'[e] = "dead"}
<1>1. outbox' \in [Events -> {"pending", "acked", "dead"}]
  BY DEF IInv, TypeOK
<1>2. \A e \in Events : RowSettled(req[r], e)
  BY DeliverRows
<1>3. outbox' = [e \in Events |-> IF e \in S THEN "dead" ELSE outbox[e]]
  BY <1>1, <1>2 DEF RowSettled
<1>4. {e \in Events : Stored(e)}' = {e \in Events : Stored(e)}
  BY DEF Stored
<1>5. {e \in Events : cause[e] \in {"envelope", "body"}}'
        = {e \in Events : cause[e] \in {"envelope", "body"}} \cup S
  <2>. SUFFICES ASSUME NEW e \in Events
                PROVE  cause'[e] \in {"envelope", "body"}
                         <=> cause[e] \in {"envelope", "body"} \/ e \in S
    OBVIOUS
  <2>. QED  BY <1>2 DEF RowSettled
<1>6. S \in SUBSET Events /\ \A e \in S : outbox[e] = "pending"
  OBVIOUS
<1>. HIDE DEF S
<1>7. PICK T \in SUBSET Events : T = S
  BY <1>6
<1>8. Delivery!Lose(T)
  <2>1. \A e \in T : outbox[e] = "pending"
    BY <1>6, <1>7
  <2>2. outbox' = [e \in Events |-> IF e \in T THEN "dead" ELSE outbox[e]]
    BY <1>3, <1>7
  <2>3. {e \in Events : cause[e] \in {"envelope", "body"}}'
          = {e \in Events : cause[e] \in {"envelope", "body"}} \cup T
    BY <1>5, <1>7
  <2>. QED  BY <1>4, <2>1, <2>2, <2>3 DEF Delivery!Lose
<1>. QED  BY <1>8 DEF Delivery!Next

(* The ingest path keeps the promise made to the Edge's outbox, for every  *)
(* fleet and every setting of the limits: rows are lost only in whole      *)
(* batches that were too big or whose body was not read.                   *)
THEOREM IngestDelivers == Spec => Delivers
<1>1. Init => Delivery!Init
  <2>. SUFFICES ASSUME Init PROVE Delivery!Init
    OBVIOUS
  <2>1. \A e \in Events : ~Stored(e)
    <3>. SUFFICES ASSUME NEW e \in Events, Storable(e) PROVE ~(store[RowKey(e)] > 0)
      BY DEF Stored
    <3>1. RowKey(e) \in Tenants \X EventIds
      BY StorableIsComputed, ValidKey
    <3>. QED  BY <3>1 DEF Init
  <2>. QED  BY <2>1 DEF Init, Delivery!Init
<1>. DEFINE seen == <<outbox, {e \in Events : Stored(e)},
                      {e \in Events : cause[e] \in {"envelope", "body"}}>>
<1>2. IInv /\ IInv' /\ [Next]_vars => [Delivery!Next]_seen
  <2>. SUFFICES ASSUME IInv, IInv', [Next]_vars
                PROVE  Delivery!Next \/ UNCHANGED seen
    OBVIOUS
  <2>1. CASE UNCHANGED vars
    BY <2>1 DEF vars, edgeVars, mongoVars, Stored
  <2>2. CASE Next
    <3>1. CASE /\ outbox' = outbox /\ cause' = cause
               /\ \A k \in Tenants \X EventIds : store'[k] >= store[k]
      <4>1. store' \in [Tenants \X EventIds -> Nat]
        BY DEF IInv, TypeOK
      <4>. QED  BY <3>1, <4>1, WritesPersist
    <3>2. CASE store' = store /\ \E r \in Requests : Deliver(r)
      BY <3>2, AnswersSettle, AnswersLose
    <3>. QED  BY <2>2, <3>1, <3>2, StepShape
  <2>. QED  BY <2>1, <2>2
<1>. QED
  BY <1>1, <1>2, IngestInvariantHolds, PTL DEF Spec, Delivers, Delivery!Spec
=============================================================================
