----------------------------- MODULE LogStream -----------------------------
(***************************************************************************)
(* Writing a log entry and streaming it to the clients of GET /logs/stream *)
(* (internal/app/logs/service.go, internal/api/handler/logs/stream_logs.go *)
(* and the Write of internal/repo/pg/logs).                                *)
(*                                                                         *)
(* Service.subs maps a tenant to a Go slice of channels.  A slice is a     *)
(* window on an array that several slices share: append writes into the    *)
(* array while there is room and moves to one of twice the size when there *)
(* is none, Unsubscribe moves the cells behind the removed channel one     *)
(* place down in the same array, and Publish walks the slice it copied     *)
(* without holding the lock.  A tenant's slice only moves to larger        *)
(* arrays, so a tenant and a size name an array.                           *)
(*                                                                         *)
(* Every connection is a client of its own with one channel.               *)
(***************************************************************************)
EXTENDS Naturals, Sequences, FiniteSets

CONSTANTS
    Tenants,
    Clients,        \* SSE connections
    ClientTenant,   \* client -> the tenant of its request
    Writers,        \* goroutines that may be inside Service.Write at once
    Past,           \* entries that are in the table already
    Entries,        \* the ones that are still to be written, in the order of their time
    EntryTenant,    \* entry -> tenant
    Capacity,       \* buffer of a channel (64 in the code)
    Caps,           \* sizes an array of channels may have: 1, 2, 4, ...
    NoClient,
    NoEntry

ASSUME LogStreamAssumption ==
    /\ Past \subseteq Nat
    /\ Entries \in Seq(Nat \ Past)
    /\ \A i, j \in 1..Len(Entries) : Entries[i] = Entries[j] => i = j
    /\ EntryTenant \in [Past \cup {Entries[i] : i \in 1..Len(Entries)} -> Tenants]
    /\ ClientTenant \in [Clients -> Tenants]
    /\ Capacity \in Nat
    /\ Caps \subseteq Nat \ {0}
    /\ NoClient \notin Clients /\ NoEntry \notin Nat

VARIABLES
    log,      \* rows of log_entries, as committed
    begun,    \* how many of Entries have been handed to Write
    cells,    \* cells[t][n][i]: what the array of size n of tenant t holds
    subs,     \* tenant -> its slice: size of its array (0 for nil) and length
    mu,       \* the client whose Unsubscribe holds the lock, with its progress
    chan,     \* client -> its channel and its handler
    pub       \* writer -> where it is in Write and Publish

streamVars == <<log, begun, cells, subs, mu, chan, pub>>

Entry == Past \cup {Entries[i] : i \in 1..Len(Entries)}

(* st is the handler: it has not begun, it serves the stream, it returns   *)
(* and unsubscribes, it is gone with its channel closed.  got is all that  *)
(* was ever put into the buffer, read how much of it was taken out.        *)
NoChan == [st |-> "new", got |-> <<>>, read |-> 0, dropped |-> {}]

NoPub == [pc |-> "idle", entry |-> NoEntry, cap |-> 0, len |-> 0, i |-> 1,
          ch |-> NoClient, targets |-> {}, calm |-> TRUE]

NoUnsub == [client |-> NoClient, i |-> 0]

StreamInit ==
    /\ log = Past
    /\ begun = 0
    /\ cells = [t \in Tenants |-> [n \in Caps |-> [i \in 1..n |-> NoClient]]]
    /\ subs = [t \in Tenants |-> [cap |-> 0, len |-> 0]]
    /\ mu = NoUnsub
    /\ chan = [c \in Clients |-> NoChan]
    /\ pub = [w \in Writers |-> NoPub]

Unlocked == mu.client = NoClient

(* The channels a slice shows.                                             *)
Listed(t) == {cells[t][subs[t].cap][i] : i \in 1..subs[t].len}

-----------------------------------------------------------------------------
(* StreamLogs and Subscribe.                                               *)

(* append(s.subs[tenantID], ch).                                           *)
AppendChan(t, c) ==
    LET s == subs[t] IN
    IF s.len < s.cap
    THEN /\ cells' = [cells EXCEPT ![t][s.cap][s.len + 1] = c]
         /\ subs' = [subs EXCEPT ![t].len = s.len + 1]
    ELSE LET n == IF s.cap = 0 THEN 1 ELSE 2 * s.cap IN
         /\ n \in Caps
         /\ cells' = [cells EXCEPT ![t][n] =
                         [i \in 1..n |-> IF i <= s.len THEN cells[t][s.cap][i]
                                         ELSE IF i = s.len + 1 THEN c ELSE NoClient]]
         /\ subs' = [subs EXCEPT ![t] = [cap |-> n, len |-> s.len + 1]]

Subscribe(c) ==
    /\ chan[c].st = "new"
    /\ Unlocked
    /\ AppendChan(ClientTenant[c], c)
    /\ chan' = [chan EXCEPT ![c].st = "open"]
    /\ UNCHANGED <<log, begun, mu, pub>>

(* One turn of c.Stream with an entry in the channel.                      *)
Receive(c) ==
    /\ chan[c].st = "open"
    /\ chan[c].read < Len(chan[c].got)
    /\ chan' = [chan EXCEPT ![c].read = chan[c].read + 1]
    /\ UNCHANGED <<log, begun, cells, subs, mu, pub>>

(* The request's context is done: c.Stream returns, Unsubscribe is next.   *)
Disconnect(c) ==
    /\ chan[c].st = "open"
    /\ chan' = [chan EXCEPT ![c].st = "leaving"]
    /\ UNCHANGED <<log, begun, cells, subs, mu, pub>>

-----------------------------------------------------------------------------
(* Unsubscribe: Lock, look for the channel, move the cells behind it one   *)
(* at a time, shorten the slice, close.                                    *)

UnsubscribeFind(c) ==
    LET t == ClientTenant[c] IN
    /\ chan[c].st = "leaving"
    /\ Unlocked
    /\ \E i \in 1..subs[t].len :
          /\ cells[t][subs[t].cap][i] = c
          /\ mu' = [client |-> c, i |-> i]
    /\ pub' = [w \in Writers |->
                  IF pub[w].pc \in {"next", "send"} /\ EntryTenant[pub[w].entry] = t
                  THEN [pub[w] EXCEPT !.calm = FALSE] ELSE pub[w]]
    /\ UNCHANGED <<log, begun, cells, subs, chan>>

UnsubscribeShift ==
    LET t == ClientTenant[mu.client] IN
    /\ ~Unlocked
    /\ mu.i < subs[t].len
    /\ cells' = [cells EXCEPT ![t][subs[t].cap][mu.i] = cells[t][subs[t].cap][mu.i + 1]]
    /\ mu' = [mu EXCEPT !.i = mu.i + 1]
    /\ UNCHANGED <<log, begun, subs, chan, pub>>

(* Mistake: the channel is closed but its cell stays in the slice.          *)
UnsubscribeCloseKeeps ==
    LET t == ClientTenant[mu.client] IN
    /\ ~Unlocked
    /\ mu.i = subs[t].len
    /\ chan' = [chan EXCEPT ![mu.client].st = "closed"]
    /\ mu' = NoUnsub
    /\ UNCHANGED <<log, begun, cells, subs, pub>>

UnsubscribeClose ==
    LET t == ClientTenant[mu.client] IN
    /\ ~Unlocked
    /\ mu.i = subs[t].len
    /\ subs' = [subs EXCEPT ![t].len = subs[t].len - 1]
    /\ chan' = [chan EXCEPT ![mu.client].st = "closed"]
    /\ mu' = NoUnsub
    /\ UNCHANGED <<log, begun, cells, pub>>

-----------------------------------------------------------------------------
(* Write: the row gets its created_at and id when the statement begins.    *)

Write(w) ==
    /\ pub[w].pc = "idle"
    /\ begun < Len(Entries)
    /\ begun' = begun + 1
    /\ pub' = [pub EXCEPT ![w] = [NoPub EXCEPT !.pc = "insert", !.entry = Entries[begun + 1]]]
    /\ UNCHANGED <<log, cells, subs, mu, chan>>

WriteCommits(w) ==
    /\ pub[w].pc = "insert"
    /\ log' = log \cup {pub[w].entry}
    /\ pub' = [pub EXCEPT ![w].pc = "publish"]
    /\ UNCHANGED <<begun, cells, subs, mu, chan>>

(* Mistake: a failed write is published all the same.                       *)
WriteFailsPublishes(w) ==
    /\ pub[w].pc = "insert"
    /\ pub' = [pub EXCEPT ![w].pc = "publish"]
    /\ UNCHANGED <<log, begun, cells, subs, mu, chan>>

WriteFails(w) ==
    /\ pub[w].pc = "insert"
    /\ pub' = [pub EXCEPT ![w] = NoPub]
    /\ UNCHANGED <<log, begun, cells, subs, mu, chan>>

(* RLock; channels := s.subs[tenantID]; RUnlock.                           *)
PublishCopy(w) ==
    LET t == EntryTenant[pub[w].entry] IN
    /\ pub[w].pc = "publish"
    /\ Unlocked
    /\ pub' = [pub EXCEPT ![w].pc = "next", ![w].cap = subs[t].cap, ![w].len = subs[t].len,
                          ![w].targets = Listed(t)]
    /\ UNCHANGED <<log, begun, cells, subs, mu, chan>>

(* for _, ch := range channels: the cell is read when its turn comes.      *)
PublishNext(w) ==
    /\ pub[w].pc = "next"
    /\ IF pub[w].i <= pub[w].len
       THEN pub' = [pub EXCEPT ![w].pc = "send",
                       ![w].ch = cells[EntryTenant[pub[w].entry]][pub[w].cap][pub[w].i]]
       ELSE pub' = [pub EXCEPT ![w].pc = "done"]
    /\ UNCHANGED <<log, begun, cells, subs, mu, chan>>

HasRoom(c) == Len(chan[c].got) - chan[c].read < Capacity

(* The select: a send on a closed channel panics, a full buffer drops.     *)
PublishSend(w) ==
    LET c == pub[w].ch IN
    /\ pub[w].pc = "send"
    /\ IF chan[c].st = "closed"
       THEN UNCHANGED chan /\ pub' = [pub EXCEPT ![w].pc = "panic"]
       ELSE /\ chan' = IF HasRoom(c)
                       THEN [chan EXCEPT ![c].got = Append(chan[c].got, pub[w].entry)]
                       ELSE [chan EXCEPT ![c].dropped = chan[c].dropped \cup {pub[w].entry}]
            /\ pub' = [pub EXCEPT ![w].pc = "next", ![w].i = pub[w].i + 1, ![w].ch = NoClient]
    /\ UNCHANGED <<log, begun, cells, subs, mu>>

(* Write returns; after a panic whoever called it recovers or is gone.     *)
WriteReturns(w) ==
    /\ pub[w].pc \in {"done", "panic"}
    /\ pub' = [pub EXCEPT ![w] = NoPub]
    /\ UNCHANGED <<log, begun, cells, subs, mu, chan>>

-----------------------------------------------------------------------------
Publishing(w) ==
    \/ WriteCommits(w) \/ WriteFails(w)
    \/ PublishCopy(w) \/ PublishNext(w) \/ PublishSend(w) \/ WriteReturns(w)

Unsubscribing == (\E c \in Clients : UnsubscribeFind(c)) \/ UnsubscribeShift \/ UnsubscribeClose

StreamNext ==
    \/ \E c \in Clients : Subscribe(c) \/ Receive(c) \/ Disconnect(c)
    \/ Unsubscribing
    \/ \E w \in Writers : Write(w) \/ Publishing(w)

StreamSpec == StreamInit /\ [][StreamNext]_streamVars

-----------------------------------------------------------------------------
(* Properties.                                                             *)

ClientStates == {"new", "open", "leaving", "closed"}
PubPCs == {"idle", "insert", "publish", "next", "send", "done", "panic"}

(* Every variable keeps its shape; in particular a channel only ever gets  *)
(* committed entries of its client's own tenant (RF-003, RF-007), whatever *)
(* the arrays went through.                                                *)
StreamTypeOK ==
    /\ log \subseteq Entry
    /\ begun \in 0..Len(Entries)
    /\ \A t \in Tenants : \A n \in Caps : \A i \in 1..n :
          cells[t][n][i] \in {NoClient} \cup {c \in Clients : ClientTenant[c] = t}
    /\ subs \in [Tenants -> [cap : {0} \cup Caps, len : Nat]]
    /\ \A t \in Tenants : subs[t].len <= subs[t].cap
    /\ mu \in [client : Clients \cup {NoClient}, i : Nat]
    /\ \A c \in Clients :
          /\ chan[c].st \in ClientStates
          /\ \A i \in 1..Len(chan[c].got) :
                chan[c].got[i] \in log /\ EntryTenant[chan[c].got[i]] = ClientTenant[c]
          /\ chan[c].read <= Len(chan[c].got)
    /\ \A w \in Writers : pub[w].pc \in PubPCs /\ pub[w].entry \in Entry \cup {NoEntry}

(* Between two critical sections a tenant's slice shows exactly the        *)
(* channels of its open connections, each in one cell: nobody who listens  *)
(* is forgotten and no closed channel is there to be sent to.              *)
ListedOnce ==
    Unlocked => \A t \in Tenants :
        /\ Listed(t) = {c \in Clients : ClientTenant[c] = t /\ chan[c].st \in {"open", "leaving"}}
        /\ \A i, j \in 1..subs[t].len :
              cells[t][subs[t].cap][i] = cells[t][subs[t].cap][j] => i = j

Times(c, e) == Cardinality({i \in 1..Len(chan[c].got) : chan[c].got[i] = e})

(* Publishing while nobody of the tenant unsubscribes ends without a panic *)
(* and has put the entry once into every channel it found in the slice,    *)
(* or dropped it once for want of room; nobody else got it.                *)
CalmDelivery ==
    \A w \in Writers :
        LET e == pub[w].entry IN
        /\ pub[w].pc = "panic" => ~pub[w].calm
        /\ pub[w].pc = "done" /\ pub[w].calm =>
              \A c \in Clients :
                  Times(c, e) + (IF e \in chan[c].dropped THEN 1 ELSE 0) =
                  (IF c \in pub[w].targets THEN 1 ELSE 0)
=============================================================================
