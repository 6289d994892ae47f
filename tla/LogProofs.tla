----------------------------- MODULE LogProofs -----------------------------
(***************************************************************************)
(* The log stream and the readers of the log, for any number of tenants,   *)
(* connections, writers, entries and readers.                              *)
(*                                                                         *)
(* ListedOnce speaks of the moments between two critical sections.  While  *)
(* Unsubscribe shifts the array its slice has a hole, the cell that is     *)
(* overwritten next: SliceOK says the same of the other cells.             *)
(* CalmDelivery speaks of the end of a walk over the slice; CalmOK says    *)
(* what a calm walk has done so far, and that the cells it walks over stay *)
(* as they were when the slice was copied.                                 *)
(***************************************************************************)
EXTENDS LogQuery, FiniteSetTheorems, TLAPS

-----------------------------------------------------------------------------
(* The inductive invariant of the stream.                                  *)

Begun == {Entries[j] : j \in 1..begun}

CellsOK ==
    /\ DOMAIN cells = Tenants
    /\ \A t \in Tenants : DOMAIN cells[t] = Caps
    /\ \A t \in Tenants : \A n \in Caps : DOMAIN cells[t][n] = 1..n
    /\ \A t \in Tenants : \A n \in Caps : \A i \in 1..n :
          cells[t][n][i] \in {NoClient} \cup {c \in Clients : ClientTenant[c] = t}

SubsOK ==
    /\ subs \in [Tenants -> [cap : {0} \cup Caps, len : Nat]]
    /\ \A t \in Tenants : subs[t].len <= subs[t].cap

(* Whoever holds the lock is leaving and points into its tenant's slice.   *)
LockOK ==
    /\ mu \in [client : Clients \cup {NoClient}, i : Nat]
    /\ mu.client # NoClient =>
          /\ chan[mu.client].st = "leaving"
          /\ mu.i \in 1..subs[ClientTenant[mu.client]].len

(* A channel got committed entries of its own tenant.                      *)
ChanOK(c) ==
    /\ DOMAIN chan[c] = {"st", "got", "read", "dropped"}
    /\ chan[c].st \in ClientStates
    /\ chan[c].got \in Seq(Entry)
    /\ \A i \in 1..Len(chan[c].got) :
          /\ chan[c].got[i] \in log /\ chan[c].got[i] \in Begun
          /\ EntryTenant[chan[c].got[i]] = ClientTenant[c]
    /\ chan[c].read \in Nat /\ chan[c].read <= Len(chan[c].got)
    /\ chan[c].dropped \subseteq Begun

(* What is published is committed, and goes to channels of its tenant.     *)
PubOK(w) ==
    /\ DOMAIN pub[w] = {"pc", "entry", "cap", "len", "i", "ch", "targets", "calm"}
    /\ pub[w].pc \in PubPCs
    /\ pub[w].entry \in Entry \cup {NoEntry}
    /\ pub[w].pc # "idle" => pub[w].entry \in Begun
    /\ pub[w].pc \notin {"idle", "insert"} => pub[w].entry \in log
    /\ pub[w].cap \in {0} \cup Caps /\ pub[w].len \in Nat /\ pub[w].len <= pub[w].cap
    /\ pub[w].i \in Nat \ {0}
    /\ pub[w].pc \in {"insert", "publish"} => pub[w].i = 1
    /\ pub[w].pc = "send" =>
          pub[w].ch \in {NoClient} \cup {c \in Clients : ClientTenant[c] = EntryTenant[pub[w].entry]}

Shapes ==
    /\ log \subseteq Entry
    /\ begun \in 0..Len(Entries)
    /\ CellsOK /\ SubsOK /\ LockOK
    /\ DOMAIN chan = Clients /\ \A c \in Clients : ChanOK(c)
    /\ DOMAIN pub = Writers /\ \A w \in Writers : PubOK(w)

(* Two writers never write the same entry.                                 *)
Apart ==
    \A w, v \in Writers :
       w # v /\ pub[w].pc # "idle" /\ pub[v].pc # "idle" => pub[w].entry # pub[v].entry

(* The cell that is overwritten next, and the channels the others hold.    *)
Held(t) == mu.client # NoClient /\ ClientTenant[mu.client] = t

Full(t, i) == i \in 1..subs[t].len /\ ~(Held(t) /\ i = mu.i)

Due(t, c) ==
    /\ c \in Clients /\ ClientTenant[c] = t
    /\ chan[c].st \in {"open", "leaving"}
    /\ c # mu.client

Cell(t, i) == cells[t][subs[t].cap][i]

SliceOK(t) ==
    /\ \A i \in 1..subs[t].len : Full(t, i) => Due(t, Cell(t, i))
    /\ \A c \in Clients : Due(t, c) => \E i \in 1..subs[t].len : Full(t, i) /\ Cell(t, i) = c
    /\ \A i, j \in 1..subs[t].len : Full(t, i) /\ Full(t, j) /\ Cell(t, i) = Cell(t, j) => i = j

(* Entry e was not offered to c, or was put or dropped once.               *)
Holds(c, e) == \E i \in 1..Len(chan[c].got) : chan[c].got[i] = e
Never(c, e) == ~Holds(c, e) /\ e \notin chan[c].dropped
Once(c, e) ==
    /\ Holds(c, e) <=> e \notin chan[c].dropped
    /\ \A i, j \in 1..Len(chan[c].got) : chan[c].got[i] = e /\ chan[c].got[j] = e => i = j

(* A writer walks over the slice (t, n, l) it copied: the cells still show *)
(* the channels they showed, and those before the i-th had their entry.    *)
WalkOK(w, t, n, l) ==
    /\ ~Held(t)
    /\ n <= subs[t].cap /\ (n = subs[t].cap => l <= subs[t].len)
    /\ \A k \in 1..l : cells[t][n][k] \in Clients /\ chan[cells[t][n][k]].st # "closed"
    /\ \A k, j \in 1..l : cells[t][n][k] = cells[t][n][j] => k = j
    /\ \A c \in Clients : c \in pub[w].targets <=> \E k \in 1..l : cells[t][n][k] = c
    /\ pub[w].pc = "send" => pub[w].i \in 1..l /\ pub[w].ch = cells[t][n][pub[w].i]
    /\ \A c \in Clients :
          /\ (\E k \in 1..l : k < pub[w].i /\ cells[t][n][k] = c) => Once(c, pub[w].entry)
          /\ (\A k \in 1..l : k < pub[w].i => cells[t][n][k] # c) => Never(c, pub[w].entry)

CalmOK(w) ==
    /\ pub[w].pc \in {"insert", "publish"} => \A c \in Clients : Never(c, pub[w].entry)
    /\ pub[w].pc \in {"next", "send"} /\ pub[w].calm =>
          WalkOK(w, EntryTenant[pub[w].entry], pub[w].cap, pub[w].len)
    /\ pub[w].pc = "done" /\ pub[w].calm =>
          \A c \in Clients : /\ c \in pub[w].targets => Once(c, pub[w].entry)
                             /\ c \notin pub[w].targets => Never(c, pub[w].entry)
    /\ pub[w].pc = "panic" => ~pub[w].calm

StreamInv ==
    Shapes /\ Apart /\ (\A t \in Tenants : SliceOK(t)) /\ (\A w \in Writers : CalmOK(w))

-----------------------------------------------------------------------------
LEMMA Facts ==
    /\ EntryTenant \in [Entry -> Tenants]
    /\ ClientTenant \in [Clients -> Tenants]
    /\ Caps \subseteq Nat \ {0}
    /\ NoClient \notin Clients /\ NoEntry \notin Entry
    /\ Len(Entries) \in Nat
    /\ \A i \in 1..Len(Entries) : Entries[i] \in Entry /\ Entries[i] \notin Past
    /\ \A i, j \in 1..Len(Entries) : Entries[i] = Entries[j] => i = j
<1>1. Len(Entries) \in Nat /\ \A i \in 1..Len(Entries) : Entries[i] \in Nat /\ Entries[i] \notin Past
  BY LogStreamAssumption
<1>2. Past \subseteq Nat
  BY LogStreamAssumption
<1> QED
  BY <1>1, <1>2, LogStreamAssumption DEF Entry

LEMMA BegunAreEntries ==
    ASSUME begun \in 0..Len(Entries)
    PROVE  Begun \subseteq Entry
BY Facts DEF Begun

LEMMA StreamStarts == StreamInit => StreamInv
<1> SUFFICES ASSUME StreamInit PROVE StreamInv
  OBVIOUS
<1> USE Facts DEF StreamInit
<1>1. log \subseteq Entry /\ begun \in 0..Len(Entries)
  BY DEF Entry
<1>2. CellsOK
  BY DEF CellsOK
<1>3. SubsOK
  BY DEF SubsOK
<1>4. LockOK
  BY DEF LockOK, NoUnsub
<1>5. DOMAIN chan = Clients /\ \A c \in Clients : ChanOK(c)
  <2>1. \A c \in Clients : chan[c] = NoChan
    OBVIOUS
  <2>2. /\ DOMAIN NoChan = {"st", "got", "read", "dropped"} /\ NoChan.st \in ClientStates
        /\ NoChan.got = <<>> /\ NoChan.read = 0 /\ NoChan.dropped = {}
    BY DEF NoChan, ClientStates
  <2>3. <<>> \in Seq(Entry) /\ Len(<<>>) = 0
    OBVIOUS
  <2>4. ASSUME NEW c \in Clients PROVE ChanOK(c)
    <3>1. /\ DOMAIN chan[c] = {"st", "got", "read", "dropped"} /\ chan[c].st \in ClientStates
          /\ chan[c].got = <<>> /\ chan[c].read = 0 /\ chan[c].dropped = {}
      BY <2>1, <2>2
    <3>2. 1..Len(chan[c].got) = {} /\ chan[c].read \in Nat /\ chan[c].read <= Len(chan[c].got)
      BY <2>3, <3>1
    <3>3. chan[c].got \in Seq(Entry)
      BY <2>3, <3>1
    <3> QED
      BY <3>1, <3>2, <3>3, Zenon DEF ChanOK
  <2> QED
    BY <2>4
<1>6. DOMAIN pub = Writers /\ \A w \in Writers : PubOK(w)
  BY DEF PubOK, PubPCs, NoPub
<1>7. Apart /\ \A w \in Writers : CalmOK(w)
  BY DEF Apart, CalmOK, NoPub
<1>8. \A t \in Tenants : SliceOK(t)
  BY DEF SliceOK, Full, Due, NoChan
<1> QED
  BY <1>1, <1>2, <1>3, <1>4, <1>5, <1>6, <1>7, <1>8 DEF StreamInv, Shapes

-----------------------------------------------------------------------------
(* What a step leaves alone.                                               *)

(* The slices, while the lock rests and no handler opens or closes.        *)
LEMMA SlicesKept ==
    ASSUME \A t \in Tenants : SliceOK(t), UNCHANGED <<cells, subs, mu>>,
           \A c \in Clients : chan'[c].st \in {"open", "leaving"} <=> chan[c].st \in {"open", "leaving"}
    PROVE  \A t \in Tenants : SliceOK(t)'
BY DEF SliceOK, Full, Due, Held, Cell

(* What a channel got of entry e.                                          *)
LEMMA TallyKept ==
    ASSUME NEW c \in Clients, NEW e,
           chan'[c].got = chan[c].got, chan'[c].dropped = chan[c].dropped
    PROVE  (Never(c, e) => Never(c, e)') /\ (Once(c, e) => Once(c, e)')
BY DEF Never, Once, Holds

LEMMA TallyOther ==
    ASSUME NEW c \in Clients, NEW e, NEW f, f # e, chan[c].got \in Seq(Entry), f \in Entry,
           \/ chan'[c].got = Append(chan[c].got, f) /\ chan'[c].dropped = chan[c].dropped
           \/ chan'[c].got = chan[c].got /\ chan'[c].dropped = chan[c].dropped \cup {f}
    PROVE  (Never(c, e) => Never(c, e)') /\ (Once(c, e) => Once(c, e)')
<1>1. CASE chan'[c].got = chan[c].got /\ chan'[c].dropped = chan[c].dropped \cup {f}
  BY <1>1 DEF Never, Once, Holds
<1>2. CASE chan'[c].got = Append(chan[c].got, f) /\ chan'[c].dropped = chan[c].dropped
  <2>1. PICK g, h : g = chan[c].got /\ h = chan'[c].got
    OBVIOUS
  <2>2. /\ Len(h) = Len(g) + 1 /\ Len(g) \in Nat
        /\ \A i \in 1..Len(g) : h[i] = g[i]
        /\ h[Len(g) + 1] = f
    BY <1>2, <2>1
  <2>3. \A i \in 1..Len(h) : h[i] = e => i \in 1..Len(g) /\ g[i] = e
    BY <2>2
  <2>4. \A i \in 1..Len(g) : i \in 1..Len(h)
    BY <2>2
  <2> QED
    BY <1>2, <2>1, <2>2, <2>3, <2>4 DEF Never, Once, Holds
<1> QED
  BY <1>1, <1>2

LEMMA TallyOffered ==
    ASSUME NEW c \in Clients, NEW e \in Entry, Never(c, e), chan[c].got \in Seq(Entry),
           \/ chan'[c].got = Append(chan[c].got, e) /\ chan'[c].dropped = chan[c].dropped
           \/ chan'[c].got = chan[c].got /\ chan'[c].dropped = chan[c].dropped \cup {e}
    PROVE  Once(c, e)'
<1>1. CASE chan'[c].got = chan[c].got /\ chan'[c].dropped = chan[c].dropped \cup {e}
  BY <1>1 DEF Never, Once, Holds
<1>2. CASE chan'[c].got = Append(chan[c].got, e) /\ chan'[c].dropped = chan[c].dropped
  <2>1. PICK g, h : g = chan[c].got /\ h = chan'[c].got
    OBVIOUS
  <2>2. /\ Len(h) = Len(g) + 1 /\ Len(g) \in Nat
        /\ \A i \in 1..Len(g) : h[i] = g[i]
        /\ h[Len(g) + 1] = e
    BY <1>2, <2>1
  <2>n. \A i \in 1..Len(g) : g[i] # e
    BY <2>1 DEF Never, Holds
  <2>3. \A i \in 1..Len(h) : h[i] = e => i = Len(g) + 1
    BY <2>2, <2>n
  <2>4. Len(g) + 1 \in 1..Len(h)
    BY <2>2
  <2> QED
    BY <1>2, <2>1, <2>2, <2>3, <2>4 DEF Never, Once, Holds
<1> QED
  BY <1>1, <1>2

(* The copied slice (t, n, l) shows what it showed.                        *)
Steady(t, n, l) ==
    /\ ~(mu'.client # NoClient /\ ClientTenant[mu'.client] = t)
    /\ n <= subs'[t].cap /\ (n = subs'[t].cap => l <= subs'[t].len)
    /\ \A k \in 1..l : cells'[t][n][k] = cells[t][n][k] /\ chan'[cells[t][n][k]].st # "closed"

LEMMA WalkTally ==
    ASSUME NEW w, NEW t, NEW n, NEW l, NEW i, NEW e, WalkOK(w, t, n, l),
           i = pub[w].i, e = pub[w].entry, NEW c \in Clients
    PROVE  /\ (\E k \in 1..l : k < i /\ cells[t][n][k] = c) => Once(c, e)
           /\ (\A k \in 1..l : k < i => cells[t][n][k] # c) => Never(c, e)
<1>1. /\ (\E k \in 1..l : k < pub[w].i /\ cells[t][n][k] = c) => Once(c, pub[w].entry)
      /\ (\A k \in 1..l : k < pub[w].i => cells[t][n][k] # c) => Never(c, pub[w].entry)
  BY Zenon DEF WalkOK
<1> QED
  BY <1>1, Zenon

(* Request w stands where it stood and what it has sent is in the channels *)
(* as before.                                                              *)
LEMMA CalmKept ==
    ASSUME NEW w \in Writers, CalmOK(w), pub'[w] = pub[w],
           \A c \in Clients : \A e :
              pub[w].pc # "idle" /\ e = pub[w].entry =>
                 (Never(c, e) => Never(c, e)') /\ (Once(c, e) => Once(c, e)'),
           \A t, n, l :
              /\ pub[w].pc \in {"next", "send"} /\ pub[w].calm
              /\ t = EntryTenant[pub[w].entry] /\ n = pub[w].cap /\ l = pub[w].len
              /\ WalkOK(w, t, n, l)
              => Steady(t, n, l)
    PROVE  CalmOK(w)'
<1>1. PICK e, t, n, l, T, i, ch :
        /\ e = pub[w].entry /\ t = EntryTenant[e] /\ n = pub[w].cap /\ l = pub[w].len
        /\ T = pub[w].targets /\ i = pub[w].i /\ ch = pub[w].ch
  OBVIOUS
<1>2. /\ e = pub'[w].entry /\ n = pub'[w].cap /\ l = pub'[w].len
      /\ T = pub'[w].targets /\ i = pub'[w].i /\ ch = pub'[w].ch
      /\ pub'[w].pc = pub[w].pc /\ pub'[w].calm = pub[w].calm
  BY <1>1
<1>3. ASSUME pub[w].pc \in {"insert", "publish"} PROVE \A c \in Clients : Never(c, e)'
  BY <1>1, <1>3 DEF CalmOK
<1>4. ASSUME pub[w].pc = "done", pub[w].calm
      PROVE  \A c \in Clients : (c \in T => Once(c, e)') /\ (c \notin T => Never(c, e)')
  BY <1>1, <1>4 DEF CalmOK
<1>5. ASSUME pub[w].pc \in {"next", "send"}, pub[w].calm PROVE WalkOK(w, t, n, l)'
  <2>1. WalkOK(w, t, n, l)
    BY <1>1, <1>5 DEF CalmOK
  <2>2. Steady(t, n, l)
    BY <1>1, <1>5, <2>1
  <2>3. ~Held(t)' /\ n <= subs'[t].cap /\ (n = subs'[t].cap => l <= subs'[t].len)
    BY <2>2 DEF Steady, Held
  <2>4. \A k \in 1..l : cells'[t][n][k] = cells[t][n][k]
    BY <2>2 DEF Steady
  <2>5. /\ \A k \in 1..l : cells'[t][n][k] \in Clients /\ chan'[cells'[t][n][k]].st # "closed"
        /\ \A k, j \in 1..l : cells'[t][n][k] = cells'[t][n][j] => k = j
    BY <2>1, <2>2, <2>4 DEF WalkOK, Steady
  <2>6. \A c \in Clients : c \in T <=> \E k \in 1..l : cells'[t][n][k] = c
    <3>1. \A c \in Clients : c \in T <=> \E k \in 1..l : cells[t][n][k] = c
      BY <1>1, <2>1, ZenonT(40) DEF WalkOK
    <3> QED
      BY <2>4, <3>1
  <2>7. pub[w].pc = "send" => i \in 1..l /\ ch = cells'[t][n][i]
    BY <1>1, <2>1, <2>4, Zenon DEF WalkOK
  <2>8. ASSUME NEW c \in Clients
        PROVE  /\ (\E k \in 1..l : k < i /\ cells'[t][n][k] = c) => Once(c, e)'
               /\ (\A k \in 1..l : k < i => cells'[t][n][k] # c) => Never(c, e)'
    <3>1. /\ (\E k \in 1..l : k < i /\ cells[t][n][k] = c) => Once(c, e)
          /\ (\A k \in 1..l : k < i => cells[t][n][k] # c) => Never(c, e)
      BY <1>1, <2>1, WalkTally
    <3>2. (Never(c, e) => Never(c, e)') /\ (Once(c, e) => Once(c, e)')
      BY <1>1, <1>5
    <3> QED
      BY <2>4, <3>1, <3>2
  <2> QED
    BY <1>2, <2>3, <2>5, <2>6, <2>7, <2>8 DEF WalkOK
<1>6. pub[w].pc = "panic" => ~pub[w].calm
  BY DEF CalmOK
<1>7. t = EntryTenant[pub'[w].entry]
  BY <1>1, <1>2
<1> QED
  BY <1>2, <1>3, <1>4, <1>5, <1>6, <1>7 DEF CalmOK

-----------------------------------------------------------------------------
(* Writers.                                                                *)

(* A step that changes nothing but the log and writer w.                   *)
LEMMA WriterSettles ==
    ASSUME StreamInv, NEW w \in Writers, UNCHANGED <<cells, subs, mu, chan>>,
           log \subseteq log', log' \subseteq Entry,
           begun' \in 0..Len(Entries), begun <= begun',
           DOMAIN pub' = Writers, \A v \in Writers \ {w} : pub'[v] = pub[v],
           PubOK(w)', CalmOK(w)',
           \A v \in Writers \ {w} :
              pub'[w].pc # "idle" /\ pub[v].pc # "idle" => pub'[w].entry # pub[v].entry
    PROVE  StreamInv'
<1>1. Begun \subseteq Begun'
  BY Facts DEF Begun, StreamInv, Shapes
<1>2. ASSUME NEW c \in Clients PROVE ChanOK(c)'
  <2>1. ChanOK(c)
    BY DEF StreamInv, Shapes
  <2> QED
    BY <1>1, <2>1 DEF ChanOK
<1>3. ASSUME NEW v \in Writers \ {w} PROVE PubOK(v)'
  <2>1. PubOK(v)
    BY DEF StreamInv, Shapes
  <2> QED
    BY <1>1, <2>1 DEF PubOK
<1>4. CellsOK' /\ SubsOK' /\ LockOK'
  BY DEF StreamInv, Shapes, CellsOK, SubsOK, LockOK
<1>5. Shapes'
  BY <1>2, <1>3, <1>4 DEF StreamInv, Shapes
<1>6. Apart'
  BY DEF StreamInv, Apart
<1>7. \A t \in Tenants : SliceOK(t)'
  BY SlicesKept DEF StreamInv
<1>8. ASSUME NEW v \in Writers \ {w} PROVE CalmOK(v)'
  <2>1. CalmOK(v) /\ pub'[v] = pub[v]
    BY DEF StreamInv
  <2>2. \A c \in Clients : \A e :
           pub[v].pc # "idle" /\ e = pub[v].entry =>
              (Never(c, e) => Never(c, e)') /\ (Once(c, e) => Once(c, e)')
    BY TallyKept
  <2>3. \A t, n, l : WalkOK(v, t, n, l) => Steady(t, n, l)
    BY DEF WalkOK, Steady, Held
  <2> QED
    BY <2>1, <2>2, <2>3, CalmKept
<1> QED
  BY <1>5, <1>6, <1>7, <1>8 DEF StreamInv

LEMMA WriteKeeps ==
    ASSUME StreamInv, NEW w \in Writers, Write(w)
    PROVE  StreamInv'
<1>0. Shapes /\ begun \in Nat /\ Len(Entries) \in Nat
  BY Facts DEF StreamInv, Shapes
<1>1. PICK e : e = Entries[begun + 1]
  OBVIOUS
<1>2. /\ begun' = begun + 1 /\ begun + 1 \in 1..Len(Entries) /\ log' = log
      /\ UNCHANGED <<cells, subs, mu, chan>>
  BY <1>0 DEF Write
<1>3. e \in Entry /\ e \notin Begun /\ e \in Begun'
  BY <1>0, <1>1, <1>2, Facts DEF Begun, Shapes
<1>4. /\ DOMAIN pub' = Writers /\ \A v \in Writers \ {w} : pub'[v] = pub[v]
      /\ pub'[w] = [NoPub EXCEPT !.pc = "insert", !.entry = e]
  BY <1>0, <1>1 DEF Write, Shapes
<1>5. /\ pub'[w].pc = "insert" /\ pub'[w].entry = e /\ pub'[w].cap = 0 /\ pub'[w].len = 0
      /\ pub'[w].i = 1
      /\ DOMAIN pub'[w] = {"pc", "entry", "cap", "len", "i", "ch", "targets", "calm"}
  BY <1>4 DEF NoPub
<1>6. PubOK(w)'
  BY <1>3, <1>5 DEF PubOK, PubPCs
<1>7. ASSUME NEW c \in Clients PROVE Never(c, e)'
  <2>1. ChanOK(c)
    BY <1>0 DEF Shapes
  <2>2. Never(c, e)
    BY <1>3, <2>1 DEF ChanOK, Never, Holds
  <2> QED
    BY <1>2, <2>2, TallyKept
<1>8. CalmOK(w)'
  BY <1>5, <1>7 DEF CalmOK
<1>9. ASSUME NEW v \in Writers \ {w}, pub[v].pc # "idle" PROVE pub'[w].entry # pub[v].entry
  BY <1>0, <1>3, <1>5, <1>9 DEF Shapes, PubOK
<1>10. begun' \in 0..Len(Entries) /\ begun <= begun' /\ log' \subseteq Entry
  BY <1>0, <1>2 DEF Shapes
<1> QED
  BY <1>2, <1>4, <1>6, <1>8, <1>9, <1>10, WriterSettles

(* A writer that returns, or whose statement failed, holds nothing.        *)
LEMMA ReturnKeeps ==
    ASSUME StreamInv, NEW w \in Writers, WriteFails(w) \/ WriteReturns(w)
    PROVE  StreamInv'
<1>0. Shapes /\ begun <= begun
  BY Facts DEF StreamInv, Shapes
<1>1. /\ UNCHANGED <<log, begun, cells, subs, mu, chan>>
      /\ pub' = [pub EXCEPT ![w] = NoPub]
  BY DEF WriteFails, WriteReturns
<1>2. /\ DOMAIN pub' = Writers /\ \A v \in Writers \ {w} : pub'[v] = pub[v]
      /\ pub'[w] = NoPub
  BY <1>0, <1>1 DEF Shapes
<1>3. PubOK(w)' /\ CalmOK(w)' /\ pub'[w].pc = "idle"
  BY <1>2 DEF PubOK, CalmOK, NoPub, PubPCs
<1>4. begun' \in 0..Len(Entries) /\ begun <= begun' /\ log \subseteq log' /\ log' \subseteq Entry
  BY <1>0, <1>1 DEF Shapes
<1> QED
  BY <1>1, <1>2, <1>3, <1>4, WriterSettles

(* A step of a writer that stays with its entry.                           *)
LEMMA WriterMoves ==
    ASSUME StreamInv, NEW w \in Writers, UNCHANGED <<begun, cells, subs, mu, chan>>,
           log \subseteq log', log' \subseteq Entry,
           DOMAIN pub' = Writers, \A v \in Writers \ {w} : pub'[v] = pub[v],
           pub[w].pc # "idle", pub'[w].entry = pub[w].entry, PubOK(w)', CalmOK(w)'
    PROVE  StreamInv'
<1>1. begun' \in 0..Len(Entries) /\ begun <= begun'
  BY Facts DEF StreamInv, Shapes
<1>2. ASSUME NEW v \in Writers \ {w}, pub[v].pc # "idle" PROVE pub'[w].entry # pub[v].entry
  BY <1>2 DEF StreamInv, Apart
<1> QED
  BY <1>1, <1>2, WriterSettles

LEMMA CommitKeeps ==
    ASSUME StreamInv, NEW w \in Writers, WriteCommits(w)
    PROVE  StreamInv'
<1>0. Shapes /\ PubOK(w) /\ CalmOK(w) /\ begun \in 0..Len(Entries)
  BY DEF StreamInv, Shapes
<1>1. /\ pub[w].pc = "insert" /\ log' = log \cup {pub[w].entry}
      /\ pub' = [pub EXCEPT ![w].pc = "publish"] /\ UNCHANGED <<begun, cells, subs, mu, chan>>
  BY DEF WriteCommits
<1>2. PICK e : e = pub[w].entry
  OBVIOUS
<1>3. e \in Begun /\ e \in Entry /\ Begun' = Begun
  BY <1>0, <1>1, <1>2, BegunAreEntries DEF PubOK, Begun
<1>4. /\ DOMAIN pub' = Writers /\ \A v \in Writers \ {w} : pub'[v] = pub[v]
      /\ pub'[w] = [pub[w] EXCEPT !.pc = "publish"]
  BY <1>0, <1>1 DEF Shapes
<1>5. /\ pub'[w].pc = "publish" /\ pub'[w].entry = e /\ pub'[w].cap = pub[w].cap
      /\ pub'[w].len = pub[w].len /\ pub'[w].i = pub[w].i
      /\ DOMAIN pub'[w] = DOMAIN pub[w]
  BY <1>0, <1>2, <1>4 DEF PubOK
<1>6. PubOK(w)'
  BY <1>0, <1>1, <1>2, <1>3, <1>5 DEF PubOK, PubPCs
<1>7. ASSUME NEW c \in Clients PROVE Never(c, e)'
  BY <1>0, <1>1, <1>2, TallyKept DEF CalmOK
<1>8. CalmOK(w)'
  BY <1>5, <1>7 DEF CalmOK
<1>9. log \subseteq log' /\ log' \subseteq Entry
  BY <1>0, <1>1, <1>2, <1>3 DEF Shapes
<1> QED
  BY <1>1, <1>2, <1>4, <1>5, <1>6, <1>8, <1>9, WriterMoves

(* The copy is taken between two critical sections, when the slice shows   *)
(* the open connections, each once.                                        *)
LEMMA CopyKeeps ==
    ASSUME StreamInv, NEW w \in Writers, PublishCopy(w)
    PROVE  StreamInv'
<1>0. Shapes /\ PubOK(w) /\ CalmOK(w) /\ begun \in 0..Len(Entries)
  BY DEF StreamInv, Shapes
<1>1. PICK e, t, n, l : /\ e = pub[w].entry /\ t = EntryTenant[e]
                        /\ n = subs[t].cap /\ l = subs[t].len
  OBVIOUS
<1>2. /\ pub[w].pc = "publish" /\ mu.client = NoClient
      /\ UNCHANGED <<log, begun, cells, subs, mu, chan>>
      /\ pub' = [pub EXCEPT ![w].pc = "next", ![w].cap = n, ![w].len = l, ![w].targets = Listed(t)]
  BY <1>1 DEF PublishCopy, Unlocked
<1>3. e \in Begun /\ e \in Entry /\ e \in log /\ t \in Tenants
  BY <1>0, <1>1, <1>2, BegunAreEntries, Facts DEF PubOK
<1>4. n \in {0} \cup Caps /\ l \in Nat /\ l <= n /\ n \in Nat
  BY <1>0, <1>1, <1>3, Facts DEF Shapes, SubsOK
<1>5. /\ DOMAIN pub' = Writers /\ \A v \in Writers \ {w} : pub'[v] = pub[v]
      /\ pub'[w].pc = "next" /\ pub'[w].cap = n /\ pub'[w].len = l
      /\ pub'[w].targets = Listed(t) /\ pub'[w].entry = e /\ pub'[w].i = 1
      /\ DOMAIN pub'[w] = DOMAIN pub[w]
  BY <1>0, <1>1, <1>2 DEF Shapes, PubOK
<1>6. PubOK(w)'
  BY <1>0, <1>2, <1>3, <1>4, <1>5 DEF PubOK, PubPCs, Begun
<1>7. SliceOK(t) /\ \A k \in 1..l : Full(t, k)
  BY <1>1, <1>2, <1>3 DEF StreamInv, Full, Held
<1>8. \A k \in 1..l : /\ cells[t][n][k] \in Clients
                      /\ chan[cells[t][n][k]].st \in {"open", "leaving"}
  BY <1>1, <1>7, ZenonT(40) DEF SliceOK, Due, Cell
<1>9. \A k, j \in 1..l : cells[t][n][k] = cells[t][n][j] => k = j
  BY <1>1, <1>7, Zenon DEF SliceOK, Cell
<1>10. \A c : c \in Listed(t) <=> \E k \in 1..l : cells[t][n][k] = c
  BY <1>1 DEF Listed
<1>11. ASSUME NEW c \in Clients PROVE Never(c, e)'
  BY <1>0, <1>1, <1>2, TallyKept DEF CalmOK
<1>12. WalkOK(w, t, n, l)'
  <2>1. ~Held(t)' /\ n <= subs'[t].cap /\ (n = subs'[t].cap => l <= subs'[t].len)
    BY <1>1, <1>2, <1>4 DEF Held
  <2>2. \A k \in 1..l : cells'[t][n][k] \in Clients /\ chan'[cells'[t][n][k]].st # "closed"
    BY <1>2, <1>8
  <2>3. \A k, j \in 1..l : cells'[t][n][k] = cells'[t][n][j] => k = j
    BY <1>2, <1>9
  <2>4. \A c \in Clients : c \in pub'[w].targets <=> \E k \in 1..l : cells'[t][n][k] = c
    BY <1>2, <1>5, <1>10
  <2>5. \A k \in 1..l : ~(k < pub'[w].i)
    BY <1>5
  <2> QED
    BY <1>5, <1>11, <2>1, <2>2, <2>3, <2>4, <2>5 DEF WalkOK
<1>13. CalmOK(w)'
  BY <1>1, <1>5, <1>12 DEF CalmOK
<1>14. log \subseteq log' /\ log' \subseteq Entry
  BY <1>0, <1>2 DEF Shapes
<1> QED
  BY <1>1, <1>2, <1>5, <1>6, <1>13, <1>14, WriterMoves, Zenon

LEMMA NextKeeps ==
    ASSUME StreamInv, NEW w \in Writers, PublishNext(w)
    PROVE  StreamInv'
<1>0. Shapes /\ PubOK(w) /\ CalmOK(w) /\ begun \in 0..Len(Entries)
  BY DEF StreamInv, Shapes
<1>1. PICK e, t, n, l, i, T :
        /\ e = pub[w].entry /\ t = EntryTenant[e] /\ n = pub[w].cap /\ l = pub[w].len
        /\ i = pub[w].i /\ T = pub[w].targets
  OBVIOUS
<1>2. pub[w].pc = "next" /\ UNCHANGED <<log, begun, cells, subs, mu, chan>>
  BY DEF PublishNext
<1>3. e \in Begun /\ e \in Entry /\ e \in log /\ t \in Tenants
  BY <1>0, <1>1, <1>2, BegunAreEntries, Facts DEF PubOK
<1>4. n \in {0} \cup Caps /\ l \in Nat /\ l <= n /\ n \in Nat /\ i \in Nat \ {0}
  <2>1. n \in {0} \cup Caps /\ l \in Nat /\ l <= n
    BY <1>0, <1>1 DEF PubOK
  <2>2. i \in Nat \ {0}
    BY <1>0, <1>1 DEF PubOK
  <2> QED
    BY <2>1, <2>2, Facts
<1>5. log \subseteq log' /\ log' \subseteq Entry /\ Begun' = Begun
  BY <1>0, <1>2 DEF Shapes, Begun
<1>t. \A c \in Clients : (Never(c, e) => Never(c, e)') /\ (Once(c, e) => Once(c, e)')
  BY <1>2, TallyKept
<1>6. CASE i <= l
  <2>1. PICK x : x = cells[t][n][i]
    OBVIOUS
  <2>2. pub' = [pub EXCEPT ![w].pc = "send", ![w].ch = x]
    BY <1>1, <1>6, <2>1 DEF PublishNext
  <2>3. /\ DOMAIN pub' = Writers /\ \A v \in Writers \ {w} : pub'[v] = pub[v]
        /\ pub'[w].pc = "send" /\ pub'[w].cap = n /\ pub'[w].len = l /\ pub'[w].ch = x
        /\ pub'[w].targets = T /\ pub'[w].entry = e /\ pub'[w].i = i
        /\ pub'[w].calm = pub[w].calm /\ DOMAIN pub'[w] = DOMAIN pub[w]
    BY <1>0, <1>1, <2>2 DEF Shapes, PubOK
  <2>4. i \in 1..n /\ n \in Caps
    BY <1>4, <1>6
  <2>5. x \in {NoClient} \cup {c \in Clients : ClientTenant[c] = t}
    BY <1>0, <1>3, <2>1, <2>4 DEF Shapes, CellsOK
  <2>6. PubOK(w)'
    BY <1>0, <1>1, <1>3, <1>4, <1>5, <2>3, <2>5 DEF PubOK, PubPCs
  <2>7. ASSUME pub[w].calm PROVE WalkOK(w, t, n, l)'
    <3>1. WalkOK(w, t, n, l)
      BY <1>0, <1>1, <1>2, <2>7 DEF CalmOK
    <3>2. i \in 1..l
      BY <1>4, <1>6
    <3>3. ~Held(t)'
      BY <1>2, <3>1 DEF WalkOK, Held
    <3>4. \A c \in Clients :
             /\ (\E k \in 1..l : k < i /\ cells[t][n][k] = c) => Once(c, e)'
             /\ (\A k \in 1..l : k < i => cells[t][n][k] # c) => Never(c, e)'
      BY <1>1, <1>t, <3>1, WalkTally
    <3>5. n <= subs'[t].cap /\ (n = subs'[t].cap => l <= subs'[t].len)
      BY <1>2, <3>1 DEF WalkOK
    <3>6. \A k \in 1..l : cells'[t][n][k] \in Clients /\ chan'[cells'[t][n][k]].st # "closed"
      BY <1>2, <3>1 DEF WalkOK
    <3>7. \A k, j \in 1..l : cells'[t][n][k] = cells'[t][n][j] => k = j
      BY <1>2, <3>1 DEF WalkOK
    <3>8. \A c \in Clients : c \in pub'[w].targets <=> \E k \in 1..l : cells'[t][n][k] = c
      <4>1. \A c \in Clients : c \in T <=> \E k \in 1..l : cells[t][n][k] = c
        BY <1>1, <3>1, Zenon DEF WalkOK
      <4> QED
        BY <1>2, <2>3, <4>1
    <3>9. pub'[w].i \in 1..l /\ pub'[w].ch = cells'[t][n][pub'[w].i]
      BY <1>2, <2>1, <2>3, <3>2
    <3>10. \A c \in Clients :
             /\ (\E k \in 1..l : k < i /\ cells'[t][n][k] = c) => Once(c, e)'
             /\ (\A k \in 1..l : k < i => cells'[t][n][k] # c) => Never(c, e)'
      BY <1>2, <3>4
    <3> QED
      BY <2>3, <3>3, <3>5, <3>6, <3>7, <3>8, <3>9, <3>10 DEF WalkOK
  <2>8. CalmOK(w)'
    BY <1>1, <2>3, <2>7 DEF CalmOK
  <2> QED
    BY <1>1, <1>2, <1>5, <2>3, <2>6, <2>8, WriterMoves
<1>7. CASE ~(i <= l)
  <2>2. pub' = [pub EXCEPT ![w].pc = "done"]
    BY <1>1, <1>7 DEF PublishNext
  <2>3. /\ DOMAIN pub' = Writers /\ \A v \in Writers \ {w} : pub'[v] = pub[v]
        /\ pub'[w].pc = "done" /\ pub'[w].cap = n /\ pub'[w].len = l
        /\ pub'[w].targets = T /\ pub'[w].entry = e /\ pub'[w].i = i
        /\ pub'[w].calm = pub[w].calm /\ DOMAIN pub'[w] = DOMAIN pub[w]
    BY <1>0, <1>1, <2>2 DEF Shapes, PubOK
  <2>6. PubOK(w)'
    BY <1>0, <1>1, <1>3, <1>4, <1>5, <2>3 DEF PubOK, PubPCs
  <2>7. ASSUME pub[w].calm, NEW c \in Clients
        PROVE  (c \in T => Once(c, e)') /\ (c \notin T => Never(c, e)')
    <3>1. WalkOK(w, t, n, l)
      BY <1>0, <1>1, <1>2, <2>7 DEF CalmOK
    <3>2. \A k \in 1..l : k < i
      BY <1>4, <1>7
    <3>3. c \in T <=> \E k \in 1..l : cells[t][n][k] = c
      BY <1>1, <3>1, Zenon DEF WalkOK
    <3>4. \A d \in Clients :
             /\ (\E k \in 1..l : k < i /\ cells[t][n][k] = d) => Once(d, e)
             /\ (\A k \in 1..l : k < i => cells[t][n][k] # d) => Never(d, e)
      BY <1>1, <3>1, WalkTally
    <3> QED
      BY <1>t, <3>2, <3>3, <3>4
  <2>8. CalmOK(w)'
    BY <2>3, <2>7 DEF CalmOK
  <2> QED
    BY <1>1, <1>2, <1>5, <2>3, <2>6, <2>8, WriterMoves
<1> QED
  BY <1>6, <1>7


(* One send: the entry goes into the buffer of channel x or is dropped.    *)
Offered(x, e) ==
    \/ chan'[x].got = Append(chan[x].got, e) /\ chan'[x].dropped = chan[x].dropped
    \/ chan'[x].got = chan[x].got /\ chan'[x].dropped = chan[x].dropped \cup {e}

LEMMA OfferKeepsChannel ==
    ASSUME NEW x \in Clients, NEW e, ChanOK(x), UNCHANGED <<log, begun>>,
           begun \in 0..Len(Entries), e \in Begun, e \in log, EntryTenant[e] = ClientTenant[x],
           DOMAIN chan'[x] = DOMAIN chan[x], chan'[x].st = chan[x].st,
           chan'[x].read = chan[x].read, Offered(x, e)
    PROVE  ChanOK(x)'
<1>1. Begun' = Begun /\ e \in Entry
  BY BegunAreEntries DEF Begun
<1>2. CASE chan'[x].got = chan[x].got /\ chan'[x].dropped = chan[x].dropped \cup {e}
  BY <1>1, <1>2 DEF ChanOK
<1>3. CASE chan'[x].got = Append(chan[x].got, e) /\ chan'[x].dropped = chan[x].dropped
  <2>1. PICK g, h : g = chan[x].got /\ h = chan'[x].got
    OBVIOUS
  <2>2. g \in Seq(Entry) /\ \A i \in 1..Len(g) : /\ g[i] \in log /\ g[i] \in Begun
                                                 /\ EntryTenant[g[i]] = ClientTenant[x]
    BY <2>1 DEF ChanOK
  <2>3. /\ h \in Seq(Entry) /\ Len(h) = Len(g) + 1 /\ Len(g) \in Nat
        /\ \A i \in 1..Len(g) : h[i] = g[i]
        /\ h[Len(g) + 1] = e
    BY <1>1, <1>3, <2>1, <2>2
  <2>4. \A i \in 1..Len(h) : i \in 1..Len(g) \/ i = Len(g) + 1
    BY <2>3
  <2>5. \A i \in 1..Len(h) : /\ h[i] \in log /\ h[i] \in Begun
                             /\ EntryTenant[h[i]] = ClientTenant[x]
    BY <2>2, <2>3, <2>4
  <2>6. chan[x].read \in Nat /\ chan[x].read <= Len(g)
    BY <2>1 DEF ChanOK
  <2>7. chan[x].read <= Len(h)
    BY <2>3, <2>6
  <2> QED
    BY <1>1, <1>3, <2>1, <2>3, <2>5, <2>6, <2>7 DEF ChanOK
<1> QED
  BY <1>2, <1>3 DEF Offered

(* A send on a closed channel: only a walk that is not calm meets one.     *)
LEMMA PanicKeeps ==
    ASSUME StreamInv, NEW w \in Writers, PublishSend(w), chan[pub[w].ch].st = "closed"
    PROVE  StreamInv'
<1>0. Shapes /\ PubOK(w) /\ CalmOK(w) /\ begun \in 0..Len(Entries)
  BY DEF StreamInv, Shapes
<1>1. /\ pub[w].pc = "send" /\ UNCHANGED <<log, begun, cells, subs, mu, chan>>
      /\ pub' = [pub EXCEPT ![w].pc = "panic"]
  BY DEF PublishSend
<1>2. /\ DOMAIN pub' = Writers /\ \A v \in Writers \ {w} : pub'[v] = pub[v]
      /\ pub'[w].pc = "panic" /\ pub'[w].cap = pub[w].cap /\ pub'[w].len = pub[w].len
      /\ pub'[w].entry = pub[w].entry /\ pub'[w].i = pub[w].i
      /\ pub'[w].calm = pub[w].calm /\ DOMAIN pub'[w] = DOMAIN pub[w]
  BY <1>0, <1>1 DEF Shapes, PubOK
<1>3. PubOK(w)'
  BY <1>0, <1>1, <1>2 DEF PubOK, PubPCs, Begun
<1>4. ASSUME pub[w].calm PROVE FALSE
  <2>1. PICK t, n, l, i : t = EntryTenant[pub[w].entry] /\ n = pub[w].cap /\ l = pub[w].len
                          /\ i = pub[w].i
    OBVIOUS
  <2>2. WalkOK(w, t, n, l)
    BY <1>0, <1>1, <1>4, <2>1 DEF CalmOK
  <2>3. i \in 1..l /\ pub[w].ch = cells[t][n][i]
    BY <1>1, <2>1, <2>2, Zenon DEF WalkOK
  <2>4. chan[cells[t][n][i]].st # "closed"
    BY <2>2, <2>3 DEF WalkOK
  <2> QED
    BY <2>3, <2>4
<1>5. CalmOK(w)'
  BY <1>2, <1>4 DEF CalmOK
<1>6. log \subseteq log' /\ log' \subseteq Entry
  BY <1>0, <1>1 DEF Shapes
<1> QED
  BY <1>1, <1>2, <1>3, <1>5, <1>6, WriterMoves

LEMMA OfferKeeps ==
    ASSUME StreamInv, NEW w \in Writers, PublishSend(w), chan[pub[w].ch].st # "closed"
    PROVE  StreamInv'
<1>0. Shapes /\ PubOK(w) /\ CalmOK(w) /\ begun \in 0..Len(Entries) /\ DOMAIN chan = Clients
  BY DEF StreamInv, Shapes
<1>1. PICK e, t, n, l, i, T, x :
        /\ e = pub[w].entry /\ t = EntryTenant[e] /\ n = pub[w].cap /\ l = pub[w].len
        /\ i = pub[w].i /\ T = pub[w].targets /\ x = pub[w].ch
  OBVIOUS
<1>2. /\ pub[w].pc = "send" /\ UNCHANGED <<log, begun, cells, subs, mu>>
      /\ pub' = [pub EXCEPT ![w].pc = "next", ![w].i = i + 1, ![w].ch = NoClient]
      /\ \/ chan' = [chan EXCEPT ![x].got = Append(chan[x].got, e)]
         \/ chan' = [chan EXCEPT ![x].dropped = chan[x].dropped \cup {e}]
  BY <1>1 DEF PublishSend
<1>3. /\ e \in Begun /\ e \in Entry /\ e \in log /\ t \in Tenants /\ Begun' = Begun
      /\ x \in {NoClient} \cup {c \in Clients : ClientTenant[c] = t}
  BY <1>0, <1>1, <1>2, BegunAreEntries, Facts DEF PubOK, Begun
<1>4. i \in Nat \ {0} /\ l \in Nat
  <2>1. i \in Nat \ {0}
    BY <1>0, <1>1 DEF PubOK
  <2>2. l \in Nat
    BY <1>0, <1>1 DEF PubOK
  <2> QED
    BY <2>1, <2>2
<1>5. /\ DOMAIN pub' = Writers /\ \A v \in Writers \ {w} : pub'[v] = pub[v]
      /\ pub'[w].pc = "next" /\ pub'[w].cap = n /\ pub'[w].len = l
      /\ pub'[w].targets = T /\ pub'[w].entry = e /\ pub'[w].i = i + 1
      /\ pub'[w].calm = pub[w].calm /\ DOMAIN pub'[w] = DOMAIN pub[w]
  BY <1>0, <1>1, <1>2 DEF Shapes, PubOK
<1>6. DOMAIN chan' = Clients /\ \A c \in Clients \ {x} : chan'[c] = chan[c]
  BY <1>0, <1>2
<1>7. ASSUME x \in Clients
      PROVE  /\ DOMAIN chan'[x] = DOMAIN chan[x] /\ chan'[x].st = chan[x].st
             /\ chan'[x].read = chan[x].read /\ Offered(x, e)
  <2>1. ChanOK(x)
    BY <1>0, <1>7 DEF Shapes
  <2> QED
    BY <1>0, <1>2, <1>7, <2>1 DEF ChanOK, Offered
<1>8. ASSUME NEW c \in Clients PROVE ChanOK(c)'
  <2>1. ChanOK(c)
    BY <1>0 DEF Shapes
  <2>2. CASE c = x
    <3>1. x \in Clients /\ EntryTenant[e] = ClientTenant[x] /\ ChanOK(x)
      BY <1>1, <1>3, <2>1, <2>2, Facts
    <3>2. ChanOK(x)'
      BY <1>0, <1>2, <1>3, <1>7, <3>1, OfferKeepsChannel
    <3> QED
      BY <2>2, <3>2
  <2>3. CASE c # x
    BY <1>2, <1>3, <1>6, <2>1, <2>3 DEF ChanOK
  <2> QED
    BY <2>2, <2>3
<1>9. \A c \in Clients : chan'[c].st = chan[c].st
  BY <1>6, <1>7
<1>10. PubOK(w)'
  <2>1. pub'[w].i \in Nat \ {0}
    BY <1>4, <1>5
  <2> QED
    BY <1>0, <1>1, <1>2, <1>3, <1>5, <2>1 DEF PubOK, PubPCs
<1>11. ASSUME NEW v \in Writers \ {w} PROVE PubOK(v)'
  <2>1. PubOK(v)
    BY <1>0 DEF Shapes
  <2> QED
    BY <1>2, <1>3, <1>5, <2>1 DEF PubOK
<1>12. CellsOK' /\ SubsOK' /\ LockOK'
  <2>1. CellsOK /\ SubsOK /\ LockOK
    BY <1>0 DEF Shapes
  <2>2. CellsOK' /\ SubsOK'
    BY <1>2, <2>1 DEF CellsOK, SubsOK
  <2>3. LockOK'
    BY <1>2, <1>9, <2>1 DEF LockOK
  <2> QED
    BY <2>2, <2>3
<1>13. Shapes'
  BY <1>0, <1>2, <1>5, <1>6, <1>8, <1>10, <1>11, <1>12 DEF Shapes
<1>14. Apart'
  BY <1>1, <1>2, <1>5 DEF StreamInv, Apart
<1>15. \A u \in Tenants : SliceOK(u)'
  BY <1>2, <1>9, SlicesKept DEF StreamInv
<1>16. ASSUME NEW v \in Writers \ {w} PROVE CalmOK(v)'
  <2>1. CalmOK(v) /\ pub'[v] = pub[v]
    BY <1>5 DEF StreamInv
  <2>2. ASSUME NEW c \in Clients, NEW f, pub[v].pc # "idle", f = pub[v].entry
        PROVE  (Never(c, f) => Never(c, f)') /\ (Once(c, f) => Once(c, f)')
    <3>1. f # e
      BY <1>1, <1>2, <2>2 DEF StreamInv, Apart
    <3>2. CASE c = x
      <4>1. chan[c].got \in Seq(Entry)
        BY <1>0 DEF Shapes, ChanOK
      <4>2. Offered(c, e)
        BY <1>7, <3>2
      <4> QED
        BY <1>3, <3>1, <4>1, <4>2, TallyOther DEF Offered
    <3>3. CASE c # x
      BY <1>6, <3>3, TallyKept
    <3> QED
      BY <3>2, <3>3
  <2>3. \A s, m, k : WalkOK(v, s, m, k) => Steady(s, m, k)
    BY <1>2, <1>9 DEF WalkOK, Steady, Held
  <2> QED
    BY <2>1, <2>2, <2>3, CalmKept
<1>17. ASSUME pub[w].calm PROVE WalkOK(w, t, n, l)'
  <2>1. WalkOK(w, t, n, l)
    BY <1>0, <1>1, <1>2, <1>17 DEF CalmOK
  <2>2. i \in 1..l /\ x = cells[t][n][i]
    BY <1>1, <1>2, <2>1, Zenon DEF WalkOK
  <2>3. ~Held(t)' /\ n <= subs'[t].cap /\ (n = subs'[t].cap => l <= subs'[t].len)
    BY <1>2, <2>1 DEF WalkOK, Held
  <2>4. \A k \in 1..l : cells[t][n][k] \in Clients /\ chan[cells[t][n][k]].st # "closed"
    BY <2>1 DEF WalkOK
  <2>5. \A k, j \in 1..l : cells[t][n][k] = cells[t][n][j] => k = j
    BY <2>1 DEF WalkOK
  <2>6. \A c \in Clients : c \in T <=> \E k \in 1..l : cells[t][n][k] = c
    BY <1>1, <2>1, Zenon DEF WalkOK
  <2>7. \A c \in Clients :
           /\ (\E k \in 1..l : k < i /\ cells[t][n][k] = c) => Once(c, e)
           /\ (\A k \in 1..l : k < i => cells[t][n][k] # c) => Never(c, e)
    BY <1>1, <2>1, WalkTally
  <2>8. x \in Clients /\ \A k \in 1..l : k < i => cells[t][n][k] # x
    BY <1>4, <2>2, <2>4, <2>5
  <2>9. Once(x, e)'
    <3>1. Never(x, e)
      BY <2>7, <2>8
    <3>2. chan[x].got \in Seq(Entry)
      BY <1>0, <2>8 DEF Shapes, ChanOK
    <3> QED
      BY <1>3, <1>7, <2>8, <3>1, <3>2, TallyOffered DEF Offered
  <2>10. \A k \in 1..l : k < i + 1 <=> k < i \/ k = i
    BY <1>4
  <2>11. ASSUME NEW c \in Clients
         PROVE  /\ (\E k \in 1..l : k < i + 1 /\ cells[t][n][k] = c) => Once(c, e)'
                /\ (\A k \in 1..l : k < i + 1 => cells[t][n][k] # c) => Never(c, e)'
    <3>1. CASE c = x
      BY <2>2, <2>9, <2>10, <3>1
    <3>2. CASE c # x
      <4>1. (Never(c, e) => Never(c, e)') /\ (Once(c, e) => Once(c, e)')
        BY <1>6, <3>2, TallyKept
      <4>2. (\E k \in 1..l : k < i + 1 /\ cells[t][n][k] = c) =>
               (\E k \in 1..l : k < i /\ cells[t][n][k] = c)
        BY <2>2, <2>10, <3>2
      <4>3. (\A k \in 1..l : k < i + 1 => cells[t][n][k] # c) =>
               (\A k \in 1..l : k < i => cells[t][n][k] # c)
        BY <2>10
      <4> QED
        BY <2>7, <4>1, <4>2, <4>3
    <3> QED
      BY <3>1, <3>2
  <2>12. \A k \in 1..l : cells'[t][n][k] \in Clients /\ chan'[cells'[t][n][k]].st # "closed"
    BY <1>2, <1>9, <2>4
  <2>13. /\ \A k, j \in 1..l : cells'[t][n][k] = cells'[t][n][j] => k = j
         /\ \A c \in Clients : c \in T <=> \E k \in 1..l : cells'[t][n][k] = c
    BY <1>2, <2>5, <2>6
  <2>14. \A c \in Clients :
            /\ (\E k \in 1..l : k < i + 1 /\ cells'[t][n][k] = c) => Once(c, e)'
            /\ (\A k \in 1..l : k < i + 1 => cells'[t][n][k] # c) => Never(c, e)'
    BY <1>2, <2>11
  <2> QED
    BY <1>5, <2>3, <2>12, <2>13, <2>14 DEF WalkOK
<1>18. CalmOK(w)'
  BY <1>1, <1>5, <1>17 DEF CalmOK
<1> QED
  BY <1>13, <1>14, <1>15, <1>16, <1>18 DEF StreamInv

-----------------------------------------------------------------------------
(* Connections.                                                            *)

(* An unsubscription begins in the middle of writer w's walk.              *)
Ruffled(w) ==
    pub[w].pc \in {"next", "send"} /\ pub'[w] = [pub[w] EXCEPT !.calm = FALSE]

(* A step of a connection that leaves what the channels got alone.         *)
LEMMA ListenerSettles ==
    ASSUME StreamInv, UNCHANGED <<log, begun>>, CellsOK', SubsOK', LockOK',
           DOMAIN chan' = Clients, \A c \in Clients : ChanOK(c)',
           \A c \in Clients : chan'[c].got = chan[c].got /\ chan'[c].dropped = chan[c].dropped,
           \A t \in Tenants : SliceOK(t)',
           DOMAIN pub' = Writers, \A w \in Writers : pub'[w] = pub[w] \/ Ruffled(w),
           \A w \in Writers : \A t \in Tenants : \A n \in {0} \cup Caps : \A l \in Nat :
              /\ pub'[w] = pub[w] /\ pub[w].pc \in {"next", "send"} /\ pub[w].calm
              /\ t = EntryTenant[pub[w].entry] /\ n = pub[w].cap /\ l = pub[w].len /\ l <= n
              /\ WalkOK(w, t, n, l)
              => Steady(t, n, l)
    PROVE  StreamInv'
<1>0. Shapes /\ begun \in 0..Len(Entries) /\ Begun' = Begun
  BY DEF StreamInv, Shapes, Begun
<1>1. ASSUME NEW w \in Writers, Ruffled(w)
      PROVE  /\ DOMAIN pub'[w] = DOMAIN pub[w] /\ pub'[w].pc = pub[w].pc
             /\ pub'[w].entry = pub[w].entry /\ pub'[w].cap = pub[w].cap
             /\ pub'[w].len = pub[w].len /\ pub'[w].i = pub[w].i
             /\ pub'[w].ch = pub[w].ch /\ pub'[w].calm = FALSE
  <2>1. PubOK(w)
    BY <1>0 DEF Shapes
  <2> QED
    BY <1>1, <2>1 DEF PubOK, Ruffled
<1>2. ASSUME NEW w \in Writers PROVE PubOK(w)'
  <2>1. PubOK(w)
    BY <1>0 DEF Shapes
  <2>2. CASE pub'[w] = pub[w]
    BY <1>0, <2>1, <2>2 DEF PubOK
  <2>3. CASE Ruffled(w)
    BY <1>0, <1>1, <2>1, <2>3 DEF PubOK
  <2> QED
    BY <2>2, <2>3
<1>3. Shapes'
  BY <1>0, <1>2 DEF Shapes
<1>4. \A w \in Writers : pub'[w].pc = pub[w].pc /\ pub'[w].entry = pub[w].entry
  BY <1>1
<1>5. Apart'
  BY <1>4 DEF StreamInv, Apart
<1>6. ASSUME NEW w \in Writers PROVE CalmOK(w)'
  <2>1. CASE Ruffled(w)
    BY <1>1, <2>1 DEF CalmOK, Ruffled
  <2>2. CASE pub'[w] = pub[w]
    <3>1. CalmOK(w)
      BY DEF StreamInv
    <3>2. \A c \in Clients : \A e :
             pub[w].pc # "idle" /\ e = pub[w].entry =>
                (Never(c, e) => Never(c, e)') /\ (Once(c, e) => Once(c, e)')
      BY TallyKept
    <3>3. ASSUME NEW t, NEW n, NEW l, pub[w].pc \in {"next", "send"}, pub[w].calm,
                 t = EntryTenant[pub[w].entry], n = pub[w].cap, l = pub[w].len,
                 WalkOK(w, t, n, l)
          PROVE  Steady(t, n, l)
      <4>1. PubOK(w)
        BY <1>0 DEF Shapes
      <4>2. n \in {0} \cup Caps /\ l \in Nat /\ l <= n
        BY <3>3, <4>1 DEF PubOK
      <4>3. pub[w].entry \in Entry
        BY <1>0, <3>3, <4>1, BegunAreEntries DEF PubOK
      <4>4. t \in Tenants
        BY <3>3, <4>3, Facts
      <4> QED
        BY <2>2, <3>3, <4>2, <4>4
    <3> QED
      BY <2>2, <3>1, <3>2, <3>3, CalmKept
  <2> QED
    BY <2>1, <2>2
<1> QED
  BY <1>3, <1>5, <1>6 DEF StreamInv

LEMMA HandlerKeeps ==
    ASSUME StreamInv, NEW c \in Clients, Receive(c) \/ Disconnect(c)
    PROVE  StreamInv'
<1>0. Shapes /\ begun \in 0..Len(Entries) /\ ChanOK(c) /\ DOMAIN chan = Clients
  BY DEF StreamInv, Shapes
<1>1. /\ UNCHANGED <<log, begun, cells, subs, mu, pub>> /\ chan[c].st = "open"
      /\ DOMAIN chan' = Clients /\ \A d \in Clients \ {c} : chan'[d] = chan[d]
      /\ DOMAIN chan'[c] = DOMAIN chan[c]
      /\ chan'[c].got = chan[c].got /\ chan'[c].dropped = chan[c].dropped
      /\ chan'[c].st \in {"open", "leaving"}
      /\ chan'[c].read \in Nat /\ chan'[c].read <= Len(chan[c].got)
  <2>1. CASE Disconnect(c)
    BY <1>0, <2>1 DEF Disconnect, ChanOK
  <2>2. CASE Receive(c)
    <3>1. Len(chan[c].got) \in Nat /\ chan[c].read \in Nat
      BY <1>0 DEF ChanOK
    <3>2. chan' = [chan EXCEPT ![c].read = chan[c].read + 1] /\ chan[c].read < Len(chan[c].got)
      BY <2>2 DEF Receive
    <3>3. chan'[c].read = chan[c].read + 1
      BY <1>0, <3>2 DEF ChanOK
    <3>4. chan'[c].read \in Nat /\ chan'[c].read <= Len(chan[c].got)
      BY <3>1, <3>2, <3>3
    <3> QED
      BY <1>0, <2>2, <3>4 DEF Receive, ChanOK
  <2> QED
    BY <2>1, <2>2
<1>2. ASSUME NEW d \in Clients PROVE ChanOK(d)'
  <2>1. ChanOK(d)
    BY <1>0 DEF Shapes
  <2>2. CASE d = c
    BY <1>1, <2>1, <2>2 DEF ChanOK, Begun, ClientStates
  <2>3. CASE d # c
    BY <1>1, <2>1, <2>3 DEF ChanOK, Begun
  <2> QED
    BY <2>2, <2>3
<1>3. CellsOK' /\ SubsOK'
  BY <1>0, <1>1 DEF Shapes, CellsOK, SubsOK
<1>4. LockOK'
  BY <1>0, <1>1 DEF Shapes, LockOK
<1>5. \A t \in Tenants : SliceOK(t)'
  BY <1>1, SlicesKept DEF StreamInv
<1>6. \A d \in Clients : chan[d].st # "closed" => chan'[d].st # "closed"
  BY <1>1
<1>7. \A w, t, n, l : WalkOK(w, t, n, l) => Steady(t, n, l)
  BY <1>1, <1>6 DEF WalkOK, Steady, Held
<1> QED
  BY <1>0, <1>1, <1>2, <1>3, <1>4, <1>5, <1>7, ListenerSettles DEF Shapes

(* append: the new channel is behind the others, in the same array or in a *)
(* larger one that the others were copied to; what a slice copied earlier  *)
(* shows stays as it is.                                                   *)
LEMMA AppendShape ==
    ASSUME Shapes, NEW c \in Clients, NEW t \in Tenants, t = ClientTenant[c], AppendChan(t, c),
           NEW p, NEW k, p = subs[t].cap, k = subs[t].len
    PROVE  /\ CellsOK' /\ SubsOK'
           /\ subs'[t].len = k + 1 /\ subs'[t].cap >= p
           /\ \A i \in 1..k : cells'[t][subs'[t].cap][i] = cells[t][p][i]
           /\ cells'[t][subs'[t].cap][k + 1] = c
           /\ \A u \in Tenants \ {t} : subs'[u] = subs[u] /\ cells'[u] = cells[u]
           /\ \A n \in Caps : \A i \in 1..n :
                 n <= p /\ (n = p => i <= k) => cells'[t][n][i] = cells[t][n][i]
<1>1. p \in {0} \cup Caps /\ p \in Nat /\ k \in Nat /\ k <= p
  BY Facts DEF Shapes, SubsOK
<1>c. CellsOK
  BY DEF Shapes
<1>2. CASE k < p
  <2>1. /\ cells' = [cells EXCEPT ![t][p][k + 1] = c]
        /\ subs' = [subs EXCEPT ![t].len = k + 1]
    BY <1>2 DEF AppendChan
  <2>2. p \in Caps /\ k + 1 \in 1..p
    BY <1>1, <1>2
  <2>3. /\ subs'[t].len = k + 1 /\ subs'[t].cap = p
        /\ \A u \in Tenants \ {t} : subs'[u] = subs[u]
    BY <2>1 DEF Shapes, SubsOK
  <2>4. SubsOK'
    BY <1>1, <1>2, <2>1, SMTT(30) DEF Shapes, SubsOK
  <2>5. CellsOK'
    BY <1>c, <2>1, <2>2, SMTT(30) DEF CellsOK
  <2>6. /\ cells'[t][p][k + 1] = c
        /\ \A i \in 1..p : i # k + 1 => cells'[t][p][i] = cells[t][p][i]
        /\ \A n \in Caps : n # p => cells'[t][n] = cells[t][n]
        /\ \A u \in Tenants \ {t} : cells'[u] = cells[u]
    <3>1. /\ DOMAIN cells = Tenants /\ DOMAIN cells[t] = Caps /\ DOMAIN cells[t][p] = 1..p
      BY <1>c, <2>2 DEF CellsOK
    <3>2. cells'[t] = [cells[t] EXCEPT ![p][k + 1] = c] /\ \A u \in Tenants \ {t} : cells'[u] = cells[u]
      BY <2>1, <3>1
    <3>3. /\ cells'[t][p] = [cells[t][p] EXCEPT ![k + 1] = c]
          /\ \A n \in Caps : n # p => cells'[t][n] = cells[t][n]
      BY <2>2, <3>1, <3>2, SMTT(30)
    <3>4. /\ cells'[t][p][k + 1] = c
          /\ \A i \in 1..p : i # k + 1 => cells'[t][p][i] = cells[t][p][i]
      BY <2>2, <3>1, <3>3
    <3> QED
      BY <3>2, <3>3, <3>4
  <2>7. \A i \in 1..k : i \in 1..p /\ i # k + 1
    BY <1>1
  <2>8. \A n \in Caps : \A i \in 1..n :
           n <= p /\ (n = p => i <= k) => cells'[t][n][i] = cells[t][n][i]
    BY <1>1, <2>6
  <2>9. subs'[t].cap >= p /\ \A i \in 1..k : cells'[t][subs'[t].cap][i] = cells[t][p][i]
    BY <1>1, <2>3, <2>6, <2>7
  <2>10. cells'[t][subs'[t].cap][k + 1] = c
    BY <2>3, <2>6
  <2> QED
    BY <2>3, <2>4, <2>5, <2>6, <2>8, <2>9, <2>10
<1>3. CASE ~(k < p)
  <2>1. PICK m : m = IF p = 0 THEN 1 ELSE 2 * p
    OBVIOUS
  <2>2. /\ m \in Caps
        /\ cells' = [cells EXCEPT ![t][m] =
                        [i \in 1..m |-> IF i <= k THEN cells[t][p][i]
                                        ELSE IF i = k + 1 THEN c ELSE NoClient]]
        /\ subs' = [subs EXCEPT ![t] = [cap |-> m, len |-> k + 1]]
    BY <1>3, <2>1 DEF AppendChan
  <2>3. m \in Nat /\ k + 1 <= m /\ k = p /\ p < m
    BY <1>1, <1>3, <2>1
  <2>4. /\ subs'[t].len = k + 1 /\ subs'[t].cap = m
        /\ \A u \in Tenants \ {t} : subs'[u] = subs[u]
    BY <2>2 DEF Shapes, SubsOK
  <2>5. SubsOK'
    BY <1>1, <2>2, <2>3 DEF Shapes, SubsOK
  <2>6. \A i \in 1..k : cells[t][p][i] \in {NoClient} \cup {d \in Clients : ClientTenant[d] = t}
    <3>1. \A i \in 1..k : p \in Caps /\ i \in 1..p
      BY <1>1, <2>3, SMTT(30)
    <3> QED
      BY <1>c, <3>1 DEF CellsOK
  <2>7. CellsOK'
    BY <1>1, <1>c, <2>2, <2>3, <2>6 DEF CellsOK
  <2>8. /\ cells'[t][m][k + 1] = c
        /\ \A i \in 1..k : cells'[t][m][i] = cells[t][p][i]
        /\ \A n \in Caps : n # m => cells'[t][n] = cells[t][n]
        /\ \A u \in Tenants \ {t} : cells'[u] = cells[u]
    BY <1>1, <1>c, <2>2, <2>3 DEF CellsOK
  <2>9. \A n \in Caps : n <= p => n # m
    BY <1>1, <2>3, Facts
  <2>10. subs'[t].cap >= p /\ \A i \in 1..k : cells'[t][subs'[t].cap][i] = cells[t][p][i]
    BY <1>1, <2>3, <2>4, <2>8
  <2>11. cells'[t][subs'[t].cap][k + 1] = c
    BY <2>4, <2>8
  <2> QED
    BY <2>4, <2>5, <2>7, <2>8, <2>9, <2>10, <2>11
<1> QED
  BY <1>2, <1>3

LEMMA SubscribeKeeps ==
    ASSUME StreamInv, NEW c \in Clients, Subscribe(c)
    PROVE  StreamInv'
<1>0. Shapes /\ begun \in 0..Len(Entries) /\ ChanOK(c) /\ DOMAIN chan = Clients /\ SubsOK
  BY DEF StreamInv, Shapes
<1>1. PICK t, p, k : t = ClientTenant[c] /\ p = subs[t].cap /\ k = subs[t].len
  OBVIOUS
<1>2. /\ t \in Tenants /\ chan[c].st = "new" /\ mu.client = NoClient
      /\ UNCHANGED <<log, begun, mu, pub>> /\ AppendChan(t, c)
      /\ chan' = [chan EXCEPT ![c].st = "open"]
  BY <1>1, Facts DEF Subscribe, Unlocked
<1>3. /\ CellsOK' /\ SubsOK'
      /\ subs'[t].len = k + 1 /\ subs'[t].cap >= p
      /\ \A i \in 1..k : cells'[t][subs'[t].cap][i] = cells[t][p][i]
      /\ cells'[t][subs'[t].cap][k + 1] = c
      /\ \A u \in Tenants \ {t} : subs'[u] = subs[u] /\ cells'[u] = cells[u]
  BY <1>0, <1>1, <1>2, AppendShape, SMTT(30)
<1>4. \A n \in Caps : \A i \in 1..n :
         n <= p /\ (n = p => i <= k) => cells'[t][n][i] = cells[t][n][i]
  BY <1>0, <1>1, <1>2, AppendShape
<1>5. /\ DOMAIN chan' = Clients /\ \A d \in Clients \ {c} : chan'[d] = chan[d]
      /\ DOMAIN chan'[c] = DOMAIN chan[c] /\ chan'[c].st = "open"
      /\ chan'[c].got = chan[c].got /\ chan'[c].dropped = chan[c].dropped
      /\ chan'[c].read = chan[c].read
  BY <1>0, <1>2 DEF ChanOK
<1>6. ASSUME NEW d \in Clients PROVE ChanOK(d)'
  <2>1. ChanOK(d)
    BY <1>0 DEF Shapes
  <2>2. CASE d = c
    BY <1>2, <1>5, <2>1, <2>2 DEF ChanOK, Begun, ClientStates
  <2>3. CASE d # c
    BY <1>2, <1>5, <2>1, <2>3 DEF ChanOK, Begun
  <2> QED
    BY <2>2, <2>3
<1>7. LockOK'
  BY <1>0, <1>2 DEF Shapes, LockOK
<1>8. k \in Nat /\ p \in Nat /\ p \in {0} \cup Caps /\ k <= p /\ subs'[t].cap \in Nat
  BY <1>0, <1>1, <1>2, <1>3, Facts DEF SubsOK
<1>9. SliceOK(t)'
  <2>1. SliceOK(t)
    BY <1>2 DEF StreamInv
  <2>2. \A i \in 1..k : Full(t, i)
    BY <1>1, <1>2 DEF Full, Held
  <2>3. \A i \in 1..(k + 1) : i \in 1..k \/ i = k + 1
    BY <1>8
  <2>4. \A d : Due(t, d)' <=> Due(t, d) \/ d = c
    BY <1>1, <1>2, <1>5, Facts DEF Due
  <2>5. ~Due(t, c)
    BY <1>2 DEF Due
  <2>6. /\ \A i \in 1..k : Due(t, cells[t][p][i])
        /\ \A d \in Clients : Due(t, d) => \E i \in 1..k : cells[t][p][i] = d
        /\ \A i, j \in 1..k : cells[t][p][i] = cells[t][p][j] => i = j
    BY <1>1, <2>1, <2>2 DEF SliceOK, Cell
  <2>7. PICK m : m = subs'[t].cap
    OBVIOUS
  <2>8. ASSUME NEW i \in 1..(k + 1), NEW d, d = cells'[t][m][i] PROVE Due(t, d)'
    <3>1. CASE i \in 1..k
      BY <1>3, <2>4, <2>6, <2>7, <2>8, <3>1
    <3>2. CASE i = k + 1
      BY <1>3, <2>4, <2>7, <2>8, <3>2
    <3> QED
      BY <2>3, <3>1, <3>2
  <2>9. \A d \in Clients : Due(t, d)' => \E i \in 1..(k + 1) : cells'[t][m][i] = d
    <3>1. k + 1 \in 1..(k + 1) /\ \A i \in 1..k : i \in 1..(k + 1)
      BY <1>8
    <3> QED
      BY <1>3, <2>4, <2>6, <2>7, <3>1
  <2>10. \A i, j \in 1..(k + 1) : cells'[t][m][i] = cells'[t][m][j] => i = j
    BY <1>3, <2>3, <2>5, <2>6, <2>7
  <2>11. \A i \in 1..(k + 1) : Full(t, i)'
    BY <1>2, <1>3 DEF Full, Held
  <2>12. \A i \in 1..(k + 1) : Due(t, Cell(t, i))'
    BY <2>7, <2>8 DEF Due, Cell
  <2>13. \A d \in Clients : Due(t, d)' => \E i \in 1..(k + 1) : Full(t, i)' /\ Cell(t, i)' = d
    BY <2>7, <2>9, <2>11 DEF Cell
  <2>14. \A i, j \in 1..(k + 1) : Cell(t, i)' = Cell(t, j)' => i = j
    BY <2>7, <2>10 DEF Cell
  <2> QED
    BY <1>3, <2>12, <2>13, <2>14 DEF SliceOK
<1>10. ASSUME NEW u \in Tenants \ {t} PROVE SliceOK(u)'
  <2>1. SliceOK(u)
    BY DEF StreamInv
  <2>2. \A d : Due(u, d)' <=> Due(u, d)
    BY <1>1, <1>2, <1>5 DEF Due
  <2>3. \A i : Full(u, i)' <=> Full(u, i)
    BY <1>2, <1>3 DEF Full, Held
  <2>4. \A i : Cell(u, i)' = Cell(u, i)
    BY <1>3 DEF Cell
  <2> QED
    BY <1>3, <2>1, <2>2, <2>3, <2>4 DEF SliceOK
<1>11. \A u \in Tenants : SliceOK(u)'
  BY <1>9, <1>10
<1>12. ASSUME NEW w \in Writers, NEW u \in Tenants, NEW n \in {0} \cup Caps, NEW l \in Nat,
              l <= n, WalkOK(w, u, n, l)
       PROVE  Steady(u, n, l)
  <2>1. ~(mu'.client # NoClient /\ ClientTenant[mu'.client] = u)
    BY <1>2
  <2>2. \A i \in 1..l : cells[u][n][i] \in Clients /\ chan[cells[u][n][i]].st # "closed"
    BY <1>12 DEF WalkOK
  <2>3. \A d \in Clients : chan[d].st # "closed" => chan'[d].st # "closed"
    BY <1>5
  <2>4. n <= subs[u].cap /\ (n = subs[u].cap => l <= subs[u].len)
    BY <1>12 DEF WalkOK
  <2>5. CASE u # t
    BY <1>3, <2>1, <2>2, <2>3, <2>4, <2>5 DEF Steady
  <2>6. CASE u = t
    <3>1. n <= p /\ (n = p => l <= k) /\ n \in Nat
      BY <1>1, <2>4, <2>6, Facts
    <3>2. ASSUME NEW i \in 1..l PROVE cells'[t][n][i] = cells[t][n][i]
      <4>1. n \in Caps /\ i \in 1..n /\ (n = p => i <= k)
        BY <1>8, <1>12, <3>1
      <4> QED
        BY <1>4, <3>1, <4>1
    <3>3. n <= subs'[t].cap
      BY <1>3, <1>8, <3>1
    <3>4. n = subs'[t].cap => l <= subs'[t].len
      <4>1. ASSUME n = subs'[t].cap PROVE n = p
        BY <1>3, <1>8, <3>1, <4>1
      <4> QED
        BY <1>3, <1>8, <3>1, <4>1
    <3> QED
      BY <2>1, <2>2, <2>3, <2>6, <3>2, <3>3, <3>4 DEF Steady
  <2> QED
    BY <2>5, <2>6
<1>13. DOMAIN pub' = Writers /\ \A w \in Writers : pub'[w] = pub[w]
  BY <1>0, <1>2 DEF Shapes
<1>14. \A d \in Clients : chan'[d].got = chan[d].got /\ chan'[d].dropped = chan[d].dropped
  BY <1>5
<1> QED
  BY <1>2, <1>3, <1>5, <1>6, <1>7, <1>11, <1>12, <1>13, <1>14, ListenerSettles

(* Unsubscribe has found the channel in cell k, which becomes the hole.    *)
LEMMA FindKeeps ==
    ASSUME StreamInv, NEW c \in Clients, UnsubscribeFind(c)
    PROVE  StreamInv'
<1>0. Shapes /\ begun \in 0..Len(Entries) /\ DOMAIN chan = Clients /\ SubsOK /\ DOMAIN pub = Writers
  BY DEF StreamInv, Shapes
<1>1. PICK t, p, l : t = ClientTenant[c] /\ p = subs[t].cap /\ l = subs[t].len
  OBVIOUS
<1>2. PICK k \in 1..l : cells[t][p][k] = c /\ mu' = [client |-> c, i |-> k]
  BY <1>1 DEF UnsubscribeFind
<1>3. /\ t \in Tenants /\ mu.client = NoClient /\ chan[c].st = "leaving"
      /\ UNCHANGED <<log, begun, cells, subs, chan>> /\ mu'.client = c /\ mu'.i = k
  BY <1>1, <1>2, Facts DEF UnsubscribeFind, Unlocked
<1>4. /\ DOMAIN pub' = Writers
      /\ \A w \in Writers :
            /\ pub[w].pc \in {"next", "send"} /\ EntryTenant[pub[w].entry] = t => Ruffled(w)
            /\ ~(pub[w].pc \in {"next", "send"} /\ EntryTenant[pub[w].entry] = t) => pub'[w] = pub[w]
  BY <1>1 DEF UnsubscribeFind, Ruffled
<1>5. l \in Nat
  BY <1>0, <1>1, <1>3 DEF SubsOK
<1>6. CellsOK' /\ SubsOK' /\ \A d \in Clients : ChanOK(d)'
  <2>1. CellsOK' /\ SubsOK'
    BY <1>0, <1>3 DEF Shapes, CellsOK, SubsOK
  <2>2. ASSUME NEW d \in Clients PROVE ChanOK(d)'
    <3>1. ChanOK(d)
      BY <1>0 DEF Shapes
    <3> QED
      BY <1>3, <3>1 DEF ChanOK, Begun
  <2> QED
    BY <2>1, <2>2
<1>7. LockOK'
  BY <1>1, <1>2, <1>3, <1>5 DEF LockOK
<1>8. SliceOK(t)'
  <2>1. SliceOK(t)
    BY <1>3 DEF StreamInv
  <2>2. \A i \in 1..l : Full(t, i)
    BY <1>1, <1>3 DEF Full, Held
  <2>3. \A i \in 1..l : Full(t, i)' <=> i # k
    BY <1>1, <1>3, Facts DEF Full, Held
  <2>4. \A d : Due(t, d)' <=> Due(t, d) /\ d # c
    BY <1>3, Facts DEF Due
  <2>5. /\ \A i \in 1..l : Due(t, cells[t][p][i])
        /\ \A d \in Clients : Due(t, d) => \E i \in 1..l : cells[t][p][i] = d
        /\ \A i, j \in 1..l : cells[t][p][i] = cells[t][p][j] => i = j
    BY <1>1, <2>1, <2>2 DEF SliceOK, Cell
  <2>6. ASSUME NEW i \in 1..l, i # k, NEW d, d = cells[t][p][i] PROVE Due(t, d)'
    BY <1>2, <2>4, <2>5, <2>6
  <2>7. \A d \in Clients : Due(t, d)' => \E i \in 1..l : i # k /\ cells[t][p][i] = d
    BY <1>2, <2>4, <2>5
  <2>8. \A i : Cell(t, i)' = cells[t][p][i]
    BY <1>1, <1>3 DEF Cell
  <2>9. \A i \in 1..l : i # k => Due(t, Cell(t, i))'
    BY <1>1, <1>3, <2>6 DEF Due, Cell
  <2>10. \A d \in Clients : Due(t, d)' => \E i \in 1..l : Full(t, i)' /\ Cell(t, i)' = d
    BY <2>3, <2>7, <2>8
  <2>11. \A i, j \in 1..l : Cell(t, i)' = Cell(t, j)' => i = j
    BY <2>5, <2>8
  <2>12. subs'[t].len = l
    BY <1>1, <1>3
  <2> QED
    BY <2>3, <2>9, <2>10, <2>11, <2>12 DEF SliceOK
<1>9. ASSUME NEW u \in Tenants \ {t} PROVE SliceOK(u)'
  <2>1. SliceOK(u)
    BY DEF StreamInv
  <2>2. \A d : Due(u, d)' <=> Due(u, d)
    BY <1>1, <1>3, Facts DEF Due
  <2>3. \A i : Full(u, i)' <=> Full(u, i)
    BY <1>1, <1>3 DEF Full, Held
  <2>4. \A i : Cell(u, i)' = Cell(u, i)
    BY <1>3 DEF Cell
  <2> QED
    BY <1>3, <2>1, <2>2, <2>3, <2>4 DEF SliceOK
<1>10. \A u \in Tenants : SliceOK(u)'
  BY <1>8, <1>9, SMTT(30)
<1>11. ASSUME NEW w \in Writers, NEW u \in Tenants, NEW n \in {0} \cup Caps, NEW j \in Nat,
              pub'[w] = pub[w], pub[w].pc \in {"next", "send"}, pub[w].calm,
              u = EntryTenant[pub[w].entry], WalkOK(w, u, n, j)
       PROVE  Steady(u, n, j)
  <2>1. u # t
    <3>1. ASSUME u = t PROVE FALSE
      <4>1. Ruffled(w) /\ PubOK(w)
        BY <1>0, <1>4, <1>11, <3>1 DEF Shapes
      <4>2. pub'[w].calm = FALSE
        BY <4>1 DEF Ruffled, PubOK
      <4> QED
        BY <1>11, <4>2
    <3> QED
      BY <3>1
  <2> QED
    BY <1>1, <1>3, <1>11, <2>1 DEF WalkOK, Steady
<1>12. \A d \in Clients : chan'[d].got = chan[d].got /\ chan'[d].dropped = chan[d].dropped
  BY <1>3
<1>13. \A w \in Writers : pub'[w] = pub[w] \/ Ruffled(w)
  BY <1>4
<1>14. DOMAIN chan' = Clients
  BY <1>0, <1>3
<1> QED
  BY <1>3, <1>4, <1>6, <1>7, <1>10, <1>11, <1>12, <1>13, <1>14, ListenerSettles

(* The hole moves one cell on; what stood there stands before it.          *)
LEMMA ShiftKeeps ==
    ASSUME StreamInv, UnsubscribeShift
    PROVE  StreamInv'
<1>0. Shapes /\ begun \in 0..Len(Entries) /\ DOMAIN chan = Clients /\ SubsOK /\ LockOK /\ CellsOK
  BY DEF StreamInv, Shapes
<1>1. PICK c, t, p, l, k : /\ c = mu.client /\ t = ClientTenant[c] /\ p = subs[t].cap
                           /\ l = subs[t].len /\ k = mu.i
  OBVIOUS
<1>2. /\ c \in Clients /\ t \in Tenants /\ c # NoClient /\ k \in 1..l /\ k < l
      /\ chan[c].st = "leaving"
  BY <1>0, <1>1, Facts DEF UnsubscribeShift, Unlocked, LockOK
<1>3. /\ cells' = [cells EXCEPT ![t][p][k] = cells[t][p][k + 1]]
      /\ mu' = [mu EXCEPT !.i = k + 1]
      /\ UNCHANGED <<log, begun, subs, chan, pub>>
  BY <1>1 DEF UnsubscribeShift
<1>4. p \in {0} \cup Caps /\ l \in Nat /\ l <= p
  BY <1>0, <1>1, <1>2 DEF SubsOK
<1>5. /\ p \in Caps /\ p \in Nat /\ k \in Nat /\ k \in 1..p /\ k + 1 \in 1..p /\ k + 1 \in 1..l
      /\ k # k + 1 /\ \A i \in 1..l : i \in 1..p
  BY <1>2, <1>4, Facts
<1>6. mu'.client = c /\ mu'.i = k + 1 /\ mu' \in [client : Clients \cup {NoClient}, i : Nat]
  BY <1>0, <1>1, <1>3, <1>5 DEF LockOK
<1>7. LockOK'
  BY <1>1, <1>2, <1>3, <1>5, <1>6 DEF LockOK
<1>8. /\ cells'[t][p][k] = cells[t][p][k + 1]
      /\ \A i \in 1..p : i # k => cells'[t][p][i] = cells[t][p][i]
      /\ \A u \in Tenants \ {t} : cells'[u] = cells[u]
  <2>1. DOMAIN cells = Tenants /\ DOMAIN cells[t] = Caps /\ DOMAIN cells[t][p] = 1..p
    BY <1>0, <1>2, <1>5 DEF CellsOK
  <2>2. /\ cells'[t] = [cells[t] EXCEPT ![p][k] = cells[t][p][k + 1]]
        /\ \A u \in Tenants \ {t} : cells'[u] = cells[u]
    BY <1>2, <1>3, <2>1
  <2>3. cells'[t][p] = [cells[t][p] EXCEPT ![k] = cells[t][p][k + 1]]
    BY <1>5, <2>1, <2>2
  <2>4. /\ cells'[t][p][k] = cells[t][p][k + 1]
        /\ \A i \in 1..p : i # k => cells'[t][p][i] = cells[t][p][i]
    BY <1>5, <2>1, <2>3
  <2> QED
    BY <2>2, <2>4
<1>9. CellsOK'
  BY <1>0, <1>2, <1>3, <1>5 DEF CellsOK
<1>10. SubsOK' /\ \A d \in Clients : ChanOK(d)'
  <2>1. SubsOK'
    BY <1>0, <1>3 DEF SubsOK
  <2>2. ASSUME NEW d \in Clients PROVE ChanOK(d)'
    <3>1. ChanOK(d)
      BY <1>0 DEF Shapes
    <3> QED
      BY <1>3, <3>1 DEF ChanOK, Begun
  <2> QED
    BY <2>1, <2>2
<1>11. \A u, d : Due(u, d)' <=> Due(u, d)
  BY <1>1, <1>3, <1>6 DEF Due
<1>12. SliceOK(t)'
  <2>1. SliceOK(t)
    BY <1>2 DEF StreamInv
  <2>2. \A i \in 1..l : Full(t, i) <=> i # k
    BY <1>1, <1>2 DEF Full, Held
  <2>3. \A i \in 1..l : Full(t, i)' <=> i # k + 1
    BY <1>1, <1>2, <1>3, <1>6 DEF Full, Held
  <2>c. subs[t].len = l /\ \A i : Cell(t, i) = cells[t][p][i]
    BY <1>1 DEF Cell
  <2>4. /\ \A i \in 1..l : i # k => Due(t, cells[t][p][i])
        /\ \A d \in Clients : Due(t, d) => \E i \in 1..l : i # k /\ cells[t][p][i] = d
        /\ \A i, j \in 1..l : i # k /\ j # k /\ cells[t][p][i] = cells[t][p][j] => i = j
    <3>1. /\ \A i \in 1..l : Full(t, i) => Due(t, cells[t][p][i])
          /\ \A d \in Clients : Due(t, d) => \E i \in 1..l : Full(t, i) /\ cells[t][p][i] = d
          /\ \A i, j \in 1..l : Full(t, i) /\ Full(t, j) /\ cells[t][p][i] = cells[t][p][j] => i = j
      BY <2>c, <2>1, SMTT(30) DEF SliceOK
    <3> QED
      BY <2>2, <3>1
  <2>5. \A i : Cell(t, i)' = cells'[t][p][i]
    BY <1>1, <1>3 DEF Cell
  <2>6. \A i \in 1..l : i # k => cells'[t][p][i] = cells[t][p][i]
    BY <1>5, <1>8
  <2>7. ASSUME NEW i \in 1..l, i # k + 1, NEW d, d = cells'[t][p][i] PROVE Due(t, d)'
    <3>1. CASE i = k
      BY <1>5, <1>8, <1>11, <2>4, <2>7, <3>1
    <3>2. CASE i # k
      BY <1>11, <2>4, <2>6, <2>7, <3>2
    <3> QED
      BY <3>1, <3>2
  <2>8. ASSUME NEW d \in Clients, Due(t, d)'
        PROVE  \E i \in 1..l : i # k + 1 /\ cells'[t][p][i] = d
    <3>1. PICK j \in 1..l : j # k /\ cells[t][p][j] = d
      BY <1>11, <2>4, <2>8
    <3>2. CASE j = k + 1
      BY <1>2, <1>5, <1>8, <3>1, <3>2
    <3>3. CASE j # k + 1
      BY <2>6, <3>1, <3>3
    <3> QED
      BY <3>2, <3>3
  <2>9. ASSUME NEW i \in 1..l, NEW j \in 1..l, i # k + 1, j # k + 1,
               cells'[t][p][i] = cells'[t][p][j]
        PROVE  i = j
    <3>1. CASE i = k /\ j # k
      BY <1>5, <1>8, <2>4, <2>6, <2>9, <3>1
    <3>2. CASE i # k /\ j = k
      BY <1>5, <1>8, <2>4, <2>6, <2>9, <3>2
    <3>3. CASE i # k /\ j # k
      BY <2>4, <2>6, <2>9, <3>3
    <3> QED
      BY <3>1, <3>2, <3>3
  <2>10. \A i \in 1..l : i # k + 1 => Due(t, Cell(t, i))'
    BY <1>1, <1>3, <2>7, ZenonT(40) DEF Due, Cell
  <2>11. \A d \in Clients : Due(t, d)' => \E i \in 1..l : Full(t, i)' /\ Cell(t, i)' = d
    BY <2>3, <2>5, <2>8
  <2>12. \A i, j \in 1..l : i # k + 1 /\ j # k + 1 /\ Cell(t, i)' = Cell(t, j)' => i = j
    BY <2>5, <2>9
  <2>13. subs'[t].len = l
    BY <1>1, <1>3
  <2> QED
    BY <2>3, <2>10, <2>11, <2>12, <2>13 DEF SliceOK
<1>13. ASSUME NEW u \in Tenants \ {t} PROVE SliceOK(u)'
  <2>1. SliceOK(u)
    BY DEF StreamInv
  <2>3. \A i : Full(u, i)' <=> Full(u, i)
    BY <1>1, <1>3, <1>6 DEF Full, Held
  <2>4. \A i : Cell(u, i)' = Cell(u, i)
    BY <1>3, <1>8 DEF Cell
  <2> QED
    BY <1>3, <1>11, <2>1, <2>3, <2>4 DEF SliceOK
<1>14. \A u \in Tenants : SliceOK(u)'
  BY <1>12, <1>13
<1>15. ASSUME NEW w \in Writers, NEW u \in Tenants, NEW n \in {0} \cup Caps, NEW j \in Nat,
              WalkOK(w, u, n, j)
       PROVE  Steady(u, n, j)
  <2>1. u # t
    BY <1>1, <1>2, <1>15 DEF WalkOK, Held
  <2> QED
    BY <1>1, <1>3, <1>6, <1>8, <1>15, <2>1, Zenon DEF WalkOK, Steady
<1>16. \A d \in Clients : chan'[d].got = chan[d].got /\ chan'[d].dropped = chan[d].dropped
  BY <1>3
<1>17. DOMAIN chan' = Clients /\ DOMAIN pub' = Writers /\ \A w \in Writers : pub'[w] = pub[w]
  BY <1>0, <1>3 DEF Shapes
<1> QED
  BY <1>3, <1>7, <1>9, <1>10, <1>14, <1>15, <1>16, <1>17, ListenerSettles

(* The hole is the last cell: the slice without it holds what it has to.   *)
LEMMA CloseKeeps ==
    ASSUME StreamInv, UnsubscribeClose
    PROVE  StreamInv'
<1>0. Shapes /\ begun \in 0..Len(Entries) /\ DOMAIN chan = Clients /\ SubsOK /\ LockOK /\ CellsOK
  BY DEF StreamInv, Shapes
<1>1. PICK c, t, l : c = mu.client /\ t = ClientTenant[c] /\ l = subs[t].len
  OBVIOUS
<1>2. /\ c \in Clients /\ t \in Tenants /\ c # NoClient /\ l \in 1..l /\ mu.i = l
  BY <1>0, <1>1, Facts DEF UnsubscribeClose, Unlocked, LockOK
<1>3. /\ subs' = [subs EXCEPT ![t].len = l - 1]
      /\ chan' = [chan EXCEPT ![c].st = "closed"]
      /\ mu' = NoUnsub
      /\ UNCHANGED <<log, begun, cells, pub>>
  BY <1>1 DEF UnsubscribeClose
<1>4. l \in Nat /\ l > 0 /\ l - 1 \in Nat /\ l <= subs[t].cap
  BY <1>0, <1>1, <1>2 DEF SubsOK
<1>5. /\ SubsOK' /\ subs'[t].len = l - 1 /\ subs'[t].cap = subs[t].cap
      /\ \A u \in Tenants \ {t} : subs'[u] = subs[u]
  <2>1. /\ subs'[t].len = l - 1 /\ subs'[t].cap = subs[t].cap
        /\ \A u \in Tenants \ {t} : subs'[u] = subs[u]
        /\ subs' \in [Tenants -> [cap : {0} \cup Caps, len : Nat]]
    BY <1>0, <1>2, <1>3, <1>4 DEF SubsOK
  <2>2. l - 1 <= subs[t].cap
    <3>1. PICK p : p = subs[t].cap /\ p \in {0} \cup Caps
      BY <1>0, <1>2 DEF SubsOK
    <3>2. p \in Nat
      BY <3>1, Facts
    <3> QED
      BY <1>4, <3>1, <3>2
  <2> QED
    BY <1>0, <1>2, <2>1, <2>2 DEF SubsOK
<1>6. /\ DOMAIN chan' = Clients /\ \A d \in Clients \ {c} : chan'[d] = chan[d]
      /\ DOMAIN chan'[c] = DOMAIN chan[c] /\ chan'[c].st = "closed"
      /\ chan'[c].got = chan[c].got /\ chan'[c].dropped = chan[c].dropped
      /\ chan'[c].read = chan[c].read
  <2>1. ChanOK(c)
    BY <1>0, <1>2 DEF Shapes
  <2> QED
    BY <1>0, <1>2, <1>3, <2>1 DEF ChanOK
<1>7. ASSUME NEW d \in Clients PROVE ChanOK(d)'
  <2>1. ChanOK(d)
    BY <1>0 DEF Shapes
  <2>2. CASE d = c
    BY <1>3, <1>6, <2>1, <2>2 DEF ChanOK, Begun, ClientStates
  <2>3. CASE d # c
    BY <1>3, <1>6, <2>1, <2>3 DEF ChanOK, Begun
  <2> QED
    BY <2>2, <2>3
<1>8. LockOK' /\ mu'.client = NoClient /\ CellsOK'
  BY <1>0, <1>3 DEF LockOK, NoUnsub, CellsOK
<1>9. \A u, d : Due(u, d)' <=> Due(u, d)
  BY <1>1, <1>2, <1>6, <1>8, Facts DEF Due
<1>10. \A u \in Tenants : \A i : Full(u, i)' <=> Full(u, i)
  <2>1. \A i : i \in 1..(l - 1) <=> i \in 1..l /\ i # l
    BY <1>4
  <2>2. \A i : Full(t, i)' <=> Full(t, i)
    BY <1>1, <1>2, <1>5, <1>8, <2>1 DEF Full, Held
  <2>3. ASSUME NEW u \in Tenants, u # t PROVE \A i : Full(u, i)' <=> Full(u, i)
    BY <1>1, <1>5, <1>8, <2>3 DEF Full, Held
  <2> QED
    BY <2>2, <2>3
<1>11. \A u \in Tenants : \A i : Cell(u, i)' = Cell(u, i)
  BY <1>3, <1>5 DEF Cell
<1>12. ASSUME NEW u \in Tenants PROVE SliceOK(u)'
  <2>1. SliceOK(u)
    BY DEF StreamInv
  <2>2. \A i : Full(u, i)' <=> Full(u, i)
    BY <1>10
  <2>3. \A i : Full(u, i) => i \in 1..subs[u].len
    BY DEF Full
  <2>4. \A i : Full(u, i) => i \in 1..subs'[u].len
    <3>1. \A i : Full(u, i)' => i \in 1..subs'[u].len
      BY DEF Full
    <3> QED
      BY <2>2, <3>1
  <2>5. \A i : Full(u, i) => Due(u, Cell(u, i))
    BY <2>1, <2>3 DEF SliceOK
  <2>6. ASSUME NEW i, Full(u, i) PROVE Due(u, Cell(u, i))'
    <3>1. PICK d : d = Cell(u, i) /\ d = Cell(u, i)'
      BY <1>11
    <3>2. Due(u, d)'
      BY <1>9, <2>5, <2>6, <3>1
    <3> QED
      BY <3>1, <3>2 DEF Due
  <2>7. ASSUME NEW d \in Clients, Due(u, d)'
        PROVE  \E i \in 1..subs'[u].len : Full(u, i)' /\ Cell(u, i)' = d
    <3>1. PICK i \in 1..subs[u].len : Full(u, i) /\ Cell(u, i) = d
      BY <1>9, <2>1, <2>7 DEF SliceOK
    <3> QED
      BY <1>11, <2>2, <2>4, <3>1
  <2>8. \A i, j : Full(u, i) /\ Full(u, j) /\ Cell(u, i)' = Cell(u, j)' => i = j
    BY <1>11, <2>1, <2>3 DEF SliceOK
  <2> QED
    BY <2>2, <2>6, <2>7, <2>8 DEF SliceOK
<1>13. ASSUME NEW w \in Writers, NEW u \in Tenants, NEW n \in {0} \cup Caps, NEW j \in Nat,
              j <= n, WalkOK(w, u, n, j)
       PROVE  Steady(u, n, j)
  <2>1. u # t
    BY <1>1, <1>2, <1>13 DEF WalkOK, Held
  <2>2. \A k \in 1..j : cells[u][n][k] \in Clients /\ chan[cells[u][n][k]].st # "closed"
    BY <1>13 DEF WalkOK
  <2>3. n <= subs[u].cap /\ (n = subs[u].cap => j <= subs[u].len)
    BY <1>13 DEF WalkOK
  <2>4. ASSUME NEW k \in 1..j PROVE cells'[u][n][k] = cells[u][n][k] /\ chan'[cells[u][n][k]].st # "closed"
    <3>1. n \in Caps /\ k \in 1..n
      BY <1>13, Facts
    <3>2. cells[u][n][k] \in {NoClient} \cup {d \in Clients : ClientTenant[d] = u}
      BY <1>0, <3>1 DEF CellsOK
    <3>3. cells[u][n][k] # c
      BY <1>1, <1>2, <2>1, <3>2, Facts
    <3> QED
      BY <1>3, <1>6, <2>2, <3>3
  <2> QED
    BY <1>5, <1>8, <2>1, <2>3, <2>4 DEF Steady
<1>14. DOMAIN pub' = Writers /\ \A w \in Writers : pub'[w] = pub[w]
  BY <1>0, <1>3 DEF Shapes
<1>15. \A d \in Clients : chan'[d].got = chan[d].got /\ chan'[d].dropped = chan[d].dropped
  BY <1>6
<1> QED
  BY <1>3, <1>5, <1>6, <1>7, <1>8, <1>12, <1>13, <1>14, <1>15, ListenerSettles

-----------------------------------------------------------------------------
LEMMA StreamStepKeeps ==
    ASSUME StreamInv, StreamNext
    PROVE  StreamInv'
<1>1. ASSUME NEW c \in Clients, Subscribe(c) \/ Receive(c) \/ Disconnect(c) PROVE StreamInv'
  BY <1>1, SubscribeKeeps, HandlerKeeps
<1>2. ASSUME Unsubscribing PROVE StreamInv'
  BY <1>2, FindKeeps, ShiftKeeps, CloseKeeps DEF Unsubscribing
<1>3. ASSUME NEW w \in Writers, Write(w) \/ Publishing(w) PROVE StreamInv'
  BY <1>3, WriteKeeps, ReturnKeeps, CommitKeeps, CopyKeeps, NextKeeps, PanicKeeps, OfferKeeps
     DEF Publishing
<1> QED
  BY <1>1, <1>2, <1>3 DEF StreamNext

LEMMA StreamRests ==
    ASSUME StreamInv, UNCHANGED streamVars
    PROVE  StreamInv'
<1>0. UNCHANGED <<log, begun, cells, subs, mu, chan, pub>>
  BY DEF streamVars
<1>1. CellsOK' /\ SubsOK' /\ LockOK'
  BY <1>0 DEF StreamInv, Shapes, CellsOK, SubsOK, LockOK
<1>2. ASSUME NEW c \in Clients PROVE ChanOK(c)'
  <2>1. ChanOK(c)
    BY DEF StreamInv, Shapes
  <2> QED
    BY <1>0, <2>1 DEF ChanOK, Begun
<1>3. \A t \in Tenants : SliceOK(t)'
  BY <1>0, SlicesKept DEF StreamInv
<1>4. \A w, t, n, l : WalkOK(w, t, n, l) => Steady(t, n, l)
  BY <1>0 DEF WalkOK, Steady, Held
<1>5. DOMAIN chan' = Clients /\ DOMAIN pub' = Writers
  BY <1>0 DEF StreamInv, Shapes
<1>6. \A w \in Writers : pub'[w] = pub[w]
  BY <1>0
<1>7. \A c \in Clients : chan'[c].got = chan[c].got /\ chan'[c].dropped = chan[c].dropped
  BY <1>0
<1> QED
  BY <1>0, <1>1, <1>2, <1>3, <1>4, <1>5, <1>6, <1>7, ListenerSettles

LEMMA StreamTypes == StreamInv => StreamTypeOK
<1> SUFFICES ASSUME StreamInv PROVE StreamTypeOK
  OBVIOUS
<1>1. \A c \in Clients : ChanOK(c)
  BY DEF StreamInv, Shapes
<1>2. \A w \in Writers : PubOK(w)
  BY DEF StreamInv, Shapes
<1>3. \A c \in Clients :
         /\ chan[c].st \in ClientStates
         /\ \A i \in 1..Len(chan[c].got) :
               chan[c].got[i] \in log /\ EntryTenant[chan[c].got[i]] = ClientTenant[c]
         /\ chan[c].read <= Len(chan[c].got)
  BY <1>1 DEF ChanOK
<1>4. \A w \in Writers : pub[w].pc \in PubPCs /\ pub[w].entry \in Entry \cup {NoEntry}
  BY <1>2 DEF PubOK
<1>5. /\ log \subseteq Entry /\ begun \in 0..Len(Entries)
      /\ CellsOK /\ SubsOK /\ LockOK
  BY DEF StreamInv, Shapes
<1> QED
  BY <1>3, <1>4, <1>5 DEF StreamTypeOK, CellsOK, SubsOK, LockOK

LEMMA StreamLists == StreamInv => ListedOnce
<1> SUFFICES ASSUME StreamInv, mu.client = NoClient, NEW t \in Tenants
             PROVE  /\ Listed(t) = {c \in Clients : ClientTenant[c] = t
                                                    /\ chan[c].st \in {"open", "leaving"}}
                    /\ \A i, j \in 1..subs[t].len :
                          cells[t][subs[t].cap][i] = cells[t][subs[t].cap][j] => i = j
  BY DEF ListedOnce, Unlocked
<1>1. \A i \in 1..subs[t].len : Full(t, i)
  BY DEF Full, Held
<1>2. \A c : Due(t, c) <=> c \in {d \in Clients : ClientTenant[d] = t
                                                  /\ chan[d].st \in {"open", "leaving"}}
  BY Facts DEF Due
<1>3. SliceOK(t)
  BY DEF StreamInv
<1>4. /\ \A i \in 1..subs[t].len : Due(t, cells[t][subs[t].cap][i])
      /\ \A c \in Clients : Due(t, c) => \E i \in 1..subs[t].len : cells[t][subs[t].cap][i] = c
      /\ \A i, j \in 1..subs[t].len : cells[t][subs[t].cap][i] = cells[t][subs[t].cap][j] => i = j
  BY <1>1, <1>3 DEF SliceOK, Cell
<1> QED
  BY <1>2, <1>4 DEF Listed

LEMMA TimesOnce ==
    ASSUME NEW c \in Clients, NEW e, chan[c].got \in Seq(Entry)
    PROVE  /\ Once(c, e) => Times(c, e) + (IF e \in chan[c].dropped THEN 1 ELSE 0) = 1
           /\ Never(c, e) => Times(c, e) + (IF e \in chan[c].dropped THEN 1 ELSE 0) = 0
<1>1. PICK S : S = {i \in 1..Len(chan[c].got) : chan[c].got[i] = e}
  OBVIOUS
<1>2. Times(c, e) = Cardinality(S)
  BY <1>1 DEF Times
<1>3. ASSUME ~Holds(c, e) PROVE Times(c, e) = 0
  <2>1. S = {}
    BY <1>1, <1>3 DEF Holds
  <2> QED
    BY <1>2, <2>1, FS_EmptySet
<1>4. ASSUME Once(c, e), Holds(c, e) PROVE Times(c, e) = 1
  <2>1. PICK k \in 1..Len(chan[c].got) : chan[c].got[k] = e
    BY <1>4 DEF Holds
  <2>2. S = {k}
    BY <1>1, <1>4, <2>1 DEF Once
  <2> QED
    BY <1>2, <2>2, FS_Singleton
<1>5. Once(c, e) => (Holds(c, e) <=> e \notin chan[c].dropped)
  BY DEF Once
<1>6. Never(c, e) => ~Holds(c, e) /\ e \notin chan[c].dropped
  BY DEF Never
<1> QED
  BY <1>3, <1>4, <1>5, <1>6

LEMMA StreamDelivers == StreamInv => CalmDelivery
<1> SUFFICES ASSUME StreamInv, NEW w \in Writers
             PROVE  /\ pub[w].pc = "panic" => ~pub[w].calm
                    /\ pub[w].pc = "done" /\ pub[w].calm =>
                          \A c \in Clients :
                             Times(c, pub[w].entry) + (IF pub[w].entry \in chan[c].dropped THEN 1 ELSE 0)
                             = (IF c \in pub[w].targets THEN 1 ELSE 0)
  BY DEF CalmDelivery
<1>1. CalmOK(w)
  BY DEF StreamInv
<1>2. PICK e : e = pub[w].entry
  OBVIOUS
<1>3. ASSUME pub[w].pc = "done", pub[w].calm, NEW c \in Clients
      PROVE  Times(c, e) + (IF e \in chan[c].dropped THEN 1 ELSE 0)
             = (IF c \in pub[w].targets THEN 1 ELSE 0)
  <2>1. (c \in pub[w].targets => Once(c, e)) /\ (c \notin pub[w].targets => Never(c, e))
    BY <1>1, <1>2, <1>3 DEF CalmOK
  <2>2. chan[c].got \in Seq(Entry)
    BY DEF StreamInv, Shapes, ChanOK
  <2> QED
    BY <2>1, <2>2, TimesOnce
<1> QED
  BY <1>1, <1>2, <1>3 DEF CalmOK

LEMMA StreamHolds == Spec => []StreamInv
<1>1. Init => StreamInv
  BY StreamStarts DEF Init
<1>2. StreamInv /\ [Next]_vars => StreamInv'
  BY StreamStepKeeps, StreamRests DEF Next, Query, vars
<1> QED
  BY <1>1, <1>2, PTL DEF Spec

(* Service.subs, Subscribe, Unsubscribe, Publish: whatever the goroutines  *)
(* do to the shared arrays, every variable keeps its shape and a channel   *)
(* gets only entries that were committed and belong to its client's tenant *)
(* (RF-003, RF-007).                                                       *)
THEOREM StreamTyped == Spec => []StreamTypeOK
BY StreamHolds, StreamTypes, PTL

(* Subscribe and Unsubscribe: whenever the lock is free a tenant's slice   *)
(* holds the channels of its open connections, each once, and no closed    *)
(* one.                                                                    *)
THEOREM SlicesExact == Spec => []ListedOnce
BY StreamHolds, StreamLists, PTL

(* Publish: a walk over the copied slice that no Unsubscribe of the tenant *)
(* disturbs does not panic, and offers the entry once to every channel it  *)
(* copied and to no other.                                                 *)
THEOREM CalmDelivered == Spec => []CalmDelivery
BY StreamHolds, StreamDelivers, PTL

-----------------------------------------------------------------------------
(* Reading the log.                                                        *)

Falling(s) == \A i, j \in 1..Len(s) : i < j => Older(s[j], s[i])
Rising(s) == \A i, j \in 1..Len(s) : i < j => Older(s[i], s[j])
Within(s, S) == \A i \in 1..Len(s) : s[i] \in S
Among(e, s) == \E i \in 1..Len(s) : s[i] = e

(* The pages so far: rows s and cursor c of a listing that began with the  *)
(* rows B.  What is missing is older than the cursor.                      *)
Paged(t, f, B, s, c) ==
    /\ s \in Seq(Entry) /\ Within(s, Matching(t, f)) /\ Falling(s)
    /\ c = NoEntry => s = <<>>
    /\ c # NoEntry => Len(s) > 0 /\ c = s[Len(s)]
    /\ \A e \in B : Among(e, s) \/ c = NoEntry \/ Older(e, c)

(* A listing that has come to its end.                                     *)
AllListed(t, f, B, s) ==
    /\ s \in Seq(Entry) /\ Within(s, Matching(t, f)) /\ Falling(s)
    /\ \A e \in B : Among(e, s)

(* An export of rows s, cut or not.                                        *)
Exported(B, n, cut, s) ==
    /\ s \in Seq(Entry)
    /\ cut => Len(s) = MaxExport
    /\ ~cut => n <= Len(s) /\ \A e \in B : Among(e, s)
    /\ \A e \in B : Among(e, s) \/ \A i \in 1..Len(s) : Older(e, s[i])

(* The rows around entry c; the newer ones are there when up is TRUE.      *)
Around(B, c, s, up) ==
    /\ s \in Seq(Entry) /\ Len(s) > 0 /\ Among(c, s) /\ Rising(s)
    /\ up \/ s[Len(s)] = c
    /\ \A e \in B : Among(e, s) \/ Older(e, s[1]) \/ Older(s[Len(s)], e)

Paging == {"count", "data", "more"}
QueryPCs == {"idle", "xcount", "xdata", "exported", "listed", "before", "after", "context"} \cup Paging

QueryShape(r) ==
    /\ DOMAIN q[r] = {"pc", "filter", "limit", "cursor", "total", "rows", "base", "truncated"}
    /\ q[r].pc \in QueryPCs
    /\ q[r].limit \in Nat
    /\ q[r].pc \in Paging => q[r].limit > 0
    /\ q[r].pc # "idle" => q[r].base \subseteq Matching(ReaderTenant[r], q[r].filter)

QueryOK(r) ==
    /\ QueryShape(r)
    /\ q[r].pc \in Paging => Paged(ReaderTenant[r], q[r].filter, q[r].base, q[r].rows, q[r].cursor)
    /\ q[r].pc = "listed" => AllListed(ReaderTenant[r], q[r].filter, q[r].base, q[r].rows)
    /\ q[r].pc = "xdata" => /\ q[r].total \in Nat
                            /\ q[r].total <= Cardinality(Matching(ReaderTenant[r], q[r].filter))
    /\ q[r].pc = "exported" => Exported(q[r].base, q[r].total, q[r].truncated, q[r].rows)
    /\ q[r].pc \in {"before", "after"} => q[r].cursor \in Entry
    /\ q[r].pc = "after" => Around(q[r].base, q[r].cursor, q[r].rows, FALSE)
    /\ q[r].pc = "context" => Around(q[r].base, q[r].cursor, q[r].rows, TRUE)

QueryInv == log \subseteq Entry /\ DOMAIN q = Readers /\ \A r \in Readers : QueryOK(r)

-----------------------------------------------------------------------------
(* The order of the rows and the pages of a statement.                     *)

LEMMA OrderFacts ==
    /\ Entry \subseteq Nat
    /\ \A a, b, c \in Entry : Older(a, b) /\ Older(b, c) => Older(a, c)
    /\ \A a, b \in Entry : a = b \/ Older(a, b) \/ Older(b, a)
    /\ \A a, b : Descending(a, b) <=> Older(b, a)
<1>1. Entry \subseteq Nat
  <2>1. \A i \in 1..Len(Entries) : Entries[i] \in Nat
    BY LogStreamAssumption
  <2> QED
    BY <2>1, LogStreamAssumption DEF Entry
<1>2. \A a \in Entry : CreatedAt[a] \in Nat /\ a \in Nat
  BY <1>1, LogQueryAssumption
<1>3. ASSUME NEW a \in Entry, NEW b \in Entry, NEW c \in Entry, Older(a, b), Older(b, c)
      PROVE  Older(a, c)
  BY <1>2, <1>3 DEF Older
<1>4. ASSUME NEW a \in Entry, NEW b \in Entry PROVE a = b \/ Older(a, b) \/ Older(b, a)
  BY <1>2 DEF Older
<1>5. \A a, b : Descending(a, b) <=> Older(b, a)
  BY DEF Older, Descending
<1> QED
  BY <1>1, <1>3, <1>4, <1>5

LEMMA AmongIsMember ==
    ASSUME NEW s \in Seq(Entry), NEW e
    PROVE  e \in ToSet(s) <=> Among(e, s)
BY DEF ToSet, Among

LEMMA NewestFacts ==
    ASSUME NEW S \in SUBSET Entry, NEW n \in Nat, NEW p \in Newest(S, n)
    PROVE  /\ p \in Seq(Entry) /\ p \in Seq(S) /\ Len(p) <= n /\ Within(p, S) /\ Falling(p)
           /\ \A e \in S : Among(e, p) \/ (Len(p) = n /\ \A i \in 1..Len(p) : Older(e, p[i]))
<1>1. PICK m \in 0..n : p \in [1..m -> S]
  BY DEF Newest, SeqOf
<1>2. m \in Nat /\ p \in Seq(S) /\ Len(p) = m
  BY <1>1
<1>3. p \in Seq(Entry) /\ Within(p, S) /\ Len(p) <= n
  BY <1>1, <1>2 DEF Within
<1>4. /\ \A i, j \in 1..Len(p) : i < j => Descending(p[i], p[j])
      /\ \A e \in S \ ToSet(p) : Len(p) = n /\ \A i \in 1..Len(p) : Descending(p[i], e)
  BY DEF Newest
<1>5. Falling(p)
  BY <1>4, OrderFacts DEF Falling
<1> QED
  BY <1>2, <1>3, <1>4, <1>5, OrderFacts, AmongIsMember

LEMMA OldestFacts ==
    ASSUME NEW S \in SUBSET Entry, NEW n \in Nat, NEW p \in Oldest(S, n)
    PROVE  /\ p \in Seq(Entry) /\ Len(p) <= n /\ Within(p, S) /\ Rising(p)
           /\ \A e \in S : Among(e, p) \/ (Len(p) = n /\ \A i \in 1..Len(p) : Older(p[i], e))
<1>1. PICK m \in 0..n : p \in [1..m -> S]
  BY DEF Oldest, SeqOf
<1>2. m \in Nat /\ p \in Seq(S) /\ Len(p) = m
  BY <1>1
<1>3. p \in Seq(Entry) /\ Within(p, S) /\ Len(p) <= n
  BY <1>1, <1>2 DEF Within
<1>4. /\ \A i, j \in 1..Len(p) : i < j => Descending(p[j], p[i])
      /\ \A e \in S \ ToSet(p) : Len(p) = n /\ \A i \in 1..Len(p) : Descending(e, p[i])
  BY DEF Oldest
<1>5. Rising(p)
  BY <1>4, OrderFacts DEF Rising
<1> QED
  BY <1>2, <1>3, <1>4, <1>5, OrderFacts, AmongIsMember

(* What s \o p holds.                                                      *)
Joined(s, p, h) ==
    /\ h \in Seq(Entry) /\ Len(h) = Len(s) + Len(p)
    /\ \A i \in 1..Len(s) : h[i] = s[i]
    /\ \A i \in 1..Len(p) : h[Len(s) + i] = p[i]
    /\ \A i \in 1..Len(h) : i \in 1..Len(s) \/ \E j \in 1..Len(p) : i = Len(s) + j

LEMMA JoinFacts ==
    ASSUME NEW s \in Seq(Entry), NEW p \in Seq(Entry)
    PROVE  Joined(s, p, s \o p)
<1>0. PICK h : h = s \o p
  OBVIOUS
<1>1. /\ h \in Seq(Entry) /\ Len(h) = Len(s) + Len(p)
      /\ \A i \in 1..Len(s) : h[i] = s[i]
      /\ \A i \in 1..Len(p) : h[Len(s) + i] = p[i]
  BY <1>0
<1>2. ASSUME NEW i \in 1..Len(h), i \notin 1..Len(s) PROVE \E j \in 1..Len(p) : i = Len(s) + j
  <2>1. i - Len(s) \in 1..Len(p) /\ i = Len(s) + (i - Len(s))
    BY <1>1, <1>2
  <2> QED
    BY <2>1
<1> QED
  BY <1>0, <1>1, <1>2 DEF Joined

LEMMA JoinAmong ==
    ASSUME NEW s \in Seq(Entry), NEW p \in Seq(Entry), NEW e
    PROVE  Among(e, s \o p) <=> Among(e, s) \/ Among(e, p)
<1>1. PICK h : h = s \o p
  OBVIOUS
<1>n. Len(s) \in Nat /\ Len(p) \in Nat
  OBVIOUS
<1>2. /\ h \in Seq(Entry) /\ Len(h) = Len(s) + Len(p)
      /\ \A i \in 1..Len(s) : h[i] = s[i]
      /\ \A i \in 1..Len(p) : h[Len(s) + i] = p[i]
      /\ \A i \in 1..Len(h) : i \in 1..Len(s) \/ \E j \in 1..Len(p) : i = Len(s) + j
  <2>1. Joined(s, p, h)
    BY <1>1, JoinFacts
  <2> QED
    BY <2>1 DEF Joined
<1>3. /\ \A i \in 1..Len(s) : i \in 1..Len(h)
      /\ \A i \in 1..Len(p) : Len(s) + i \in 1..Len(h)
  BY <1>n, <1>2
<1>4. Among(e, h) <=> Among(e, s) \/ Among(e, p)
  BY <1>n, <1>2, <1>3, ZenonT(40) DEF Among
<1> QED
  BY <1>1, <1>4

LEMMA JoinRises ==
    ASSUME NEW s \in Seq(Entry), NEW p \in Seq(Entry), Rising(s), Rising(p),
           \A i \in 1..Len(s) : \A j \in 1..Len(p) : Older(s[i], p[j])
    PROVE  Rising(s \o p)
<1>1. PICK h : h = s \o p
  OBVIOUS
<1>n. Len(s) \in Nat /\ Len(p) \in Nat
  OBVIOUS
<1>2. /\ h \in Seq(Entry) /\ Len(h) = Len(s) + Len(p)
      /\ \A i \in 1..Len(s) : h[i] = s[i]
      /\ \A i \in 1..Len(p) : h[Len(s) + i] = p[i]
      /\ \A i \in 1..Len(h) : i \in 1..Len(s) \/ \E j \in 1..Len(p) : i = Len(s) + j
  <2>1. Joined(s, p, h)
    BY <1>1, JoinFacts
  <2> QED
    BY <2>1 DEF Joined
<1>3. ASSUME NEW i \in 1..Len(h), NEW j \in 1..Len(h), i < j PROVE Older(h[i], h[j])
  <2>1. CASE i \in 1..Len(s) /\ j \in 1..Len(s)
    BY <1>n, <1>2, <1>3, <2>1 DEF Rising
  <2>2. ASSUME i \in 1..Len(s), NEW b \in 1..Len(p), j = Len(s) + b PROVE Older(h[i], h[j])
    BY <1>n, <1>2, <2>2
  <2>3. ASSUME NEW a \in 1..Len(p), i = Len(s) + a, j \in 1..Len(s) PROVE FALSE
    BY <1>n, <1>2, <1>3, <2>3
  <2>4. ASSUME NEW a \in 1..Len(p), i = Len(s) + a, NEW b \in 1..Len(p), j = Len(s) + b
        PROVE  Older(h[i], h[j])
    <3>1. a < b
      BY <1>n, <1>2, <1>3, <2>4
    <3> QED
      BY <1>n, <1>2, <2>4, <3>1 DEF Rising
  <2> QED
    BY <1>n, <1>2, <2>1, <2>2, <2>3, <2>4
<1> QED
  BY <1>1, <1>3 DEF Rising

LEMMA JoinFalls ==
    ASSUME NEW s \in Seq(Entry), NEW p \in Seq(Entry), Falling(s), Falling(p),
           \A i \in 1..Len(s) : \A j \in 1..Len(p) : Older(p[j], s[i])
    PROVE  Falling(s \o p)
<1>1. PICK h : h = s \o p
  OBVIOUS
<1>n. Len(s) \in Nat /\ Len(p) \in Nat
  OBVIOUS
<1>2. /\ h \in Seq(Entry) /\ Len(h) = Len(s) + Len(p)
      /\ \A i \in 1..Len(s) : h[i] = s[i]
      /\ \A i \in 1..Len(p) : h[Len(s) + i] = p[i]
      /\ \A i \in 1..Len(h) : i \in 1..Len(s) \/ \E j \in 1..Len(p) : i = Len(s) + j
  <2>1. Joined(s, p, h)
    BY <1>1, JoinFacts
  <2> QED
    BY <2>1 DEF Joined
<1>3. ASSUME NEW i \in 1..Len(h), NEW j \in 1..Len(h), i < j PROVE Older(h[j], h[i])
  <2>1. CASE i \in 1..Len(s) /\ j \in 1..Len(s)
    BY <1>n, <1>2, <1>3, <2>1 DEF Falling
  <2>2. ASSUME i \in 1..Len(s), NEW b \in 1..Len(p), j = Len(s) + b PROVE Older(h[j], h[i])
    BY <1>n, <1>2, <2>2
  <2>3. ASSUME NEW a \in 1..Len(p), i = Len(s) + a, j \in 1..Len(s) PROVE FALSE
    BY <1>n, <1>2, <1>3, <2>3
  <2>4. ASSUME NEW a \in 1..Len(p), i = Len(s) + a, NEW b \in 1..Len(p), j = Len(s) + b
        PROVE  Older(h[j], h[i])
    <3>1. a < b
      BY <1>n, <1>2, <1>3, <2>4
    <3> QED
      BY <1>n, <1>2, <2>4, <3>1 DEF Falling
  <2> QED
    BY <1>n, <1>2, <2>1, <2>2, <2>3, <2>4
<1> QED
  BY <1>1, <1>3 DEF Falling

LEMMA ReverseFacts ==
    ASSUME NEW p \in Seq(Entry), Falling(p), NEW h, h = Reverse(p)
    PROVE  /\ h \in Seq(Entry) /\ Len(h) = Len(p) /\ Rising(h)
           /\ \A i \in 1..Len(p) : h[i] = p[Len(p) - i + 1]
           /\ \A e : Among(e, h) <=> Among(e, p)
<1>1. Len(p) \in Nat /\ h = [i \in 1..Len(p) |-> p[(Len(p) - i) + 1]]
  BY DEF Reverse
<1>2. \A i \in 1..Len(p) : (Len(p) - i) + 1 \in 1..Len(p) /\ (Len(p) - i) + 1 = Len(p) - i + 1
  BY <1>1
<1>3. h \in [1..Len(p) -> Entry]
  BY <1>1, <1>2
<1>4. h \in Seq(Entry) /\ Len(h) = Len(p) /\ \A i \in 1..Len(p) : h[i] = p[(Len(p) - i) + 1]
  BY <1>1, <1>3
<1>5. ASSUME NEW i \in 1..Len(h), NEW j \in 1..Len(h), i < j PROVE Older(h[i], h[j])
  <2>1. (Len(p) - j) + 1 < (Len(p) - i) + 1
    BY <1>1, <1>4, <1>5
  <2> QED
    BY <1>2, <1>4, <2>1 DEF Falling
<1>6. ASSUME NEW e PROVE Among(e, h) <=> Among(e, p)
  <2>1. Among(e, h) => Among(e, p)
    BY <1>2, <1>4 DEF Among
  <2>2. ASSUME NEW i \in 1..Len(p), p[i] = e PROVE Among(e, h)
    <3>1. (Len(p) - i) + 1 \in 1..Len(p) /\ (Len(p) - ((Len(p) - i) + 1)) + 1 = i
      BY <1>1
    <3> QED
      BY <1>4, <2>2, <3>1 DEF Among
  <2> QED
    BY <2>1, <2>2 DEF Among
<1> QED
  BY <1>2, <1>4, <1>5, <1>6 DEF Rising

-----------------------------------------------------------------------------
(* What every step leaves alone.                                           *)

LEMMA EntriesFinite == IsFiniteSet(Entry)
<1>1. PICK T : T = {Entries[i] : i \in 1..Len(Entries)}
  OBVIOUS
<1>2. Len(Entries) \in Nat /\ DOMAIN Entries = 1..Len(Entries) /\ Entries \in Seq(Nat \ Past)
  BY LogStreamAssumption
<1>3. Entries \in [1..Len(Entries) -> T]
  BY <1>1, <1>2
<1>4. Entries \in Surjection(1..Len(Entries), T)
  BY <1>1, <1>3 DEF Surjection
<1>5. IsFiniteSet(1..Len(Entries))
  BY <1>2, FS_Interval
<1>6. IsFiniteSet(T)
  BY <1>4, <1>5, FS_Surjection
<1> QED
  BY <1>1, <1>6, LogQueryAssumption, FS_Union DEF Entry

LEMMA MatchingFacts ==
    ASSUME log \subseteq Entry, NEW t, NEW f
    PROVE  /\ Matching(t, f) \subseteq Entry /\ IsFiniteSet(Matching(t, f))
           /\ Cardinality(Matching(t, f)) \in Nat
<1>1. Matching(t, f) \in SUBSET Entry
  BY DEF Matching
<1>2. IsFiniteSet(Matching(t, f))
  BY <1>1, EntriesFinite, FS_Subset
<1> QED
  BY <1>1, <1>2, FS_CardinalityType

LEMMA MatchingGrows ==
    ASSUME log \subseteq log', log' \subseteq Entry, NEW t, NEW f
    PROVE  /\ Matching(t, f) \subseteq Matching(t, f)'
           /\ \A n \in Nat : n <= Cardinality(Matching(t, f)) => n <= Cardinality(Matching(t, f)')
<1>1. PICK M, N : M = Matching(t, f) /\ N = Matching(t, f)'
  OBVIOUS
<1>2. M \in SUBSET N /\ N \in SUBSET Entry
  BY <1>1 DEF Matching
<1>3. IsFiniteSet(N) /\ IsFiniteSet(M)
  BY <1>2, EntriesFinite, FS_Subset
<1>4. Cardinality(M) <= Cardinality(N) /\ Cardinality(M) \in Nat /\ Cardinality(N) \in Nat
  BY <1>2, <1>3, FS_Subset, FS_CardinalityType
<1>5. \A n \in Nat : n <= Cardinality(M) => n <= Cardinality(N)
  BY <1>4
<1> QED
  BY <1>1, <1>2, <1>5

(* A reader that stands still while the log grows.                         *)
LEMMA QueryKept ==
    ASSUME NEW r \in Readers, QueryOK(r), q'[r] = q[r], log \subseteq log', log' \subseteq Entry
    PROVE  QueryOK(r)'
<1>1. PICK t, f, B, s, c, n, cut, pc :
        /\ t = ReaderTenant[r] /\ f = q[r].filter /\ B = q[r].base /\ s = q[r].rows
        /\ c = q[r].cursor /\ n = q[r].total /\ cut = q[r].truncated /\ pc = q[r].pc
  OBVIOUS
<1>2. /\ f = q'[r].filter /\ B = q'[r].base /\ s = q'[r].rows /\ pc = q'[r].pc
      /\ c = q'[r].cursor /\ n = q'[r].total /\ cut = q'[r].truncated
      /\ DOMAIN q'[r] = DOMAIN q[r] /\ q'[r].limit = q[r].limit
  BY <1>1
<1>3. /\ Matching(t, f) \subseteq Matching(t, f)'
      /\ \A k \in Nat : k <= Cardinality(Matching(t, f)) => k <= Cardinality(Matching(t, f)')
  BY MatchingGrows
<1>4. QueryShape(r)'
  <2>1. QueryShape(r)
    BY DEF QueryOK
  <2>2. pc # "idle" => B \subseteq Matching(t, f)
    BY <1>1, <2>1 DEF QueryShape
  <2>3. pc # "idle" => B \subseteq Matching(t, f)'
    BY <1>3, <2>2
  <2> QED
    BY <1>1, <1>2, <2>1, <2>3 DEF QueryShape
<1>5. pc \in Paging => Paged(t, f, B, s, c)'
  <2>1. pc \in Paging => Paged(t, f, B, s, c)
    BY <1>1 DEF QueryOK
  <2>2. Within(s, Matching(t, f)) => Within(s, Matching(t, f))'
    BY <1>3 DEF Within
  <2> QED
    BY <2>1, <2>2 DEF Paged, Falling, Among, Older
<1>6. pc = "listed" => AllListed(t, f, B, s)'
  <2>1. pc = "listed" => AllListed(t, f, B, s)
    BY <1>1 DEF QueryOK
  <2>2. Within(s, Matching(t, f)) => Within(s, Matching(t, f))'
    BY <1>3 DEF Within
  <2> QED
    BY <2>1, <2>2 DEF AllListed, Falling, Among, Older
<1>7. pc = "xdata" => n \in Nat /\ n <= Cardinality(Matching(t, f))'
  BY <1>1, <1>3 DEF QueryOK
<1>8. /\ pc = "exported" => Exported(B, n, cut, s)'
      /\ pc \in {"before", "after"} => c \in Entry
      /\ pc = "after" => Around(B, c, s, FALSE)'
      /\ pc = "context" => Around(B, c, s, TRUE)'
  <2>1. pc = "exported" => Exported(B, n, cut, s)'
    BY <1>1 DEF QueryOK, Exported, Among, Older
  <2>2. pc \in {"before", "after"} => c \in Entry
    BY <1>1 DEF QueryOK
  <2>3. pc = "after" => Around(B, c, s, FALSE)'
    BY <1>1 DEF QueryOK, Around, Among, Rising, Older
  <2>4. pc = "context" => Around(B, c, s, TRUE)'
    BY <1>1 DEF QueryOK, Around, Among, Rising, Older
  <2> QED
    BY <2>1, <2>2, <2>3, <2>4
<1> QED
  BY <1>1, <1>2, <1>4, <1>5, <1>6, <1>7, <1>8 DEF QueryOK

LEMMA QuerySettles ==
    ASSUME QueryInv, NEW r \in Readers, log' = log, DOMAIN q' = Readers,
           \A x \in Readers \ {r} : q'[x] = q[x], QueryOK(r)'
    PROVE  QueryInv'
<1>1. ASSUME NEW x \in Readers \ {r} PROVE QueryOK(x)'
  BY QueryKept DEF QueryInv
<1> QED
  BY <1>1 DEF QueryInv

LEMMA LogGrows ==
    ASSUME StreamNext
    PROVE  log \subseteq log'
BY Zenon DEF StreamNext, Unsubscribing, Publishing, Subscribe, Receive, Disconnect, UnsubscribeFind,
       UnsubscribeShift, UnsubscribeClose, Write, WriteCommits, WriteFails, PublishCopy, PublishNext,
       PublishSend, WriteReturns

-----------------------------------------------------------------------------
(* Steps of a reader.                                                      *)

LEMMA BeginKeeps ==
    ASSUME QueryInv, NEW r \in Readers, log' = log, NEW pc \in {"count", "xcount", "before"},
           NEW f, NEW n \in Nat, NEW c, Begin(r, pc, f, n, c),
           pc = "count" => n > 0 /\ c = NoEntry,
           pc = "before" => c \in Entry
    PROVE  QueryInv'
<1>1. PICK t, M : t = ReaderTenant[r] /\ M = Matching(t, f)
  OBVIOUS
<1>2. /\ DOMAIN q' = Readers /\ \A x \in Readers \ {r} : q'[x] = q[x]
      /\ q'[r] = [NoQuery EXCEPT !.pc = pc, !.filter = f, !.limit = n, !.cursor = c, !.base = M]
  BY <1>1 DEF Begin, QueryInv
<1>3. /\ DOMAIN q'[r] = {"pc", "filter", "limit", "cursor", "total", "rows", "base", "truncated"}
      /\ q'[r].pc = pc /\ q'[r].filter = f /\ q'[r].limit = n /\ q'[r].cursor = c
      /\ q'[r].base = M /\ q'[r].rows = <<>>
  BY <1>2 DEF NoQuery
<1>4. Matching(t, f)' = M
  BY <1>1 DEF Matching
<1>5. QueryShape(r)'
  BY <1>1, <1>3, <1>4 DEF QueryShape, QueryPCs, Paging
<1>6. pc = "count" => Paged(t, f, M, <<>>, c)'
  <2>1. <<>> \in Seq(Entry) /\ Len(<<>>) = 0
    OBVIOUS
  <2> QED
    BY <2>1 DEF Paged, Within, Falling
<1>7. QueryOK(r)'
  BY <1>1, <1>3, <1>5, <1>6 DEF QueryOK, Paging
<1> QED
  BY <1>2, <1>7, QuerySettles

(* The fields of a reader that a statement changes.                        *)
LEMMA StatementFacts ==
    ASSUME QueryInv, NEW r \in Readers
    PROVE  /\ DOMAIN q = Readers /\ log \subseteq Entry /\ QueryOK(r) /\ QueryShape(r)
           /\ DOMAIN q[r] = {"pc", "filter", "limit", "cursor", "total", "rows", "base", "truncated"}
BY DEF QueryInv, QueryOK, QueryShape

LEMMA CountKeeps ==
    ASSUME QueryInv, NEW r \in Readers, log' = log, ListCount(r) \/ NextPage(r)
    PROVE  QueryInv'
<1>0. /\ DOMAIN q = Readers /\ log \subseteq Entry /\ QueryOK(r) /\ QueryShape(r)
      /\ DOMAIN q[r] = {"pc", "filter", "limit", "cursor", "total", "rows", "base", "truncated"}
  BY StatementFacts
<1>1. PICK t, f, B, s, c : /\ t = ReaderTenant[r] /\ f = q[r].filter /\ B = q[r].base
                           /\ s = q[r].rows /\ c = q[r].cursor
  OBVIOUS
<1>2. /\ DOMAIN q' = Readers /\ \A x \in Readers \ {r} : q'[x] = q[x]
      /\ DOMAIN q'[r] = DOMAIN q[r] /\ q[r].pc \in Paging /\ q'[r].pc \in Paging
      /\ q'[r].filter = f /\ q'[r].base = B /\ q'[r].rows = s /\ q'[r].cursor = c
      /\ q'[r].limit = q[r].limit
  BY <1>0, <1>1 DEF ListCount, NextPage, Paging
<1>3. Matching(t, f)' = Matching(t, f)
  BY DEF Matching
<1>4. QueryShape(r)'
  BY <1>0, <1>1, <1>2, <1>3 DEF QueryShape, QueryPCs, Paging
<1>5. Paged(t, f, B, s, c)'
  <2>1. Paged(t, f, B, s, c)
    BY <1>0, <1>1, <1>2 DEF QueryOK
  <2> QED
    BY <1>3, <2>1 DEF Paged, Within, Falling, Among, Older
<1>6. QueryOK(r)'
  BY <1>1, <1>2, <1>4, <1>5 DEF QueryOK, Paging
<1> QED
  BY <1>2, <1>6, QuerySettles

(* The rows of a page are older than the cursor, so than all rows before;  *)
(* a row it leaves out is older still, and then the page is full.          *)
LEMMA PageAdded ==
    ASSUME log \subseteq Entry, NEW t, NEW f, NEW c, NEW B \in SUBSET Matching(t, f), NEW s,
           Paged(t, f, B, s, c), NEW n \in Nat, n > 0,
           NEW p \in Newest({e \in Matching(t, f) : c = NoEntry \/ Older(e, c)}, n)
    PROVE  /\ Len(p) = n => Paged(t, f, B, s \o p, p[Len(p)]) /\ p[Len(p)] # NoEntry
           /\ Len(p) # n => AllListed(t, f, B, s \o p)
<1>1. PICK M, R, h : /\ M = Matching(t, f) /\ R = {e \in M : c = NoEntry \/ Older(e, c)}
                     /\ h = s \o p
  OBVIOUS
<1>2. M \subseteq Entry /\ R \in SUBSET Entry
  BY <1>1 DEF Matching
<1>3. /\ p \in Seq(Entry) /\ Len(p) <= n /\ Within(p, R) /\ Falling(p)
      /\ \A e \in R : Among(e, p) \/ (Len(p) = n /\ \A i \in 1..Len(p) : Older(e, p[i]))
  BY <1>1, <1>2, NewestFacts
<1>4. s \in Seq(Entry) /\ Within(s, M) /\ Falling(s) /\ Len(s) \in Nat /\ Len(p) \in Nat
  BY <1>1, <1>3 DEF Paged
<1>5. Joined(s, p, h)
  BY <1>1, <1>3, <1>4, JoinFacts
<1>6. ASSUME NEW i \in 1..Len(s), NEW j \in 1..Len(p) PROVE Older(p[j], s[i])
  <2>1. c # NoEntry /\ c = s[Len(s)] /\ Len(s) > 0
    <3>1. s # <<>>
      BY <1>4, <1>6
    <3> QED
      BY <3>1 DEF Paged
  <2>2. Older(p[j], c)
    BY <1>1, <1>3, <1>6, <2>1 DEF Within
  <2>3. p[j] \in Entry /\ s[i] \in Entry /\ c \in Entry
    BY <1>3, <1>4, <1>6, <2>1
  <2>4. i = Len(s) \/ Older(c, s[i])
    BY <1>4, <1>6, <2>1 DEF Falling
  <2> QED
    BY <2>1, <2>2, <2>3, <2>4, OrderFacts
<1>7. Falling(h)
  BY <1>1, <1>3, <1>4, <1>6, JoinFalls
<1>8. Within(h, M)
  <2>1. \A j \in 1..Len(p) : p[j] \in M
    BY <1>1, <1>3 DEF Within
  <2> QED
    BY <1>4, <1>5, <2>1 DEF Within, Joined
<1>9. ASSUME NEW e \in B
      PROVE  Among(e, h) \/ (Len(p) = n /\ \A i \in 1..Len(p) : Older(e, p[i]))
  <2>1. Among(e, s) \/ e \in R
    BY <1>1 DEF Paged
  <2>2. Among(e, h) <=> Among(e, s) \/ Among(e, p)
    BY <1>1, <1>3, <1>4, JoinAmong
  <2> QED
    BY <1>3, <2>1, <2>2
<1>10. h \in Seq(Entry)
  BY <1>5 DEF Joined
<1>11. Len(p) # n => AllListed(t, f, B, h)
  BY <1>1, <1>7, <1>8, <1>9, <1>10 DEF AllListed
<1>12. ASSUME Len(p) = n PROVE Paged(t, f, B, h, p[Len(p)]) /\ p[Len(p)] # NoEntry
  <2>1. Len(p) \in 1..Len(p) /\ p[Len(p)] \in Entry
    BY <1>3, <1>12
  <2>2. p[Len(p)] # NoEntry
    BY <2>1, Facts
  <2>3. Len(h) > 0 /\ h[Len(h)] = p[Len(p)]
    BY <1>4, <1>5, <1>12, <2>1 DEF Joined
  <2> QED
    BY <1>1, <1>7, <1>8, <1>9, <1>10, <2>1, <2>2, <2>3 DEF Paged
<1> QED
  BY <1>1, <1>11, <1>12

LEMMA DataKeeps ==
    ASSUME QueryInv, NEW r \in Readers, log' = log, ListData(r)
    PROVE  QueryInv'
<1>0. /\ DOMAIN q = Readers /\ log \subseteq Entry /\ QueryOK(r) /\ QueryShape(r)
      /\ DOMAIN q[r] = {"pc", "filter", "limit", "cursor", "total", "rows", "base", "truncated"}
  BY StatementFacts
<1>1. PICK t, f, B, s, c, n : /\ t = ReaderTenant[r] /\ f = q[r].filter /\ B = q[r].base
                              /\ s = q[r].rows /\ c = q[r].cursor /\ n = q[r].limit
  OBVIOUS
<1>2. q[r].pc = "data" /\ n \in Nat /\ n > 0 /\ B \subseteq Matching(t, f)
  BY <1>0, <1>1 DEF ListData, QueryShape, Paging
<1>3. PICK p \in Newest({e \in Matching(t, f) : c = NoEntry \/ Older(e, c)}, n) :
         q' = [q EXCEPT ![r].rows = s \o p,
                        ![r].pc = IF Len(p) = n THEN "more" ELSE "listed",
                        ![r].cursor = IF Len(p) = n THEN p[Len(p)] ELSE NoEntry]
  <2>1. Remaining(r) = {e \in Matching(t, f) : c = NoEntry \/ Older(e, c)}
    BY <1>1 DEF Remaining
  <2>2. PICK p \in Newest(Remaining(r), q[r].limit) :
           q' = [q EXCEPT ![r].rows = q[r].rows \o p,
                          ![r].pc = IF HasNext(r, p) THEN "more" ELSE "listed",
                          ![r].cursor = IF HasNext(r, p) THEN Last(p) ELSE NoEntry]
    BY DEF ListData
  <2>3. HasNext(r, p) <=> Len(p) = n
    BY <1>1 DEF HasNext
  <2>4. q' = [q EXCEPT ![r].rows = s \o p,
                       ![r].pc = IF Len(p) = n THEN "more" ELSE "listed",
                       ![r].cursor = IF Len(p) = n THEN p[Len(p)] ELSE NoEntry]
    BY <1>1, <2>2, <2>3 DEF Last
  <2> QED
    BY <1>1, <2>1, <2>2, <2>4
<1>4. Paged(t, f, B, s, c)
  BY <1>0, <1>1, <1>2 DEF QueryOK, Paging
<1>5. /\ Len(p) = n => Paged(t, f, B, s \o p, p[Len(p)]) /\ p[Len(p)] # NoEntry
      /\ Len(p) # n => AllListed(t, f, B, s \o p)
  BY <1>0, <1>2, <1>3, <1>4, PageAdded
<1>6. PICK h : h = s \o p
  OBVIOUS
<1>7. /\ DOMAIN q' = Readers /\ \A x \in Readers \ {r} : q'[x] = q[x]
      /\ DOMAIN q'[r] = DOMAIN q[r] /\ q'[r].filter = f /\ q'[r].base = B /\ q'[r].rows = h
      /\ q'[r].limit = n
  BY <1>0, <1>1, <1>3, <1>6
<1>8. Matching(t, f)' = Matching(t, f)
  BY DEF Matching
<1>9. ASSUME Len(p) = n PROVE QueryOK(r)'
  <2>1. q'[r].pc = "more" /\ q'[r].cursor = p[Len(p)]
    BY <1>0, <1>3, <1>9
  <2>2. PICK d : d = p[Len(p)]
    OBVIOUS
  <2>3. QueryShape(r)'
    BY <1>0, <1>1, <1>2, <1>7, <1>8, <2>1 DEF QueryShape, QueryPCs, Paging
  <2>4. Paged(t, f, B, h, d)
    BY <1>5, <1>6, <1>9, <2>2
  <2>5. Paged(t, f, B, h, d)'
    BY <1>8, <2>4 DEF Paged, Within, Falling, Among, Older
  <2> QED
    BY <1>1, <1>7, <2>1, <2>2, <2>3, <2>5 DEF QueryOK, Paging
<1>10. ASSUME Len(p) # n PROVE QueryOK(r)'
  <2>1. q'[r].pc = "listed"
    BY <1>0, <1>3, <1>10
  <2>3. QueryShape(r)'
    BY <1>0, <1>1, <1>2, <1>7, <1>8, <2>1 DEF QueryShape, QueryPCs, Paging
  <2>4. AllListed(t, f, B, h)
    BY <1>5, <1>6, <1>10
  <2>5. AllListed(t, f, B, h)'
    BY <1>8, <2>4 DEF AllListed, Within, Falling, Among, Older
  <2> QED
    BY <1>1, <1>7, <2>1, <2>3, <2>5 DEF QueryOK, Paging
<1>11. QueryOK(r)'
  BY <1>9, <1>10
<1> QED
  BY <1>7, <1>11, QuerySettles

LEMMA ExportCountKeeps ==
    ASSUME QueryInv, NEW r \in Readers, log' = log, ExportCount(r)
    PROVE  QueryInv'
<1>0. /\ DOMAIN q = Readers /\ log \subseteq Entry /\ QueryOK(r) /\ QueryShape(r)
      /\ DOMAIN q[r] = {"pc", "filter", "limit", "cursor", "total", "rows", "base", "truncated"}
  BY StatementFacts
<1>1. PICK t, f, B, n : /\ t = ReaderTenant[r] /\ f = q[r].filter /\ B = q[r].base
                        /\ n = Cardinality(Matching(t, f))
  OBVIOUS
<1>2. q[r].pc = "xcount" /\ q' = [q EXCEPT ![r].pc = "xdata", ![r].total = n]
  BY <1>1 DEF ExportCount
<1>3. /\ DOMAIN q' = Readers /\ \A x \in Readers \ {r} : q'[x] = q[x]
      /\ DOMAIN q'[r] = DOMAIN q[r] /\ q'[r].pc = "xdata" /\ q'[r].filter = f /\ q'[r].base = B
      /\ q'[r].total = n /\ q'[r].limit = q[r].limit
  BY <1>0, <1>1, <1>2
<1>4. Matching(t, f)' = Matching(t, f)
  BY DEF Matching
<1>5. n \in Nat /\ n <= n
  BY <1>0, <1>1, MatchingFacts
<1>6. QueryShape(r)'
  BY <1>0, <1>1, <1>2, <1>3, <1>4 DEF QueryShape, QueryPCs, Paging
<1>7. QueryOK(r)'
  BY <1>1, <1>3, <1>4, <1>5, <1>6 DEF QueryOK, Paging
<1> QED
  BY <1>3, <1>7, QuerySettles

(* A sequence that holds all of M has at least as many places.             *)
LEMMA LongEnough ==
    ASSUME NEW M, NEW s \in Seq(M), \A e \in M : Among(e, s), NEW n \in Nat, n <= Cardinality(M)
    PROVE  n <= Len(s)
<1>1. Len(s) \in Nat /\ s \in [1..Len(s) -> M]
  OBVIOUS
<1>2. s \in Surjection(1..Len(s), M)
  BY <1>1 DEF Surjection, Among
<1>3. IsFiniteSet(1..Len(s)) /\ Cardinality(1..Len(s)) = Len(s)
  <2>1. PICK a, l : a = 1 /\ l = Len(s) /\ a \in Int /\ l \in Int /\ l \in Nat
    BY <1>1
  <2>2. /\ IsFiniteSet(a..l)
        /\ Cardinality(a..l) = IF a > l THEN 0 ELSE l - a + 1
    BY <2>1, FS_Interval, Zenon
  <2>3. Cardinality(a..l) = l
    BY <2>1, <2>2
  <2> QED
    BY <2>1, <2>2, <2>3
<1>4. IsFiniteSet(M) /\ Cardinality(M) <= Len(s)
  BY <1>2, <1>3, FS_Surjection
<1>5. Cardinality(M) \in Nat
  BY <1>4, FS_CardinalityType
<1> QED
  BY <1>1, <1>4, <1>5

(* One row more than may be exported is fetched: without it nothing is     *)
(* missing, with it the export is full and the rest is older.              *)
LEMMA ExportCut ==
    ASSUME log \subseteq Entry, NEW t, NEW f, NEW B \in SUBSET Matching(t, f),
           NEW n \in Nat, n <= Cardinality(Matching(t, f)),
           NEW p \in Newest(Matching(t, f), MaxExport + 1)
    PROVE  Exported(B, n, Len(p) > MaxExport, First(p, MaxExport))
<1>1. PICK M, m, h : M = Matching(t, f) /\ m = MaxExport /\ h = First(p, MaxExport)
  OBVIOUS
<1>2. M \in SUBSET Entry /\ m \in Nat /\ m + 1 \in Nat
  BY <1>1, LogQueryAssumption DEF Matching
<1>3. /\ p \in Seq(Entry) /\ p \in Seq(M) /\ Len(p) <= m + 1 /\ Falling(p)
      /\ \A e \in M : Among(e, p) \/ (Len(p) = m + 1 /\ \A i \in 1..Len(p) : Older(e, p[i]))
  BY <1>1, <1>2, NewestFacts
<1>n. Len(p) \in Nat
  BY <1>3
<1>4. CASE Len(p) > m
  <2>1. Len(p) = m + 1
    BY <1>2, <1>3, <1>n, <1>4
  <2>2. h = SubSeq(p, 1, m)
    BY <1>1, <1>4 DEF First
  <2>3. h \in Seq(Entry) /\ Len(h) = m /\ \A i \in 1..m : h[i] = p[i]
    BY <1>2, <1>3, <2>1, <2>2
  <2>4. ASSUME NEW e \in B PROVE Among(e, h) \/ \A i \in 1..Len(h) : Older(e, h[i])
    <3>1. CASE \A i \in 1..Len(p) : Older(e, p[i])
      BY <1>2, <2>1, <2>3, <3>1
    <3>2. ASSUME NEW k \in 1..Len(p), p[k] = e
          PROVE  Among(e, h) \/ \A i \in 1..Len(h) : Older(e, h[i])
      <4>1. CASE k \in 1..m
        BY <2>3, <3>2, <4>1 DEF Among
      <4>2. CASE k = m + 1
        <5>1. ASSUME NEW i \in 1..m PROVE Older(p[k], p[i])
          <6>1. i \in 1..Len(p) /\ i < k
            BY <1>2, <2>1, <4>2
          <6> QED
            BY <1>3, <6>1 DEF Falling
        <5> QED
          BY <2>3, <3>2, <5>1
      <4> QED
        BY <1>2, <2>1, <4>1, <4>2
    <3> QED
      BY <1>1, <1>3, <3>1, <3>2 DEF Among
  <2> QED
    BY <1>1, <1>4, <2>3, <2>4 DEF Exported
<1>5. CASE ~(Len(p) > m)
  <2>1. Len(p) # m + 1 /\ ~(m < Len(p))
    BY <1>2, <1>n, <1>5
  <2>2. h = SubSeq(p, 1, Len(p))
    BY <1>1, <2>1 DEF First
  <2>3. h \in Seq(Entry) /\ Len(h) = Len(p) /\ \A i \in 1..Len(p) : h[i] = p[i]
    BY <1>3, <2>2
  <2>4. \A e \in M : Among(e, p)
    BY <1>3, <2>1
  <2>5. n <= Len(p)
    BY <1>1, <1>3, <2>4, LongEnough
  <2>6. \A e \in B : Among(e, h)
    BY <1>1, <2>3, <2>4 DEF Among
  <2> QED
    BY <1>1, <1>5, <2>3, <2>5, <2>6 DEF Exported
<1> QED
  BY <1>4, <1>5

LEMMA ExportDataKeeps ==
    ASSUME QueryInv, NEW r \in Readers, log' = log, ExportData(r)
    PROVE  QueryInv'
<1>0. /\ DOMAIN q = Readers /\ log \subseteq Entry /\ QueryOK(r) /\ QueryShape(r)
      /\ DOMAIN q[r] = {"pc", "filter", "limit", "cursor", "total", "rows", "base", "truncated"}
  BY StatementFacts
<1>1. PICK t, f, B, n : t = ReaderTenant[r] /\ f = q[r].filter /\ B = q[r].base /\ n = q[r].total
  OBVIOUS
<1>2. /\ q[r].pc = "xdata" /\ n \in Nat /\ n <= Cardinality(Matching(t, f))
      /\ B \subseteq Matching(t, f)
  BY <1>0, <1>1 DEF ExportData, QueryOK, QueryShape
<1>3. PICK p \in Newest(Matching(t, f), MaxExport + 1) :
         q' = [q EXCEPT ![r].pc = "exported", ![r].truncated = Len(p) > MaxExport,
                        ![r].rows = First(p, MaxExport)]
  BY <1>1 DEF ExportData, ExportRows
<1>4. PICK cut, h : cut = (Len(p) > MaxExport) /\ h = First(p, MaxExport)
  OBVIOUS
<1>5. Exported(B, n, cut, h)
  BY <1>0, <1>2, <1>3, <1>4, ExportCut
<1>6. /\ DOMAIN q' = Readers /\ \A x \in Readers \ {r} : q'[x] = q[x]
      /\ DOMAIN q'[r] = DOMAIN q[r] /\ q'[r].pc = "exported" /\ q'[r].filter = f /\ q'[r].base = B
      /\ q'[r].total = n /\ q'[r].limit = q[r].limit /\ q'[r].truncated = cut /\ q'[r].rows = h
  BY <1>0, <1>1, <1>3, <1>4
<1>7. Matching(t, f)' = Matching(t, f)
  BY DEF Matching
<1>8. QueryShape(r)'
  BY <1>0, <1>1, <1>2, <1>6, <1>7 DEF QueryShape, QueryPCs, Paging
<1>9. Exported(B, n, cut, h)'
  BY <1>5 DEF Exported, Among, Older
<1>10. QueryOK(r)'
  BY <1>6, <1>8, <1>9 DEF QueryOK, Paging
<1> QED
  BY <1>6, <1>10, QuerySettles

(* The older half of a context: the page reversed and the entry behind it. *)
LEMMA ContextOpened ==
    ASSUME log \subseteq Entry, NEW t, NEW f, NEW B \in SUBSET Matching(t, f), NEW c \in Entry,
           NEW n \in Nat, NEW p \in Newest({e \in Matching(t, f) : Older(e, c)}, n)
    PROVE  Around(B, c, Append(Reverse(p), c), FALSE)
<1>1. PICK R, h, s : /\ R = {e \in Matching(t, f) : Older(e, c)}
                     /\ h = Reverse(p) /\ s = Append(Reverse(p), c)
  OBVIOUS
<1>2. R \in SUBSET Entry /\ B \subseteq Entry
  BY <1>1 DEF Matching
<1>3. /\ p \in Seq(Entry) /\ Within(p, R) /\ Falling(p)
      /\ \A e \in R : Among(e, p) \/ \A i \in 1..Len(p) : Older(e, p[i])
  BY <1>1, <1>2, NewestFacts
<1>4. /\ h \in Seq(Entry) /\ Len(h) = Len(p) /\ Rising(h)
      /\ \A i \in 1..Len(p) : h[i] = p[Len(p) - i + 1]
      /\ \A e : Among(e, h) <=> Among(e, p)
  BY <1>1, <1>3, ReverseFacts
<1>5. /\ s \in Seq(Entry) /\ Len(h) \in Nat /\ Len(s) = Len(h) + 1
      /\ \A i \in 1..Len(h) : s[i] = h[i]
      /\ s[Len(h) + 1] = c
  BY <1>1, <1>4
<1>6. /\ \A i \in 1..Len(s) : i \in 1..Len(h) \/ i = Len(h) + 1
      /\ \A i \in 1..Len(h) : i \in 1..Len(s)
      /\ Len(s) \in 1..Len(s) /\ 1 \in 1..Len(s)
  BY <1>5
<1>7. ASSUME NEW i \in 1..Len(h) PROVE Older(h[i], c)
  <2>1. Among(h[i], p)
    BY <1>4 DEF Among
  <2> QED
    BY <1>1, <1>3, <2>1 DEF Among, Within
<1>8. Rising(s)
  <2>1. ASSUME NEW i \in 1..Len(s), NEW j \in 1..Len(s), i < j PROVE Older(s[i], s[j])
    <3>1. i \in 1..Len(h)
      BY <1>5, <2>1
    <3>2. CASE j \in 1..Len(h)
      BY <1>4, <1>5, <2>1, <3>1, <3>2 DEF Rising
    <3>3. CASE j = Len(h) + 1
      BY <1>5, <1>7, <3>1, <3>3
    <3> QED
      BY <1>6, <3>2, <3>3
  <2> QED
    BY <2>1 DEF Rising
<1>9. s[Len(s)] = c /\ Among(c, s) /\ Len(s) > 0
  BY <1>5, <1>6 DEF Among
<1>10. ASSUME NEW e \in B PROVE Among(e, s) \/ Older(e, s[1]) \/ Older(s[Len(s)], e)
  <2>1. CASE e = c
    BY <1>9, <2>1
  <2>2. CASE Older(c, e)
    BY <1>9, <2>2
  <2>3. CASE Older(e, c)
    <3>1. e \in R
      BY <1>1, <2>3
    <3>2. CASE Among(e, p)
      <4>1. Among(e, h)
        BY <1>4, <3>2
      <4> QED
        BY <1>5, <1>6, <4>1 DEF Among
    <3>3. CASE \A i \in 1..Len(p) : Older(e, p[i])
      <4>1. CASE Len(h) = 0
        BY <1>5, <2>3, <4>1
      <4>2. CASE Len(h) # 0
        <5>1. 1 \in 1..Len(h) /\ Len(p) \in 1..Len(p) /\ Len(p) - 1 + 1 = Len(p)
          BY <1>4, <1>5, <4>2
        <5>2. s[1] = p[Len(p)]
          <6>1. h[1] = p[Len(p) - 1 + 1]
            BY <1>4, <5>1
          <6> QED
            BY <1>5, <5>1, <6>1
        <5> QED
          BY <3>3, <5>1, <5>2
      <4> QED
        BY <4>1, <4>2
    <3> QED
      BY <1>3, <3>1, <3>2, <3>3
  <2> QED
    BY <1>2, <2>1, <2>2, <2>3, OrderFacts
<1> QED
  BY <1>1, <1>5, <1>8, <1>9, <1>10 DEF Around

LEMMA ContextClosed ==
    ASSUME log \subseteq Entry, NEW t, NEW f, NEW B \in SUBSET Matching(t, f), NEW c \in Entry,
           NEW s, Around(B, c, s, FALSE),
           NEW n \in Nat, NEW p \in Oldest({e \in Matching(t, f) : Older(c, e)}, n)
    PROVE  Around(B, c, s \o p, TRUE)
<1>1. PICK R, h : R = {e \in Matching(t, f) : Older(c, e)} /\ h = s \o p
  OBVIOUS
<1>2. R \in SUBSET Entry /\ B \subseteq Entry
  BY <1>1 DEF Matching
<1>3. /\ p \in Seq(Entry) /\ Within(p, R) /\ Rising(p)
      /\ \A e \in R : Among(e, p) \/ \A i \in 1..Len(p) : Older(p[i], e)
  BY <1>1, <1>2, OldestFacts
<1>4. /\ s \in Seq(Entry) /\ Len(s) > 0 /\ Among(c, s) /\ Rising(s) /\ s[Len(s)] = c
      /\ Len(s) \in Nat /\ Len(p) \in Nat
  BY <1>3 DEF Around
<1>5. /\ h \in Seq(Entry) /\ Len(h) = Len(s) + Len(p)
      /\ \A i \in 1..Len(s) : h[i] = s[i]
      /\ \A i \in 1..Len(p) : h[Len(s) + i] = p[i]
  <2>1. Joined(s, p, h)
    BY <1>1, <1>3, <1>4, JoinFacts
  <2> QED
    BY <2>1 DEF Joined
<1>6. ASSUME NEW i \in 1..Len(s), NEW j \in 1..Len(p) PROVE Older(s[i], p[j])
  <2>1. Older(c, p[j])
    BY <1>1, <1>3 DEF Within
  <2>2. i = Len(s) \/ Older(s[i], c)
    BY <1>4 DEF Rising
  <2>3. s[i] \in Entry /\ p[j] \in Entry
    BY <1>3, <1>4
  <2> QED
    BY <1>4, <2>1, <2>2, <2>3, OrderFacts
<1>7. Rising(h)
  BY <1>1, <1>3, <1>4, <1>6, JoinRises
<1>8. \A e : Among(e, h) <=> Among(e, s) \/ Among(e, p)
  BY <1>1, <1>3, <1>4, JoinAmong
<1>9. Len(h) > 0 /\ h[1] = s[1]
  BY <1>4, <1>5
<1>10. ASSUME NEW e \in B PROVE Among(e, h) \/ Older(e, h[1]) \/ Older(h[Len(h)], e)
  <2>1. CASE Among(e, s)
    BY <1>8, <2>1
  <2>2. CASE Older(e, s[1])
    BY <1>9, <2>2
  <2>3. CASE Older(c, e)
    <3>1. e \in R
      BY <1>1, <2>3
    <3>2. CASE Among(e, p)
      BY <1>8, <3>2
    <3>3. CASE \A i \in 1..Len(p) : Older(p[i], e)
      <4>1. CASE Len(p) = 0
        BY <1>4, <1>5, <2>3, <4>1
      <4>2. CASE Len(p) # 0
        <5>1. Len(p) \in 1..Len(p)
          BY <1>4, <4>2
        <5> QED
          BY <1>5, <3>3, <5>1
      <4> QED
        BY <4>1, <4>2
    <3> QED
      BY <1>3, <3>1, <3>2, <3>3
  <2> QED
    BY <1>4, <2>1, <2>2, <2>3 DEF Around
<1> QED
  BY <1>1, <1>4, <1>5, <1>7, <1>8, <1>9, <1>10 DEF Around

LEMMA BeforeKeeps ==
    ASSUME QueryInv, NEW r \in Readers, log' = log, ContextBefore(r)
    PROVE  QueryInv'
<1>0. /\ DOMAIN q = Readers /\ log \subseteq Entry /\ QueryOK(r) /\ QueryShape(r)
      /\ DOMAIN q[r] = {"pc", "filter", "limit", "cursor", "total", "rows", "base", "truncated"}
  BY StatementFacts
<1>1. PICK t, f, B, c, n : /\ t = ReaderTenant[r] /\ f = q[r].filter /\ B = q[r].base
                           /\ c = q[r].cursor /\ n = q[r].limit
  OBVIOUS
<1>2. q[r].pc = "before" /\ n \in Nat /\ c \in Entry /\ B \subseteq Matching(t, f)
  BY <1>0, <1>1 DEF ContextBefore, QueryOK, QueryShape
<1>3. PICK p \in Newest({e \in Matching(t, f) : Older(e, c)}, n) :
         q' = [q EXCEPT ![r].pc = "after", ![r].rows = Append(Reverse(p), c)]
  BY <1>1 DEF ContextBefore, Anchored
<1>4. PICK h : h = Append(Reverse(p), c)
  OBVIOUS
<1>5. Around(B, c, h, FALSE)
  BY <1>0, <1>2, <1>3, <1>4, ContextOpened
<1>6. /\ DOMAIN q' = Readers /\ \A x \in Readers \ {r} : q'[x] = q[x]
      /\ DOMAIN q'[r] = DOMAIN q[r] /\ q'[r].pc = "after" /\ q'[r].filter = f /\ q'[r].base = B
      /\ q'[r].limit = q[r].limit /\ q'[r].cursor = c /\ q'[r].rows = h
  BY <1>0, <1>1, <1>3, <1>4
<1>7. Matching(t, f)' = Matching(t, f)
  BY DEF Matching
<1>8. QueryShape(r)'
  BY <1>0, <1>1, <1>2, <1>6, <1>7 DEF QueryShape, QueryPCs, Paging
<1>9. Around(B, c, h, FALSE)'
  BY <1>5 DEF Around, Among, Rising, Older
<1>10. QueryOK(r)'
  BY <1>2, <1>6, <1>8, <1>9 DEF QueryOK, Paging
<1> QED
  BY <1>6, <1>10, QuerySettles

LEMMA AfterKeeps ==
    ASSUME QueryInv, NEW r \in Readers, log' = log, ContextAfter(r)
    PROVE  QueryInv'
<1>0. /\ DOMAIN q = Readers /\ log \subseteq Entry /\ QueryOK(r) /\ QueryShape(r)
      /\ DOMAIN q[r] = {"pc", "filter", "limit", "cursor", "total", "rows", "base", "truncated"}
  BY StatementFacts
<1>1. PICK t, f, B, c, n, s : /\ t = ReaderTenant[r] /\ f = q[r].filter /\ B = q[r].base
                              /\ c = q[r].cursor /\ n = q[r].limit /\ s = q[r].rows
  OBVIOUS
<1>2. /\ q[r].pc = "after" /\ n \in Nat /\ c \in Entry /\ B \subseteq Matching(t, f)
      /\ Around(B, c, s, FALSE)
  BY <1>0, <1>1 DEF ContextAfter, QueryOK, QueryShape
<1>3. PICK p \in Oldest({e \in Matching(t, f) : Older(c, e)}, n) :
         q' = [q EXCEPT ![r].pc = "context", ![r].rows = s \o p]
  BY <1>1 DEF ContextAfter, Anchored
<1>4. PICK h : h = s \o p
  OBVIOUS
<1>5. Around(B, c, h, TRUE)
  BY <1>0, <1>2, <1>3, <1>4, ContextClosed
<1>6. /\ DOMAIN q' = Readers /\ \A x \in Readers \ {r} : q'[x] = q[x]
      /\ DOMAIN q'[r] = DOMAIN q[r] /\ q'[r].pc = "context" /\ q'[r].filter = f /\ q'[r].base = B
      /\ q'[r].limit = q[r].limit /\ q'[r].cursor = c /\ q'[r].rows = h
  BY <1>0, <1>1, <1>3, <1>4
<1>7. Matching(t, f)' = Matching(t, f)
  BY DEF Matching
<1>8. QueryShape(r)'
  BY <1>0, <1>1, <1>2, <1>6, <1>7 DEF QueryShape, QueryPCs, Paging
<1>9. Around(B, c, h, TRUE)'
  BY <1>5 DEF Around, Among, Rising, Older
<1>10. QueryOK(r)'
  BY <1>6, <1>8, <1>9 DEF QueryOK, Paging
<1> QED
  BY <1>6, <1>10, QuerySettles

LEMMA EndKeeps ==
    ASSUME QueryInv, NEW r \in Readers, log' = log, QueryEnds(r)
    PROVE  QueryInv'
<1>1. /\ DOMAIN q' = Readers /\ \A x \in Readers \ {r} : q'[x] = q[x]
  BY DEF QueryEnds, QueryInv
<1>2. q'[r] = NoQuery
  BY DEF QueryEnds, QueryInv
<1>3. QueryOK(r)'
  BY <1>2 DEF QueryOK, QueryShape, QueryPCs, Paging, NoQuery
<1> QED
  BY <1>1, <1>3, QuerySettles

-----------------------------------------------------------------------------
LEMMA QueryStepKeeps ==
    ASSUME QueryInv, NEW r \in Readers, Query(r)
    PROVE  QueryInv'
<1>0. log' = log
  BY DEF Query, streamVars
<1>1. ASSUME NEW f \in Filters, NEW n \in Limits, ListLogs(r, f, n) PROVE QueryInv'
  <2>1. PICK k : k = PageLimit(n)
    OBVIOUS
  <2>2. k \in Nat /\ k > 0
    BY <2>1, LogQueryAssumption DEF PageLimit
  <2> QED
    BY <1>0, <1>1, <2>1, <2>2, BeginKeeps DEF ListLogs
<1>2. ASSUME NEW f \in Filters, ExportLogs(r, f) PROVE QueryInv'
  BY <1>0, <1>2, BeginKeeps DEF ExportLogs
<1>3. ASSUME NEW e \in Entry, NEW n \in Windows, GetLogContext(r, e, n) PROVE QueryInv'
  <2>1. PICK k, f : k = WindowSize(n) /\ f = {Kind[x] : x \in Entry}
    OBVIOUS
  <2>2. k \in Nat
    BY <2>1, LogQueryAssumption DEF WindowSize
  <2>3. Begin(r, "before", f, k, e)
    BY <1>3, <2>1 DEF GetLogContext
  <2> QED
    BY <1>0, <2>2, <2>3, BeginKeeps
<1> QED
  BY <1>0, <1>1, <1>2, <1>3, CountKeeps, DataKeeps, ExportCountKeeps, ExportDataKeeps, BeforeKeeps,
     AfterKeeps, EndKeeps DEF Query

LEMMA QueryHolds == Spec => []QueryInv
<1>1. Init => QueryInv
  <2> SUFFICES ASSUME Init PROVE QueryInv
    OBVIOUS
  <2>1. log \subseteq Entry
    BY DEF Init, StreamInit, Entry
  <2>2. DOMAIN q = Readers /\ \A r \in Readers : q[r] = NoQuery
    BY DEF Init
  <2>3. ASSUME NEW r \in Readers PROVE QueryOK(r)
    <3>1. q[r] = NoQuery
      BY <2>2
    <3>2. /\ DOMAIN q[r] = {"pc", "filter", "limit", "cursor", "total", "rows", "base", "truncated"}
          /\ q[r].pc = "idle" /\ q[r].limit = 0
      BY <3>1 DEF NoQuery
    <3> QED
      BY <3>2 DEF QueryOK, QueryShape, QueryPCs, Paging
  <2> QED
    BY <2>1, <2>2, <2>3 DEF QueryInv
<1>2. StreamTypeOK' /\ QueryInv /\ [Next]_vars => QueryInv'
  <2> SUFFICES ASSUME StreamTypeOK', QueryInv, [Next]_vars PROVE QueryInv'
    OBVIOUS
  <2>1. log' \subseteq Entry
    BY DEF StreamTypeOK
  <2>2. CASE \E r \in Readers : Query(r)
    BY <2>2, QueryStepKeeps
  <2>3. ASSUME log \subseteq log', q' = q PROVE QueryInv'
    BY <2>1, <2>3, QueryKept DEF QueryInv
  <2>4. CASE StreamNext /\ UNCHANGED queryVars
    BY <2>3, <2>4, LogGrows DEF queryVars
  <2>5. CASE UNCHANGED vars
    BY <2>3, <2>5 DEF vars, streamVars, queryVars
  <2> QED
    BY <2>2, <2>4, <2>5 DEF Next
<1> QED
  BY <1>1, <1>2, StreamTyped, PTL DEF Spec

LEMMA FallingReversed ==
    ASSUME NEW s \in Seq(Entry), Falling(s)
    PROVE  Increasing(Reverse(s))
<1>1. PICK h : h = Reverse(s)
  OBVIOUS
<1>2. h \in Seq(Entry) /\ Rising(h)
  BY <1>1, ReverseFacts
<1>3. Increasing(h)
  <2>1. Len(h) \in Nat
    BY <1>2
  <2>2. \A i \in 1..Len(h) - 1 : i \in 1..Len(h) /\ i + 1 \in 1..Len(h) /\ i < i + 1
    BY <2>1
  <2> QED
    BY <1>2, <2>2 DEF Increasing, Rising
<1> QED
  BY <1>1, <1>3

LEMMA RisingIncreases ==
    ASSUME NEW s \in Seq(Entry), Rising(s)
    PROVE  Increasing(s)
<1>1. Len(s) \in Nat
  OBVIOUS
<1>2. \A i \in 1..Len(s) - 1 : i \in 1..Len(s) /\ i + 1 \in 1..Len(s) /\ i < i + 1
  BY <1>1
<1> QED
  BY <1>2 DEF Increasing, Rising

LEMMA QueryPages == QueryInv => PagesFaithful
<1> SUFFICES ASSUME QueryInv, NEW r \in Readers, q[r].pc \in {"more", "listed"}
             PROVE  /\ Increasing(Reverse(q[r].rows))
                    /\ ToSet(q[r].rows) \subseteq Matching(ReaderTenant[r], q[r].filter)
                    /\ q[r].pc = "listed" => q[r].base \subseteq ToSet(q[r].rows)
  BY DEF PagesFaithful
<1>1. PICK t, f, B, s : /\ t = ReaderTenant[r] /\ f = q[r].filter /\ B = q[r].base
                        /\ s = q[r].rows
  OBVIOUS
<1>2. /\ q[r].pc = "more" => Paged(t, f, B, s, q[r].cursor)
      /\ q[r].pc = "listed" => AllListed(t, f, B, s)
  BY <1>1 DEF QueryInv, QueryOK, Paging
<1>3. /\ s \in Seq(Entry) /\ Within(s, Matching(t, f)) /\ Falling(s)
      /\ q[r].pc = "listed" => \A e \in B : Among(e, s)
  BY <1>2 DEF Paged, AllListed
<1>4. Increasing(Reverse(s))
  BY <1>3, FallingReversed
<1>5. ToSet(s) \subseteq Matching(t, f)
  BY <1>3, AmongIsMember DEF Within, Among
<1>6. q[r].pc = "listed" => B \subseteq ToSet(s)
  BY <1>3, AmongIsMember
<1> QED
  BY <1>1, <1>4, <1>5, <1>6

LEMMA QueryExports == QueryInv => ExportHonest
<1> SUFFICES ASSUME QueryInv, NEW r \in Readers, q[r].pc = "exported"
             PROVE  /\ q[r].truncated => Len(q[r].rows) = MaxExport
                    /\ ~q[r].truncated => /\ q[r].base \subseteq ToSet(q[r].rows)
                                          /\ q[r].total <= Len(q[r].rows)
                    /\ \A e \in q[r].base \ ToSet(q[r].rows), x \in ToSet(q[r].rows) : Older(e, x)
  BY DEF ExportHonest
<1>1. PICK B, n, cut, s : B = q[r].base /\ n = q[r].total /\ cut = q[r].truncated /\ s = q[r].rows
  OBVIOUS
<1>2. Exported(B, n, cut, s)
  BY <1>1 DEF QueryInv, QueryOK
<1>3. s \in Seq(Entry)
  BY <1>2 DEF Exported
<1>4. \A e : e \in ToSet(s) <=> Among(e, s)
  BY <1>3, AmongIsMember
<1>5. cut => Len(s) = MaxExport
  BY <1>2 DEF Exported
<1>6. ~cut => B \subseteq ToSet(s) /\ n <= Len(s)
  BY <1>2, <1>4 DEF Exported
<1>7. \A e \in B \ ToSet(s), x \in ToSet(s) : Older(e, x)
  BY <1>2, <1>4 DEF Exported, Among
<1> QED
  BY <1>1, <1>5, <1>6, <1>7

LEMMA QueryContexts == QueryInv => ContextContiguous
<1> SUFFICES ASSUME QueryInv, NEW r \in Readers, q[r].pc = "context"
             PROVE  /\ q[r].cursor \in ToSet(q[r].rows)
                    /\ Increasing(q[r].rows)
                    /\ \A e \in q[r].base \ ToSet(q[r].rows) :
                          Older(e, Head(q[r].rows)) \/ Older(Last(q[r].rows), e)
  BY DEF ContextContiguous
<1>1. PICK B, c, s : B = q[r].base /\ c = q[r].cursor /\ s = q[r].rows
  OBVIOUS
<1>2. Around(B, c, s, TRUE)
  BY <1>1 DEF QueryInv, QueryOK
<1>3. s \in Seq(Entry) /\ Len(s) > 0 /\ Among(c, s) /\ Rising(s)
  BY <1>2 DEF Around
<1>4. \A e : e \in ToSet(s) <=> Among(e, s)
  BY <1>3, AmongIsMember
<1>5. Head(s) = s[1] /\ Last(s) = s[Len(s)]
  BY <1>3 DEF Last
<1>6. Increasing(s)
  BY <1>3, RisingIncreases
<1>7. \A e \in B \ ToSet(s) : Older(e, s[1]) \/ Older(s[Len(s)], e)
  BY <1>2, <1>4 DEF Around
<1> QED
  BY <1>1, <1>3, <1>4, <1>5, <1>6, <1>7

(* List and next_cursor (CE-002): following the cursor to its end gives    *)
(* every row that was there at the start, once, newest first and nothing   *)
(* else of another tenant or filter, whatever is written between pages.    *)
THEOREM PagesComplete == Spec => []PagesFaithful
BY QueryHolds, QueryPages, PTL

(* Export (RF-006): an export that is not marked truncated is complete,    *)
(* and a truncated one is full and leaves out only older rows.             *)
THEOREM ExportsHonest == Spec => []ExportHonest
BY QueryHolds, QueryExports, PTL

(* GetContext (RF-004): the context of an entry is chronological, holds    *)
(* the entry and has no gap.                                               *)
THEOREM ContextsContiguous == Spec => []ContextContiguous
BY QueryHolds, QueryContexts, PTL
=============================================================================
