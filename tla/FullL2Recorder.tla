--------------------------- MODULE FullL2Recorder ---------------------------
(***************************************************************************)
(* The futures full-L2 pipeline of live/recorder.py: one websocket, its     *)
(* reader task, the bounded receive queue, the consumer that keeps one      *)
(* LocalOrderBook per symbol in step with the exchange, and the gap rows it *)
(* leaves in IntegrityStore.                                                *)
(*                                                                          *)
(* One action is what a coroutine does between two awaits that can suspend. *)
(* Time is the number of depth events the exchange has sent (clock).        *)
(***************************************************************************)
EXTENDS LocalOrderBook, Sequences

CONSTANTS
    Symbols,      \* live.full_l2_symbols
    Priority,     \* full_l2_symbols[:2], whose raw depth survives PRESSURE
    Featured,     \* the symbols whose feature snapshots this instance follows
    DiskLevels,   \* the levels StorageManager.status reports in this instance
    QueueSize,    \* bound: capacity of the receive queue (50000 in the code)
    SnapshotLag,  \* how many updates a REST answer may be behind its request
    UpdateBound,  \* bound: how many updates the exchange makes to each symbol
    FaultLimit    \* bound: how often each fault of the environment happens

Fault == {"connect", "lost", "skip", "rest", "write"}

ASSUME SymbolsAssumption == Priority \subseteq Symbols /\ Featured \subseteq Symbols
ASSUME DiskAssumption == DiskLevels \subseteq {"OK", "WARNING", "PRESSURE", "EMERGENCY"}
ASSUME QueueAssumption == QueueSize \in Nat \ {0}
ASSUME LagAssumption == SnapshotLag \in Nat
ASSUME BoundAssumption == UpdateBound \in [Symbols -> 0..MaxUpdate]
ASSUME FaultAssumption == FaultLimit \in [Fault -> Nat]

VARIABLES
    \* the exchange
    head,       \* head[s]: updates made to s
    sent,       \* sent[s]: the last update covered by an event (the next pu)
    clock,      \* events sent so far, all symbols
    \* the connection
    pc,         \* where the coroutine _ws_loop is suspended
    wsOpen,     \* the socket delivers events and the reader task runs
    queue,      \* asyncio.Queue of received events
    syncing,    \* this connection's _sync_book calls: Idle, Queued, or the
                \*   exchange's update number when the REST request left
    orphans,    \* _sync_book tasks a failed gather left running
    \* the recorder
    book,       \* fut_books
    gaps,       \* rows of the gaps table, in insertion order
    netGap,     \* self.gaps[stream_key], 0 when absent
    overGap,    \* self.gaps["overload:"+stream_key], 0 when absent
    seqGap,     \* the local gid of _handle's SequenceGap branch, 0 outside it
    lastEvent,  \* health["last_event"], NoTime before the first event
    level,      \* storage_level
    latest,     \* latest_features: the update of the book behind the row, and when
    faults,     \* faults so far
    \* history
    recorded,   \* recorded[s]: the last depth event of s given to the writer
    holes,      \* discontinuities in the recorded depth: [sym, from, to]
    dropped,    \* receive times of the events the full queue refused
    missed      \* missed[s]: updates this connection cannot give the book of s:
                \*   lost, refused, or passed before its snapshot was requested

exchange == <<head, sent, clock>>
link     == <<pc, wsOpen, queue, syncing, orphans>>
rows     == <<gaps, netGap, overGap, seqGap>>
history  == <<recorded, holes, dropped, missed>>
vars == <<exchange, link, book, rows, lastEvent, level, latest, faults, history>>

NoTime == -1
Open == -1      \* end_ts IS NULL
Idle == -1
Queued == -2
Nobody == [pu |-> NoId, u |-> NoId, at |-> NoTime]

-----------------------------------------------------------------------------
(* The gaps table *)

\* of: the row's symbol, or all the stream's when the column is NULL.
RecordGap(kind, of, start) ==
    Append(gaps, [kind |-> kind, of |-> of, start |-> start, end |-> Open])

\* Slip: the row is closed at its own start.
CloseGapAtStart(table, gid) ==
    IF gid = 0 THEN table ELSE [table EXCEPT ![gid].end = table[gid].start]

\* close_gap: UPDATE gaps SET end_ts=now WHERE id=gid; no row for gid 0.
CloseGap(table, gid) ==
    IF gid = 0 THEN table ELSE [table EXCEPT ![gid].end = clock]

Logged(s, from, to) == \E i \in DOMAIN gaps :
    /\ s \in gaps[i].of /\ gaps[i].start <= to
    /\ gaps[i].end = Open \/ from <= gaps[i].end

\* Updates of s the exchange has sent that no event in q carries.
Passed(s, q) == {k \in 1..sent[s] :
                    \A i \in DOMAIN q : q[i].sym = s => k \notin q[i].U..q[i].u}

-----------------------------------------------------------------------------
Init == /\ head = [s \in Symbols |-> 0] /\ sent = head /\ clock = 0
        /\ pc = "connect" /\ wsOpen = FALSE /\ queue = <<>>
        /\ syncing = [s \in Symbols |-> Idle] /\ orphans = {}
        /\ book = [s \in Symbols |-> NewBook]
        /\ gaps = <<>> /\ netGap = 0 /\ overGap = 0 /\ seqGap = 0
        /\ lastEvent = NoTime /\ level = "OK"
        /\ latest = [s \in Symbols |-> [id |-> NoId, at |-> NoTime]]
        /\ faults = [f \in Fault |-> 0]
        /\ recorded = [s \in Symbols |-> Nobody] /\ holes = {} /\ dropped = {}
        /\ missed = [s \in Symbols |-> {}]

MayFail(f) == /\ faults[f] < FaultLimit[f]
              /\ faults' = [faults EXCEPT ![f] = @ + 1]

-----------------------------------------------------------------------------
(* The exchange *)

Trade(s) == /\ head[s] < UpdateBound[s]
            /\ head' = [head EXCEPT ![s] = @ + 1]
            /\ UNCHANGED <<sent, clock, link, book, rows, lastEvent, level, latest,
                           faults, history>>

\* Slip: every refused event opens a row, also while one is open.
ReceiveOpensAgain(e) ==
    IF Len(queue) < QueueSize
    THEN queue' = Append(queue, e) /\ UNCHANGED <<gaps, overGap, dropped, missed>>
    ELSE /\ dropped' = dropped \cup {e.at}
         /\ missed' = [missed EXCEPT ![e.sym] = @ \cup e.U..e.u]
         /\ gaps' = RecordGap("RECORDER_OVERLOAD", Symbols, e.at)
         /\ overGap' = Len(gaps')
         /\ UNCHANGED queue

\* The reader's put_nowait: QueueFull opens the overload row once.
Receive(e) ==
    IF Len(queue) < QueueSize
    THEN queue' = Append(queue, e) /\ UNCHANGED <<gaps, overGap, dropped, missed>>
    ELSE /\ dropped' = dropped \cup {e.at}
         /\ missed' = [missed EXCEPT ![e.sym] = @ \cup e.U..e.u]
         /\ IF overGap # 0 THEN UNCHANGED <<gaps, overGap>>
            ELSE /\ gaps' = RecordGap("RECORDER_OVERLOAD", Symbols, e.at)
                 /\ overGap' = Len(gaps')
         /\ UNCHANGED queue

\* The exchange sends what happened to s since its last event.
Send(s) == /\ sent[s] < head[s]
           /\ clock' = clock + 1
           /\ sent' = [sent EXCEPT ![s] = head[s]]
           /\ UNCHANGED <<head, pc, wsOpen, syncing, orphans, book, netGap, seqGap,
                          lastEvent, level, latest, recorded, holes>>

\* The reader, if it runs, receives the event; else nobody does.
Emit(s) ==
    /\ Send(s)
    /\ IF wsOpen
       THEN Receive([sym |-> s, pu |-> sent[s], U |-> sent[s] + 1, u |-> head[s],
                     at |-> clock + 1])
       ELSE UNCHANGED <<queue, gaps, overGap, dropped, missed>>
    /\ UNCHANGED faults

\* The event is lost on the exchange's side: the next one has another pu.
Skip(s) == /\ wsOpen /\ Send(s) /\ MayFail("skip")
           /\ missed' = [missed EXCEPT ![s] = @ \cup (sent[s] + 1)..head[s]]
           /\ UNCHANGED <<queue, gaps, overGap, dropped>>

\* The socket closes.  The reader's "async for" ends; nothing else looks at it.
LoseSocket == /\ wsOpen /\ MayFail("lost")
              /\ wsOpen' = FALSE
              /\ UNCHANGED <<exchange, pc, queue, syncing, orphans, book, rows,
                             lastEvent, level, latest, history>>

-----------------------------------------------------------------------------
(* _ws_loop *)

\* "except Exception": the socket and the reader are gone with the
\* "async with", the queue is dropped, the outage row is opened once.
Disconnect ==
    /\ pc' = "backoff" /\ wsOpen' = FALSE /\ queue' = <<>>
    /\ syncing' = [s \in Symbols |-> Idle] /\ seqGap' = 0
    /\ IF netGap # 0 THEN UNCHANGED <<gaps, netGap>>
       ELSE /\ gaps' = RecordGap("NETWORK_OUTAGE", Symbols,
                                 IF lastEvent' = NoTime THEN clock ELSE lastEvent')
            /\ netGap' = Len(gaps')

ConnectFails == /\ pc = "connect" /\ MayFail("connect")
                /\ UNCHANGED lastEvent /\ Disconnect
                /\ UNCHANGED <<exchange, orphans, book, overGap, level, latest, history>>

Backoff == /\ pc = "backoff" /\ pc' = "connect"
           /\ UNCHANGED <<exchange, wsOpen, queue, syncing, orphans, book, rows,
                          lastEvent, level, latest, faults, history>>

\* Slip: the row is kept.
ConnectKeepsRow == /\ pc = "connect" /\ pc' = "sync"
                   /\ wsOpen' = TRUE /\ queue' = <<>>
                   /\ syncing' = [s \in Symbols |-> Queued]
                   /\ missed' = [s \in Symbols |-> Passed(s, <<>>)]
                   /\ UNCHANGED <<exchange, rows, orphans, book, lastEvent, level,
                                  latest, faults, recorded, holes, dropped>>

\* Connected: the outage row closes, the reader starts, one _sync_book per symbol.
Connect == /\ pc = "connect" /\ pc' = "sync"
           /\ wsOpen' = TRUE /\ queue' = <<>>
           /\ syncing' = [s \in Symbols |-> Queued]
           /\ gaps' = CloseGap(gaps, netGap) /\ netGap' = 0
           /\ missed' = [s \in Symbols |-> Passed(s, <<>>)]
           /\ UNCHANGED <<exchange, orphans, book, overGap, seqGap, lastEvent, level,
                          latest, faults, recorded, holes, dropped>>

-----------------------------------------------------------------------------
(* _sync_book: reset, request the snapshot, apply whatever it returns *)

Answer(s, from) == {n \in 0..head[s] : from - SnapshotLag <= n}

SyncStart(s) == /\ syncing[s] = Queued
                /\ syncing' = [syncing EXCEPT ![s] = head[s]]
                /\ book' = [book EXCEPT ![s] = ResetBook]
                /\ UNCHANGED <<exchange, pc, wsOpen, queue, orphans, rows, lastEvent,
                               level, latest, faults, history>>

SyncDone(s) == /\ pc = "sync" /\ syncing[s] >= 0
               /\ \E n \in Answer(s, syncing[s]) : book' = [book EXCEPT ![s] = SnapshotBook(n)]
               /\ syncing' = [syncing EXCEPT ![s] = Idle]
               /\ UNCHANGED <<exchange, pc, wsOpen, queue, orphans, rows, lastEvent,
                              level, latest, faults, history>>

\* gather raises the first failure at once and leaves the other tasks running.
SyncFails(s) == /\ pc = "sync" /\ syncing[s] >= 0 /\ MayFail("rest")
                /\ \A t \in Symbols : syncing[t] # Queued
                /\ orphans' = orphans \cup
                     {[sym |-> t, from |-> syncing[t]] :
                          t \in {t \in Symbols \ {s} : syncing[t] >= 0}}
                /\ UNCHANGED lastEvent /\ Disconnect
                /\ UNCHANGED <<exchange, book, overGap, level, latest, history>>

AllSynced == /\ pc = "sync" /\ \A s \in Symbols : syncing[s] = Idle
             /\ pc' = "consume"
             /\ UNCHANGED <<exchange, wsOpen, queue, syncing, orphans, book, rows,
                            lastEvent, level, latest, faults, history>>

\* The detached task still holds the book object and applies its answer.
OrphanDone(o) == /\ \E n \in Answer(o.sym, o.from) :
                        book' = [book EXCEPT ![o.sym] = SnapshotBook(n)]
                 /\ orphans' = orphans \ {o}
                 /\ missed' = [missed EXCEPT ![o.sym] = @ \cup Passed(o.sym, queue)]
                 /\ UNCHANGED <<exchange, pc, wsOpen, queue, syncing, rows, lastEvent,
                                level, latest, faults, recorded, holes, dropped>>

OrphanFails(o) == /\ MayFail("rest") /\ orphans' = orphans \ {o}
                  /\ UNCHANGED <<exchange, pc, wsOpen, queue, syncing, book, rows,
                                 lastEvent, level, latest, history>>

-----------------------------------------------------------------------------
(* The consumer: queue.get, _handle, then the overload row *)

Persisted(s) == level # "EMERGENCY" /\ (level = "PRESSURE" => s \in Priority)

\* Slip: the first event of a symbol is compared with the event before it.
RecordComparesFirst(e) ==
    IF ~Persisted(e.sym) THEN UNCHANGED <<recorded, holes>>
    ELSE LET last == recorded[e.sym] IN
         /\ recorded' = [recorded EXCEPT ![e.sym] = [pu |-> e.pu, u |-> e.u, at |-> e.at]]
         /\ holes' = IF last.u = e.pu THEN holes
                     ELSE holes \cup {[sym |-> e.sym, from |-> last.at, to |-> e.at]}

\* _write_event hands the depth event to the writer unless disk pressure drops it.
Record(e) ==
    IF ~Persisted(e.sym) THEN UNCHANGED <<recorded, holes>>
    ELSE LET last == recorded[e.sym] IN
         /\ recorded' = [recorded EXCEPT ![e.sym] = [pu |-> e.pu, u |-> e.u, at |-> e.at]]
         /\ holes' = IF last.u \in {NoId, e.pu} THEN holes
                     ELSE holes \cup {[sym |-> e.sym, from |-> last.at, to |-> e.at]}

CloseOverload(table, used) ==
    IF overGap # 0 /\ used < QueueSize \div 2
    THEN gaps' = CloseGap(table, overGap) /\ overGap' = 0
    ELSE gaps' = table /\ UNCHANGED overGap

Take(e) == /\ pc = "consume" /\ queue' = Tail(queue)
           /\ lastEvent' = e.at

Ignore(e) == /\ Take(e) /\ FuturesIgnores(book[e.sym], e)
             /\ CloseOverload(gaps, Len(queue) - 1)
             /\ UNCHANGED <<exchange, pc, wsOpen, syncing, orphans, book, netGap, seqGap,
                            level, latest, faults, history>>

Apply(e) == /\ Take(e) /\ Accepts(book[e.sym], e)
            /\ book' = [book EXCEPT ![e.sym] = Applied(book[e.sym], e)]
            /\ Record(e)
            /\ CloseOverload(gaps, Len(queue) - 1)
            /\ UNCHANGED <<exchange, pc, wsOpen, syncing, orphans, netGap, seqGap,
                           level, latest, faults, dropped, missed>>

\* The writer's flush raises after it has buffered the event.
ApplyWriteFails(e) ==
    /\ pc = "consume" /\ Accepts(book[e.sym], e) /\ Persisted(e.sym) /\ MayFail("write")
    /\ book' = [book EXCEPT ![e.sym] = Applied(book[e.sym], e)]
    /\ Record(e)
    /\ lastEvent' = e.at /\ Disconnect
    /\ UNCHANGED <<exchange, orphans, overGap, level, latest, dropped, missed>>

\* Slip: the book is resynchronised without a row.
GapUnlogged(e) ==
          /\ Take(e) /\ FuturesGap(book[e.sym], e)
          /\ book' = [book EXCEPT ![e.sym] = ResetBook]
          /\ syncing' = [syncing EXCEPT ![e.sym] = head[e.sym]]
          /\ missed' = [missed EXCEPT ![e.sym] = @ \cup Passed(e.sym, queue')]
          /\ pc' = "resync"
          /\ UNCHANGED <<exchange, wsOpen, orphans, rows, level, latest, faults, recorded,
                         holes, dropped>>

\* SequenceGap: UNTRUSTED, a gap row, and _sync_book up to its await.
Gap(e) == /\ Take(e) /\ FuturesGap(book[e.sym], e)
          /\ gaps' = RecordGap("STREAM_SEQUENCE_GAP", {e.sym}, e.at) /\ seqGap' = Len(gaps')
          /\ book' = [book EXCEPT ![e.sym] = ResetBook]
          /\ syncing' = [syncing EXCEPT ![e.sym] = head[e.sym]]
          /\ missed' = [missed EXCEPT ![e.sym] = @ \cup Passed(e.sym, queue')]
          /\ pc' = "resync"
          /\ UNCHANGED <<exchange, wsOpen, orphans, netGap, overGap, level, latest,
                         faults, recorded, holes, dropped>>

ResyncDone(s) == /\ pc = "resync" /\ syncing[s] >= 0
                 /\ \E n \in Answer(s, syncing[s]) :
                        book' = [book EXCEPT ![s] = SnapshotBook(n)]
                 /\ CloseOverload(CloseGap(gaps, seqGap), Len(queue))
                 /\ seqGap' = 0 /\ pc' = "consume" /\ syncing' = [syncing EXCEPT ![s] = Idle]
                 /\ UNCHANGED <<exchange, wsOpen, queue, orphans, netGap, lastEvent,
                                level, latest, faults, history>>

\* The snapshot raises out of _handle: gid is lost, its row stays open.
ResyncFails(s) == /\ pc = "resync" /\ syncing[s] >= 0 /\ MayFail("rest")
                  /\ UNCHANGED lastEvent /\ Disconnect
                  /\ UNCHANGED <<exchange, orphans, book, overGap, level, latest, history>>

-----------------------------------------------------------------------------
(* _feature_loop and _heartbeat_loop *)

EmitFeature(s) ==
    /\ s \in Featured /\ book[s].quality = "HEALTHY"
    /\ latest' = [latest EXCEPT ![s] = [id |-> book[s].last, at |-> clock]]
    /\ UNCHANGED <<exchange, link, book, rows, lastEvent, level, faults, history>>

Heartbeat == /\ level' \in DiskLevels
             /\ UNCHANGED <<exchange, link, book, rows, lastEvent, latest, faults, history>>

-----------------------------------------------------------------------------
Consume == /\ queue # <<>>
           /\ LET e == Head(queue) IN
              Ignore(e) \/ Apply(e) \/ ApplyWriteFails(e) \/ Gap(e)

Connection == \/ ConnectFails \/ Backoff \/ Connect \/ AllSynced
              \/ \E s \in Symbols : \/ SyncStart(s) \/ SyncDone(s) \/ SyncFails(s)
                                    \/ ResyncDone(s) \/ ResyncFails(s)
              \/ \E o \in orphans : OrphanDone(o) \/ OrphanFails(o)

Next == \/ \E s \in Symbols : Trade(s) \/ Emit(s) \/ Skip(s) \/ EmitFeature(s)
        \/ LoseSocket \/ Connection \/ Consume \/ Heartbeat

Spec == Init /\ [][Next]_vars

\* The event loop runs every coroutine that can run, and a REST request or a
\* connection attempt ends one way or the other (15 s timeout in _snapshot).
FairSpec == Spec /\ WF_vars(Connection) /\ WF_vars(Consume)

-----------------------------------------------------------------------------
GapRow == [kind : {"NETWORK_OUTAGE", "RECORDER_OVERLOAD", "STREAM_SEQUENCE_GAP"},
           of : SUBSET Symbols, start : Nat, end : Nat \cup {Open}]
Event == [sym : Symbols, pu : UpdateId \cup {0}, U : UpdateId, u : UpdateId, at : Nat]

TypeOK ==
    /\ head \in [Symbols -> 0..MaxUpdate] /\ sent \in [Symbols -> 0..MaxUpdate]
    /\ clock \in Nat
    /\ pc \in {"connect", "backoff", "sync", "consume", "resync"}
    /\ wsOpen \in BOOLEAN /\ queue \in Seq(Event)
    /\ syncing \in [Symbols -> 0..MaxUpdate \cup {Idle, Queued}]
    /\ orphans \subseteq [sym : Symbols, from : 0..MaxUpdate]
    /\ book \in [Symbols -> Book]
    /\ gaps \in Seq(GapRow)
    /\ {netGap, overGap, seqGap} \subseteq 0..Len(gaps)
    /\ lastEvent \in Nat \cup {NoTime}
    /\ level \in {"OK", "WARNING", "PRESSURE", "EMERGENCY"}
    /\ latest \in [Symbols -> [id : 0..MaxUpdate \cup {NoId}, at : Nat \cup {NoTime}]]
    /\ faults \in [Fault -> Nat]
    /\ recorded \in [Symbols -> [pu : 0..MaxUpdate, u : UpdateId, at : Nat] \cup {Nobody}]
    /\ holes \subseteq [sym : Symbols, from : Nat, to : Nat]
    /\ dropped \subseteq Nat
    /\ missed \in [Symbols -> SUBSET UpdateId]

(* Events wait in the queue as the exchange built them. *)
QueueWellFormed == \A i \in DOMAIN queue :
    WellFormed(queue[i]) /\ queue[i].u <= head[queue[i].sym]

(* A HEALTHY book is exactly the exchange's book at its update number, however
   events were dropped, connections lost and snapshots raced: U/u/pu bridging
   in apply_futures_delta is enough.                                         *)
HealthyBookIsExchangeBook == \A s \in Symbols :
    book[s].quality = "HEALTHY" => /\ book[s].last \in 0..head[s]
                                   /\ book[s].levels = BookAt(book[s].last)

(* A book that holds a snapshot shows a state the exchange was in, also before
   it is HEALTHY.                                                            *)
BooksFaithful == \A s \in Symbols :
    /\ Faithful(book[s]) /\ HealthyHasId(book[s])
    /\ book[s].quality \in {"SYNCING", "RESYNCING", "HEALTHY"}
    /\ book[s].last <= head[s]

(* The inductive invariant behind HealthyBookIsExchangeBook and TrustedSpec. *)
BookInv == QueueWellFormed /\ BooksFaithful

(* Every discontinuity in the raw depth given to the writer overlaps a row of
   the gaps table that names its symbol or the whole stream ("gaps are
   explicitly logged", README.md).                                           *)
HolesAreLogged == \A h \in holes : Logged(h.sym, h.from, h.to)

(* Every event the full queue refused was received inside a RECORDER_OVERLOAD
   row, across disconnections that keep the row in self.gaps.                *)
DropsAreLogged == \A t \in dropped : \E i \in DOMAIN gaps :
    /\ gaps[i].kind = "RECORDER_OVERLOAD" /\ gaps[i].start <= t
    /\ gaps[i].end = Open \/ t <= gaps[i].end

(* Every open row is one the process will still close: it is in self.gaps or
   in the gid of the _handle call in progress, unless a request failed there.*)
OpenRowsAreHeld == faults["rest"] = 0 => \A i \in DOMAIN gaps :
    gaps[i].end = Open => i \in {netGap, overGap, seqGap}

Drained == pc = "consume" /\ wsOpen /\ queue = <<>>

(* Once the consumer of a live connection has drained the queue, a book is
   behind the last update the exchange has sent only if its next update can
   reach it no more: the event was lost or refused, or it had passed before the
   snapshot was requested.  No update that came later is dropped on the way
   from the snapshot to the bridge.                                          *)
DrainedBooksAreCurrent == Drained => \A s \in Symbols :
    book[s].last < sent[s] => book[s].last + 1 \in missed[s]

(* The book shown to the feature loop, as TrustedBook sees it. *)
Shown == [s \in Symbols |-> IF book[s].quality = "HEALTHY"
                            THEN [id |-> book[s].last, levels |-> book[s].levels]
                            ELSE [id |-> NoId, levels |-> BookAt(0)]]

Trusted == INSTANCE TrustedBook WITH shown <- Shown

(* The pipeline implements TrustedBook. *)
TrustedSpec == Trusted!Spec

(* An outage row does not stay open: the loop reconnects. *)
OutageEnds == netGap # 0 ~> netGap = 0

(* A lost socket gets an outage row ("Network disconnect and depth-sequence
   gaps stored permanently", IMPLEMENTATION_STATUS.md).                      *)
LossIsLogged == pc = "consume" /\ ~wsOpen ~> netGap # 0

=============================================================================
