------------------------ MODULE FullL2RecorderProofs ------------------------
(***************************************************************************)
(* The full-L2 pipeline for every set of symbols, queue size and number of  *)
(* faults: type correctness, integrity of HEALTHY books, that the pipeline  *)
(* implements TrustedBook, gap rows that are held, refused events and holes *)
(* in the recorded depth that have a row, and drained books that are behind *)
(* only by what could not reach them. Only the theorem on holes has a       *)
(* hypothesis of its own, Undisturbed.                                      *)
(***************************************************************************)
EXTENDS FullL2Recorder, SequenceTheorems, WellFoundedInduction, TLAPS

-----------------------------------------------------------------------------
(* One order book, for every sequence of exchange updates: what a depth event does *)
(* to a faithful book.                                                             *)

\* A non-empty set of update numbers has a maximum, which Max returns.
LEMMA MaxOfUpdates ==
    ASSUME NEW S \in SUBSET (0..MaxUpdate), S # {}
    PROVE  Max(S) \in S /\ \A y \in S : Max(S) >= y
<1> DEFINE D == {MaxUpdate - x : x \in S}
<1>1. D \subseteq Nat /\ D # {}
  <2>1. \A x \in S : MaxUpdate - x \in Nat
    BY MaxUpdateAssumption
  <2>2. QED
    BY <2>1
<1>2. PICK d \in D : \A c \in D : ~(<<c, d>> \in OpToRel(<, Nat))
  BY <1>1, NatLessThanWellFounded, WFMin
<1>3. \A c \in D : ~(c < d)
  BY <1>1, <1>2 DEF OpToRel
<1>4. PICK x \in S : d = MaxUpdate - x
  OBVIOUS
<1>5. ASSUME NEW y \in S PROVE x >= y
  <2>1. MaxUpdate - y \in D
    OBVIOUS
  <2>2. ~(MaxUpdate - y < MaxUpdate - x)
    BY <1>3, <1>4, <2>1
  <2>3. QED
    BY <2>2, MaxUpdateAssumption
<1>6. QED
  BY <1>5 DEF Max

\* The exchange's book shows, on every level, an update made so far or none.
LEMMA BookAtType ==
    ASSUME NEW n \in 0..MaxUpdate
    PROVE  BookAt(n) \in [Levels -> UpdateId \cup {0}]
<1>1. ASSUME NEW l \in Levels PROVE LastTouch(l, n) \in UpdateId \cup {0}
  <2> DEFINE S == Touching(l, n) \cup {0}
  <2>1. S \in SUBSET (0..MaxUpdate) /\ S # {}
    BY MaxUpdateAssumption DEF Touching
  <2>2. Max(S) \in S
    BY <2>1, MaxOfUpdates
  <2>3. QED
    BY <2>1, <2>2, MaxUpdateAssumption DEF LastTouch, UpdateId
<1>2. QED
  BY <1>1 DEF BookAt

\* An event that overlaps or continues a faithful book yields the exchange's
\* book at the event's last update.
LEMMA DeltaFaithful ==
    ASSUME NEW m \in 0..MaxUpdate, NEW e, WellFormed(e), m < e.u, e.U <= m + 1
    PROVE  ApplyLevels(BookAt(m), e) = BookAt(e.u)
<1> USE MaxUpdateAssumption DEF WellFormed, UpdateId
<1>1. ASSUME NEW l \in Levels, \A i \in e.U..e.u : LevelOf[i] # l
      PROVE  Touching(l, m) = Touching(l, e.u)
  BY <1>1 DEF Touching
<1>2. ASSUME NEW l \in Levels
      PROVE  (IF \E i \in e.U..e.u : LevelOf[i] = l
              THEN LastTouch(l, e.u) ELSE BookAt(m)[l]) = LastTouch(l, e.u)
  BY <1>1 DEF BookAt, LastTouch
<1>3. QED
  BY <1>2 DEF ApplyLevels, BookAt

\* apply_futures_delta keeps a faithful book faithful and never lets it go
\* back: U/u bridging while syncing, pu continuity once HEALTHY.
LEMMA FuturesDeltaFaithful ==
    ASSUME NEW b \in Book, NEW e, WellFormed(e),
           b.quality \in {"SYNCING", "RESYNCING", "HEALTHY"},
           Faithful(b), Accepts(b, e)
    PROVE  /\ Applied(b, e) \in Book
           /\ Applied(b, e) = [last |-> e.u, quality |-> "HEALTHY", levels |-> BookAt(e.u)]
           /\ b.last < e.u
<1> USE MaxUpdateAssumption
<1>1. b.last \in 0..MaxUpdate /\ b.levels = BookAt(b.last)
  BY DEF Accepts, FuturesIgnores, Faithful, Book, NoId, UpdateId
<1>2. b.last < e.u
  BY <1>1 DEF Accepts, FuturesIgnores, WellFormed, UpdateId
<1>3. e.U <= b.last + 1
  BY <1>1 DEF Accepts, FuturesIgnores, FuturesGap, Syncing, Bridges, WellFormed
<1>4. ApplyLevels(b.levels, e) = BookAt(e.u)
  BY <1>1, <1>2, <1>3, DeltaFaithful
<1>5. e.u \in 0..MaxUpdate /\ BookAt(e.u) \in [Levels -> UpdateId \cup {0}]
  BY BookAtType DEF WellFormed, UpdateId
<1>6. QED
  BY <1>2, <1>4, <1>5 DEF Applied, Book, Quality, WellFormed

\* apply_spot_delta, whose only test is U <= last + 1, keeps it faithful too.
LEMMA SpotDeltaFaithful ==
    ASSUME NEW b \in Book, NEW e, WellFormed(e), Faithful(b),
           ~SpotIgnores(b, e), ~SpotGap(b, e)
    PROVE  Applied(b, e).levels = BookAt(e.u) /\ b.last < e.u
<1> USE MaxUpdateAssumption
<1>1. b.last \in 0..MaxUpdate /\ b.levels = BookAt(b.last)
  BY DEF SpotIgnores, Faithful, Book, NoId, UpdateId
<1>2. b.last < e.u /\ e.U <= b.last + 1
  BY <1>1 DEF SpotIgnores, SpotGap, WellFormed, UpdateId
<1>3. QED
  BY <1>1, <1>2, DeltaFaithful DEF Applied

-----------------------------------------------------------------------------
(* Type correctness *)

LEMMA RecordGapType ==
    ASSUME TypeOK, NEW kind \in {"NETWORK_OUTAGE", "RECORDER_OVERLOAD", "STREAM_SEQUENCE_GAP"},
           NEW of \in SUBSET Symbols, NEW start \in Nat
    PROVE  /\ RecordGap(kind, of, start) \in Seq(GapRow)
           /\ Len(RecordGap(kind, of, start)) = Len(gaps) + 1
<1>1. [kind |-> kind, of |-> of, start |-> start, end |-> Open] \in GapRow
  BY DEF GapRow
<1>2. QED
  BY <1>1, AppendProperties DEF RecordGap, TypeOK

LEMMA CloseGapType ==
    ASSUME TypeOK, NEW table \in Seq(GapRow), NEW gid \in 0..Len(table)
    PROVE  CloseGap(table, gid) \in Seq(GapRow) /\ Len(CloseGap(table, gid)) = Len(table)
<1>1. CASE gid = 0
  BY <1>1 DEF CloseGap
<1>2. CASE gid # 0
  <2>1. gid \in 1..Len(table) /\ table[gid] \in GapRow
    BY <1>2, ElementOfSeq
  <2>2. [table[gid] EXCEPT !.end = clock] \in GapRow
    BY <2>1 DEF GapRow, TypeOK
  <2>3. CloseGap(table, gid) = [table EXCEPT ![gid] = [table[gid] EXCEPT !.end = clock]]
    BY <1>2, <2>1 DEF CloseGap
  <2>4. QED
    BY <2>1, <2>2, <2>3, ExceptSeq
<1>3. QED
  BY <1>1, <1>2

\* What the "except Exception" branch leaves behind.
LEMMA DisconnectType ==
    ASSUME TypeOK, Disconnect, overGap' = overGap, lastEvent' \in Nat \cup {NoTime}
    PROVE  /\ pc' \in {"connect", "backoff", "sync", "consume", "resync"}
           /\ wsOpen' \in BOOLEAN /\ queue' \in Seq(Event)
           /\ syncing' \in [Symbols -> 0..MaxUpdate \cup {Idle, Queued}]
           /\ gaps' \in Seq(GapRow)
           /\ {netGap', overGap', seqGap'} \subseteq 0..Len(gaps')
<1> DEFINE start == IF lastEvent' = NoTime THEN clock ELSE lastEvent'
<1>1. start \in Nat
  BY DEF TypeOK
<1>2. /\ pc' = "backoff" /\ wsOpen' = FALSE /\ queue' = <<>>
      /\ syncing' = [s \in Symbols |-> Idle] /\ seqGap' = 0
  BY DEF Disconnect
<1>3. gaps \in Seq(GapRow) /\ Len(gaps) \in Nat /\ netGap \in 0..Len(gaps)
  BY LenProperties DEF TypeOK
<1>4. /\ gaps' \in Seq(GapRow) /\ Len(gaps) <= Len(gaps')
      /\ Len(gaps') \in Nat /\ netGap' \in 0..Len(gaps')
  <2>1. CASE netGap # 0
    BY <1>3, <2>1 DEF Disconnect
  <2>2. CASE netGap = 0
    <3>1. gaps' = RecordGap("NETWORK_OUTAGE", Symbols, start) /\ netGap' = Len(gaps')
      BY <2>2 DEF Disconnect
    <3>2. gaps' \in Seq(GapRow) /\ Len(gaps') = Len(gaps) + 1
      BY <1>1, <3>1, RecordGapType
    <3>3. QED
      BY <1>3, <3>1, <3>2
  <2>3. QED
    BY <2>1, <2>2
<1>5. syncing' \in [Symbols -> 0..MaxUpdate \cup {Idle, Queued}]
  BY <1>2
<1>6. queue' \in Seq(Event)
  BY <1>2, EmptySeq
<1>7. wsOpen' \in BOOLEAN /\ pc' \in {"connect", "backoff", "sync", "consume", "resync"}
  BY <1>2
<1>8. seqGap' \in 0..Len(gaps') /\ overGap' \in 0..Len(gaps')
  BY <1>2, <1>3, <1>4 DEF TypeOK
<1>9. QED
  BY <1>4, <1>5, <1>6, <1>7, <1>8

LEMMA CloseOverloadType ==
    ASSUME TypeOK, NEW table \in Seq(GapRow), NEW used, CloseOverload(table, used),
           overGap \in 0..Len(table)
    PROVE  /\ gaps' \in Seq(GapRow) /\ Len(gaps') = Len(table)
           /\ overGap' \in 0..Len(gaps')
<1>1. CASE overGap # 0 /\ used < QueueSize \div 2
  BY <1>1, CloseGapType DEF CloseOverload
<1>2. CASE ~(overGap # 0 /\ used < QueueSize \div 2)
  BY <1>2 DEF CloseOverload
<1>3. QED
  BY <1>1, <1>2

LEMMA TakeType ==
    ASSUME TypeOK, queue # <<>>
    PROVE  Head(queue) \in Event /\ Tail(queue) \in Seq(Event)
  BY HeadTailProperties DEF TypeOK

LEMMA RecordType ==
    ASSUME TypeOK, NEW e \in Event, Record(e)
    PROVE  /\ recorded' \in [Symbols -> [pu : 0..MaxUpdate, u : UpdateId, at : Nat]
                                         \cup {Nobody}]
           /\ holes' \subseteq [sym : Symbols, from : Nat, to : Nat]
<1>1. CASE ~Persisted(e.sym)
  BY <1>1 DEF Record, TypeOK
<1>2. CASE Persisted(e.sym)
  <2>1. [pu |-> e.pu, u |-> e.u, at |-> e.at] \in [pu : 0..MaxUpdate, u : UpdateId, at : Nat]
    BY MaxUpdateAssumption DEF Event, UpdateId
  <2>2. recorded' = [recorded EXCEPT ![e.sym] = [pu |-> e.pu, u |-> e.u, at |-> e.at]]
    BY <1>2 DEF Record
  <2>3. recorded[e.sym].u # NoId => recorded[e.sym].at \in Nat
    BY DEF TypeOK, Nobody, Event
  <2>4. QED
    BY <1>2, <2>1, <2>2, <2>3 DEF Record, TypeOK, Event
<1>3. QED
  BY <1>1, <1>2

LEMMA AppliedType ==
    ASSUME NEW b \in Book, NEW e, e.u \in UpdateId
    PROVE  Applied(b, e) \in Book
<1>1. e.u \in 0..MaxUpdate
  BY MaxUpdateAssumption DEF UpdateId
<1>2. \A l \in Levels : LastTouch(l, e.u) \in UpdateId \cup {0}
  BY <1>1, BookAtType DEF BookAt
<1>3. ApplyLevels(b.levels, e) \in [Levels -> UpdateId \cup {0}]
  BY <1>2 DEF ApplyLevels, Book
<1>4. QED
  BY <1>3 DEF Applied, Book, Quality

LEMMA FreshBookType ==
    /\ NewBook \in Book /\ ResetBook \in Book
    /\ \A n \in 0..MaxUpdate : SnapshotBook(n) \in Book
<1>1. \A n \in 0..MaxUpdate : BookAt(n) \in [Levels -> UpdateId \cup {0}]
  BY BookAtType
<1>2. 0 \in 0..MaxUpdate
  BY MaxUpdateAssumption
<1>3. \A n \in 0..MaxUpdate : n \in UpdateId \cup {NoId, 0}
  BY MaxUpdateAssumption DEF UpdateId
<1>4. QED
  BY <1>1, <1>2, <1>3 DEF NewBook, ResetBook, SnapshotBook, Book, Quality

\* What no event of a symbol carries are updates of it.
LEMMA PassedType ==
    ASSUME TypeOK, NEW s \in Symbols, NEW q PROVE Passed(s, q) \subseteq UpdateId
  BY MaxUpdateAssumption DEF Passed, UpdateId, TypeOK

LEMMA ReceiveType ==
    ASSUME TypeOK, NEW e \in Event, Receive(e)
    PROVE  /\ queue' \in Seq(Event) /\ missed' \in [Symbols -> SUBSET UpdateId]
           /\ gaps' \in Seq(GapRow) /\ Len(gaps) <= Len(gaps')
           /\ overGap' \in 0..Len(gaps') /\ dropped' \subseteq Nat
<1>0. gaps \in Seq(GapRow) /\ Len(gaps) \in Nat /\ overGap \in 0..Len(gaps) /\ e.at \in Nat
  BY LenProperties DEF TypeOK, Event
<1>T. missed' \in [Symbols -> SUBSET UpdateId]
  <2>1. e.sym \in Symbols /\ e.U..e.u \subseteq UpdateId
    BY MaxUpdateAssumption DEF Event, UpdateId
  <2>2. missed \in [Symbols -> SUBSET UpdateId]
    BY DEF TypeOK
  <2>3. missed[e.sym] \cup e.U..e.u \in SUBSET UpdateId
    BY <2>1, <2>2
  <2>4. missed' = missed \/ missed' = [missed EXCEPT ![e.sym] = missed[e.sym] \cup e.U..e.u]
    BY DEF Receive
  <2> HIDE DEF UpdateId
  <2> QED BY <2>1, <2>2, <2>3, <2>4
<1>1. CASE Len(queue) < QueueSize
  <2>1. queue' = Append(queue, e) /\ gaps' = gaps /\ overGap' = overGap /\ dropped' = dropped
    BY <1>1 DEF Receive
  <2>2. queue' \in Seq(Event)
    BY <2>1, AppendProperties DEF TypeOK
  <2>3. dropped' \subseteq Nat
    BY <2>1 DEF TypeOK
  <2>4. QED
    BY <1>0, <1>T, <2>1, <2>2, <2>3
<1>2. CASE ~(Len(queue) < QueueSize) /\ overGap # 0
  <2>1. queue' = queue /\ gaps' = gaps /\ overGap' = overGap /\ dropped' = dropped \cup {e.at}
    BY <1>2 DEF Receive
  <2>2. queue' \in Seq(Event) /\ dropped' \subseteq Nat
    BY <1>0, <2>1 DEF TypeOK
  <2>3. QED
    BY <1>0, <1>T, <2>1, <2>2
<1>3. CASE ~(Len(queue) < QueueSize) /\ overGap = 0
  <2>1. /\ gaps' = RecordGap("RECORDER_OVERLOAD", Symbols, e.at) /\ overGap' = Len(gaps')
        /\ queue' = queue /\ dropped' = dropped \cup {e.at}
    BY <1>3 DEF Receive
  <2>2. gaps' \in Seq(GapRow) /\ Len(gaps') = Len(gaps) + 1
    BY <1>0, <2>1, RecordGapType
  <2>3. queue' \in Seq(Event) /\ dropped' \subseteq Nat
    BY <1>0, <2>1 DEF TypeOK
  <2>4. overGap' \in 0..Len(gaps') /\ Len(gaps) <= Len(gaps')
    BY <1>0, <2>1, <2>2
  <2>5. QED
    BY <1>T, <2>2, <2>3, <2>4
<1>4. QED
  BY <1>1, <1>2, <1>3

\* Books, queue, tasks and gap rows are well typed in every reachable state.
THEOREM TypeCorrect == Spec => []TypeOK
<1>1. Init => TypeOK
  <2> SUFFICES ASSUME Init PROVE TypeOK
    OBVIOUS
  <2>1. NewBook \in Book /\ <<>> \in Seq(Event) /\ <<>> \in Seq(GapRow) /\ Len(<<>>) = 0
    BY FreshBookType, EmptySeq
  <2>2. gaps \in Seq(GapRow) /\ {netGap, overGap, seqGap} \subseteq 0..Len(gaps)
    BY <2>1 DEF Init
  <2>3. head \in [Symbols -> 0..MaxUpdate] /\ sent \in [Symbols -> 0..MaxUpdate]
    BY MaxUpdateAssumption DEF Init
  <2>4. book \in [Symbols -> Book] /\ queue \in Seq(Event)
    BY <2>1 DEF Init
  <2>5. /\ latest \in [Symbols -> [id : 0..MaxUpdate \cup {NoId}, at : Nat \cup {NoTime}]]
        /\ recorded \in [Symbols -> [pu : 0..MaxUpdate, u : UpdateId, at : Nat] \cup {Nobody}]
    BY DEF Init, NoTime
  <2>6. QED
    BY <2>2, <2>3, <2>4, <2>5 DEF Init, TypeOK
<1>2. TypeOK /\ [Next]_vars => TypeOK'
  <2> SUFFICES ASSUME TypeOK, [Next]_vars PROVE TypeOK'
    OBVIOUS
  <2> USE DEF exchange, link, rows, history
  <2>0. /\ gaps \in Seq(GapRow) /\ Len(gaps) \in Nat
        /\ netGap \in 0..Len(gaps) /\ overGap \in 0..Len(gaps) /\ seqGap \in 0..Len(gaps)
    BY LenProperties DEF TypeOK
  <2>F. ASSUME NEW f \in Fault, MayFail(f) PROVE faults' \in [Fault -> Nat]
    BY <2>F DEF MayFail, TypeOK
  <2>B. ASSUME NEW s \in Symbols, NEW from,
               \E n \in Answer(s, from) : book' = [book EXCEPT ![s] = SnapshotBook(n)]
        PROVE  book' \in [Symbols -> Book]
    <3>1. PICK n \in Answer(s, from) : book' = [book EXCEPT ![s] = SnapshotBook(n)]
      BY <2>B
    <3>2. n \in 0..MaxUpdate
      BY MaxUpdateAssumption DEF Answer, TypeOK
    <3>3. SnapshotBook(n) \in Book
      BY <3>2, FreshBookType
    <3>4. QED
      BY <3>1, <3>3 DEF TypeOK
  <2>1. ASSUME NEW s \in Symbols, Trade(s) PROVE TypeOK'
    <3>1. head[s] + 1 \in 0..MaxUpdate
      <4>1. head[s] \in 0..MaxUpdate /\ UpdateBound[s] \in 0..MaxUpdate
        BY BoundAssumption DEF TypeOK
      <4>2. QED
        BY <2>1, <4>1, MaxUpdateAssumption DEF Trade
    <3>2. head' \in [Symbols -> 0..MaxUpdate]
      BY <2>1, <3>1 DEF Trade, TypeOK
    <3>3. QED
      BY <2>1, <3>2 DEF Trade, TypeOK
  <2>2. ASSUME NEW s \in Symbols, Emit(s) PROVE TypeOK'
    <3> DEFINE e == [sym |-> s, pu |-> sent[s], U |-> sent[s] + 1, u |-> head[s],
                     at |-> clock + 1]
    <3>1. e \in Event
      BY <2>2, MaxUpdateAssumption DEF Emit, Send, Event, TypeOK, UpdateId
    <3>2. sent' \in [Symbols -> 0..MaxUpdate] /\ clock' \in Nat
      BY <2>2 DEF Emit, Send, TypeOK
    <3>3. CASE wsOpen
      <4>1. Receive(e)
        BY <2>2, <3>3 DEF Emit
      <4>2. /\ queue' \in Seq(Event) /\ gaps' \in Seq(GapRow) /\ dropped' \subseteq Nat
            /\ overGap' \in 0..Len(gaps') /\ Len(gaps) <= Len(gaps') /\ Len(gaps') \in Nat
            /\ missed' \in [Symbols -> SUBSET UpdateId]
        BY <3>1, <4>1, ReceiveType, LenProperties
      <4>3. netGap' \in 0..Len(gaps') /\ seqGap' \in 0..Len(gaps')
        BY <2>2, <2>0, <4>2 DEF Emit, Send
      <4>4. QED
        BY <2>2, <3>2, <4>2, <4>3 DEF Emit, Send, TypeOK
    <3>4. CASE ~wsOpen
      BY <2>2, <3>2, <3>4 DEF Emit, Send, TypeOK
    <3>5. QED
      BY <3>3, <3>4
  <2>3. ASSUME NEW s \in Symbols, Skip(s) PROVE TypeOK'
    <3>1. sent' \in [Symbols -> 0..MaxUpdate] /\ clock' \in Nat
      BY <2>3 DEF Skip, Send, TypeOK
    <3>2. faults' \in [Fault -> Nat]
      BY <2>3, <2>F DEF Skip, Fault
    <3>3. missed' \in [Symbols -> SUBSET UpdateId]
      <4>1. (sent[s] + 1)..head[s] \subseteq UpdateId
        BY MaxUpdateAssumption DEF TypeOK, UpdateId
      <4>2. QED
        BY <2>3, <4>1 DEF Skip, TypeOK
    <3>4. QED
      BY <2>3, <3>1, <3>2, <3>3 DEF Skip, Send, TypeOK
  <2>4. ASSUME NEW s \in Symbols, EmitFeature(s) PROVE TypeOK'
    <3>1. book[s].last \in 0..MaxUpdate \cup {NoId}
      BY MaxUpdateAssumption DEF TypeOK, Book, UpdateId
    <3>2. [id |-> book[s].last, at |-> clock] \in
              [id : 0..MaxUpdate \cup {NoId}, at : Nat \cup {NoTime}]
      BY <3>1 DEF TypeOK
    <3>3. QED
      BY <2>4, <3>2 DEF EmitFeature, TypeOK
  <2>5. CASE LoseSocket
    BY <2>5, <2>F DEF LoseSocket, TypeOK, Fault
  <2>6. CASE Heartbeat
    BY <2>6, DiskAssumption DEF Heartbeat, TypeOK
  <2>7. CASE ConnectFails
    <3>1. Disconnect /\ overGap' = overGap /\ lastEvent' \in Nat \cup {NoTime}
      BY <2>7 DEF ConnectFails, TypeOK
    <3>2. faults' \in [Fault -> Nat]
      BY <2>7, <2>F DEF ConnectFails, Fault
    <3>3. QED
      BY <2>7, <3>1, <3>2, DisconnectType DEF ConnectFails, TypeOK
  <2>8. CASE Backoff
    BY <2>8 DEF Backoff, TypeOK
  <2>9. CASE Connect
    <3>1. gaps' \in Seq(GapRow) /\ Len(gaps') = Len(gaps)
      BY <2>9, <2>0, CloseGapType DEF Connect
    <3>2. queue' \in Seq(Event) /\ syncing' \in [Symbols -> 0..MaxUpdate \cup {Idle, Queued}]
      BY <2>9, EmptySeq DEF Connect
    <3>3. missed' \in [Symbols -> SUBSET UpdateId]
      BY <2>9, PassedType DEF Connect
    <3>4. QED
      BY <2>9, <2>0, <3>1, <3>2, <3>3 DEF Connect, TypeOK
  <2>10. CASE AllSynced
    BY <2>10 DEF AllSynced, TypeOK
  <2>11. ASSUME NEW s \in Symbols, SyncStart(s) PROVE TypeOK'
    BY <2>11, FreshBookType DEF SyncStart, TypeOK
  <2>12. ASSUME NEW s \in Symbols, SyncDone(s) PROVE TypeOK'
    <3>1. book' \in [Symbols -> Book]
      BY <2>12, <2>B DEF SyncDone
    <3>2. QED
      BY <2>12, <3>1 DEF SyncDone, TypeOK
  <2>13. ASSUME NEW s \in Symbols, SyncFails(s) PROVE TypeOK'
    <3>1. orphans' \subseteq [sym : Symbols, from : 0..MaxUpdate]
      BY <2>13 DEF SyncFails, TypeOK, Idle, Queued
    <3>2. Disconnect /\ overGap' = overGap /\ lastEvent' \in Nat \cup {NoTime}
      BY <2>13 DEF SyncFails, TypeOK
    <3>3. faults' \in [Fault -> Nat]
      BY <2>13, <2>F DEF SyncFails, Fault
    <3>4. QED
      BY <2>13, <3>1, <3>2, <3>3, DisconnectType DEF SyncFails, TypeOK
  <2>14. ASSUME NEW s \in Symbols, ResyncDone(s) PROVE TypeOK'
    <3>1. book' \in [Symbols -> Book]
      BY <2>14, <2>B DEF ResyncDone
    <3>2. CloseGap(gaps, seqGap) \in Seq(GapRow) /\ Len(CloseGap(gaps, seqGap)) = Len(gaps)
      BY <2>0, CloseGapType
    <3>3. gaps' \in Seq(GapRow) /\ Len(gaps') = Len(gaps) /\ overGap' \in 0..Len(gaps')
      BY <2>14, <2>0, <3>2, CloseOverloadType DEF ResyncDone
    <3>4. /\ pc' = "consume" /\ seqGap' = 0 /\ netGap' = netGap
          /\ syncing' \in [Symbols -> 0..MaxUpdate \cup {Idle, Queued}]
          /\ UNCHANGED <<head, sent, clock, wsOpen, queue, orphans, lastEvent, level, latest,
                         faults, recorded, holes, dropped, missed>>
      BY <2>14 DEF ResyncDone, TypeOK
    <3>5. QED
      BY <2>0, <3>1, <3>3, <3>4 DEF TypeOK
  <2>15. ASSUME NEW s \in Symbols, ResyncFails(s) PROVE TypeOK'
    <3>1. Disconnect /\ overGap' = overGap /\ lastEvent' \in Nat \cup {NoTime}
      BY <2>15 DEF ResyncFails, TypeOK
    <3>2. faults' \in [Fault -> Nat]
      BY <2>15, <2>F DEF ResyncFails, Fault
    <3>3. QED
      BY <2>15, <3>1, <3>2, DisconnectType DEF ResyncFails, TypeOK
  <2>16. ASSUME NEW o \in orphans, OrphanDone(o) PROVE TypeOK'
    <3>1. o.sym \in Symbols
      BY DEF TypeOK
    <3>2. book' \in [Symbols -> Book]
      BY <2>16, <2>B, <3>1 DEF OrphanDone
    <3>3. missed' \in [Symbols -> SUBSET UpdateId]
      BY <2>16, <3>1, PassedType DEF OrphanDone, TypeOK
    <3>4. QED
      BY <2>16, <3>2, <3>3 DEF OrphanDone, TypeOK
  <2>17. ASSUME NEW o \in orphans, OrphanFails(o) PROVE TypeOK'
    BY <2>17, <2>F DEF OrphanFails, TypeOK, Fault
  <2>18. CASE Consume
    <3> DEFINE e == Head(queue)
    <3>1. queue # <<>> /\ (Ignore(e) \/ Apply(e) \/ ApplyWriteFails(e) \/ Gap(e))
      BY <2>18 DEF Consume
    <3>2. e \in Event /\ Tail(queue) \in Seq(Event)
      BY <3>1, TakeType
    <3> HIDE DEF e
    <3>3. e.sym \in Symbols /\ e.at \in Nat /\ e.u \in UpdateId
      BY <3>2 DEF Event
    <3>4. CASE Ignore(e)
      <4>1. gaps' \in Seq(GapRow) /\ Len(gaps') = Len(gaps) /\ overGap' \in 0..Len(gaps')
        BY <3>4, <2>0, CloseOverloadType DEF Ignore
      <4>2. QED
        BY <3>2, <3>3, <3>4, <2>0, <4>1 DEF Ignore, Take, TypeOK
    <3>5. CASE Apply(e)
      <4>1. gaps' \in Seq(GapRow) /\ Len(gaps') = Len(gaps) /\ overGap' \in 0..Len(gaps')
        BY <3>5, <2>0, CloseOverloadType DEF Apply
      <4>2. book' \in [Symbols -> Book]
        BY <3>3, <3>5, AppliedType DEF Apply, TypeOK
      <4>3. QED
        BY <3>2, <3>3, <3>5, <2>0, <4>1, <4>2, RecordType DEF Apply, Take, TypeOK
    <3>6. CASE ApplyWriteFails(e)
      <4>1. book' \in [Symbols -> Book]
        BY <3>3, <3>6, AppliedType DEF ApplyWriteFails, TypeOK
      <4>2. Disconnect /\ overGap' = overGap /\ lastEvent' \in Nat \cup {NoTime}
        BY <3>3, <3>6 DEF ApplyWriteFails, TypeOK
      <4>3. faults' \in [Fault -> Nat]
        BY <3>6, <2>F DEF ApplyWriteFails, Fault
      <4>4. /\ recorded' \in [Symbols -> [pu : 0..MaxUpdate, u : UpdateId, at : Nat] \cup {Nobody}]
            /\ holes' \subseteq [sym : Symbols, from : Nat, to : Nat]
        BY <3>2, <3>6, RecordType DEF ApplyWriteFails
      <4>5. QED
        BY <3>6, <4>1, <4>2, <4>3, <4>4, DisconnectType DEF ApplyWriteFails, TypeOK
    <3>7. CASE Gap(e)
      <4>1. gaps' \in Seq(GapRow) /\ Len(gaps') = Len(gaps) + 1
        BY <3>3, <3>7, RecordGapType DEF Gap
      <4>2. book' \in [Symbols -> Book]
        BY <3>3, <3>7, FreshBookType DEF Gap, TypeOK
      <4>3. /\ {netGap', overGap', seqGap'} \subseteq 0..Len(gaps')
            /\ syncing' \in [Symbols -> 0..MaxUpdate \cup {Idle, Queued}]
        BY <3>3, <3>7, <2>0, <4>1 DEF Gap, TypeOK
      <4>4. queue' \in Seq(Event) /\ lastEvent' \in Nat \cup {NoTime}
        BY <3>2, <3>3, <3>7 DEF Gap, Take
      <4>5. missed' \in [Symbols -> SUBSET UpdateId]
        BY <3>3, <3>7, PassedType DEF Gap, TypeOK
      <4>6. QED
        BY <3>7, <4>1, <4>2, <4>3, <4>4, <4>5 DEF Gap, TypeOK
    <3>8. QED
      BY <3>1, <3>4, <3>5, <3>6, <3>7
  <2>19. CASE UNCHANGED vars
    BY <2>19 DEF vars, TypeOK
  <2>20. QED
    BY <2>1, <2>2, <2>3, <2>4, <2>5, <2>6, <2>7, <2>8, <2>9, <2>10, <2>11, <2>12, <2>13,
       <2>14, <2>15, <2>16, <2>17, <2>18, <2>19 DEF Next, Connection
<1>3. QED
  BY <1>1, <1>2, PTL DEF Spec
-----------------------------------------------------------------------------
(* Integrity of the books *)

\* A book of s that may follow: an exchange state no newer than the exchange.
LEMMA BookUpdateKeepsInv ==
    ASSUME TypeOK, BooksFaithful, NEW s \in Symbols, NEW b,
           book' = [book EXCEPT ![s] = b], head' = head,
           Faithful(b), HealthyHasId(b),
           b.quality \in {"SYNCING", "RESYNCING", "HEALTHY"}, b.last <= head[s]
    PROVE  BooksFaithful'
  BY DEF BooksFaithful, TypeOK

LEMMA FreshBooksFaithful ==
    /\ Faithful(ResetBook) /\ HealthyHasId(ResetBook) /\ ResetBook.quality = "RESYNCING"
    /\ ResetBook.last = NoId
    /\ \A n : /\ Faithful(SnapshotBook(n)) /\ HealthyHasId(SnapshotBook(n))
              /\ SnapshotBook(n).quality = "SYNCING" /\ SnapshotBook(n).last = n
  BY DEF ResetBook, SnapshotBook, Faithful, HealthyHasId

LEMMA SnapshotKeepsInv ==
    ASSUME TypeOK, BooksFaithful, NEW s \in Symbols, NEW from, head' = head,
           \E n \in Answer(s, from) : book' = [book EXCEPT ![s] = SnapshotBook(n)]
    PROVE  BooksFaithful'
<1>1. PICK n \in Answer(s, from) : book' = [book EXCEPT ![s] = SnapshotBook(n)]
  OBVIOUS
<1>2. n \in 0..head[s] /\ head[s] \in 0..MaxUpdate
  BY DEF Answer, TypeOK
<1>3. n \in 0..MaxUpdate /\ n <= head[s]
  BY <1>2, MaxUpdateAssumption
<1>4. /\ Faithful(SnapshotBook(n)) /\ HealthyHasId(SnapshotBook(n))
      /\ SnapshotBook(n).quality \in {"SYNCING", "RESYNCING", "HEALTHY"}
      /\ SnapshotBook(n).last <= head[s]
  BY <1>3, FreshBooksFaithful
<1> HIDE DEF Answer
<1>5. QED
  BY <1>1, <1>4, BookUpdateKeepsInv

LEMMA ResetKeepsInv ==
    ASSUME TypeOK, BooksFaithful, NEW s \in Symbols, head' = head,
           book' = [book EXCEPT ![s] = ResetBook]
    PROVE  BooksFaithful'
<1>1. ResetBook.last <= head[s]
  BY FreshBooksFaithful, MaxUpdateAssumption DEF TypeOK, NoId
<1>2. QED
  BY <1>1, FreshBooksFaithful, BookUpdateKeepsInv

\* The event at the head of the queue, taken as it is.
LEMMA HeadWellFormed ==
    ASSUME TypeOK, QueueWellFormed, queue # <<>>
    PROVE  /\ Head(queue) \in Event /\ WellFormed(Head(queue))
           /\ Head(queue).u <= head[Head(queue).sym]
<1>1. Len(queue) \in Nat \ {0} /\ DOMAIN queue = 1..Len(queue)
  BY EmptySeq, LenProperties DEF TypeOK
<1>2. Head(queue) = queue[1] /\ 1 \in DOMAIN queue
  BY <1>1
<1>3. QED
  BY <1>2, TakeType DEF QueueWellFormed

LEMMA TailWellFormed ==
    ASSUME TypeOK, QueueWellFormed, queue # <<>>, queue' = Tail(queue), head' = head
    PROVE  QueueWellFormed'
<1>1. Tail(queue) \in Seq(Event) /\ Len(Tail(queue)) = Len(queue) - 1
  BY HeadTailProperties DEF TypeOK
<1>2. DOMAIN queue = 1..Len(queue) /\ DOMAIN Tail(queue) = 1..(Len(queue) - 1)
      /\ Len(queue) \in Nat
  BY <1>1, LenProperties DEF TypeOK
<1>3. \A i \in 1..(Len(queue) - 1) : Tail(queue)[i] = queue[i + 1] /\ i + 1 \in DOMAIN queue
  BY <1>1, <1>2 DEF TypeOK
<1>4. QED
  BY <1>2, <1>3 DEF QueueWellFormed

LEMMA AppliedKeepsInv ==
    ASSUME TypeOK, BookInv, queue # <<>>, NEW e, e = Head(queue), head' = head,
           Accepts(book[e.sym], e), book' = [book EXCEPT ![e.sym] = Applied(book[e.sym], e)]
    PROVE  /\ BooksFaithful'
           /\ Applied(book[e.sym], e)
                = [last |-> e.u, quality |-> "HEALTHY", levels |-> BookAt(e.u)]
           /\ book[e.sym].last < e.u
<1> DEFINE b == book[e.sym]
<1>1. e \in Event /\ WellFormed(e) /\ e.u <= head[e.sym] /\ e.sym \in Symbols
  BY HeadWellFormed DEF BookInv, Event
<1>2. b \in Book /\ Faithful(b) /\ b.quality \in {"SYNCING", "RESYNCING", "HEALTHY"}
  BY <1>1 DEF BookInv, BooksFaithful, TypeOK
<1>3. /\ Applied(b, e) = [last |-> e.u, quality |-> "HEALTHY", levels |-> BookAt(e.u)]
      /\ b.last < e.u
  BY <1>1, <1>2, FuturesDeltaFaithful
<1>4. /\ Faithful(Applied(b, e)) /\ HealthyHasId(Applied(b, e))
      /\ Applied(b, e).quality = "HEALTHY" /\ Applied(b, e).last = e.u
  BY <1>1, <1>3 DEF Faithful, HealthyHasId, WellFormed, UpdateId, NoId
<1>5. BooksFaithful'
  BY <1>1, <1>4, BookUpdateKeepsInv DEF BookInv
<1>6. QED
  BY <1>3, <1>5

\* The actions that touch neither the books nor the exchange's updates.
LEMMA QuietStep ==
    ASSUME TypeOK, BookInv, book' = book, head' = head,
           queue' = queue \/ queue' = <<>>
    PROVE  BookInv'
<1>1. BooksFaithful'
  BY DEF BookInv, BooksFaithful
<1>2. CASE queue' = queue
  BY <1>1, <1>2 DEF BookInv, QueueWellFormed
<1>3. CASE queue' = <<>>
  BY <1>1, <1>3 DEF BookInv, QueueWellFormed
<1>4. QED
  BY <1>2, <1>3

\* A book that holds a snapshot is a state of the exchange, and events wait in
\* the queue as the exchange built them.
THEOREM BooksInvariant == Spec => []BookInv
<1>1. Init => BookInv
  <2> SUFFICES ASSUME Init PROVE BookInv
    OBVIOUS
  <2>1. QueueWellFormed
    BY DEF Init, QueueWellFormed
  <2>2. BooksFaithful
    BY DEF Init, BooksFaithful, NewBook, Faithful, HealthyHasId, NoId
  <2>3. QED
    BY <2>1, <2>2 DEF BookInv
<1>2. TypeOK /\ BookInv /\ [Next]_vars => BookInv'
  <2> SUFFICES ASSUME TypeOK, BookInv, [Next]_vars PROVE BookInv'
    OBVIOUS
  <2> USE DEF exchange, link, rows, history
  <2>Q. ASSUME queue' = queue, head' = head PROVE QueueWellFormed'
    BY <2>Q DEF BookInv, QueueWellFormed
  <2>1. ASSUME NEW s \in Symbols, Trade(s) PROVE BookInv'
    <3>1. \A t \in Symbols : head[t] <= head'[t]
      BY <2>1 DEF Trade, TypeOK
    <3>2. BooksFaithful'
      <4>1. \A t \in Symbols : book[t].last \in Int /\ head[t] \in Int /\ head'[t] \in Int
        BY <2>1, MaxUpdateAssumption DEF TypeOK, Book, UpdateId, NoId, Trade
      <4>2. QED
        BY <2>1, <3>1, <4>1 DEF Trade, BookInv, BooksFaithful
    <3>3. QueueWellFormed'
      <4>1. \A i \in DOMAIN queue : queue[i] \in Event
        BY ElementOfSeq, LenProperties DEF TypeOK
      <4>2. \A i \in DOMAIN queue : /\ queue[i].u \in Int /\ head[queue[i].sym] \in Int
                                    /\ head'[queue[i].sym] \in Int
                                    /\ head[queue[i].sym] <= head'[queue[i].sym]
        <5>1. \A t \in Symbols : head[t] \in Int /\ head'[t] \in Int
          BY <2>1, MaxUpdateAssumption DEF TypeOK, Trade
        <5>2. \A i \in DOMAIN queue : queue[i].u \in Int /\ queue[i].sym \in Symbols
          BY <4>1, MaxUpdateAssumption DEF Event, UpdateId
        <5>3. QED
          BY <3>1, <5>1, <5>2
      <4>3. QED
        BY <2>1, <4>2 DEF Trade, BookInv, QueueWellFormed
    <3>4. QED
      BY <3>2, <3>3 DEF BookInv
  <2>2. ASSUME NEW s \in Symbols, Emit(s) PROVE BookInv'
    <3> DEFINE e == [sym |-> s, pu |-> sent[s], U |-> sent[s] + 1, u |-> head[s],
                     at |-> clock + 1]
    <3>1. WellFormed(e) /\ e.u <= head[e.sym]
      BY <2>2, MaxUpdateAssumption DEF Emit, Send, WellFormed, TypeOK, UpdateId
    <3>2. head' = head /\ book' = book
      BY <2>2 DEF Emit, Send
    <3>3. queue' = queue \/ queue' = Append(queue, e)
      BY <2>2 DEF Emit, Receive
    <3>4. CASE queue' = Append(queue, e)
      <4>1. /\ DOMAIN queue' = 1..(Len(queue) + 1) /\ DOMAIN queue = 1..Len(queue)
            /\ Len(queue) \in Nat
        BY <3>4, LenProperties DEF TypeOK
      <4>2. \A i \in 1..(Len(queue) + 1) :
                queue'[i] = IF i <= Len(queue) THEN queue[i] ELSE e
        BY <3>4, <4>1 DEF TypeOK
      <4>3. QueueWellFormed'
        BY <3>1, <3>2, <4>1, <4>2 DEF BookInv, QueueWellFormed
      <4>4. QED
        BY <3>2, <4>3 DEF BookInv, BooksFaithful
    <3>5. QED
      BY <3>2, <3>3, <3>4, QuietStep
  <2>3. ASSUME NEW s \in Symbols, Skip(s) \/ EmitFeature(s) PROVE BookInv'
    BY <2>3, QuietStep DEF Skip, Send, EmitFeature
  <2>4. CASE LoseSocket \/ Heartbeat \/ Backoff \/ AllSynced \/ Connect \/ ConnectFails
    BY <2>4, QuietStep DEF LoseSocket, Heartbeat, Backoff, AllSynced, Connect, ConnectFails,
                           Disconnect
  <2>5. ASSUME NEW s \in Symbols, SyncFails(s) \/ ResyncFails(s) PROVE BookInv'
    BY <2>5, QuietStep DEF SyncFails, ResyncFails, Disconnect
  <2>6. ASSUME NEW s \in Symbols, SyncStart(s) PROVE BookInv'
    BY <2>6, <2>Q, ResetKeepsInv DEF SyncStart, BookInv
  <2>7. ASSUME NEW s \in Symbols, SyncDone(s) \/ ResyncDone(s) PROVE BookInv'
    BY <2>7, <2>Q, SnapshotKeepsInv DEF SyncDone, ResyncDone, BookInv
  <2>8. ASSUME NEW o \in orphans, OrphanDone(o) \/ OrphanFails(o) PROVE BookInv'
    <3>1. o.sym \in Symbols
      BY DEF TypeOK
    <3>2. CASE OrphanDone(o)
      BY <3>1, <3>2, <2>Q, SnapshotKeepsInv DEF OrphanDone, BookInv
    <3>3. CASE OrphanFails(o)
      BY <3>3, QuietStep DEF OrphanFails
    <3>4. QED
      BY <2>8, <3>2, <3>3
  <2>9. CASE Consume
    <3> DEFINE e == Head(queue)
    <3>1. queue # <<>> /\ (Ignore(e) \/ Apply(e) \/ ApplyWriteFails(e) \/ Gap(e))
      BY <2>9 DEF Consume
    <3>2. e \in Event /\ e.sym \in Symbols
      BY <3>1, TakeType DEF Event
    <3> HIDE DEF e
    <3>3. CASE Ignore(e)
      BY <3>1, <3>3, TailWellFormed DEF Ignore, Take, BookInv, BooksFaithful
    <3>4. CASE Apply(e)
      BY <3>1, <3>4, TailWellFormed, AppliedKeepsInv DEF Apply, Take, BookInv, e
    <3>5. CASE ApplyWriteFails(e)
      <4>1. BooksFaithful'
        BY <3>1, <3>5, AppliedKeepsInv DEF ApplyWriteFails, BookInv, e
      <4>2. QED
        BY <3>5, <4>1 DEF ApplyWriteFails, Disconnect, BookInv, QueueWellFormed
    <3>6. CASE Gap(e)
      BY <3>1, <3>2, <3>6, TailWellFormed, ResetKeepsInv DEF Gap, Take, BookInv
    <3>7. QED
      BY <3>1, <3>3, <3>4, <3>5, <3>6
  <2>10. CASE UNCHANGED vars
    BY <2>10, QuietStep DEF vars
  <2>11. QED
    BY <2>1, <2>2, <2>3, <2>4, <2>5, <2>6, <2>7, <2>8, <2>9, <2>10 DEF Next, Connection
<1>3. QED
  BY <1>1, <1>2, TypeCorrect, PTL DEF Spec

\* Whatever is dropped, lost or raced, a HEALTHY book is the exchange's book.
THEOREM HealthyBooks == Spec => []HealthyBookIsExchangeBook
<1>1. TypeOK /\ BookInv => HealthyBookIsExchangeBook
  BY MaxUpdateAssumption DEF TypeOK, BookInv, BooksFaithful, Faithful, HealthyHasId,
                             HealthyBookIsExchangeBook, Book, UpdateId, NoId
<1>2. QED
  BY <1>1, TypeCorrect, BooksInvariant, PTL

-----------------------------------------------------------------------------
(* The pipeline implements TrustedBook *)

LEMMA SameBookAt == \A n : Trusted!BookAt(n) = BookAt(n)
  BY DEF Trusted!BookAt, BookAt, Trusted!LastTouch, LastTouch, Trusted!Touching, Touching,
         Trusted!Max, Max

\* What a step does to the books, seen from the feature loop.
LEMMA BookSteps ==
    ASSUME TypeOK, BookInv, [Next]_vars
    PROVE  \/ \E s \in Symbols : /\ head[s] < MaxUpdate /\ book' = book
                                 /\ head' = [head EXCEPT ![s] = @ + 1]
           \/ head' = head /\ book' = book
           \/ /\ head' = head
              /\ \E s \in Symbols : \E b :
                     b.quality # "HEALTHY" /\ book' = [book EXCEPT ![s] = b]
           \/ /\ head' = head
              /\ \E s \in Symbols : \E u \in UpdateId :
                    /\ book[s].last < u /\ u <= head[s]
                    /\ book' = [book EXCEPT ![s] = [last |-> u, quality |-> "HEALTHY",
                                               levels |-> BookAt(u)]]
<1> USE DEF exchange, link, rows, history
<1>1. ASSUME NEW s \in Symbols, Trade(s)
      PROVE  head[s] < MaxUpdate /\ book' = book /\ head' = [head EXCEPT ![s] = @ + 1]
  <2>1. head[s] \in 0..MaxUpdate /\ UpdateBound[s] \in 0..MaxUpdate
    BY BoundAssumption DEF TypeOK
  <2>2. QED
    BY <1>1, <2>1, MaxUpdateAssumption DEF Trade
<1>2. ASSUME NEW s \in Symbols, Emit(s) \/ Skip(s) \/ EmitFeature(s) \/ SyncFails(s)
                                  \/ ResyncFails(s)
      PROVE  head' = head /\ book' = book
  BY <1>2 DEF Emit, Skip, Send, EmitFeature, SyncFails, ResyncFails
<1>3. ASSUME LoseSocket \/ Heartbeat \/ Backoff \/ AllSynced \/ Connect \/ ConnectFails
             \/ (\E o \in orphans : OrphanFails(o)) \/ UNCHANGED vars
      PROVE  head' = head /\ book' = book
  BY <1>3 DEF LoseSocket, Heartbeat, Backoff, AllSynced, Connect, ConnectFails, OrphanFails,
              vars
<1>4. ASSUME NEW s \in Symbols, SyncStart(s)
      PROVE  head' = head /\ book' = [book EXCEPT ![s] = ResetBook]
  BY <1>4 DEF SyncStart
<1>5. ASSUME NEW s \in Symbols, SyncDone(s) \/ ResyncDone(s)
      PROVE  head' = head /\ \E n : book' = [book EXCEPT ![s] = SnapshotBook(n)]
  BY <1>5 DEF SyncDone, ResyncDone
<1>6. ASSUME NEW o \in orphans, OrphanDone(o)
      PROVE  /\ head' = head /\ o.sym \in Symbols
             /\ \E n : book' = [book EXCEPT ![o.sym] = SnapshotBook(n)]
  BY <1>6 DEF OrphanDone, TypeOK
<1>7. ASSUME Consume
      PROVE  \/ head' = head /\ book' = book
             \/ /\ head' = head
                /\ \E s \in Symbols : book' = [book EXCEPT ![s] = ResetBook]
             \/ /\ head' = head
                /\ \E s \in Symbols : \E u \in UpdateId :
                      /\ book[s].last < u /\ u <= head[s]
                      /\ book' = [book EXCEPT ![s] = [last |-> u, quality |-> "HEALTHY",
                                                 levels |-> BookAt(u)]]
  <2> DEFINE e == Head(queue)
  <2>1. queue # <<>> /\ (Ignore(e) \/ Apply(e) \/ ApplyWriteFails(e) \/ Gap(e))
    BY <1>7 DEF Consume
  <2>2. e \in Event /\ e.sym \in Symbols /\ e.u \in UpdateId /\ e.u <= head[e.sym]
    BY <2>1, HeadWellFormed DEF Event, BookInv
  <2> HIDE DEF e
  <2>3. CASE Ignore(e)
    BY <2>3 DEF Ignore
  <2>4. CASE Apply(e) \/ ApplyWriteFails(e)
    <3>1. /\ head' = head /\ Accepts(book[e.sym], e)
          /\ book' = [book EXCEPT ![e.sym] = Applied(book[e.sym], e)]
      BY <2>4 DEF Apply, ApplyWriteFails
    <3>2. /\ Applied(book[e.sym], e)
               = [last |-> e.u, quality |-> "HEALTHY", levels |-> BookAt(e.u)]
          /\ book[e.sym].last < e.u
      BY <2>1, <3>1, AppliedKeepsInv DEF e
    <3>3. QED
      BY <2>2, <3>1, <3>2
  <2>5. CASE Gap(e)
    BY <2>2, <2>5 DEF Gap
  <2>6. QED
    BY <2>1, <2>3, <2>4, <2>5
<1>8. ResetBook.quality # "HEALTHY" /\ \A n : SnapshotBook(n).quality # "HEALTHY"
  BY FreshBooksFaithful
<1>9. QED
  BY <1>1, <1>2, <1>3, <1>4, <1>5, <1>6, <1>7, <1>8 DEF Next, Connection

\* Every step of the pipeline is a step of TrustedBook or leaves it unchanged.
LEMMA TrustedStep ==
    ASSUME TypeOK, BookInv, HealthyBookIsExchangeBook, [Next]_vars
    PROVE  [Trusted!Next]_(Trusted!vars)
<1> USE DEF Trusted!vars
<1> DEFINE nothing == [id |-> NoId, levels |-> BookAt(0)]
<1>0. /\ Trusted!Nothing = nothing
      /\ \A n : Trusted!ExchangeBook(n) = [id |-> n, levels |-> BookAt(n)]
      /\ Trusted!NoId = NoId
  BY SameBookAt DEF Trusted!Nothing, Trusted!ExchangeBook, Trusted!NoId, NoId
<1>1. \A s \in Symbols : Shown[s] = IF book[s].quality = "HEALTHY"
                                    THEN [id |-> book[s].last, levels |-> book[s].levels]
                                    ELSE nothing
  BY DEF Shown
<1>2. CASE \E s \in Symbols : /\ head[s] < MaxUpdate /\ book' = book
                              /\ head' = [head EXCEPT ![s] = @ + 1]
  BY <1>2 DEF Trusted!Next, Trusted!ExchangeUpdate, Shown
<1>3. CASE head' = head /\ book' = book
  BY <1>3 DEF Shown
<1>4. CASE head' = head /\ \E s \in Symbols : \E b :
               b.quality # "HEALTHY" /\ book' = [book EXCEPT ![s] = b]
  <2>0. PICK s \in Symbols : \E b : b.quality # "HEALTHY" /\ book' = [book EXCEPT ![s] = b]
    BY <1>4
  <2>1. PICK b : b.quality # "HEALTHY" /\ book' = [book EXCEPT ![s] = b]
    BY <2>0
  <2>2. Shown' = [Shown EXCEPT ![s] = nothing]
    BY <2>1 DEF Shown, TypeOK
  <2>3. CASE Shown[s] = nothing
    BY <1>4, <2>2, <2>3 DEF Shown
  <2>4. CASE Shown[s] # nothing
    BY <1>0, <1>4, <2>2, <2>4 DEF Trusted!Next, Trusted!Withdraw
  <2>5. QED
    BY <2>3, <2>4
<1>5. CASE /\ head' = head
           /\ \E s \in Symbols : \E u \in UpdateId :
                 /\ book[s].last < u /\ u <= head[s]
                 /\ book' = [book EXCEPT ![s] = [last |-> u, quality |-> "HEALTHY",
                                            levels |-> BookAt(u)]]
  <2>1. PICK s \in Symbols, u \in UpdateId :
           /\ book[s].last < u /\ u <= head[s]
           /\ book' = [book EXCEPT ![s] = [last |-> u, quality |-> "HEALTHY",
                                      levels |-> BookAt(u)]]
    BY <1>5
  <2>2. Shown' = [Shown EXCEPT ![s] = Trusted!ExchangeBook(u)]
    BY <1>0, <2>1 DEF Shown, TypeOK
  <2>3. u \in 1..head[s]
    BY <2>1, MaxUpdateAssumption DEF UpdateId, TypeOK
  <2>4. CASE Shown[s] = nothing
    <3>1. Trusted!Show(s)
      BY <1>0, <1>5, <2>2, <2>3, <2>4 DEF Trusted!Show
    <3>2. QED
      BY <3>1 DEF Trusted!Next
  <2>5. CASE Shown[s] # nothing
    <3>1. Shown[s].id = book[s].last /\ book[s].last \in 0..head[s]
      <4>1. book[s].quality = "HEALTHY"
        BY <1>1, <2>5
      <4>2. Shown[s] = [id |-> book[s].last, levels |-> book[s].levels]
        BY <1>1, <4>1
      <4>3. book[s].last \in 0..head[s]
        BY <4>1 DEF HealthyBookIsExchangeBook
      <4>4. QED
        BY <4>2, <4>3
    <3>2. u \in (Shown[s].id + 1)..head[s]
      BY <2>1, <2>3, <3>1, MaxUpdateAssumption DEF TypeOK
    <3>3. Trusted!Advance(s)
      BY <1>0, <1>5, <2>2, <2>5, <3>2 DEF Trusted!Advance
    <3>4. QED
      BY <3>3 DEF Trusted!Next
  <2>6. QED
    BY <2>4, <2>5
<1>6. QED
  BY <1>2, <1>3, <1>4, <1>5, BookSteps

\* The pipeline shows the feature loop nothing but what TrustedBook allows.
THEOREM Refinement == Spec => TrustedSpec
<1>1. Init => Trusted!Init
  BY SameBookAt DEF Init, Trusted!Init, Trusted!Nothing, Trusted!NoId, NoId, Shown, NewBook
<1>2. TypeOK /\ BookInv /\ HealthyBookIsExchangeBook /\ [Next]_vars
          => [Trusted!Next]_(Trusted!vars)
  BY TrustedStep
<1>3. QED
  BY <1>1, <1>2, TypeCorrect, BooksInvariant, HealthyBooks, PTL
  DEF Spec, TrustedSpec, Trusted!Spec

-----------------------------------------------------------------------------
(* The gap rows: which are open, and that a refused event lies in one *)

Kept(gid, kind) == gid # 0 => gaps[gid].kind = kind

\* netGap, overGap and seqGap name rows of their own kind, so closing one leaves
\* the others open; the overload row stays open as long as it is named.
RowsInv ==
    /\ seqGap # 0 => pc = "resync"
    /\ netGap # 0 => pc \in {"connect", "backoff"}
    /\ Kept(netGap, "NETWORK_OUTAGE") /\ Kept(overGap, "RECORDER_OVERLOAD")
    /\ Kept(seqGap, "STREAM_SEQUENCE_GAP")
    /\ overGap # 0 => gaps[overGap].end = Open /\ gaps[overGap].start <= clock
    /\ \A t \in dropped : t <= clock
    /\ OpenRowsAreHeld /\ DropsAreLogged

\* What a step may do to the rows: close some of them now, ...
Closes(C) == /\ Len(gaps') = Len(gaps)
             /\ \A i \in 1..Len(gaps) : /\ gaps'[i].kind = gaps[i].kind
                                        /\ gaps'[i].of = gaps[i].of
                                        /\ gaps'[i].start = gaps[i].start
                                        /\ gaps'[i].end = IF i \in C THEN clock ELSE gaps[i].end

\* ... or open one.
Opens(kind, of, start) ==
    /\ Len(gaps') = Len(gaps) + 1
    /\ \A i \in 1..Len(gaps) : gaps'[i] = gaps[i]
    /\ gaps'[Len(gaps) + 1] = [kind |-> kind, of |-> of, start |-> start, end |-> Open]

LEMMA RowNumbers ==
    ASSUME TypeOK
    PROVE  /\ DOMAIN gaps = 1..Len(gaps) /\ Len(gaps) \in Nat
           /\ \A i \in 1..Len(gaps) : gaps[i] \in GapRow
           /\ netGap \in 0..Len(gaps) /\ overGap \in 0..Len(gaps) /\ seqGap \in 0..Len(gaps)
  BY LenProperties, ElementOfSeq DEF TypeOK

LEMMA RowClosed ==
    ASSUME TypeOK, NEW gid \in 0..Len(gaps)
    PROVE  /\ Len(CloseGap(gaps, gid)) = Len(gaps) /\ CloseGap(gaps, gid) \in Seq(GapRow)
           /\ \A i \in 1..Len(gaps) :
                 /\ CloseGap(gaps, gid)[i].kind = gaps[i].kind
                 /\ CloseGap(gaps, gid)[i].of = gaps[i].of
                 /\ CloseGap(gaps, gid)[i].start = gaps[i].start
                 /\ CloseGap(gaps, gid)[i].end = IF i = gid THEN clock ELSE gaps[i].end
<1>1. gaps \in Seq(GapRow) /\ CloseGap(gaps, gid) \in Seq(GapRow)
      /\ Len(CloseGap(gaps, gid)) = Len(gaps)
  BY CloseGapType DEF TypeOK
<1>2. CASE gid = 0
  BY <1>1, <1>2 DEF CloseGap
<1>3. CASE gid # 0
  <2>1. gid \in 1..Len(gaps) /\ gaps[gid] \in GapRow
    BY <1>1, <1>3, ElementOfSeq
  <2>2. CloseGap(gaps, gid) = [gaps EXCEPT ![gid] = [gaps[gid] EXCEPT !.end = clock]]
    BY <1>3, <2>1 DEF CloseGap
  <2>3. [gaps[gid] EXCEPT !.end = clock] \in GapRow
    BY <2>1 DEF GapRow, TypeOK
  <2>4. \A i \in 1..Len(gaps) : CloseGap(gaps, gid)[i] =
            IF i = gid THEN [gaps[gid] EXCEPT !.end = clock] ELSE gaps[i]
    BY <1>1, <2>1, <2>2, <2>3, ExceptSeq
  <2>5. /\ [gaps[gid] EXCEPT !.end = clock].kind = gaps[gid].kind
        /\ [gaps[gid] EXCEPT !.end = clock].of = gaps[gid].of
        /\ [gaps[gid] EXCEPT !.end = clock].start = gaps[gid].start
        /\ [gaps[gid] EXCEPT !.end = clock].end = clock
    BY <2>1 DEF GapRow
  <2> QED BY <1>1, <2>4, <2>5
<1> QED BY <1>2, <1>3

\* _ws_loop's last test of a turn closes the overload row or no row.
LEMMA OverloadCloses ==
    ASSUME TypeOK, NEW used, CloseOverload(gaps, used)
    PROVE  \/ Closes({overGap}) /\ overGap' = 0
           \/ Closes({}) /\ overGap' = overGap
<1>1. CASE overGap # 0 /\ used < QueueSize \div 2
  BY <1>1, RowNumbers, RowClosed DEF CloseOverload, Closes
<1>2. CASE ~(overGap # 0 /\ used < QueueSize \div 2)
  BY <1>2, RowNumbers DEF CloseOverload, Closes
<1> QED BY <1>1, <1>2

\* After a resynchronisation its own row is closed as well.
LEMMA ResyncCloses ==
    ASSUME TypeOK, NEW used, CloseOverload(CloseGap(gaps, seqGap), used)
    PROVE  \/ Closes({seqGap, overGap}) /\ overGap' = 0
           \/ Closes({seqGap}) /\ overGap' = overGap
<1> DEFINE t == CloseGap(gaps, seqGap)
<1>1. /\ Len(t) = Len(gaps) /\ t \in Seq(GapRow)
      /\ \A i \in 1..Len(gaps) : /\ t[i].kind = gaps[i].kind /\ t[i].start = gaps[i].start
                                 /\ t[i].of = gaps[i].of
                                 /\ t[i].end = IF i = seqGap THEN clock ELSE gaps[i].end
  BY RowNumbers, RowClosed
<1>2. CASE overGap # 0 /\ used < QueueSize \div 2
  <2>1. gaps' = CloseGap(t, overGap) /\ overGap' = 0
    BY <1>2 DEF CloseOverload
  <2> HIDE DEF t
  <2>2. overGap \in 1..Len(t) /\ t[overGap] \in GapRow
    BY <1>1, <1>2, RowNumbers, ElementOfSeq
  <2>3. gaps' = [t EXCEPT ![overGap] = [t[overGap] EXCEPT !.end = clock]]
    BY <1>2, <2>1, <2>2 DEF CloseGap
  <2>4. [t[overGap] EXCEPT !.end = clock] \in GapRow
    BY <2>2 DEF GapRow, TypeOK
  <2>5. Len(gaps') = Len(t) /\ \A i \in 1..Len(t) : gaps'[i] =
            IF i = overGap THEN [t[overGap] EXCEPT !.end = clock] ELSE t[i]
    BY <1>1, <2>2, <2>3, <2>4, ExceptSeq
  <2>6. /\ [t[overGap] EXCEPT !.end = clock].kind = t[overGap].kind
        /\ [t[overGap] EXCEPT !.end = clock].of = t[overGap].of
        /\ [t[overGap] EXCEPT !.end = clock].start = t[overGap].start
        /\ [t[overGap] EXCEPT !.end = clock].end = clock
    BY <2>2 DEF GapRow
  <2> QED BY <1>1, <2>1, <2>5, <2>6 DEF Closes
<1>3. CASE ~(overGap # 0 /\ used < QueueSize \div 2)
  BY <1>1, <1>3 DEF CloseOverload, Closes
<1> QED BY <1>2, <1>3

LEMMA RowOpened ==
    ASSUME TypeOK, NEW kind \in {"NETWORK_OUTAGE", "RECORDER_OVERLOAD", "STREAM_SEQUENCE_GAP"},
           NEW of \in SUBSET Symbols, NEW start \in Nat, gaps' = RecordGap(kind, of, start)
    PROVE  Opens(kind, of, start)
<1>1. [kind |-> kind, of |-> of, start |-> start, end |-> Open] \in GapRow
  BY DEF GapRow
<1> QED BY <1>1, AppendProperties DEF RecordGap, TypeOK, Opens

\* What every step does about time and faults.
Onward == /\ clock' \in Nat /\ clock <= clock'
          /\ faults'["rest"] = 0 => faults["rest"] = 0
          /\ faults'["skip"] = 0 => faults["skip"] = 0

LEMMA StepsGoOn == ASSUME TypeOK, TypeOK', [Next]_vars PROVE Onward
<1> USE DEF exchange, link, rows, history
<1>1. clock \in Nat /\ clock' \in Nat /\ faults \in [Fault -> Nat]
  BY DEF TypeOK
<1>2. ASSUME NEW f \in Fault, MayFail(f)
      PROVE  /\ faults'["rest"] = 0 => faults["rest"] = 0
             /\ faults'["skip"] = 0 => faults["skip"] = 0
  BY <1>1, <1>2 DEF MayFail, Fault
<1>3. "connect" \in Fault /\ "lost" \in Fault /\ "skip" \in Fault /\ "rest" \in Fault /\ "write" \in Fault
  BY DEF Fault
<1>4. clock' = clock \/ clock' = clock + 1
  BY DEF Next, vars, Trade, Emit, Skip, Send, EmitFeature, LoseSocket, Heartbeat, Connection,
         ConnectFails, Backoff, Connect, AllSynced, SyncStart, SyncDone, SyncFails, ResyncDone,
         ResyncFails, OrphanDone, OrphanFails, Consume, Ignore, Apply, ApplyWriteFails, Gap
<1>5. faults' = faults \/ \E f \in Fault : MayFail(f)
  BY <1>3 DEF Next, vars, Trade, Emit, Skip, EmitFeature, LoseSocket, Heartbeat, Connection,
         ConnectFails, Backoff, Connect, AllSynced, SyncStart, SyncDone, SyncFails, ResyncDone,
         ResyncFails, OrphanDone, OrphanFails, Consume, Ignore, Apply, ApplyWriteFails, Gap
<1> QED BY <1>1, <1>2, <1>4, <1>5 DEF Onward

\* A failed request is counted, and a count does not go back.
LEMMA RestFailed == ASSUME TypeOK, MayFail("rest") PROVE faults'["rest"] # 0
<1>1. "rest" \in Fault /\ faults \in [Fault -> Nat]
  BY DEF TypeOK, Fault
<1> QED BY <1>1 DEF MayFail

\* A step that closes rows C: who names a row goes on naming it unless it is in C.
Releases(C) ==
    /\ netGap' = netGap \/ (netGap' = 0 /\ netGap \in C \cup {0})
    /\ \/ overGap' = overGap /\ overGap \notin C \ {0}
       \/ overGap' = 0 /\ overGap \in C \cup {0}
    /\ seqGap' = seqGap \/ (seqGap' = 0 /\ seqGap \in C \cup {0})
    /\ seqGap' # 0 => pc' = "resync"
    /\ netGap' # 0 => pc' \in {"connect", "backoff"}

LEMMA ClosingStep ==
    ASSUME TypeOK, TypeOK', RowsInv, Onward, NEW C, Closes(C), Releases(C), dropped' = dropped
    PROVE  RowsInv'
<1>1. /\ DOMAIN gaps = 1..Len(gaps) /\ Len(gaps) \in Nat
      /\ \A i \in 1..Len(gaps) : gaps[i] \in GapRow
      /\ netGap \in 0..Len(gaps) /\ overGap \in 0..Len(gaps) /\ seqGap \in 0..Len(gaps)
  BY RowNumbers
<1>2. DOMAIN gaps' = 1..Len(gaps) /\ clock \in Nat /\ clock' \in Nat /\ clock <= clock'
  BY <1>1, LenProperties DEF TypeOK, Closes, Onward
<1>3. /\ seqGap' # 0 => pc' = "resync"
      /\ netGap' # 0 => pc' \in {"connect", "backoff"}
      /\ Kept(netGap, "NETWORK_OUTAGE")' /\ Kept(overGap, "RECORDER_OVERLOAD")'
      /\ Kept(seqGap, "STREAM_SEQUENCE_GAP")'
  BY <1>1 DEF RowsInv, Releases, Closes, Kept
<1>4. overGap' # 0 => gaps'[overGap'].end = Open /\ gaps'[overGap'].start <= clock'
  <2>1. ASSUME overGap' # 0 PROVE gaps'[overGap'].end = Open /\ gaps'[overGap'].start <= clock'
    <3>1. overGap' = overGap /\ overGap \in 1..Len(gaps) /\ overGap \notin C
      BY <1>1, <2>1 DEF Releases
    <3>2. gaps[overGap].end = Open /\ gaps[overGap].start <= clock /\ gaps[overGap].start \in Nat
      BY <1>1, <3>1 DEF RowsInv, GapRow
    <3> QED BY <1>2, <3>1, <3>2 DEF Closes
  <2> QED BY <2>1
<1>5. \A t \in dropped' : t <= clock'
  <2>1. \A t \in dropped : t \in Nat /\ t <= clock
    BY DEF TypeOK, RowsInv
  <2> QED BY <1>2, <2>1
<1>6. OpenRowsAreHeld'
  <2>1. ASSUME faults'["rest"] = 0, NEW i \in 1..Len(gaps), gaps'[i].end = Open
        PROVE  i \in {netGap', overGap', seqGap'}
    <3>1. i \notin C /\ gaps[i].end = Open
      BY <1>2, <2>1 DEF Closes, Open
    <3>2. i \in {netGap, overGap, seqGap} /\ i # 0
      BY <1>1, <2>1, <3>1 DEF RowsInv, OpenRowsAreHeld, Onward
    <3> QED BY <3>1, <3>2 DEF Releases
  <2> QED BY <1>2, <2>1 DEF OpenRowsAreHeld
<1>7. DropsAreLogged'
  <2>1. ASSUME NEW t \in dropped
        PROVE  \E i \in DOMAIN gaps' : /\ gaps'[i].kind = "RECORDER_OVERLOAD" /\ gaps'[i].start <= t
                                       /\ gaps'[i].end = Open \/ t <= gaps'[i].end
    <3>1. PICK i \in DOMAIN gaps : /\ gaps[i].kind = "RECORDER_OVERLOAD" /\ gaps[i].start <= t
                                   /\ gaps[i].end = Open \/ t <= gaps[i].end
      BY <2>1 DEF RowsInv, DropsAreLogged
    <3>2. t <= clock
      BY <2>1 DEF RowsInv
    <3>3. /\ gaps'[i].kind = "RECORDER_OVERLOAD" /\ gaps'[i].start <= t
          /\ gaps'[i].end = Open \/ t <= gaps'[i].end
      BY <1>1, <3>1, <3>2 DEF Closes
    <3> QED BY <1>1, <1>2, <3>3
  <2> QED BY <2>1 DEF DropsAreLogged
<1> QED BY <1>3, <1>4, <1>5, <1>6, <1>7 DEF RowsInv

\* A step that opens one: who had no row takes the new one.
Takes(kind, start) ==
    LET n == Len(gaps) + 1 IN
    /\ \/ netGap' = netGap
       \/ netGap = 0 /\ netGap' = n /\ kind = "NETWORK_OUTAGE"
    /\ \/ overGap' = overGap
       \/ overGap = 0 /\ overGap' = n /\ kind = "RECORDER_OVERLOAD" /\ start <= clock'
    /\ \/ seqGap' = seqGap
       \/ seqGap = 0 /\ seqGap' = n /\ kind = "STREAM_SEQUENCE_GAP"
       \/ seqGap' = 0 /\ (seqGap = 0 \/ faults'["rest"] # 0)
    /\ n \in {netGap', overGap', seqGap'}
    /\ seqGap' # 0 => pc' = "resync"
    /\ netGap' # 0 => pc' \in {"connect", "backoff"}

LEMMA OpeningStep ==
    ASSUME TypeOK, TypeOK', RowsInv, Onward,
           NEW kind, NEW of, NEW start, Opens(kind, of, start), Takes(kind, start),
           \/ dropped' = dropped
           \/ dropped' = dropped \cup {start} /\ kind = "RECORDER_OVERLOAD" /\ start <= clock'
    PROVE  RowsInv'
<1> DEFINE n == Len(gaps) + 1
<1>1. /\ DOMAIN gaps = 1..Len(gaps) /\ Len(gaps) \in Nat
      /\ \A i \in 1..Len(gaps) : gaps[i] \in GapRow
      /\ netGap \in 0..Len(gaps) /\ overGap \in 0..Len(gaps) /\ seqGap \in 0..Len(gaps)
  BY RowNumbers
<1>2. /\ DOMAIN gaps' = 1..n /\ clock \in Nat /\ clock' \in Nat /\ clock <= clock'
      /\ gaps'[n] = [kind |-> kind, of |-> of, start |-> start, end |-> Open]
      /\ \A i \in 1..Len(gaps) : gaps'[i] = gaps[i]
      /\ \A i \in 1..n : i = n \/ i \in 1..Len(gaps)
  BY <1>1, LenProperties DEF TypeOK, Opens, Onward
<1> HIDE DEF n
<1>3. /\ seqGap' # 0 => pc' = "resync"
      /\ netGap' # 0 => pc' \in {"connect", "backoff"}
      /\ Kept(netGap, "NETWORK_OUTAGE")' /\ Kept(overGap, "RECORDER_OVERLOAD")'
      /\ Kept(seqGap, "STREAM_SEQUENCE_GAP")'
  BY <1>1, <1>2 DEF RowsInv, Takes, Kept, n
<1>4. overGap' # 0 => gaps'[overGap'].end = Open /\ gaps'[overGap'].start <= clock'
  <2>1. CASE overGap' = overGap /\ overGap # 0
    <3>1. overGap \in 1..Len(gaps) /\ gaps[overGap].start \in Nat
      BY <1>1, <2>1 DEF GapRow
    <3> QED BY <1>2, <2>1, <3>1 DEF RowsInv
  <2>2. CASE overGap' = n /\ start <= clock'
    BY <1>2, <2>2
  <2> QED BY <2>1, <2>2 DEF Takes, n
<1>5. \A t \in dropped' : t <= clock'
  <2>1. \A t \in dropped : t \in Nat /\ t <= clock
    BY DEF TypeOK, RowsInv
  <2> QED BY <1>2, <2>1
<1>6. OpenRowsAreHeld'
  <2>1. ASSUME faults'["rest"] = 0, NEW i \in 1..n, gaps'[i].end = Open
        PROVE  i \in {netGap', overGap', seqGap'}
    <3>1. CASE i = n
      BY <3>1 DEF Takes, n
    <3>2. CASE i \in 1..Len(gaps)
      <4>1. i \in {netGap, overGap, seqGap} /\ i # 0
        BY <1>1, <1>2, <2>1, <3>2 DEF RowsInv, OpenRowsAreHeld, Onward
      <4> QED BY <2>1, <4>1 DEF Takes
    <3> QED BY <1>2, <3>1, <3>2
  <2> QED BY <1>2, <2>1 DEF OpenRowsAreHeld
<1>7. DropsAreLogged'
  <2>1. ASSUME NEW t \in dropped
        PROVE  \E i \in DOMAIN gaps' : /\ gaps'[i].kind = "RECORDER_OVERLOAD" /\ gaps'[i].start <= t
                                       /\ gaps'[i].end = Open \/ t <= gaps'[i].end
    <3>1. PICK i \in DOMAIN gaps : /\ gaps[i].kind = "RECORDER_OVERLOAD" /\ gaps[i].start <= t
                                   /\ gaps[i].end = Open \/ t <= gaps[i].end
      BY <2>1 DEF RowsInv, DropsAreLogged
    <3>2. i \in 1..Len(gaps) /\ i \in 1..n /\ gaps'[i] = gaps[i]
      BY <1>1, <1>2 DEF n
    <3> QED BY <1>2, <3>1, <3>2
  <2>2. ASSUME dropped' = dropped \cup {start}, kind = "RECORDER_OVERLOAD"
        PROVE  \E i \in DOMAIN gaps' : /\ gaps'[i].kind = "RECORDER_OVERLOAD" /\ gaps'[i].start <= start
                                       /\ gaps'[i].end = Open \/ start <= gaps'[i].end
    <3>1. n \in DOMAIN gaps' /\ start \in Int
      BY <1>1, <1>2, <2>2 DEF n, TypeOK
    <3> QED BY <1>2, <2>2, <3>1
  <2> QED BY <2>1, <2>2 DEF DropsAreLogged
<1> QED BY <1>3, <1>4, <1>5, <1>6, <1>7 DEF RowsInv

\* The "except Exception" branch: the row is opened once.
LEMMA DisconnectRows ==
    ASSUME TypeOK, TypeOK', RowsInv, Onward, Disconnect, overGap' = overGap, dropped' = dropped,
           seqGap = 0 \/ faults'["rest"] # 0
    PROVE  RowsInv'
<1>1. pc' = "backoff" /\ seqGap' = 0
  BY DEF Disconnect
<1>2. CASE netGap # 0
  <2>1. gaps' = gaps /\ netGap' = netGap
    BY <1>2 DEF Disconnect
  <2>2. CASE seqGap = 0
    <3>1. Closes({}) /\ Releases({})
      BY <1>1, <2>1, <2>2, RowNumbers DEF Closes, Releases
    <3> QED BY <3>1, ClosingStep
  <2>3. CASE seqGap # 0
    BY <1>2, <2>3 DEF RowsInv
  <2> QED BY <2>2, <2>3
<1>3. CASE netGap = 0
  <2> DEFINE start == IF lastEvent' = NoTime THEN clock ELSE lastEvent'
  <2>1. gaps' = RecordGap("NETWORK_OUTAGE", Symbols, start) /\ netGap' = Len(gaps') /\ start \in Nat
    BY <1>3 DEF Disconnect, TypeOK
  <2> HIDE DEF start
  <2>2. Opens("NETWORK_OUTAGE", Symbols, start)
    BY <2>1, RowOpened
  <2>3. Takes("NETWORK_OUTAGE", start)
    BY <1>1, <1>3, <2>1, <2>2 DEF Takes, Opens
  <2> QED BY <2>2, <2>3, OpeningStep
<1> QED BY <1>2, <1>3

\* The reader: an event the full queue refuses opens the overload row or lies in it.
LEMMA RefusedRows ==
    ASSUME TypeOK, TypeOK', RowsInv, Onward, NEW e \in Event, Receive(e), e.at = clock',
           pc' = pc, netGap' = netGap, seqGap' = seqGap
    PROVE  RowsInv'
<1>1. CASE Len(queue) < QueueSize
  <2>1. gaps' = gaps /\ overGap' = overGap /\ dropped' = dropped
    BY <1>1 DEF Receive
  <2>2. Closes({}) /\ Releases({})
    BY <2>1, RowNumbers DEF Closes, Releases, RowsInv
  <2> QED BY <2>1, <2>2, ClosingStep
<1>2. CASE ~(Len(queue) < QueueSize) /\ overGap = 0
  <2>1. /\ gaps' = RecordGap("RECORDER_OVERLOAD", Symbols, e.at) /\ overGap' = Len(gaps')
        /\ dropped' = dropped \cup {e.at} /\ e.at \in Nat /\ e.at <= clock'
    BY <1>2 DEF Receive, Event
  <2>2. Opens("RECORDER_OVERLOAD", Symbols, e.at)
    BY <2>1, RowOpened
  <2>3. Takes("RECORDER_OVERLOAD", e.at)
    BY <1>2, <2>1, <2>2 DEF Takes, Opens, RowsInv
  <2> QED BY <2>1, <2>2, <2>3, OpeningStep
<1>3. CASE ~(Len(queue) < QueueSize) /\ overGap # 0
  <2>1. gaps' = gaps /\ overGap' = overGap /\ dropped' = dropped \cup {e.at}
    BY <1>3 DEF Receive
  <2>2. /\ gaps[overGap].kind = "RECORDER_OVERLOAD" /\ gaps[overGap].end = Open
        /\ gaps[overGap].start <= clock /\ gaps[overGap].start \in Nat /\ overGap \in DOMAIN gaps
    BY <1>3, RowNumbers DEF RowsInv, Kept, GapRow
  <2>3. clock \in Nat /\ clock' \in Nat /\ clock <= clock'
    BY DEF TypeOK, Onward
  <2>4. DropsAreLogged'
    <3>1. gaps'[overGap].start <= e.at /\ overGap \in DOMAIN gaps'
      BY <2>1, <2>2, <2>3
    <3> QED BY <2>1, <2>2, <3>1 DEF RowsInv, DropsAreLogged
  <2>5. \A t \in dropped' : t <= clock'
    <3>1. \A t \in dropped : t \in Nat /\ t <= clock
      BY DEF TypeOK, RowsInv
    <3> QED BY <2>1, <2>3, <3>1
  <2>6. OpenRowsAreHeld'
    BY <2>1 DEF RowsInv, OpenRowsAreHeld, Onward
  <2>7. overGap' # 0 => gaps'[overGap'].end = Open /\ gaps'[overGap'].start <= clock'
    BY <2>1, <2>2, <2>3
  <2> QED BY <2>1, <2>4, <2>5, <2>6, <2>7 DEF RowsInv, Kept
<1> QED BY <1>1, <1>2, <1>3

\* What neither opens nor closes a row.
LEMMA QuietRows ==
    ASSUME TypeOK, TypeOK', RowsInv, Onward, UNCHANGED <<gaps, netGap, overGap, seqGap, dropped>>,
           \/ pc' = pc
           \/ pc = "backoff" /\ pc' = "connect"
           \/ pc = "sync" /\ pc' = "consume"
    PROVE  RowsInv'
<1>1. Closes({}) /\ Releases({})
  BY RowNumbers DEF Closes, Releases, RowsInv
<1> QED BY <1>1, ClosingStep

LEMMA RowsStep == ASSUME TypeOK, TypeOK', RowsInv, [Next]_vars PROVE RowsInv'
<1> USE DEF exchange, link, rows, history
<1>0. Onward
  BY StepsGoOn
<1>1. ASSUME NEW s \in Symbols, Trade(s) \/ EmitFeature(s) \/ SyncStart(s) \/ SyncDone(s) \/ Skip(s)
      PROVE  RowsInv'
  BY <1>0, <1>1, QuietRows DEF Trade, EmitFeature, SyncStart, SyncDone, Skip, Send
<1>2. ASSUME NEW s \in Symbols, Emit(s) PROVE RowsInv'
  <2> DEFINE e == [sym |-> s, pu |-> sent[s], U |-> sent[s] + 1, u |-> head[s], at |-> clock + 1]
  <2>1. e \in Event
    BY <1>2, MaxUpdateAssumption DEF Emit, Send, Event, TypeOK, UpdateId
  <2>2. CASE wsOpen
    <3>1. /\ Receive(e) /\ e.at = clock' /\ pc' = pc /\ netGap' = netGap /\ seqGap' = seqGap
      BY <1>2, <2>2 DEF Emit, Send
    <3> HIDE DEF e
    <3> QED BY <1>0, <2>1, <3>1, RefusedRows
  <2>3. CASE ~wsOpen
    BY <1>0, <1>2, <2>3, QuietRows DEF Emit, Send
  <2> QED BY <2>2, <2>3
<1>3. CASE LoseSocket \/ Heartbeat \/ Backoff \/ AllSynced
  BY <1>0, <1>3, QuietRows DEF LoseSocket, Heartbeat, Backoff, AllSynced
<1>4. CASE ConnectFails
  BY <1>0, <1>4, DisconnectRows DEF ConnectFails, RowsInv
<1>5. CASE Connect
  <2>1. Closes({netGap})
    BY <1>5, RowNumbers, RowClosed DEF Connect, Closes
  <2>2. overGap' = overGap /\ seqGap' = seqGap /\ netGap' = 0 /\ dropped' = dropped
    BY <1>5 DEF Connect
  <2>3. seqGap = 0 /\ overGap \notin {netGap} \ {0}
    BY <1>5, RowNumbers DEF RowsInv, Connect, Kept
  <2>4. Releases({netGap})
    BY <2>2, <2>3 DEF Releases
  <2> QED BY <1>0, <2>1, <2>2, <2>4, ClosingStep
<1>6. ASSUME NEW s \in Symbols, SyncFails(s) \/ ResyncFails(s) PROVE RowsInv'
  <2>1. faults'["rest"] # 0
    BY <1>6, RestFailed DEF SyncFails, ResyncFails
  <2> QED BY <1>0, <1>6, <2>1, DisconnectRows DEF SyncFails, ResyncFails
<1>7. ASSUME NEW s \in Symbols, ResyncDone(s) PROVE RowsInv'
  <2>1. CloseOverload(CloseGap(gaps, seqGap), Len(queue))
    BY <1>7 DEF ResyncDone
  <2>2. /\ seqGap' = 0 /\ netGap' = netGap /\ dropped' = dropped /\ pc' = "consume" /\ pc = "resync"
    BY <1>7 DEF ResyncDone
  <2>3. netGap = 0
    BY <2>2 DEF RowsInv
  <2>4. overGap # 0 => overGap # seqGap
    BY DEF RowsInv, Kept
  <2>5. CASE Closes({seqGap, overGap}) /\ overGap' = 0
    <3>1. Releases({seqGap, overGap})
      BY <2>2, <2>3, <2>5 DEF Releases
    <3> QED BY <1>0, <2>2, <2>5, <3>1, ClosingStep
  <2>6. CASE Closes({seqGap}) /\ overGap' = overGap
    <3>1. Releases({seqGap})
      BY <2>2, <2>3, <2>4, <2>6 DEF Releases
    <3> QED BY <1>0, <2>2, <2>6, <3>1, ClosingStep
  <2> QED BY <2>1, <2>5, <2>6, ResyncCloses
<1>8. ASSUME NEW o \in orphans, OrphanDone(o) \/ OrphanFails(o) PROVE RowsInv'
  BY <1>0, <1>8, QuietRows DEF OrphanDone, OrphanFails
<1>9. ASSUME NEW e, Ignore(e) \/ Apply(e) PROVE RowsInv'
  <2>1. /\ CloseOverload(gaps, Len(queue) - 1) /\ dropped' = dropped
        /\ netGap' = netGap /\ seqGap' = seqGap /\ pc' = pc
    BY <1>9 DEF Ignore, Apply, Take
  <2>2. CASE Closes({overGap}) /\ overGap' = 0
    <3>1. Releases({overGap})
      BY <2>1, <2>2 DEF Releases, RowsInv
    <3> QED BY <1>0, <2>1, <2>2, <3>1, ClosingStep
  <2>3. CASE Closes({}) /\ overGap' = overGap
    <3>1. Releases({})
      BY <2>1, <2>3 DEF Releases, RowsInv
    <3> QED BY <1>0, <2>1, <2>3, <3>1, ClosingStep
  <2> QED BY <2>1, <2>2, <2>3, OverloadCloses
<1>10. ASSUME NEW e, ApplyWriteFails(e) PROVE RowsInv'
  BY <1>0, <1>10, DisconnectRows DEF ApplyWriteFails, RowsInv
<1>11. ASSUME NEW e \in Event, Gap(e) PROVE RowsInv'
  <2>1. /\ gaps' = RecordGap("STREAM_SEQUENCE_GAP", {e.sym}, e.at) /\ seqGap' = Len(gaps') /\ e.at \in Nat
        /\ pc = "consume" /\ pc' = "resync" /\ netGap' = netGap /\ overGap' = overGap
        /\ dropped' = dropped /\ {e.sym} \subseteq Symbols
    BY <1>11 DEF Gap, Take, Event
  <2>2. Opens("STREAM_SEQUENCE_GAP", {e.sym}, e.at)
    BY <2>1, RowOpened
  <2>3. Takes("STREAM_SEQUENCE_GAP", e.at)
    BY <2>1, <2>2 DEF Takes, Opens, RowsInv
  <2> QED BY <1>0, <2>1, <2>2, <2>3, OpeningStep
<1>12. CASE Consume
  <2> DEFINE e == Head(queue)
  <2>1. queue # <<>> /\ (Ignore(e) \/ Apply(e) \/ ApplyWriteFails(e) \/ Gap(e))
    BY <1>12 DEF Consume
  <2>2. e \in Event
    BY <2>1, TakeType
  <2> HIDE DEF e
  <2> QED BY <1>9, <1>10, <1>11, <2>1, <2>2
<1>13. CASE UNCHANGED vars
  BY <1>0, <1>13, QuietRows DEF vars
<1> QED
  BY <1>1, <1>2, <1>3, <1>4, <1>5, <1>6, <1>7, <1>8, <1>12, <1>13 DEF Next, Connection

\* The rows of the gaps table, and the ones self.gaps and the gid of _handle refer
\* to, are as _gap, _close_gap and the overload branch leave them.
THEOREM RowsInvariant == Spec => []RowsInv
<1>1. Init => RowsInv
  BY DEF Init, RowsInv, Kept, OpenRowsAreHeld, DropsAreLogged
<1>2. TypeOK /\ TypeOK' /\ RowsInv /\ [Next]_vars => RowsInv'
  BY RowsStep
<1> QED
  BY <1>1, <1>2, TypeCorrect, PTL DEF Spec

\* Every open row is one that the process still holds, as long as no snapshot
\* request has failed in _handle.
THEOREM HeldRows == Spec => []OpenRowsAreHeld
<1>1. RowsInv => OpenRowsAreHeld
  BY DEF RowsInv
<1> QED BY <1>1, RowsInvariant, PTL

\* Every event the full queue refused was received inside an overload row.
THEOREM DropsLogged == Spec => []DropsAreLogged
<1>1. RowsInv => DropsAreLogged
  BY DEF RowsInv
<1> QED BY <1>1, RowsInvariant, PTL

-----------------------------------------------------------------------------
(* Holes in the recorded depth *)

\* One event is taken, received or dropped with its connection at a time.
QueueStep ==
    \/ queue' = queue /\ lastEvent' = lastEvent
    \/ \E e \in Event : queue' = Append(queue, e) /\ e.at = clock' /\ lastEvent' = lastEvent
    \/ queue # <<>> /\ queue' = Tail(queue) /\ lastEvent' = Head(queue).at
    \/ queue' = <<>> /\ lastEvent' = lastEvent
    \/ queue # <<>> /\ queue' = <<>> /\ lastEvent' = Head(queue).at

LEMMA QueueSteps == ASSUME TypeOK, [Next]_vars PROVE QueueStep
<1> USE DEF exchange, link, rows, history
<1>1. ASSUME NEW s \in Symbols, Emit(s) PROVE QueueStep
  <2> DEFINE e == [sym |-> s, pu |-> sent[s], U |-> sent[s] + 1, u |-> head[s], at |-> clock + 1]
  <2>1. e \in Event /\ e.at = clock' /\ lastEvent' = lastEvent
    BY <1>1, MaxUpdateAssumption DEF Emit, Send, Event, TypeOK, UpdateId
  <2>2. queue' = queue \/ queue' = Append(queue, e)
    BY <1>1 DEF Emit, Receive
  <2> HIDE DEF e
  <2> QED BY <2>1, <2>2 DEF QueueStep
<1>2. CASE Consume
  BY <1>2 DEF Consume, Ignore, Apply, ApplyWriteFails, Gap, Take, Disconnect, QueueStep
<1>3. CASE Connection
  BY <1>3 DEF Connection, ConnectFails, Backoff, Connect, AllSynced, SyncStart, SyncDone, SyncFails,
              ResyncDone, ResyncFails, OrphanDone, OrphanFails, Disconnect, QueueStep
<1> QED BY <1>1, <1>2, <1>3 DEF Next, vars, Trade, Skip, Send, EmitFeature, LoseSocket, Heartbeat, QueueStep

\* Events wait in the order of their arrival, after the last one handled.
InOrder == /\ \A i \in DOMAIN queue : lastEvent <= queue[i].at /\ queue[i].at <= clock
           /\ \A i, j \in DOMAIN queue : i <= j => queue[i].at <= queue[j].at
           /\ lastEvent <= clock

LEMMA OrderStep ==
    ASSUME TypeOK, TypeOK', InOrder, [Next]_vars
    PROVE  InOrder' /\ lastEvent <= lastEvent'
<1>1. clock \in Nat /\ clock' \in Nat /\ clock <= clock' /\ QueueStep
  BY StepsGoOn, QueueSteps DEF TypeOK, Onward
<1>2. /\ DOMAIN queue = 1..Len(queue) /\ Len(queue) \in Nat
      /\ \A i \in 1..Len(queue) : queue[i].at \in Nat
  <2>1. queue \in Seq(Event)
    BY DEF TypeOK
  <2>2. \A i \in 1..Len(queue) : queue[i] \in Event
    BY <2>1, ElementOfSeq
  <2> QED BY <2>1, <2>2, LenProperties DEF Event
<1>3. lastEvent \in Int /\ lastEvent' \in Int
  BY DEF TypeOK, NoTime
<1>4. CASE queue' = queue /\ lastEvent' = lastEvent
  BY <1>1, <1>2, <1>3, <1>4 DEF InOrder
<1>5. ASSUME NEW e \in Event, queue' = Append(queue, e), e.at = clock', lastEvent' = lastEvent
      PROVE  InOrder' /\ lastEvent <= lastEvent'
  <2>1. /\ Len(queue') = Len(queue) + 1 /\ DOMAIN queue' = 1..(Len(queue) + 1)
        /\ \A i \in 1..Len(queue) : queue'[i] = queue[i]
        /\ queue'[Len(queue) + 1] = e
    BY <1>2, <1>5, AppendProperties, LenProperties DEF TypeOK
  <2>2. \A i \in 1..(Len(queue) + 1) : i \in 1..Len(queue) \/ i = Len(queue) + 1
    BY <1>2
  <2>3. lastEvent <= clock /\ \A i \in 1..Len(queue) : lastEvent <= queue[i].at /\ queue[i].at <= clock
    BY <1>2 DEF InOrder
  <2>4. \A i \in 1..(Len(queue) + 1) : lastEvent' <= queue'[i].at /\ queue'[i].at <= clock'
    BY <1>1, <1>2, <1>3, <1>5, <2>1, <2>2, <2>3
  <2>5. ASSUME NEW i \in 1..(Len(queue) + 1), NEW j \in 1..(Len(queue) + 1), i <= j
        PROVE  queue'[i].at <= queue'[j].at
    <3>1. CASE j = Len(queue) + 1
      BY <1>1, <1>5, <2>1, <2>4, <3>1
    <3>2. CASE j \in 1..Len(queue)
      <4>1. i \in 1..Len(queue)
        BY <1>2, <2>5, <3>2
      <4> QED BY <1>2, <2>1, <2>5, <3>2, <4>1 DEF InOrder
    <3> QED BY <2>2, <3>1, <3>2
  <2>6. lastEvent' <= clock' /\ lastEvent <= lastEvent'
    BY <1>1, <1>3, <1>5, <2>3
  <2>7. \A i, j \in DOMAIN queue' : i <= j => queue'[i].at <= queue'[j].at
    BY <2>1, <2>5
  <2>8. \A i \in DOMAIN queue' : lastEvent' <= queue'[i].at /\ queue'[i].at <= clock'
    BY <2>1, <2>4
  <2> QED BY <2>6, <2>7, <2>8 DEF InOrder
<1>6. CASE queue # <<>> /\ queue' = Tail(queue) /\ lastEvent' = Head(queue).at
  <2>1. /\ Len(queue) >= 1 /\ Head(queue) = queue[1] /\ Len(queue') = Len(queue) - 1
        /\ DOMAIN queue' = 1..(Len(queue) - 1)
        /\ \A i \in 1..(Len(queue) - 1) : queue'[i] = queue[i + 1]
    BY <1>2, <1>6, HeadTailProperties, EmptySeq, LenProperties DEF TypeOK
  <2>2. \A i \in 1..(Len(queue) - 1) : i \in 1..Len(queue) /\ i + 1 \in 1..Len(queue)
    BY <1>2
  <2>3. /\ \A i \in 1..Len(queue) : lastEvent <= queue[i].at /\ queue[i].at <= clock
        /\ \A i, j \in 1..Len(queue) : i <= j => queue[i].at <= queue[j].at
    BY <1>2 DEF InOrder
  <2>4. lastEvent' = queue[1].at /\ 1 \in 1..Len(queue)
    BY <1>2, <1>6, <2>1
  <2>5. ASSUME NEW i \in 1..(Len(queue) - 1)
        PROVE  lastEvent' <= queue'[i].at /\ queue'[i].at <= clock'
    <3>1. i + 1 \in 1..Len(queue) /\ 1 <= i + 1 /\ queue'[i] = queue[i + 1]
      BY <1>2, <2>1, <2>2
    <3>2. queue[1].at <= queue[i + 1].at /\ queue[i + 1].at <= clock
      BY <2>3, <2>4, <3>1
    <3>3. clock \in Nat /\ clock' \in Nat /\ clock <= clock' /\ queue[i + 1].at \in Nat
      BY <1>1, <1>2, <3>1
    <3> QED BY <2>4, <3>1, <3>2, <3>3
  <2>6. ASSUME NEW i \in 1..(Len(queue) - 1), NEW j \in 1..(Len(queue) - 1), i <= j
        PROVE  queue'[i].at <= queue'[j].at
    <3>1. /\ queue'[i] = queue[i + 1] /\ queue'[j] = queue[j + 1]
          /\ i + 1 \in 1..Len(queue) /\ j + 1 \in 1..Len(queue)
      BY <2>1, <2>2
    <3>2. i + 1 <= j + 1
      BY <1>2, <2>6
    <3> QED BY <2>3, <3>1, <3>2
  <2>7. \A i \in DOMAIN queue' : lastEvent' <= queue'[i].at /\ queue'[i].at <= clock'
    BY <2>1, <2>5
  <2>8. \A i, j \in DOMAIN queue' : i <= j => queue'[i].at <= queue'[j].at
    BY <2>1, <2>6
  <2>9. lastEvent' <= clock' /\ lastEvent <= lastEvent'
    BY <1>1, <1>2, <2>3, <2>4
  <2> QED BY <2>7, <2>8, <2>9 DEF InOrder
<1>7. CASE queue' = <<>> /\ lastEvent' = lastEvent
  BY <1>1, <1>3, <1>7 DEF InOrder
<1>8. CASE queue # <<>> /\ queue' = <<>> /\ lastEvent' = Head(queue).at
  <2>1. Len(queue) >= 1 /\ Head(queue) = queue[1]
    BY <1>2, <1>8, EmptySeq DEF TypeOK
  <2> QED BY <1>1, <1>2, <1>3, <1>8, <2>1 DEF InOrder
<1> QED BY <1>1, <1>4, <1>5, <1>6, <1>7, <1>8 DEF QueueStep

\* Which snapshots are under way where _ws_loop is suspended.
Control == /\ \A s \in Symbols : syncing[s] = Queued => pc = "sync"
           /\ pc = "consume" => \A s \in Symbols : syncing[s] = Idle
           /\ pc = "resync" => \A s, t \in Symbols : syncing[s] # Idle /\ syncing[t] # Idle => s = t

LEMMA ControlStep == ASSUME TypeOK, Control, [Next]_vars PROVE Control'
<1> USE DEF exchange, link, rows, history
<1>1. \A s \in Symbols : head[s] # Queued /\ head[s] # Idle
  BY MaxUpdateAssumption DEF TypeOK, Queued, Idle
<1>2. syncing \in [Symbols -> 0..MaxUpdate \cup {Idle, Queued}]
  BY DEF TypeOK
<1>3. CASE Disconnect
  BY <1>3 DEF Disconnect, Control, Idle, Queued
<1>4. CASE pc' = pc /\ syncing' = syncing
  BY <1>4 DEF Control
<1>5. CASE Backoff \/ AllSynced \/ Connect
  BY <1>5 DEF Backoff, AllSynced, Connect, Control, Idle, Queued
<1>6. ASSUME NEW s \in Symbols, SyncStart(s) PROVE Control'
  BY <1>1, <1>2, <1>6 DEF SyncStart, Control
<1>7. ASSUME NEW s \in Symbols, SyncDone(s) PROVE Control'
  BY <1>2, <1>7 DEF SyncDone, Control, Idle, Queued
<1>8. ASSUME NEW s \in Symbols, ResyncDone(s) PROVE Control'
  BY <1>2, <1>8 DEF ResyncDone, Control, Idle, Queued
<1>9. ASSUME NEW e \in Event, Gap(e) PROVE Control'
  BY <1>1, <1>2, <1>9 DEF Gap, Take, Control, Event
<1>10. CASE Consume
  <2>1. queue # <<>> /\ Head(queue) \in Event
    BY <1>10, TakeType DEF Consume
  <2> QED BY <1>3, <1>4, <1>9, <1>10, <2>1 DEF Consume, Ignore, Apply, ApplyWriteFails, Take
<1>11. CASE Connection
  BY <1>3, <1>4, <1>5, <1>6, <1>7, <1>8, <1>11
     DEF Connection, ConnectFails, SyncFails, ResyncFails, OrphanDone, OrphanFails
<1> QED BY <1>4, <1>10, <1>11 DEF Next, vars, Trade, Emit, Skip, Send, EmitFeature, LoseSocket, Heartbeat

\* Rows are closed now or not at all, and never reopened or moved.
Forward == \A i \in DOMAIN gaps :
    /\ i \in DOMAIN gaps' /\ gaps'[i].start = gaps[i].start /\ gaps'[i].of = gaps[i].of
    /\ gaps'[i].end = gaps[i].end \/ gaps'[i].end = clock

LEMMA RowsForward == ASSUME TypeOK, TypeOK', [Next]_vars PROVE Forward
<1> USE DEF exchange, link, rows, history
<1>1. /\ DOMAIN gaps = 1..Len(gaps) /\ DOMAIN gaps' = 1..Len(gaps') /\ Len(gaps) \in Nat
      /\ netGap \in 0..Len(gaps)
  BY RowNumbers, LenProperties DEF TypeOK
<1>2. ASSUME NEW C, Closes(C) PROVE Forward
  BY <1>1, <1>2 DEF Closes, Forward
<1>3. ASSUME NEW kind, NEW of, NEW start, Opens(kind, of, start) PROVE Forward
  BY <1>1, <1>3 DEF Opens, Forward
<1>4. ASSUME gaps' = gaps PROVE Forward
  BY <1>4 DEF Forward
<1>5. CASE Disconnect
  <2> DEFINE start == IF lastEvent' = NoTime THEN clock ELSE lastEvent'
  <2>1. start \in Nat
    BY DEF TypeOK
  <2>2. gaps' = gaps \/ gaps' = RecordGap("NETWORK_OUTAGE", Symbols, start)
    BY <1>5 DEF Disconnect
  <2> HIDE DEF start
  <2> QED BY <1>3, <1>4, <2>1, <2>2, RowOpened
<1>6. ASSUME NEW s \in Symbols, Emit(s) PROVE Forward
  <2> DEFINE at == clock + 1
  <2>1. at \in Nat
    BY DEF TypeOK
  <2>2. gaps' = gaps \/ gaps' = RecordGap("RECORDER_OVERLOAD", Symbols, at)
    BY <1>6 DEF Emit, Receive
  <2> HIDE DEF at
  <2> QED BY <1>3, <1>4, <2>1, <2>2, RowOpened
<1>7. CASE Connect
  <2>1. Closes({netGap})
    BY <1>1, <1>7, RowClosed DEF Connect, Closes
  <2> QED BY <1>2, <2>1
<1>8. ASSUME NEW s \in Symbols, ResyncDone(s) PROVE Forward
  BY <1>2, <1>8, ResyncCloses DEF ResyncDone
<1>9. ASSUME NEW e, Ignore(e) \/ Apply(e) PROVE Forward
  BY <1>2, <1>9, OverloadCloses DEF Ignore, Apply
<1>10. ASSUME NEW e \in Event, Gap(e) PROVE Forward
  <2>1. {e.sym} \subseteq Symbols /\ e.at \in Nat
    BY DEF Event
  <2> QED BY <1>3, <1>10, <2>1, RowOpened DEF Gap
<1>11. CASE Consume
  <2>1. queue # <<>> /\ Head(queue) \in Event
    BY <1>11, TakeType DEF Consume
  <2> QED BY <1>5, <1>9, <1>10, <1>11, <2>1 DEF Consume, ApplyWriteFails
<1>12. CASE Connection
  BY <1>4, <1>5, <1>7, <1>8, <1>12 DEF Connection, ConnectFails, Backoff, AllSynced, SyncStart,
     SyncDone, SyncFails, ResyncFails, OrphanDone, OrphanFails
<1> QED BY <1>4, <1>6, <1>11, <1>12 DEF Next, vars, Trade, Skip, EmitFeature, LoseSocket, Heartbeat

\* What lies in a row goes on lying in it.
LEMMA LoggedStays ==
    ASSUME TypeOK, Forward, NEW s, NEW from \in Int, NEW to, from <= clock, Logged(s, from, to)
    PROVE  Logged(s, from, to)'
<1>1. PICK i \in DOMAIN gaps : /\ s \in gaps[i].of /\ gaps[i].start <= to
                               /\ gaps[i].end = Open \/ from <= gaps[i].end
  BY DEF Logged
<1>2. /\ i \in DOMAIN gaps' /\ s \in gaps'[i].of /\ gaps'[i].start <= to
      /\ gaps'[i].end = Open \/ from <= gaps'[i].end
  BY <1>1 DEF Forward
<1> QED BY <1>2 DEF Logged

\* What follows the last recorded event of s lies in a row that has begun.
Covered(s) == Logged(s, recorded[s].at, lastEvent)

\* Or it has not been recorded yet because it has not come yet.
Follows(s) == /\ pc \in {"consume", "resync"}
              /\ book[s].quality = "HEALTHY" /\ book[s].last = recorded[s].u

\* No symbol's depth is dropped to save disk space, and no snapshot task
\* outlives the failure of another symbol's.
Undisturbed == /\ DiskLevels \subseteq {"OK", "WARNING"}
               /\ FaultLimit["rest"] = 0 \/ \A s, t \in Symbols : s = t

HolesInv ==
    /\ Control /\ InOrder /\ level \in {"OK", "WARNING"} /\ orphans = {}
    /\ pc = "resync" => \A s \in Symbols : syncing[s] # Idle => book[s].quality # "HEALTHY"
    /\ \A s \in Symbols : recorded[s].u # NoId =>
          recorded[s].at <= lastEvent /\ (Follows(s) \/ Covered(s))
    /\ \A h \in holes : h.from <= clock
    /\ HolesAreLogged

\* What was recorded was recorded at a time.
LEMMA RecordedTimes ==
    ASSUME TypeOK, NEW s \in Symbols
    PROVE  /\ recorded[s].u # NoId => recorded[s].at \in Nat
           /\ recorded[s].at \in Int /\ lastEvent \in Int
  BY DEF TypeOK, Nobody, NoTime

\* A row that is opened at the time of the last event covers the symbols it is about.
LEMMA OpeningCovers ==
    ASSUME TypeOK, TypeOK', NEW kind, NEW of, NEW start \in Int, Opens(kind, of, start),
           start <= lastEvent'
    PROVE  \A s \in of : Covered(s)'
<1>1. /\ Len(gaps) + 1 \in DOMAIN gaps' /\ gaps'[Len(gaps) + 1].start <= lastEvent'
      /\ gaps'[Len(gaps) + 1].end = Open /\ gaps'[Len(gaps) + 1].of = of
  BY LenProperties DEF TypeOK, Opens
<1> QED BY <1>1 DEF Covered, Logged

\* As long as nothing of s is recorded, what covered it covers it.
LEMMA CoveredStays ==
    ASSUME TypeOK, TypeOK', Forward, InOrder, lastEvent <= lastEvent',
           NEW s \in Symbols, recorded'[s] = recorded[s], recorded[s].at <= lastEvent, Covered(s)
    PROVE  Covered(s)'
<1>1. recorded[s].at \in Int /\ lastEvent \in Int /\ lastEvent' \in Int /\ clock \in Int
      /\ recorded[s].at <= clock
  <2>1. recorded[s].at \in Int /\ lastEvent \in Int
    BY RecordedTimes
  <2>2. clock \in Int /\ lastEvent' \in Int /\ lastEvent <= clock
    BY DEF TypeOK, NoTime, InOrder
  <2> QED BY <2>1, <2>2
<1>2. PICK i \in DOMAIN gaps : /\ s \in gaps[i].of /\ gaps[i].start <= lastEvent
                               /\ gaps[i].end = Open \/ recorded[s].at <= gaps[i].end
  BY DEF Covered, Logged
<1>3. gaps[i].start \in Int
  BY RowNumbers DEF GapRow
<1>4. /\ i \in DOMAIN gaps' /\ s \in gaps'[i].of /\ gaps'[i].start <= lastEvent'
      /\ gaps'[i].end = Open \/ recorded[s].at <= gaps'[i].end
  BY <1>1, <1>2, <1>3 DEF Forward
<1> QED BY <1>4 DEF Covered, Logged

\* The disk stays in order and nothing outlives a failed request.
LEMMA QuietEnvironment ==
    ASSUME Undisturbed, TypeOK, HolesInv, [Next]_vars
    PROVE  level' \in {"OK", "WARNING"} /\ orphans' = {}
<1> USE DEF exchange, link, rows, history
<1>1. level \in {"OK", "WARNING"} /\ orphans = {} /\ faults["rest"] \in Nat
  BY DEF HolesInv, TypeOK, Fault
<1>2. ASSUME NEW s \in Symbols, SyncFails(s) PROVE orphans' = {} /\ level' = level
  <2>1. FaultLimit["rest"] # 0
    BY <1>1, <1>2 DEF SyncFails, MayFail
  <2>2. {t \in Symbols \ {s} : syncing[t] >= 0} = {}
    BY <2>1 DEF Undisturbed
  <2> QED BY <1>1, <1>2, <2>2 DEF SyncFails
<1>3. CASE Connection
  BY <1>1, <1>2, <1>3 DEF Connection, ConnectFails, Backoff, Connect, AllSynced, SyncStart, SyncDone,
     ResyncDone, ResyncFails
<1>4. CASE Consume
  BY <1>1, <1>4 DEF Consume, Ignore, Apply, ApplyWriteFails, Gap
<1>5. CASE Heartbeat
  BY <1>1, <1>5 DEF Heartbeat, Undisturbed
<1> QED BY <1>1, <1>3, <1>4, <1>5 DEF Next, vars, Trade, Emit, Skip, Send, EmitFeature, LoseSocket

\* While a book is resynchronised it is not HEALTHY.
LEMMA ResyncStep ==
    ASSUME TypeOK, HolesInv, [Next]_vars
    PROVE  pc' = "resync" => \A s \in Symbols : syncing'[s] # Idle => book'[s].quality # "HEALTHY"
<1> USE DEF exchange, link, rows, history
<1>1. CASE pc' = pc /\ syncing' = syncing /\ book' = book
  BY <1>1 DEF HolesInv
<1>2. CASE pc' # "resync"
  BY <1>2
<1>3. ASSUME NEW e \in Event, Gap(e)
      PROVE  \A s \in Symbols : syncing'[s] # Idle => book'[s].quality # "HEALTHY"
  <2>1. book \in [Symbols -> Book] /\ syncing \in [Symbols -> 0..MaxUpdate \cup {Idle, Queued}]
        /\ \A s \in Symbols : syncing[s] = Idle
    BY <1>3 DEF TypeOK, HolesInv, Control, Gap, Take
  <2> QED BY <1>3, <2>1 DEF Gap, ResetBook, Event
<1>4. CASE Consume
  <2>1. queue # <<>> /\ Head(queue) \in Event
    BY <1>4, TakeType DEF Consume
  <2> QED BY <1>2, <1>3, <1>4, <2>1 DEF Consume, Ignore, Apply, ApplyWriteFails, Take, Disconnect
<1>5. CASE Connection
  <2>1. ASSUME NEW s \in Symbols, SyncStart(s) PROVE pc' # "resync"
    BY <2>1 DEF SyncStart, HolesInv, Control
  <2>2. ASSUME NEW o \in orphans PROVE FALSE
    BY <2>2 DEF HolesInv
  <2> QED BY <1>2, <1>5, <2>1, <2>2 DEF Connection, ConnectFails, Backoff, Connect, AllSynced,
       SyncDone, SyncFails, ResyncDone, ResyncFails, Disconnect
<1> QED BY <1>1, <1>4, <1>5 DEF Next, vars, Trade, Emit, Skip, Send, EmitFeature, LoseSocket, Heartbeat

\* What is known of every symbol after a step that records nothing ...
Traced == \A s \in Symbols : recorded[s].u # NoId =>
             recorded[s].at <= lastEvent /\ (Follows(s) \/ Covered(s))

\* ... and leaves the books that have to be HEALTHY as they are.
LEMMA TracedStays ==
    ASSUME TypeOK, TypeOK', HolesInv, Forward, lastEvent <= lastEvent', recorded' = recorded,
           \A s \in Symbols : Follows(s) => Follows(s)'
    PROVE  Traced'
<1>1. ASSUME NEW s \in Symbols, recorded[s].u # NoId
      PROVE  recorded[s].at <= lastEvent' /\ (Follows(s)' \/ Covered(s)')
  <2>1. recorded[s].at <= lastEvent /\ (Follows(s) \/ Covered(s)) /\ InOrder
    BY <1>1 DEF HolesInv
  <2>2. recorded[s].at \in Int /\ lastEvent \in Int /\ lastEvent' \in Int
    <3>1. recorded[s].at \in Int /\ lastEvent \in Int
      BY RecordedTimes
    <3>2. lastEvent' \in Int
      BY DEF TypeOK, NoTime
    <3> QED BY <3>1, <3>2
  <2>3. CASE Covered(s)
    BY <2>1, <2>2, <2>3, CoveredStays
  <2> QED BY <2>1, <2>2, <2>3
<1> QED BY <1>1 DEF Traced

\* The "except Exception" branch covers every symbol, whatever had been recorded.
LEMMA DisconnectTraced ==
    ASSUME TypeOK, TypeOK', HolesInv, Forward, lastEvent <= lastEvent', Disconnect, netGap = 0,
           \A s \in Symbols : recorded'[s].u # NoId => recorded'[s].at <= lastEvent'
    PROVE  Traced'
<1>1. ASSUME NEW s \in Symbols, recorded'[s].u # NoId PROVE Covered(s)'
  <2>1. recorded'[s].at \in Nat /\ lastEvent' \in Int
    <3>1. recorded'[s] \in [pu : 0..MaxUpdate, u : UpdateId, at : Nat] \cup {Nobody}
      BY DEF TypeOK
    <3>2. lastEvent' \in Nat \cup {NoTime}
      BY DEF TypeOK
    <3> QED BY <1>1, <3>1, <3>2 DEF Nobody, NoTime
  <2>2. lastEvent' # NoTime /\ lastEvent' \in Nat
    BY <1>1, <2>1 DEF NoTime, TypeOK
  <2>3. gaps' = RecordGap("NETWORK_OUTAGE", Symbols, lastEvent')
    BY <2>2 DEF Disconnect
  <2>4. Opens("NETWORK_OUTAGE", Symbols, lastEvent')
    BY <2>2, <2>3, RowOpened
  <2> QED BY <2>2, <2>4, OpeningCovers
<1> QED BY <1>1 DEF Traced

\* The event that is handled next.
LEMMA NextEvent ==
    ASSUME TypeOK, InOrder, queue # <<>>
    PROVE  /\ Head(queue) \in Event /\ Head(queue).sym \in Symbols /\ Head(queue).at \in Nat
           /\ lastEvent <= Head(queue).at /\ Head(queue).at <= clock
<1>1. queue \in Seq(Event) /\ Len(queue) \in Nat /\ DOMAIN queue = 1..Len(queue)
  BY LenProperties DEF TypeOK
<1>2. 1 \in DOMAIN queue /\ Head(queue) = queue[1] /\ Head(queue) \in Event
  BY <1>1, HeadTailProperties, EmptySeq
<1> QED BY <1>2 DEF InOrder, Event

\* The writer is given an event: a hole before it lies in a row.
LEMMA RecordLogged ==
    ASSUME TypeOK, TypeOK', HolesInv, Forward, NEW e \in Event, lastEvent <= e.at, e.at <= clock,
           Accepts(book[e.sym], e), Record(e)
    PROVE  /\ \A h \in holes' : h.from <= clock /\ Logged(h.sym, h.from, h.to)'
           /\ recorded'[e.sym].u = e.u /\ recorded'[e.sym].at = e.at
           /\ \A s \in Symbols \ {e.sym} : recorded'[s] = recorded[s]
<1> DEFINE s == e.sym
           last == recorded[s]
<1>1. /\ s \in Symbols /\ e.at \in Nat /\ Persisted(s)
      /\ recorded \in [Symbols -> [pu : 0..MaxUpdate, u : UpdateId, at : Nat] \cup {Nobody}]
      /\ last.at \in Int /\ lastEvent \in Int /\ clock \in Int
  <2>1. s \in Symbols /\ e.at \in Nat /\ Persisted(s) /\ clock \in Int
    <3>1. s \in Symbols /\ e.at \in Nat
      BY DEF Event
    <3>2. clock \in Int /\ level \in {"OK", "WARNING"}
      BY DEF TypeOK, HolesInv
    <3> QED BY <3>1, <3>2 DEF Persisted
  <2>2. last.at \in Int /\ lastEvent \in Int
    BY <2>1, RecordedTimes
  <2>3. recorded \in [Symbols -> [pu : 0..MaxUpdate, u : UpdateId, at : Nat] \cup {Nobody}]
    BY DEF TypeOK
  <2> QED BY <2>1, <2>2, <2>3
<1>2. /\ recorded' = [recorded EXCEPT ![s] = [pu |-> e.pu, u |-> e.u, at |-> e.at]]
      /\ holes' = IF last.u \in {NoId, e.pu} THEN holes
                  ELSE holes \cup {[sym |-> s, from |-> last.at, to |-> e.at]}
  BY <1>1 DEF Record
<1>3. ASSUME NEW h \in holes PROVE h.from <= clock /\ Logged(h.sym, h.from, h.to)'
  <2>1. h.from \in Int /\ h.from <= clock /\ Logged(h.sym, h.from, h.to)
    BY <1>3 DEF HolesInv, HolesAreLogged, TypeOK
  <2> QED BY <2>1, LoggedStays
<1>4. ASSUME last.u \notin {NoId, e.pu}, NEW from, from = last.at
      PROVE  from <= clock /\ Logged(s, from, e.at)'
  <2>1. last.at <= lastEvent /\ (Follows(s) \/ Covered(s)) /\ lastEvent <= clock
    BY <1>1, <1>4 DEF HolesInv, InOrder
  <2>2. ~Follows(s)
    BY <1>4 DEF Follows, Accepts, FuturesGap, Syncing
  <2>3. PICK i \in DOMAIN gaps : /\ s \in gaps[i].of /\ gaps[i].start <= lastEvent
                                 /\ gaps[i].end = Open \/ last.at <= gaps[i].end
    BY <2>1, <2>2 DEF Covered, Logged
  <2>4. gaps[i].start \in Int
    BY RowNumbers DEF GapRow
  <2>5. Logged(s, from, e.at)
    BY <1>1, <1>4, <2>3, <2>4 DEF Logged
  <2>6. from \in Int /\ from <= clock
    BY <1>1, <1>4, <2>1
  <2> QED BY <2>5, <2>6, LoggedStays
<1>5. \A h \in holes' : h.from <= clock /\ Logged(h.sym, h.from, h.to)'
  <2>1. ASSUME NEW h \in holes', h \notin holes
        PROVE  h.from <= clock /\ Logged(h.sym, h.from, h.to)'
    <3>1. last.u \notin {NoId, e.pu} /\ h.sym = s /\ h.from = last.at /\ h.to = e.at
      BY <1>2, <2>1
    <3> QED BY <1>4, <3>1
  <2> QED BY <1>3, <2>1
<1>6. recorded'[s] = [pu |-> e.pu, u |-> e.u, at |-> e.at]
      /\ \A t \in Symbols \ {s} : recorded'[t] = recorded[t]
  BY <1>1, <1>2
<1> QED BY <1>5, <1>6

LEMMA HolesStep ==
    ASSUME Undisturbed, TypeOK, TypeOK', RowsInv, RowsInv', HolesInv, [Next]_vars
    PROVE  HolesInv'
<1> USE DEF exchange, link, rows, history
<1>1. /\ Onward /\ Forward /\ InOrder' /\ lastEvent <= lastEvent' /\ Control'
      /\ level' \in {"OK", "WARNING"} /\ orphans' = {}
      /\ pc' = "resync" => \A s \in Symbols : syncing'[s] # Idle => book'[s].quality # "HEALTHY"
  BY StepsGoOn, RowsForward, OrderStep, ControlStep, QuietEnvironment, ResyncStep DEF HolesInv
<1>2. SUFFICES Traced' /\ \A h \in holes' : h.from <= clock /\ Logged(h.sym, h.from, h.to)'
  <2>1. \A h \in holes' : h.from \in Nat /\ clock \in Nat /\ clock' \in Nat /\ clock <= clock'
    BY <1>1 DEF TypeOK, Onward
  <2> QED BY <1>1, <1>2, <2>1 DEF HolesInv, Traced, HolesAreLogged
<1>3. ASSUME holes' = holes PROVE \A h \in holes' : h.from <= clock /\ Logged(h.sym, h.from, h.to)'
  <2>1. \A h \in holes : h.from \in Int /\ h.from <= clock /\ Logged(h.sym, h.from, h.to)
    BY DEF HolesInv, HolesAreLogged, TypeOK
  <2> QED BY <1>1, <1>3, <2>1, LoggedStays
<1>4. ASSUME recorded' = recorded, holes' = holes, \A s \in Symbols : Follows(s) => Follows(s)'
      PROVE  Traced' /\ \A h \in holes' : h.from <= clock /\ Logged(h.sym, h.from, h.to)'
  BY <1>1, <1>3, <1>4, TracedStays
<1>5. \A s \in Symbols : recorded[s].u # NoId => recorded[s].at <= lastEvent'
  <2>1. ASSUME NEW s \in Symbols, recorded[s].u # NoId PROVE recorded[s].at <= lastEvent'
    <3>1. recorded[s].at \in Int /\ lastEvent \in Int
      BY RecordedTimes
    <3>2. lastEvent' \in Int /\ recorded[s].at <= lastEvent
      BY <2>1 DEF HolesInv, TypeOK, NoTime
    <3> QED BY <1>1, <3>1, <3>2
  <2> QED BY <2>1
<1>6. CASE recorded' = recorded /\ holes' = holes /\ book' = book /\ pc' = pc
  BY <1>4, <1>6 DEF Follows
<1>7. CASE Disconnect /\ recorded' = recorded /\ holes' = holes
  <2>1. CASE netGap = 0
    <3>1. Traced'
      BY <1>1, <1>5, <1>7, <2>1, DisconnectTraced
    <3> QED BY <1>3, <1>7, <3>1
  <2>2. CASE netGap # 0
    <3>1. \A s \in Symbols : ~Follows(s)
      BY <2>2 DEF RowsInv, Follows
    <3> QED BY <1>4, <1>7, <3>1
  <2> QED BY <2>1, <2>2
<1>8. CASE Connection
  <2>1. ASSUME NEW s \in Symbols, SyncStart(s)
        PROVE  Traced' /\ \A h \in holes' : h.from <= clock /\ Logged(h.sym, h.from, h.to)'
    BY <1>4, <2>1 DEF SyncStart, HolesInv, Control, Follows
  <2>2. ASSUME NEW s \in Symbols, SyncDone(s)
        PROVE  Traced' /\ \A h \in holes' : h.from <= clock /\ Logged(h.sym, h.from, h.to)'
    BY <1>4, <2>2 DEF SyncDone, Follows
  <2>3. ASSUME NEW s \in Symbols, ResyncDone(s)
        PROVE  Traced' /\ \A h \in holes' : h.from <= clock /\ Logged(h.sym, h.from, h.to)'
    <3>1. ~Follows(s)
      BY <2>3 DEF ResyncDone, HolesInv, Follows, Idle
    <3>2. \A t \in Symbols \ {s} : book'[t] = book[t]
      BY <2>3 DEF ResyncDone
    <3>3. \A t \in Symbols : Follows(t) => Follows(t)'
      BY <2>3, <3>1, <3>2 DEF ResyncDone, Follows
    <3> QED BY <1>4, <2>3, <3>3 DEF ResyncDone
  <2>4. CASE Backoff \/ Connect \/ AllSynced
    BY <1>4, <2>4 DEF Backoff, Connect, AllSynced, Follows
  <2>5. ASSUME NEW o \in orphans PROVE FALSE
    BY <2>5 DEF HolesInv
  <2> QED BY <1>7, <1>8, <2>1, <2>2, <2>3, <2>4, <2>5 DEF Connection, ConnectFails, SyncFails, ResyncFails
<1>9. CASE Consume
  <2>1. PICK e : /\ e = Head(queue) /\ queue # <<>>
                 /\ Ignore(e) \/ Apply(e) \/ ApplyWriteFails(e) \/ Gap(e)
    BY <1>9 DEF Consume
  <2>2. e \in Event /\ e.sym \in Symbols /\ e.at \in Nat /\ lastEvent <= e.at /\ e.at <= clock
    BY <2>1, NextEvent DEF HolesInv
  <2>3. CASE Ignore(e)
    BY <1>6, <2>3 DEF Ignore, Take
  <2>4. CASE Gap(e)
    <3>1. /\ recorded' = recorded /\ holes' = holes /\ lastEvent' = e.at
          /\ gaps' = RecordGap("STREAM_SEQUENCE_GAP", {e.sym}, e.at)
      BY <2>4 DEF Gap, Take
    <3>2. Opens("STREAM_SEQUENCE_GAP", {e.sym}, e.at)
      BY <2>2, <3>1, RowOpened
    <3>3. Covered(e.sym)'
      BY <2>2, <3>1, <3>2, OpeningCovers
    <3>4. ASSUME NEW s \in Symbols \ {e.sym}, recorded[s].u # NoId
          PROVE  Follows(s)' \/ Covered(s)'
      <4>1. recorded[s].at <= lastEvent /\ (Follows(s) \/ Covered(s)) /\ InOrder
        BY <3>4 DEF HolesInv
      <4>2. book'[s] = book[s] /\ pc' = "resync"
        BY <2>4, <3>4 DEF Gap, TypeOK
      <4>3. CASE Follows(s)
        BY <3>1, <4>2, <4>3 DEF Follows
      <4>4. CASE Covered(s)
        BY <1>1, <3>1, <3>4, <4>1, <4>4, CoveredStays
      <4> QED BY <4>1, <4>3, <4>4
    <3> QED BY <1>3, <1>5, <3>1, <3>3, <3>4 DEF Traced
  <2>5. ASSUME Accepts(book[e.sym], e), Record(e)
        PROVE  /\ \A h \in holes' : h.from <= clock /\ Logged(h.sym, h.from, h.to)'
               /\ recorded'[e.sym].u = e.u /\ recorded'[e.sym].at = e.at
               /\ \A s \in Symbols \ {e.sym} : recorded'[s] = recorded[s]
    BY <1>1, <2>2, <2>5, RecordLogged
  <2>6. CASE ApplyWriteFails(e)
    <3>1. /\ Accepts(book[e.sym], e) /\ Record(e) /\ Disconnect /\ lastEvent' = e.at /\ netGap = 0
      BY <2>6 DEF ApplyWriteFails, RowsInv
    <3>2. \A s \in Symbols : recorded'[s].u # NoId => recorded'[s].at <= lastEvent'
      BY <1>5, <2>2, <2>5, <3>1
    <3> QED BY <1>1, <2>5, <3>1, <3>2, DisconnectTraced
  <2>7. CASE Apply(e)
    <3>1. /\ Accepts(book[e.sym], e) /\ Record(e) /\ lastEvent' = e.at /\ pc = "consume" /\ pc' = pc
          /\ book' = [book EXCEPT ![e.sym] = Applied(book[e.sym], e)]
      BY <2>7 DEF Apply, Take
    <3>2. /\ book'[e.sym] = Applied(book[e.sym], e)
          /\ \A s \in Symbols \ {e.sym} : book'[s] = book[s]
      BY <2>2, <3>1 DEF TypeOK
    <3>3. Follows(e.sym)'
      BY <2>2, <2>5, <3>1, <3>2 DEF Follows, Applied
    <3>4. ASSUME NEW s \in Symbols \ {e.sym}, recorded'[s].u # NoId
          PROVE  recorded'[s].at <= lastEvent' /\ (Follows(s)' \/ Covered(s)')
      <4>1. recorded'[s] = recorded[s] /\ recorded[s].at <= lastEvent /\ (Follows(s) \/ Covered(s))
            /\ InOrder
        BY <2>5, <3>1, <3>4 DEF HolesInv
      <4>2. CASE Follows(s)
        BY <1>5, <3>1, <3>2, <3>4, <4>1, <4>2 DEF Follows
      <4>3. CASE Covered(s)
        BY <1>1, <1>5, <3>4, <4>1, <4>3, CoveredStays
      <4> QED BY <4>1, <4>2, <4>3
    <3>5. recorded'[e.sym].at <= lastEvent'
      BY <2>2, <2>5, <3>1
    <3> QED BY <2>2, <2>5, <3>1, <3>3, <3>4, <3>5 DEF Traced
  <2> QED BY <2>1, <2>3, <2>4, <2>6, <2>7
<1>10. CASE Heartbeat \/ LoseSocket \/ UNCHANGED vars
  BY <1>6, <1>10 DEF Heartbeat, LoseSocket, vars
<1>11. ASSUME NEW s \in Symbols, Trade(s) \/ Emit(s) \/ Skip(s) \/ EmitFeature(s)
       PROVE  Traced' /\ \A h \in holes' : h.from <= clock /\ Logged(h.sym, h.from, h.to)'
  BY <1>6, <1>11 DEF Trade, Emit, Skip, Send, EmitFeature
<1> QED BY <1>8, <1>9, <1>10, <1>11 DEF Next

\* Every hole in the recorded depth overlaps a gap row, as long as no depth is
\* dropped to save disk space and no request of one symbol outlives another's.
THEOREM HolesLogged == ASSUME Undisturbed PROVE Spec => []HolesAreLogged
<1>1. Init => HolesInv
  BY DEF Init, HolesInv, Control, InOrder, Nobody, HolesAreLogged, NoTime, Idle, Queued
<1>2. TypeOK /\ TypeOK' /\ RowsInv /\ RowsInv' /\ HolesInv /\ [Next]_vars => HolesInv'
  BY HolesStep
<1>3. HolesInv => HolesAreLogged
  BY DEF HolesInv
<1> QED
  BY <1>1, <1>2, <1>3, TypeCorrect, RowsInvariant, PTL DEF Spec

-----------------------------------------------------------------------------
(* Drained books *)

\* The events of a symbol wait in the order of its updates, up to the last sent.
Numbered ==
    /\ \A s \in Symbols : sent[s] <= head[s]
    /\ \A i \in DOMAIN queue : queue[i].u <= sent[queue[i].sym]
    /\ \A i, j \in DOMAIN queue :
          i < j /\ queue[i].sym = queue[j].sym => queue[i].u < queue[j].U

LEMMA AppendedQueue ==
    ASSUME TypeOK, NEW e, queue' = Append(queue, e), e \in Event
    PROVE  /\ DOMAIN queue = 1..Len(queue) /\ Len(queue) \in Nat
           /\ DOMAIN queue' = 1..(Len(queue) + 1) /\ queue'[Len(queue) + 1] = e
           /\ \A i \in 1..Len(queue) : queue'[i] = queue[i]
  BY AppendProperties, LenProperties DEF TypeOK

LEMMA TakenQueue ==
    ASSUME TypeOK, queue # <<>>, queue' = Tail(queue)
    PROVE  /\ DOMAIN queue = 1..Len(queue) /\ Len(queue) \in Nat /\ Len(queue) >= 1
           /\ Head(queue) = queue[1] /\ DOMAIN queue' = 1..(Len(queue) - 1)
           /\ \A i \in 1..(Len(queue) - 1) : queue'[i] = queue[i + 1]
  BY HeadTailProperties, EmptySeq, LenProperties DEF TypeOK

LEMMA QueuedEvents ==
    ASSUME TypeOK
    PROVE  \A i \in DOMAIN queue :
              /\ queue[i] \in Event /\ queue[i].sym \in Symbols
              /\ queue[i].U \in Int /\ queue[i].u \in Int
<1>1. \A i \in DOMAIN queue : queue[i] \in Event
  BY ElementOfSeq, LenProperties DEF TypeOK
<1> QED BY <1>1, MaxUpdateAssumption DEF Event, UpdateId

LEMMA NumberedStep == ASSUME TypeOK, Numbered, [Next]_vars PROVE Numbered'
<1> USE DEF exchange, link, rows, history
<1>1. \A s \in Symbols : head[s] \in Int /\ sent[s] \in Int
  BY MaxUpdateAssumption DEF TypeOK
<1>2. \A i \in DOMAIN queue : queue[i].sym \in Symbols /\ queue[i].U \in Int /\ queue[i].u \in Int
  BY QueuedEvents
<1>3. CASE head' = head /\ sent' = sent /\ queue' = queue
  BY <1>3 DEF Numbered
<1>4. CASE head' = head /\ sent' = sent /\ queue' = <<>>
  BY <1>4 DEF Numbered
<1>5. CASE head' = head /\ sent' = sent /\ queue # <<>> /\ queue' = Tail(queue)
  <2>1. \A i \in DOMAIN queue' : /\ i + 1 \in DOMAIN queue /\ queue'[i] = queue[i + 1]
                                 /\ i \in Nat
    BY <1>5, TakenQueue
  <2>2. \A i, j \in DOMAIN queue' : i < j => i + 1 < j + 1
    BY <2>1
  <2> QED BY <1>5, <2>1, <2>2 DEF Numbered
<1>6. ASSUME NEW s \in Symbols, Trade(s) PROVE Numbered'
  <2>1. \A t \in Symbols : sent[t] <= head[t] /\ head'[t] \in {head[t], head[t] + 1}
    BY <1>6 DEF Trade, TypeOK, Numbered
  <2>2. \A t \in Symbols : sent'[t] <= head'[t]
    BY <1>1, <1>6, <2>1 DEF Trade
  <2> QED BY <1>6, <2>2 DEF Trade, Numbered
<1>7. ASSUME NEW s \in Symbols, Send(s)
      PROVE  /\ \A t \in Symbols : sent'[t] <= head'[t] /\ sent[t] <= sent'[t]
             /\ sent'[s] = head[s] /\ \A t \in Symbols : sent'[t] \in Int
  <2>1. /\ head' = head /\ sent[s] < head[s] /\ sent'[s] = head[s]
        /\ \A t \in Symbols \ {s} : sent'[t] = sent[t]
    BY <1>7 DEF Send, TypeOK
  <2> QED BY <1>1, <2>1 DEF Numbered
<1>8. ASSUME NEW s \in Symbols, Send(s), queue' = queue PROVE Numbered'
  <2>1. \A i \in DOMAIN queue : queue[i].u <= sent'[queue[i].sym]
    BY <1>1, <1>2, <1>7, <1>8 DEF Numbered
  <2> QED BY <1>7, <1>8, <2>1 DEF Numbered
<1>9. ASSUME NEW s \in Symbols, NEW e \in Event, Send(s), queue' = Append(queue, e),
             e.sym = s, e.U = sent[s] + 1, e.u = head[s]
      PROVE  Numbered'
  <2>1. /\ DOMAIN queue = 1..Len(queue) /\ Len(queue) \in Nat
        /\ DOMAIN queue' = 1..(Len(queue) + 1) /\ queue'[Len(queue) + 1] = e
        /\ \A i \in 1..Len(queue) : queue'[i] = queue[i]
    BY <1>9, AppendedQueue
  <2>2. \A i \in 1..Len(queue) : queue[i].u <= sent'[queue[i].sym]
    BY <1>1, <1>2, <1>7, <1>9, <2>1 DEF Numbered
  <2>3. \A i \in 1..(Len(queue) + 1) : i \in 1..Len(queue) \/ i = Len(queue) + 1
    BY <2>1
  <2>4. \A i \in DOMAIN queue' : queue'[i].u <= sent'[queue'[i].sym]
    BY <1>1, <1>7, <1>9, <2>1, <2>2, <2>3
  <2>5. ASSUME NEW i \in DOMAIN queue', NEW j \in DOMAIN queue', i < j,
               queue'[i].sym = queue'[j].sym
        PROVE  queue'[i].u < queue'[j].U
    <3>1. i \in 1..Len(queue)
      BY <2>1, <2>5
    <3>2. CASE j \in 1..Len(queue)
      BY <2>1, <2>5, <3>1, <3>2 DEF Numbered
    <3>3. CASE j = Len(queue) + 1
      <4>1. queue[i].sym = s /\ queue[i].u <= sent[s]
        BY <1>9, <2>1, <2>5, <3>1, <3>3 DEF Numbered
      <4> QED BY <1>1, <1>2, <1>9, <2>1, <3>1, <3>3, <4>1
    <3> QED BY <2>1, <2>3, <3>2, <3>3
  <2> QED BY <1>7, <1>9, <2>4, <2>5 DEF Numbered
<1>10. ASSUME NEW s \in Symbols, Emit(s) PROVE Numbered'
  <2> DEFINE e == [sym |-> s, pu |-> sent[s], U |-> sent[s] + 1, u |-> head[s], at |-> clock + 1]
  <2>1. e \in Event /\ e.sym = s /\ e.U = sent[s] + 1 /\ e.u = head[s]
    BY <1>10, MaxUpdateAssumption DEF Emit, Send, Event, TypeOK, UpdateId
  <2>2. Send(s) /\ (queue' = queue \/ queue' = Append(queue, e))
    BY <1>10 DEF Emit, Receive
  <2> HIDE DEF e
  <2> QED BY <1>8, <1>9, <2>1, <2>2
<1>11. CASE Consume
  BY <1>4, <1>5, <1>11 DEF Consume, Ignore, Apply, ApplyWriteFails, Gap, Take, Disconnect
<1>12. CASE Connection
  BY <1>3, <1>4, <1>12 DEF Connection, ConnectFails, Backoff, Connect, AllSynced, SyncStart,
     SyncDone, SyncFails, ResyncDone, ResyncFails, OrphanDone, OrphanFails, Disconnect
<1> QED BY <1>3, <1>6, <1>8, <1>10, <1>11, <1>12
        DEF Next, vars, Skip, EmitFeature, LoseSocket, Heartbeat

\* An event with update k of s is in the queue.
Waiting(s, k) == \E i \in DOMAIN queue :
    queue[i].sym = s /\ queue[i].U <= k /\ k <= queue[i].u

\* If update k of s has been sent, it waits in the queue or is missed.
Owed(s, k) == k <= sent[s] => Waiting(s, k) \/ k \in missed[s]

\* What the book of s needs next: any update, while the snapshot that will tell
\* is under way; then the one after its last.
NextOwed(s) == IF syncing[s] = Idle THEN book[s].last # NoId /\ Owed(s, book[s].last + 1)
                                    ELSE \A k \in Nat \ {0} : Owed(s, k)

\* What it will need when an event that waits has been applied.
ChainOwed(s) == \A i \in DOMAIN queue : queue[i].sym = s => Owed(s, queue[i].u + 1)

CurrentInv == /\ Control /\ Numbered
              /\ wsOpen => /\ pc \in {"sync", "consume", "resync"}
                           /\ \A s \in Symbols : NextOwed(s) /\ ChainOwed(s)

\* The events that still wait once the first one is taken.
LEMMA StillWaiting ==
    ASSUME TypeOK, queue # <<>>, queue' = Tail(queue), NEW s, NEW k \in Int, Waiting(s, k),
           ~(Head(queue).sym = s /\ k <= Head(queue).u)
    PROVE  Waiting(s, k)'
<1>1. /\ DOMAIN queue = 1..Len(queue) /\ Len(queue) \in Nat /\ Len(queue) >= 1
      /\ Head(queue) = queue[1] /\ DOMAIN queue' = 1..(Len(queue) - 1)
      /\ \A i \in 1..(Len(queue) - 1) : queue'[i] = queue[i + 1]
  BY TakenQueue
<1>2. PICK i \in 1..Len(queue) : queue[i].sym = s /\ queue[i].U <= k /\ k <= queue[i].u
  BY <1>1 DEF Waiting
<1>3. i # 1 /\ i - 1 \in 1..(Len(queue) - 1) /\ (i - 1) + 1 = i
  BY <1>1, <1>2
<1>4. queue'[i - 1] = queue[i]
  BY <1>1, <1>3
<1> QED BY <1>1, <1>2, <1>3, <1>4 DEF Waiting

\* A step that takes nothing of s from the queue and sends nothing of s.
Keeps(s) == /\ sent'[s] = sent[s] /\ missed[s] \subseteq missed'[s]
            /\ \A k \in UpdateId : Waiting(s, k) => Waiting(s, k)'

\* What is owed is owed after it.
LEMMA OwedStays ==
    ASSUME TypeOK, NEW s \in Symbols, Keeps(s), NEW k \in Nat \ {0}, Owed(s, k)
    PROVE  Owed(s, k)'
<1>1. sent[s] \in 0..MaxUpdate
  BY DEF TypeOK
<1>2. k <= sent[s] => k \in UpdateId
  BY <1>1, MaxUpdateAssumption DEF UpdateId
<1> QED BY <1>2 DEF Owed, Keeps

\* The last update of a book or an event has a successor.
LEMMA Successors ==
    ASSUME TypeOK
    PROVE  /\ \A s \in Symbols : book[s].last # NoId => book[s].last + 1 \in Nat \ {0}
           /\ \A i \in DOMAIN queue : queue[i].u + 1 \in Nat \ {0}
<1>1. \A s \in Symbols : book[s].last \in UpdateId \cup {NoId, 0}
  BY DEF TypeOK, Book
<1>2. \A i \in DOMAIN queue : queue[i].u \in UpdateId
  BY QueuedEvents DEF Event
<1> QED BY <1>1, <1>2, MaxUpdateAssumption DEF UpdateId, NoId

LEMMA ChainStays ==
    ASSUME TypeOK, NEW s \in Symbols, Keeps(s), queue' = queue, ChainOwed(s)
    PROVE  ChainOwed(s)'
<1>1. ASSUME NEW i \in DOMAIN queue, queue[i].sym = s PROVE Owed(s, queue[i].u + 1)'
  <2>1. queue[i].u + 1 \in Nat \ {0} /\ Owed(s, queue[i].u + 1)
    BY <1>1, Successors DEF ChainOwed
  <2> DEFINE k == queue[i].u + 1
  <2>2. k' = k
    OBVIOUS
  <2> QED BY <2>1, <2>2, OwedStays
<1> QED BY <1>1 DEF ChainOwed

LEMMA NextStays ==
    ASSUME TypeOK, NEW s \in Symbols, Keeps(s), syncing'[s] = syncing[s], book'[s] = book[s],
           NextOwed(s)
    PROVE  NextOwed(s)'
<1>1. CASE syncing[s] = Idle
  <2>1. book[s].last + 1 \in Nat \ {0} /\ Owed(s, book[s].last + 1) /\ book[s].last # NoId
    BY <1>1, Successors DEF NextOwed
  <2>2. ASSUME NEW k, k = book[s].last + 1 PROVE Owed(s, k)'
    BY <2>1, <2>2, OwedStays
  <2> QED BY <1>1, <2>1, <2>2 DEF NextOwed, Owed
<1>2. CASE syncing[s] # Idle
  BY <1>2, OwedStays DEF NextOwed
<1> QED BY <1>1, <1>2

\* Once all that has passed is missed, every update is owed.
LEMMA AllOwed ==
    ASSUME NEW s \in Symbols, Passed(s, queue') \subseteq missed'[s], sent'[s] = sent[s],
           sent[s] \in Nat, \A i \in DOMAIN queue' : queue'[i].U \in Int /\ queue'[i].u \in Int
    PROVE  \A k \in Nat \ {0} : Owed(s, k)'
<1>1. ASSUME NEW k \in Nat \ {0}, k <= sent'[s], ~Waiting(s, k)' PROVE k \in missed'[s]
  <2>1. k \in 1..sent[s]
    BY <1>1
  <2>2. \A i \in DOMAIN queue' : queue'[i].sym = s => k \notin queue'[i].U..queue'[i].u
    BY <1>1 DEF Waiting
  <2> QED BY <2>1, <2>2 DEF Passed
<1> QED BY <1>1 DEF Owed

\* A snapshot answers: whichever update it shows, the next one is owed.
LEMMA AnswerOwes ==
    ASSUME TypeOK, NEW s \in Symbols, NEW n \in Nat, \A k \in Nat \ {0} : Owed(s, k)',
           syncing'[s] = Idle, book'[s] = SnapshotBook(n)
    PROVE  NextOwed(s)'
<1>1. n + 1 \in Nat \ {0} /\ n # NoId /\ book'[s].last = n
  BY DEF NoId, SnapshotBook
<1> QED BY <1>1 DEF NextOwed

\* The exchange sends what happened to s, and its event waits or is missed.
LEMMA SendOwes ==
    ASSUME TypeOK, NEW s \in Symbols, sent'[s] = head[s], missed[s] \subseteq missed'[s],
           \A k \in UpdateId : Waiting(s, k) => Waiting(s, k)',
           \A k \in UpdateId : sent[s] < k /\ k <= head[s] => Waiting(s, k)' \/ k \in missed'[s],
           NEW k \in Nat \ {0}, Owed(s, k)
    PROVE  Owed(s, k)'
<1>1. sent[s] \in 0..MaxUpdate /\ head[s] \in 0..MaxUpdate
  BY DEF TypeOK
<1>2. ASSUME k <= head[s] PROVE k \in UpdateId /\ (k <= sent[s] \/ sent[s] < k)
  BY <1>1, <1>2, MaxUpdateAssumption DEF UpdateId
<1> QED BY <1>2 DEF Owed

\* The next event of s continues its book or is older, or what the book needs is missed.
LEMMA HeadContinues ==
    ASSUME TypeOK, Numbered, queue # <<>>, NEW e, e = Head(queue), NextOwed(e.sym),
           syncing[e.sym] = Idle, book[e.sym].last < e.u
    PROVE  e.U <= book[e.sym].last + 1 \/ book[e.sym].last + 1 \in missed[e.sym]
<1> DEFINE s == e.sym
           last == book[s].last
<1>1. /\ DOMAIN queue = 1..Len(queue) /\ Len(queue) \in Nat /\ 1 \in DOMAIN queue
      /\ e = queue[1]
  BY HeadTailProperties, EmptySeq, LenProperties DEF TypeOK
<1>2. /\ s \in Symbols /\ e.U \in Int /\ e.u \in UpdateId /\ e.u <= sent[s]
      /\ sent[s] \in 0..MaxUpdate /\ last \in UpdateId \cup {NoId, 0}
  BY <1>1, QueuedEvents DEF Numbered, Event, TypeOK, Book
<1>3. last + 1 <= sent[s] /\ last + 1 <= e.u /\ last + 1 \in Int /\ e.u \in Int
  BY <1>2, MaxUpdateAssumption DEF UpdateId, NoId
<1>4. Owed(s, last + 1)
  BY DEF NextOwed
<1>5. ASSUME Waiting(s, last + 1) PROVE e.U <= last + 1
  <2>1. PICK j \in DOMAIN queue : queue[j].sym = s /\ queue[j].U <= last + 1
    BY <1>5 DEF Waiting
  <2>2. CASE j = 1
    BY <1>1, <2>1, <2>2
  <2>3. CASE j # 1
    <3>1. 1 < j /\ queue[j].U \in Int
      BY <1>1, <2>1, <2>3, QueuedEvents
    <3>2. e.u < queue[j].U
      BY <1>1, <2>1, <3>1 DEF Numbered
    <3> QED BY <1>2, <1>3, <2>1, <3>1, <3>2
  <2> QED BY <2>2, <2>3
<1> QED BY <1>3, <1>4, <1>5 DEF Owed

\* The first event is taken: what the others will need is owed, and what it needs.
LEMMA ChainTaken ==
    ASSUME TypeOK, BookInv, Numbered, queue # <<>>, queue' = Tail(queue), sent' = sent,
           NEW s \in Symbols, missed[s] \subseteq missed'[s], ChainOwed(s)
    PROVE  /\ ChainOwed(s)'
           /\ \A k : Head(queue).sym = s /\ k = Head(queue).u + 1 => Owed(s, k)'
<1> DEFINE e == Head(queue)
<1>1. /\ DOMAIN queue = 1..Len(queue) /\ Len(queue) \in Nat /\ Len(queue) >= 1
      /\ e = queue[1] /\ DOMAIN queue' = 1..(Len(queue) - 1)
      /\ \A i \in 1..(Len(queue) - 1) : queue'[i] = queue[i + 1]
  BY TakenQueue
<1>2. \A i \in DOMAIN queue : /\ queue[i].u \in Int /\ queue[i].U \in Int
                              /\ queue[i].U <= queue[i].u
  BY QueuedEvents DEF BookInv, QueueWellFormed, WellFormed
<1>3. ASSUME NEW j \in DOMAIN queue, queue[j].sym = s, NEW k, k = queue[j].u + 1
      PROVE  Owed(s, k)'
  <2>1. k \in Int /\ Owed(s, k)
    BY <1>2, <1>3 DEF ChainOwed
  <2>2. ~(e.sym = s /\ k <= e.u)
    <3>1. CASE j = 1
      BY <1>1, <1>2, <1>3, <3>1
    <3>2. CASE j # 1
      <4>1. 1 \in DOMAIN queue /\ 1 < j
        BY <1>1, <3>2
      <4>2. e.sym = s => e.u < queue[j].U
        BY <1>1, <1>3, <4>1 DEF Numbered
      <4> QED BY <1>1, <1>2, <1>3, <4>1, <4>2
    <3> QED BY <3>1, <3>2
  <2>3. Waiting(s, k) => Waiting(s, k)'
    BY <2>1, <2>2, StillWaiting
  <2> QED BY <2>1, <2>3 DEF Owed
<1>4. 1 \in DOMAIN queue
  BY <1>1
<1>5. \A k : e.sym = s /\ k = e.u + 1 => Owed(s, k)'
  BY <1>1, <1>3, <1>4
<1>6. ChainOwed(s)'
  <2>1. ASSUME NEW i \in DOMAIN queue', queue'[i].sym = s, NEW k, k = queue'[i].u + 1
        PROVE  Owed(s, k)'
    <3>1. i + 1 \in DOMAIN queue /\ queue'[i] = queue[i + 1]
      BY <1>1, <2>1
    <3> QED BY <1>3, <2>1, <3>1
  <2> QED BY <2>1 DEF ChainOwed, Owed, Waiting
<1> QED BY <1>5, <1>6

LEMMA CurrentStep ==
    ASSUME TypeOK, TypeOK', BookInv, CurrentInv, [Next]_vars
    PROVE  CurrentInv'
<1> USE DEF exchange, link, rows, history
<1>1. Control' /\ Numbered'
  BY ControlStep, NumberedStep DEF CurrentInv
<1> DEFINE Settled == /\ pc' \in {"sync", "consume", "resync"}
                      /\ \A s \in Symbols : NextOwed(s)' /\ ChainOwed(s)'
<1>2. SUFFICES ASSUME wsOpen' PROVE Settled
  BY <1>1, <1>2 DEF CurrentInv
<1>3. wsOpen => /\ pc \in {"sync", "consume", "resync"}
                /\ \A s \in Symbols : NextOwed(s) /\ ChainOwed(s)
  BY DEF CurrentInv
<1>4. Control /\ Numbered /\ ~Disconnect
  BY <1>2 DEF CurrentInv, Disconnect
<1>5. /\ \A s \in Symbols : sent[s] \in Nat
      /\ \A i \in DOMAIN queue : queue[i].U \in Int /\ queue[i].u \in Int
      /\ \A k \in UpdateId : k \in Int
  <2>1. \A s \in Symbols : sent[s] \in 0..MaxUpdate
    BY DEF TypeOK
  <2>2. \A i \in DOMAIN queue : queue[i].U \in Int /\ queue[i].u \in Int
    BY QueuedEvents
  <2> QED BY <2>1, <2>2, MaxUpdateAssumption DEF UpdateId
<1>6. ASSUME NEW s \in Symbols, NextOwed(s), ChainOwed(s), Keeps(s), queue' = queue,
             syncing'[s] = syncing[s], book'[s] = book[s]
      PROVE  NextOwed(s)' /\ ChainOwed(s)'
  BY <1>6, NextStays, ChainStays
<1>7. ASSUME NEW s \in Symbols, sent' = sent, queue' = queue, missed[s] \subseteq missed'[s]
      PROVE  Keeps(s)
  BY <1>7 DEF Keeps, Waiting
<1>8. CASE /\ wsOpen /\ pc' \in {pc, "consume"} /\ sent' = sent /\ queue' = queue
           /\ syncing' = syncing /\ book' = book /\ missed' = missed
  BY <1>3, <1>6, <1>7, <1>8
<1>9. CASE Connection
  <2>1. CASE Backoff
    BY <1>2, <1>3, <2>1 DEF Backoff
  <2>2. CASE Connect
    <3>1. queue' = <<>> /\ DOMAIN queue' = {} /\ sent' = sent /\ pc' = "sync"
          /\ \A s \in Symbols : missed'[s] = Passed(s, queue') /\ syncing'[s] = Queued
      BY <2>2 DEF Connect
    <3>2. \A s \in Symbols : \A k \in Nat \ {0} : Owed(s, k)'
      BY <1>5, <3>1, AllOwed
    <3> QED BY <3>1, <3>2 DEF NextOwed, ChainOwed, Idle, Queued
  <2>3. CASE AllSynced
    BY <1>2, <1>8, <2>3 DEF AllSynced
  <2>4. ASSUME NEW s \in Symbols, SyncStart(s) PROVE Settled
    <3>1. /\ wsOpen /\ pc' = pc /\ sent' = sent /\ queue' = queue /\ missed' = missed
          /\ syncing[s] = Queued /\ syncing'[s] = head[s]
          /\ \A t \in Symbols \ {s} : book'[t] = book[t] /\ syncing'[t] = syncing[t]
      BY <1>2, <2>4 DEF SyncStart, TypeOK
    <3>2. syncing'[s] # Idle /\ syncing[s] # Idle
      BY <3>1, MaxUpdateAssumption DEF TypeOK, Idle, Queued
    <3>3. NextOwed(s)' /\ ChainOwed(s)'
      <4>1. Keeps(s) /\ ChainOwed(s) /\ \A k \in Nat \ {0} : Owed(s, k)
        BY <1>3, <1>7, <3>1, <3>2 DEF NextOwed
      <4> QED BY <3>1, <3>2, <4>1, OwedStays, ChainStays DEF NextOwed
    <3> QED BY <1>3, <1>6, <1>7, <3>1, <3>3
  <2>5. ASSUME NEW s \in Symbols, SyncDone(s) \/ ResyncDone(s) PROVE Settled
    <3>1. /\ wsOpen /\ pc' \in {pc, "consume"} /\ sent' = sent /\ queue' = queue
          /\ missed' = missed /\ syncing[s] >= 0 /\ syncing' = [syncing EXCEPT ![s] = Idle]
          /\ \E n \in Answer(s, syncing[s]) : book' = [book EXCEPT ![s] = SnapshotBook(n)]
      BY <1>2, <2>5 DEF SyncDone, ResyncDone
    <3>2. PICK n \in Nat : book' = [book EXCEPT ![s] = SnapshotBook(n)]
      <4>1. PICK m \in 0..head[s] : book' = [book EXCEPT ![s] = SnapshotBook(m)]
        BY <3>1 DEF Answer
      <4>2. m \in Nat
        BY <4>1
      <4> QED BY <4>1, <4>2
    <3>3. /\ book'[s] = SnapshotBook(n) /\ syncing'[s] = Idle /\ syncing[s] # Idle
          /\ \A t \in Symbols \ {s} : book'[t] = book[t] /\ syncing'[t] = syncing[t]
      BY <3>1, <3>2 DEF TypeOK, Idle
    <3>4. NextOwed(s)' /\ ChainOwed(s)'
      <4>1. Keeps(s) /\ ChainOwed(s) /\ \A k \in Nat \ {0} : Owed(s, k)
        BY <1>3, <1>7, <3>1, <3>3 DEF NextOwed
      <4>2. \A k \in Nat \ {0} : Owed(s, k)'
        BY <4>1, OwedStays
      <4> QED BY <3>1, <3>3, <4>1, <4>2, AnswerOwes, ChainStays
    <3> QED BY <1>3, <1>6, <1>7, <3>1, <3>3, <3>4
  <2>6. ASSUME NEW o \in orphans, OrphanDone(o) PROVE Settled
    <3> DEFINE s == o.sym
    <3>1. /\ wsOpen /\ pc' = pc /\ sent' = sent /\ queue' = queue /\ syncing' = syncing
          /\ s \in Symbols /\ missed'[s] = missed[s] \cup Passed(s, queue')
          /\ \A t \in Symbols \ {s} : missed'[t] = missed[t]
      BY <1>2, <2>6 DEF OrphanDone, TypeOK
    <3>2. PICK n \in Nat : book' = [book EXCEPT ![s] = SnapshotBook(n)]
      <4>1. PICK m \in 0..head[s] : book' = [book EXCEPT ![s] = SnapshotBook(m)]
        BY <2>6 DEF OrphanDone, Answer
      <4>2. m \in Nat
        BY <4>1
      <4> QED BY <4>1, <4>2
    <3> HIDE DEF s
    <3>3. book'[s] = SnapshotBook(n) /\ \A t \in Symbols \ {s} : book'[t] = book[t]
      BY <3>1, <3>2 DEF TypeOK
    <3>4. \A k \in Nat \ {0} : Owed(s, k)'
      BY <1>5, <3>1, AllOwed
    <3>5. NextOwed(s)'
      BY <3>1, <3>3, <3>4, AnswerOwes DEF NextOwed
    <3>6. ChainOwed(s)'
      BY <1>3, <1>7, <3>1, ChainStays
    <3> QED BY <1>3, <1>6, <1>7, <3>1, <3>3, <3>5, <3>6
  <2>7. ASSUME NEW o \in orphans, OrphanFails(o) PROVE Settled
    BY <1>2, <1>8, <2>7 DEF OrphanFails
  <2> QED BY <1>4, <1>9, <2>1, <2>2, <2>3, <2>4, <2>5, <2>6, <2>7
          DEF Connection, ConnectFails, SyncFails, ResyncFails
<1>10. CASE Consume
  <2>1. PICK e : /\ e = Head(queue) /\ queue # <<>>
                 /\ Ignore(e) \/ Apply(e) \/ ApplyWriteFails(e) \/ Gap(e)
    BY <1>10 DEF Consume
  <2>2. /\ pc = "consume" /\ queue' = Tail(queue) /\ wsOpen /\ sent' = sent
        /\ Ignore(e) \/ Apply(e) \/ Gap(e)
    BY <1>2, <1>4, <2>1 DEF Ignore, Apply, ApplyWriteFails, Gap, Take
  <2>3. /\ e \in Event /\ e.sym \in Symbols /\ e.u \in Int /\ e.u # NoId
        /\ \A t \in Symbols : syncing[t] = Idle /\ NextOwed(t) /\ ChainOwed(t)
    BY <1>3, <1>4, <2>1, <2>2, TakeType, MaxUpdateAssumption DEF Control, Event, UpdateId, NoId
  <2>4. \A t \in Symbols : missed[t] \subseteq missed'[t]
    <3>1. \/ missed' = missed
          \/ missed' = [missed EXCEPT ![e.sym] = missed[e.sym] \cup Passed(e.sym, queue')]
      BY <2>2 DEF Ignore, Apply, Gap
    <3>2. \A t \in Symbols : \/ missed'[t] = missed[t]
                             \/ missed'[t] = missed[t] \cup Passed(e.sym, queue')
      <4>1. missed \in [Symbols -> SUBSET UpdateId]
        BY DEF TypeOK
      <4> HIDE DEF Passed, UpdateId
      <4> QED BY <2>3, <3>1, <4>1
    <3> QED BY <3>2
  <2>5. /\ \A t \in Symbols : ChainOwed(t)'
        /\ Owed(e.sym, e.u + 1)'
    <3>1. ASSUME NEW t \in Symbols
          PROVE  /\ ChainOwed(t)'
                 /\ \A k : e.sym = t /\ k = e.u + 1 => Owed(t, k)'
      BY <1>4, <2>1, <2>2, <2>3, <2>4, ChainTaken
    <3> QED BY <2>3, <3>1
  <2>6. ASSUME NEW t \in Symbols \ {e.sym}, book'[t] = book[t], syncing'[t] = syncing[t]
        PROVE  NextOwed(t)'
    <3>1. \A k \in UpdateId : Waiting(t, k) => Waiting(t, k)'
      BY <1>5, <2>1, <2>2, <2>6, StillWaiting
    <3>2. Keeps(t)
      BY <2>2, <2>4, <3>1 DEF Keeps
    <3> QED BY <2>3, <2>6, <3>2, NextStays
  <2>7. book[e.sym].last \in Int /\ book[e.sym].last # NoId /\ Owed(e.sym, book[e.sym].last + 1)
    <3>1. book[e.sym] \in Book
      BY <2>3 DEF TypeOK
    <3>2. book[e.sym].last \in UpdateId \cup {NoId, 0}
      BY <3>1 DEF Book
    <3> QED BY <2>3, <3>2, MaxUpdateAssumption DEF UpdateId, NoId, NextOwed
  <2>8. CASE Ignore(e)
    <3>1. book' = book /\ syncing' = syncing /\ missed' = missed /\ pc' = pc
      BY <2>8 DEF Ignore
    <3>0. PICK k : k = book[e.sym].last + 1
      OBVIOUS
    <3>2. k \in Int /\ (e.u <= book[e.sym].last \/ k \in missed[e.sym])
      <4>1. e.u <= book[e.sym].last \/ ~Bridges(book[e.sym], e)
        BY <2>7, <2>8 DEF Ignore, FuturesIgnores
      <4>2. book[e.sym].last < e.u => e.U <= k \/ k \in missed[e.sym]
        BY <1>4, <2>1, <2>3, <3>0, HeadContinues
      <4> QED BY <2>3, <2>7, <3>0, <4>1, <4>2 DEF Bridges
    <3>3. Waiting(e.sym, k) /\ k \notin missed[e.sym] => Waiting(e.sym, k)'
      <4>1. k \notin missed[e.sym] => ~(k <= e.u)
        BY <2>3, <2>7, <3>0, <3>2
      <4> QED BY <2>1, <2>2, <2>3, <3>2, <4>1, StillWaiting
    <3>4. Owed(e.sym, k)'
      BY <2>2, <2>7, <3>0, <3>1, <3>3 DEF Owed
    <3>5. NextOwed(e.sym)'
      BY <2>3, <2>7, <3>0, <3>1, <3>4 DEF NextOwed
    <3> QED BY <2>2, <2>5, <2>6, <3>1, <3>5
  <2>9. CASE Apply(e)
    <3>1. /\ syncing' = syncing /\ pc' = pc /\ book'[e.sym].last = e.u
          /\ \A t \in Symbols \ {e.sym} : book'[t] = book[t]
      BY <2>3, <2>9 DEF Apply, Applied, TypeOK
    <3>2. NextOwed(e.sym)'
      BY <2>3, <2>5, <3>1 DEF NextOwed
    <3> QED BY <2>2, <2>5, <2>6, <3>1, <3>2
  <2>10. CASE Gap(e)
    <3>1. /\ syncing'[e.sym] = head[e.sym] /\ pc' = "resync"
          /\ missed'[e.sym] = missed[e.sym] \cup Passed(e.sym, queue')
          /\ \A t \in Symbols \ {e.sym} : book'[t] = book[t] /\ syncing'[t] = syncing[t]
      BY <2>3, <2>10 DEF Gap, TypeOK
    <3>2. \A i \in DOMAIN queue' : queue'[i].U \in Int /\ queue'[i].u \in Int
      BY <1>5, <2>1, <2>2, TakenQueue
    <3>3. \A k \in Nat \ {0} : Owed(e.sym, k)'
      BY <1>5, <2>2, <2>3, <3>1, <3>2, AllOwed
    <3>4. NextOwed(e.sym)'
      BY <2>3, <3>1, <3>3, MaxUpdateAssumption DEF NextOwed, TypeOK, Idle
    <3> QED BY <2>5, <2>6, <3>1, <3>4
  <2> QED BY <2>2, <2>8, <2>9, <2>10
<1>11. CASE Heartbeat \/ LoseSocket \/ UNCHANGED vars
  BY <1>2, <1>8, <1>11 DEF Heartbeat, LoseSocket, vars
<1>12. ASSUME NEW s \in Symbols, Trade(s) \/ EmitFeature(s) PROVE Settled
  BY <1>2, <1>8, <1>12 DEF Trade, EmitFeature
<1>13. ASSUME NEW s \in Symbols, Send(s), pc' = pc, wsOpen,
              \A t \in Symbols \ {s} : missed'[t] = missed[t],
              \A t \in Symbols : \A k \in UpdateId : Waiting(t, k) => Waiting(t, k)',
              missed[s] \subseteq missed'[s],
              \A k \in UpdateId : sent[s] < k /\ k <= head[s] =>
                                     Waiting(s, k)' \/ k \in missed'[s],
              \A i \in DOMAIN queue' : \/ i \in DOMAIN queue /\ queue'[i] = queue[i]
                                       \/ queue'[i].sym = s /\ queue'[i].u = head[s]
       PROVE  Settled
  <2>1. /\ sent'[s] = head[s] /\ syncing' = syncing /\ book' = book
        /\ \A t \in Symbols \ {s} : sent'[t] = sent[t]
    BY <1>13 DEF Send, TypeOK
  <2>2. \A t \in Symbols : \A k \in Nat \ {0} : Owed(t, k) => Owed(t, k)'
    <3>1. ASSUME NEW k \in Nat \ {0}, Owed(s, k) PROVE Owed(s, k)'
      BY <1>13, <2>1, <3>1, SendOwes
    <3>2. ASSUME NEW t \in Symbols \ {s}, NEW k \in Nat \ {0}, Owed(t, k) PROVE Owed(t, k)'
      <4>1. Keeps(t)
        BY <1>13, <2>1, <3>2 DEF Keeps
      <4> QED BY <3>2, <4>1, OwedStays
    <3> QED BY <3>1, <3>2
  <2>3. ASSUME NEW t \in Symbols PROVE NextOwed(t)'
    <3>1. CASE syncing[t] # Idle
      BY <1>3, <1>13, <2>1, <2>2, <2>3, <3>1 DEF NextOwed
    <3>2. CASE syncing[t] = Idle
      <4>1. book[t].last # NoId /\ Owed(t, book[t].last + 1)
            /\ book[t].last + 1 \in Nat \ {0}
        BY <1>3, <1>13, <3>2, Successors DEF NextOwed
      <4>2. ASSUME NEW k, k = book[t].last + 1 PROVE Owed(t, k)'
        BY <2>2, <4>1, <4>2
      <4> QED BY <2>1, <3>2, <4>1, <4>2 DEF NextOwed, Owed, Waiting
    <3> QED BY <3>1, <3>2
  <2>4. ASSUME NEW t \in Symbols PROVE ChainOwed(t)'
    <3>1. ASSUME NEW i \in DOMAIN queue', queue'[i].sym = t, NEW k, k = queue'[i].u + 1
          PROVE  Owed(t, k)'
      <4>1. CASE i \in DOMAIN queue /\ queue'[i] = queue[i]
        <5>1. Owed(t, k) /\ k \in Nat \ {0}
          BY <1>3, <1>13, <3>1, <4>1, Successors DEF ChainOwed
        <5> QED BY <2>2, <5>1
      <4>2. CASE queue'[i].sym = s /\ queue'[i].u = head[s]
        <5>1. t = s /\ sent'[t] = head[s] /\ head[s] \in Int
          BY <2>1, <3>1, <4>2, MaxUpdateAssumption DEF TypeOK
        <5>2. ~(k <= sent'[t])
          BY <3>1, <4>2, <5>1
        <5> QED BY <5>2 DEF Owed
      <4> QED BY <1>13, <3>1, <4>1, <4>2
    <3> QED BY <3>1 DEF ChainOwed, Owed, Waiting
  <2> QED BY <1>3, <1>13, <2>3, <2>4
<1>14. ASSUME NEW s \in Symbols, Skip(s) PROVE Settled
  <2>1. /\ Send(s) /\ pc' = pc /\ wsOpen /\ queue' = queue
        /\ missed'[s] = missed[s] \cup (sent[s] + 1)..head[s]
        /\ \A t \in Symbols \ {s} : missed'[t] = missed[t]
    BY <1>14 DEF Skip, Send, TypeOK
  <2>2. \A k \in UpdateId : sent[s] < k /\ k <= head[s] => k \in missed'[s]
    BY <2>1, MaxUpdateAssumption DEF TypeOK, UpdateId
  <2> QED BY <1>13, <2>1, <2>2 DEF Waiting
<1>15. ASSUME NEW s \in Symbols, Emit(s) PROVE Settled
  <2> DEFINE e == [sym |-> s, pu |-> sent[s], U |-> sent[s] + 1, u |-> head[s], at |-> clock + 1]
  <2>1. e \in Event /\ e.sym = s /\ e.U = sent[s] + 1 /\ e.u = head[s]
    BY <1>15, MaxUpdateAssumption DEF Emit, Send, Event, TypeOK, UpdateId
  <2>2. Send(s) /\ pc' = pc /\ wsOpen
    BY <1>2, <1>15 DEF Emit, Send
  <2>3. Receive(e)
    BY <1>15, <2>2 DEF Emit
  <2> HIDE DEF e
  <2>4. \A k \in UpdateId : sent[s] < k /\ k <= head[s] => k \in Int /\ e.U <= k /\ k <= e.u
    BY <2>1, MaxUpdateAssumption DEF TypeOK, UpdateId
  <2>5. CASE Len(queue) < QueueSize
    <3>1. queue' = Append(queue, e) /\ missed' = missed
      BY <2>3, <2>5 DEF Receive
    <3>2. /\ DOMAIN queue = 1..Len(queue) /\ Len(queue) \in Nat
          /\ DOMAIN queue' = 1..(Len(queue) + 1) /\ queue'[Len(queue) + 1] = e
          /\ \A i \in 1..Len(queue) : queue'[i] = queue[i]
      BY <2>1, <3>1, AppendedQueue
    <3>3. /\ \A i \in DOMAIN queue : i \in DOMAIN queue'
          /\ Len(queue) + 1 \in DOMAIN queue'
          /\ \A i \in DOMAIN queue' : i \in DOMAIN queue \/ i = Len(queue) + 1
      BY <3>2
    <3>4. \A t \in Symbols : \A k \in UpdateId : Waiting(t, k) => Waiting(t, k)'
      BY <3>2, <3>3 DEF Waiting
    <3>5. \A k \in UpdateId : sent[s] < k /\ k <= head[s] => Waiting(s, k)'
      BY <2>1, <2>4, <3>2, <3>3 DEF Waiting
    <3>6. \A i \in DOMAIN queue' : \/ i \in DOMAIN queue /\ queue'[i] = queue[i]
                                   \/ queue'[i].sym = s /\ queue'[i].u = head[s]
      BY <2>1, <3>2, <3>3
    <3> QED BY <1>13, <2>2, <3>1, <3>4, <3>5, <3>6
  <2>6. CASE ~(Len(queue) < QueueSize)
    <3>1. queue' = queue /\ missed' = [missed EXCEPT ![e.sym] = @ \cup e.U..e.u]
      BY <2>3, <2>6 DEF Receive
    <3>2. /\ missed'[s] = missed[s] \cup e.U..e.u
          /\ \A t \in Symbols \ {s} : missed'[t] = missed[t]
      BY <2>1, <3>1 DEF TypeOK
    <3>3. \A k \in UpdateId : sent[s] < k /\ k <= head[s] => k \in missed'[s]
      BY <1>5, <2>1, <2>4, <3>2, MaxUpdateAssumption DEF TypeOK
    <3> QED BY <1>13, <2>2, <3>1, <3>2, <3>3 DEF Waiting
  <2> QED BY <2>5, <2>6
<1> QED BY <1>9, <1>10, <1>11, <1>12, <1>14, <1>15 DEF Next

\* A drained connection leaves a book behind only if the update it needs was lost,
\* refused, or had passed before its snapshot was requested.
THEOREM DrainedBooks == Spec => []DrainedBooksAreCurrent
<1>1. Init => CurrentInv
  BY MaxUpdateAssumption DEF Init, CurrentInv, Control, Numbered, Idle, Queued
<1>2. TypeOK /\ TypeOK' /\ BookInv /\ CurrentInv /\ [Next]_vars => CurrentInv'
  BY CurrentStep
<1>3. TypeOK /\ CurrentInv => DrainedBooksAreCurrent
  <2> SUFFICES ASSUME TypeOK, CurrentInv, Drained, NEW s \in Symbols, book[s].last < sent[s]
               PROVE  book[s].last + 1 \in missed[s]
    BY DEF DrainedBooksAreCurrent
  <2>1. syncing[s] = Idle /\ NextOwed(s) /\ queue = <<>>
    BY DEF Drained, CurrentInv, Control
  <2>2. ~Waiting(s, book[s].last + 1)
    BY <2>1 DEF Waiting
  <2>3. book[s].last \in Int /\ sent[s] \in Int
    BY MaxUpdateAssumption DEF TypeOK, Book, UpdateId, NoId
  <2> QED BY <2>1, <2>2, <2>3 DEF NextOwed, Owed
<1> QED
  BY <1>1, <1>2, <1>3, TypeCorrect, BooksInvariant, PTL DEF Spec

=============================================================================
