--------------------------- MODULE LocalOrderBook ---------------------------
(***************************************************************************)
(* The in-memory order book of one symbol (live/book.py) and the exchange's *)
(* diff-depth numbering it follows.                                         *)
(*                                                                          *)
(* The exchange numbers the updates of a symbol 1, 2, 3, ...; update i sets *)
(* the quantity of one price level, LevelOf[i].  A depth event covers the   *)
(* updates U..u and carries, for every level they touch, the quantity after *)
(* update u.  A book shows, for a level, the number of the update whose     *)
(* quantity it holds (0: none), which stands for the quantity itself.       *)
(***************************************************************************)
EXTENDS Integers, FiniteSetsExt

CONSTANTS
    Levels,     \* price levels
    MaxUpdate,  \* bound: the last update the exchange makes to a symbol
    LevelOf     \* the level each update sets

ASSUME MaxUpdateAssumption == MaxUpdate \in Nat
ASSUME LevelOfAssumption == LevelOf \in [1..MaxUpdate -> Levels]

NoId == -1      \* last_update_id is None

UpdateId == 1..MaxUpdate
Quality == {"SYNCING", "HEALTHY", "SEQUENCE_GAP", "UNTRUSTED", "RESYNCING"}
Book == [last : UpdateId \cup {NoId, 0}, quality : Quality,
         levels : [Levels -> UpdateId \cup {0}]]

-----------------------------------------------------------------------------
(* The exchange's own book *)

Touching(l, n) == {i \in 1..n : LevelOf[i] = l}

LastTouch(l, n) == Max(Touching(l, n) \cup {0})

\* What the exchange's book shows after update n: also the body of a REST
\* snapshot whose lastUpdateId is n.  The request asks for depth_levels levels
\* (recorder.py:143): there are no more of them here.
BookAt(n) == [l \in Levels |-> LastTouch(l, n)]

\* An event as the exchange builds it: it continues the event that ended at pu.
WellFormed(e) == /\ e.pu \in 0..MaxUpdate /\ e.U = e.pu + 1
                 /\ e.u \in UpdateId /\ e.U <= e.u

-----------------------------------------------------------------------------
(* LocalOrderBook *)

NewBook == [last |-> NoId, quality |-> "SYNCING", levels |-> BookAt(0)]

ResetBook == [last |-> NoId, quality |-> "RESYNCING", levels |-> BookAt(0)]

SnapshotBook(n) == [last |-> n, quality |-> "SYNCING", levels |-> BookAt(n)]

\* _apply_side on both sides: the levels the event touches take its quantities.
ApplyLevels(levels, e) ==
    [l \in Levels |-> IF \E i \in e.U..e.u : LevelOf[i] = l
                      THEN LastTouch(l, e.u) ELSE levels[l]]

Syncing(b) == b.quality \in {"SYNCING", "RESYNCING"}

\* Slips: any later event bridges; an event that starts right after the
\* snapshot does not.
BridgesAnyLater(b, e) == b.last + 1 <= e.u
BridgesStrict(b, e) == e.U <= b.last /\ b.last + 1 <= e.u

\* The first event after a snapshot must span the snapshot's last update.
Bridges(b, e) == e.U <= b.last + 1 /\ b.last + 1 <= e.u

\* apply_futures_delta returns applied=False: NO_SNAPSHOT, STALE, WAITING_BRIDGE.
FuturesIgnores(b, e) == \/ b.last = NoId
                        \/ e.u <= b.last
                        \/ Syncing(b) /\ ~Bridges(b, e)

\* Slip: pu is not compared.
FuturesGapNever(b, e) == FALSE

\* apply_futures_delta raises SequenceGap.
FuturesGap(b, e) == /\ ~FuturesIgnores(b, e)
                    /\ ~Syncing(b)
                    /\ e.pu # b.last

Accepts(b, e) == ~FuturesIgnores(b, e) /\ ~FuturesGap(b, e)

Applied(b, e) == [last |-> e.u, quality |-> "HEALTHY",
                  levels |-> ApplyLevels(b.levels, e)]

\* apply_spot_delta: one continuity test, with or without a fresh snapshot.
SpotIgnores(b, e) == b.last = NoId \/ e.u <= b.last

SpotGap(b, e) == ~SpotIgnores(b, e) /\ e.U > b.last + 1

-----------------------------------------------------------------------------
(* Correctness of one book *)

\* The levels are exactly the exchange's levels at the book's update number.
Faithful(b) == b.last # NoId => b.levels = BookAt(b.last)

\* Only a book that holds a snapshot is ever called HEALTHY.
HealthyHasId(b) == b.quality = "HEALTHY" => b.last # NoId

=============================================================================
