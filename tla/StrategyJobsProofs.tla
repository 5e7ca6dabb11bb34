------------------------- MODULE StrategyJobsProofs -------------------------
(* Proofs about StrategyVersions and StrategyJobs, for any ids, definitions,  *)
(* strategies, markets, jobs and request threads: a published version carries *)
(* the digest of its definition and stays as it is, unless an edit was in     *)
(* flight while it was published; a job ran what the store still has; and its *)
(* winner dominates.                                                          *)
EXTENDS StrategyJobs, TotalsProofs, FiniteSetTheorems, SequenceTheorems

(* What a publication read is still in the row when it writes, edits are only *)
(* in flight on drafts, and never beside a publication.                       *)
Steady(v) ==
    /\ \A h \in Handlers : handling[h].op = "publish" /\ handling[h].id = v =>
          /\ rows[v].status \in {"draft", "published"}
          /\ handling[h].definition = rows[v].definition
    /\ \A h \in Handlers : handling[h].op = "update" /\ handling[h].id = v =>
          rows[v].status = "draft" /\ ~InFlight(v, "publish")
    /\ Published(v) => rows[v].hash = rows[v].definition /\ rows[v].definition \in Valid

IInv == StoreOK /\ \A v \in Versions \ overlap : Steady(v)
-----------------------------------------------------------------------------
(* A request in flight names a version, with a definition of its kind.        *)
LEMMA RequestTypes ==
    ASSUME StoreOK, NEW h \in Handlers
    PROVE  /\ handling[h] \in Request
           /\ handling[h].op \in {"update", "publish", "idle"}
           /\ handling[h].op # "idle" => handling[h].id \in Versions
           /\ handling[h].op = "update" => handling[h].definition \in Definitions
           /\ handling[h].op = "publish" => handling[h].definition \in Valid
BY DEF StoreOK, Request, Idle

(* The initial states satisfy the invariant.                                  *)
LEMMA InitIInv == InitStore => IInv
BY ValidAssumption DEF InitStore, IInv, StoreOK, Steady, Row, Request, Idle, NoRow, InFlight, Published

(* Every step keeps the types.                                                *)
LEMMA StoreOKStep == ASSUME StoreOK, [StoreNext]_storeVars PROVE StoreOK'
<1> USE DEF StoreOK
<1>1. ASSUME NEW v \in Versions, NEW d \in Definitions, CreateDraft(v, d) PROVE StoreOK'
  BY <1>1 DEF CreateDraft, NoRow, Row
<1>2. ASSUME NEW h \in Handlers, NEW v \in Versions, NEW d \in Definitions, UpdateRead(h, v, d)
      PROVE  StoreOK'
  BY <1>2 DEF UpdateRead, Request
<1>3. ASSUME NEW h \in Handlers, NEW v \in Versions, PublishRead(h, v) PROVE StoreOK'
  BY <1>3 DEF PublishRead, Request
<1>4. ASSUME NEW h \in Handlers, UpdateWrite(h) PROVE StoreOK'
  <2>1. handling[h].id \in Versions /\ handling[h].definition \in Definitions
    BY <1>4, RequestTypes DEF UpdateWrite
  <2> QED BY <1>4, <2>1 DEF UpdateWrite, Row, Request
<1>5. ASSUME NEW h \in Handlers, PublishWrite(h) PROVE StoreOK'
  <2>1. handling[h].id \in Versions /\ handling[h].definition \in Valid
    BY <1>5, RequestTypes DEF PublishWrite
  <2> QED BY <1>5, <2>1 DEF PublishWrite, Row, Request
<1>6. ASSUME NEW v \in Versions, Archive(v) PROVE StoreOK'
  BY <1>6 DEF Archive, Row
<1>7. ASSUME UNCHANGED storeVars PROVE StoreOK'
  BY <1>7 DEF storeVars
<1> QED BY <1>1, <1>2, <1>3, <1>4, <1>5, <1>6, <1>7 DEF StoreNext

(* Every step keeps the rest of the invariant.                                *)
LEMMA SteadyStep ==
    ASSUME IInv, [StoreNext]_storeVars, NEW w \in Versions, w \notin overlap'
    PROVE  Steady(w)'
<1> USE DEF Steady, InFlight, Published
<1>0. /\ StoreOK /\ rows \in [Versions -> Row] /\ handling \in [Handlers -> Request]
      /\ w \notin overlap => Steady(w)
  BY DEF IInv, StoreOK
<1>1. ASSUME NEW v \in Versions, NEW d \in Definitions, CreateDraft(v, d) PROVE Steady(w)'
  <2>1. handling' = handling /\ overlap' = overlap /\ rows[v].status = "absent"
    BY <1>1 DEF CreateDraft, NoRow
  <2>2. w # v => rows'[w] = rows[w]
    BY <1>0, <1>1 DEF CreateDraft
  <2>3. w = v => rows'[w].status = "draft"
    BY <1>0, <1>1 DEF CreateDraft, NoRow
  <2> QED BY <1>0, <2>1, <2>2, <2>3
<1>2. ASSUME NEW h \in Handlers, NEW v \in Versions, NEW d \in Definitions, UpdateRead(h, v, d)
      PROVE  Steady(w)'
  <2>1. /\ rows' = rows /\ w \notin overlap /\ rows[v].status = "draft"
        /\ w = v => ~InFlight(v, "publish")
    BY <1>2 DEF UpdateRead
  <2>2. /\ handling'[h] = [op |-> "update", id |-> v, definition |-> d]
        /\ \A k \in Handlers : k # h => handling'[k] = handling[k]
    BY <1>0, <1>2 DEF UpdateRead
  <2>3. \A k \in Handlers : handling'[k].op = "publish" =>
            handling'[k] = handling[k]
    BY <2>2
  <2> QED BY <1>0, <2>1, <2>2, <2>3
<1>3. ASSUME NEW h \in Handlers, NEW v \in Versions, PublishRead(h, v) PROVE Steady(w)'
  <2>1. /\ rows' = rows /\ w \notin overlap /\ rows[v].status = "draft"
        /\ w = v => ~InFlight(v, "update")
    BY <1>3 DEF PublishRead
  <2>2. /\ handling'[h] = [op |-> "publish", id |-> v, definition |-> rows[v].definition]
        /\ \A k \in Handlers : k # h => handling'[k] = handling[k]
    BY <1>0, <1>3 DEF PublishRead
  <2> QED BY <1>0, <2>1, <2>2
<1>4. ASSUME NEW h \in Handlers, UpdateWrite(h) PROVE Steady(w)'
  <2> DEFINE v == handling[h].id
  <2>1. overlap' = overlap /\ v \in Versions /\ handling[h].op = "update"
    BY <1>0, <1>4, RequestTypes DEF UpdateWrite
  <2>2. handling'[h] = Idle /\ \A k \in Handlers : k # h => handling'[k] = handling[k]
    BY <1>0, <1>4 DEF UpdateWrite
  <2>3. /\ w # v => rows'[w] = rows[w]
        /\ rows'[v].status = rows[v].status /\ rows'[v].hash = rows[v].hash
    BY <1>0, <1>4, <2>1 DEF UpdateWrite, Row
  <2>4. \A k \in Handlers : handling'[k].op # "idle" => handling'[k] = handling[k]
    BY <2>2 DEF Idle
  <2>5. handling'[h].op = "idle"
    BY <2>2 DEF Idle
  <2> QED BY <1>0, <2>1, <2>2, <2>3, <2>4, <2>5
<1>5. ASSUME NEW h \in Handlers, PublishWrite(h) PROVE Steady(w)'
  <2> DEFINE v == handling[h].id
  <2>1. /\ overlap' = overlap /\ v \in Versions /\ handling[h].op = "publish"
        /\ handling[h].definition \in Valid
    BY <1>0, <1>5, RequestTypes DEF PublishWrite
  <2>2. handling'[h] = Idle /\ \A k \in Handlers : k # h => handling'[k] = handling[k]
    BY <1>0, <1>5 DEF PublishWrite
  <2>3. /\ w # v => rows'[w] = rows[w]
        /\ rows'[v].status = "published" /\ rows'[v].hash = handling[h].definition
        /\ rows'[v].definition = rows[v].definition
    BY <1>0, <1>5, <2>1 DEF PublishWrite, Row
  <2>4. handling'[h].op = "idle"
    BY <2>2 DEF Idle
  <2>5. \A k \in Handlers : handling'[k].op # "idle" => handling'[k] = handling[k]
    BY <2>2, <2>4
  <2> QED BY <1>0, <2>1, <2>2, <2>3, <2>4, <2>5
<1>6. ASSUME NEW v \in Versions, Archive(v) PROVE Steady(w)'
  <2>1. handling' = handling /\ overlap' = overlap
    BY <1>6 DEF Archive
  <2>2. /\ rows'[w].status = rows[w].status /\ rows'[w].hash = rows[w].hash
        /\ rows'[w].definition = rows[w].definition
    BY <1>0, <1>6 DEF Archive, Row
  <2> QED BY <1>0, <2>1, <2>2
<1>7. ASSUME UNCHANGED storeVars PROVE Steady(w)'
  BY <1>0, <1>7 DEF storeVars
<1> QED BY <1>1, <1>2, <1>3, <1>4, <1>5, <1>6, <1>7 DEF StoreNext

(* The invariant holds throughout.                                            *)
THEOREM StoreInvariant == StoreSpec => []IInv
<1>1. IInv /\ [StoreNext]_storeVars => IInv'
  <2> SUFFICES ASSUME IInv, [StoreNext]_storeVars PROVE IInv'
    OBVIOUS
  <2>1. StoreOK'
    BY StoreOKStep DEF IInv
  <2>2. \A w \in Versions : w \notin overlap' => Steady(w)'
    BY SteadyStep
  <2> QED BY <2>1, <2>2 DEF IInv
<1> QED BY InitIInv, <1>1, PTL DEF StoreSpec

(* A published version carries the digest of its own, valid definition, for   *)
(* any number of requests: the update and publish endpoints.                  *)
THEOREM DigestsMatch == StoreSpec => []HashIsOfDefinition
<1>1. IInv => HashIsOfDefinition
  BY DEF IInv, Steady, HashIsOfDefinition, Published
<1> QED BY StoreInvariant, <1>1, PTL

(* No request changes a published definition, its digest or its revision,     *)
(* unless an edit was in flight when it was published.                        *)
LEMMA PublishedKept ==
    ASSUME IInv, StoreNext, NEW v \in Versions, Published(v), v \notin overlap
    PROVE  [rows[v] EXCEPT !.archived = TRUE] = [rows'[v] EXCEPT !.archived = TRUE]
<1>0. /\ StoreOK /\ Steady(v) /\ rows \in [Versions -> Row] /\ rows[v] \in Row
      /\ rows[v].status = "published"
  BY DEF IInv, StoreOK, Published
<1>1. ASSUME NEW w \in Versions, NEW d \in Definitions, CreateDraft(w, d) PROVE rows'[v] = rows[v]
  BY <1>0, <1>1 DEF CreateDraft, NoRow
<1>2. ASSUME NEW h \in Handlers, UpdateWrite(h) PROVE rows'[v] = rows[v]
  <2>1. handling[h].id # v
    BY <1>0, <1>2 DEF UpdateWrite, Steady
  <2> QED BY <1>0, <1>2, <2>1 DEF UpdateWrite
<1>3. ASSUME NEW h \in Handlers, PublishWrite(h) PROVE rows'[v] = rows[v]
  <2>1. handling[h].id = v => handling[h].definition = rows[v].hash
    BY <1>0, <1>3 DEF PublishWrite, Steady, Published
  <2>2. handling[h].id = v => rows'[v] = rows[v]
    BY <1>0, <1>3, <2>1 DEF PublishWrite, Row
  <2> QED BY <1>0, <1>3, <2>2 DEF PublishWrite
<1>4. ASSUME NEW w \in Versions, Archive(w)
      PROVE  [rows[v] EXCEPT !.archived = TRUE] = [rows'[v] EXCEPT !.archived = TRUE]
  BY <1>0, <1>4 DEF Archive, Row
<1>5. ASSUME rows' = rows PROVE rows'[v] = rows[v]
  BY <1>5
<1>6. \/ \E w \in Versions, d \in Definitions : CreateDraft(w, d)
      \/ \E h \in Handlers : UpdateWrite(h)
      \/ \E h \in Handlers : PublishWrite(h)
      \/ \E w \in Versions : Archive(w)
      \/ rows' = rows
  BY DEF StoreNext, UpdateRead, PublishRead
<1> QED BY <1>1, <1>2, <1>3, <1>4, <1>5, <1>6

(* The property of the same name.                                             *)
THEOREM PublishedStays == StoreSpec => PublishedFixed
<1> DEFINE Kept == \A v \in Versions : Published(v) /\ v \notin overlap =>
        [rows[v] EXCEPT !.archived = TRUE] = [rows'[v] EXCEPT !.archived = TRUE]
<1>1. IInv /\ [StoreNext]_storeVars => [Kept]_storeVars
  BY PublishedKept DEF storeVars
<1> QED BY StoreInvariant, <1>1, PTL DEF StoreSpec, PublishedFixed

-----------------------------------------------------------------------------
(* What the rule interpreter answers                                          *)

(* Picking from numbers gives a number.                                       *)
LEMMA PickedNumber ==
    ASSUME NEW w \in Seq(Int), NEW S
    PROVE  Picked(w, S) \in Int
<1> DEFINE u == [i \in DOMAIN w |-> IF i \in S THEN w[i] ELSE 0]
<1>1. Len(w) \in Nat /\ \A i \in 1..Len(w) : u[i] \in Int
  OBVIOUS
<1> HIDE DEF u
<1>2. \A m \in 0..Len(w) : Total(u, m) \in Int
  BY <1>1, TotalSteps
<1> QED BY <1>1, <1>2 DEF Picked, u

Items == [when : Nodes, weight : Int, family : STRING]

LEMMA WeightNumber ==
    ASSUME NEW side, side.score \in Seq(Items), NEW S
    PROVE  Weight(side, S) \in Int
<1>1. /\ Len(side.score) \in Nat /\ DOMAIN side.score = 1..Len(side.score)
      /\ \A i \in 1..Len(side.score) : side.score[i] \in Items
  OBVIOUS
<1>2. [i \in DOMAIN side.score |-> side.score[i].weight] \in [1..Len(side.score) -> Int]
  BY <1>1 DEF Items
<1>3. [i \in DOMAIN side.score |-> side.score[i].weight] \in Seq(Int)
  BY <1>1, <1>2, SeqDef
<1> QED BY <1>3, PickedNumber DEF Weight

LEMMA ClampRange == \A x \in Int : Clamp(x) \in 0..100
BY DEF Clamp

(* The mean over the active families divides by at least one.                 *)
LEMMA EvidenceRange ==
    ASSUME NEW side, side.score \in Seq(Items), NEW row
    PROVE  Evidence(side, row) \in 0..100
<1> DEFINE M == Matched(side, row)
           family == [i \in DOMAIN side.score |->
                        Abs(Weight(side, {j \in M : side.score[j].family = side.score[i].family}))]
           active == {i \in M : /\ family[i] >= 20
                                /\ \A j \in M : side.score[j].family = side.score[i].family => i <= j}
<1>1. family \in Seq(Int)
  <2>1. \A S : Abs(Weight(side, S)) \in Int
    BY WeightNumber DEF Abs
  <2>2. DOMAIN side.score = 1..Len(side.score) /\ Len(side.score) \in Nat
    OBVIOUS
  <2>3. \A i \in 1..Len(side.score) : family[i] \in Int
    BY <2>1, <2>2
  <2> HIDE DEF family
  <2>4. family = [i \in 1..Len(side.score) |-> family[i]]
    BY <2>2 DEF family
  <2>5. family \in [1..Len(side.score) -> Int]
    BY <2>3, <2>4
  <2> QED BY <2>2, <2>5, SeqDef
<1>2. Picked(family, active) \in Int
  <2> HIDE DEF family, active
  <2> QED BY <1>1, PickedNumber
<1>3. IsFiniteSet(active)
  <2>1. active \subseteq 1..Len(side.score)
    BY DEF Matched
  <2>2. IsFiniteSet(1..Len(side.score))
    BY FS_Interval
  <2> QED BY <2>1, <2>2, FS_Subset
<1>4. CASE active = {}
  <2>1. Evidence(side, row) = 0
    BY <1>4 DEF Evidence
  <2> QED BY <2>1
<1>5. CASE active # {}
  <2> HIDE DEF active, family
  <2>1. Cardinality(active) \in Nat /\ Cardinality(active) # 0
    BY <1>3, <1>5, FS_CardinalityType, FS_EmptySet
  <2>2. Picked(family, active) \div Cardinality(active) \in Int
    BY <1>2, <2>1
  <2>3. Evidence(side, row) = Clamp(Picked(family, active) \div Cardinality(active))
    BY <1>5 DEF Evidence, active, family
  <2> QED BY <2>2, <2>3, ClampRange
<1> QED BY <1>4, <1>5

(* A published definition answers with a score and evidence from 0 to 100.    *)
LEMMA ResultTyped ==
    ASSUME NEW s \in STRING, NEW d \in Valid, NEW direction \in {LONG, SHORT}, NEW row, NEW mode
    PROVE  /\ Result(s, d, direction, row, mode) \in StrategyResult
           /\ Result(s, d, direction, row, mode).direction = direction
<1> DEFINE side == SideOf(d, direction)
<1>1. {side.base, side.target, side.urgency} \subseteq Int /\ side.score \in Seq(Items)
  BY AnswerAssumption DEF SideOf, Items
<1> HIDE DEF side
<1>2. Clamp(side.base + Weight(side, Matched(side, row))) \in 0..100
  <2>1. Weight(side, Matched(side, row)) \in Int
    BY <1>1, WeightNumber
  <2>2. side.base + Weight(side, Matched(side, row)) \in Int
    BY <1>1, <2>1
  <2> QED BY <2>2, ClampRange
<1>3. Evidence(side, row) \in 0..100
  BY <1>1, EvidenceRange
<1> DEFINE eligible == /\ Evaluate(side.conditions, row, NoPrevious)
                       /\ \A f \in SideFields(side) \cup {side.anchor, "close"} : row[f] # None
                       /\ mode >= Tier(d)
           score == Clamp(side.base + Weight(side, Matched(side, row)))
           evidence == Evidence(side, row)
<1>4. Result(s, d, direction, row, mode) =
        [strategy |-> s, direction |-> direction, eligible |-> eligible, score |-> score,
         evidence |-> evidence, expected |-> side.target, urgency |-> side.urgency]
  BY DEF Result, side
<1>5. eligible \in BOOLEAN
  OBVIOUS
<1> HIDE DEF eligible, score, evidence
<1>6. score \in 0..100 /\ evidence \in 0..100
  BY <1>2, <1>3 DEF score, evidence
<1> QED BY <1>1, <1>4, <1>5, <1>6 DEF StrategyResult

-----------------------------------------------------------------------------
(* What the decision engine makes of the results                              *)

EligibleOf(results, direction) ==
    {i \in DOMAIN results : results[i].eligible /\ results[i].direction = direction}

(* Of the eligible results of a direction, if there are any, the engine takes *)
(* one that none of them beats.                                               *)
LEMMA BestIsBest ==
    ASSUME NEW results \in Seq(StrategyResult), NEW direction
    PROVE  LET best == Best(results, direction)
               S == EligibleOf(results, direction)
           IN /\ S = {} => best = NoWinner
              /\ S # {} => best \in S /\ best # NoWinner
              /\ \A i \in S : results[i].score <= results[best].score
<1> DEFINE S == EligibleOf(results, direction)
           top == {i \in S : \A j \in S : results[j].score <= results[i].score}
<1>1. /\ Len(results) \in Nat /\ DOMAIN results = 1..Len(results)
      /\ \A i \in 1..Len(results) : results[i].score \in 0..100
  <2>1. \A i \in 1..Len(results) : results[i] \in StrategyResult
    OBVIOUS
  <2> QED BY <2>1 DEF StrategyResult
<1>2. S \subseteq 1..Len(results)
  BY <1>1 DEF EligibleOf
<1>3. Best(results, direction) = IF S = {} THEN NoWinner ELSE Min(top)
  BY DEF Best, EligibleOf
<1> HIDE DEF S
<1>4. CASE S = {}
  BY <1>3, <1>4 DEF S
<1>5. CASE S # {}
  <2> DEFINE below == {100 - results[i].score : i \in S}
  <2>0. \A i \in S : /\ results[i].score \in Int /\ 0 <= results[i].score /\ results[i].score <= 100
                     /\ 100 - results[i].score \in Nat
    <3>1. \A x \in 0..100 : x \in Int /\ 0 <= x /\ x <= 100 /\ 100 - x \in Nat
      OBVIOUS
    <3>2. \A i \in S : results[i].score \in 0..100
      BY <1>1, <1>2
    <3> QED BY <3>1, <3>2, Zenon
  <2>1. below \in SUBSET Nat /\ below # {}
    BY <1>5, <2>0
  <2>2. Min(below) \in below /\ \A t \in below : Min(below) <= t
    BY <2>1, FirstTime
  <2>3. PICK k \in S : Min(below) = 100 - results[k].score
    BY <2>2
  <2>4. \A j \in S : results[j].score <= results[k].score
    <3> SUFFICES ASSUME NEW j \in S PROVE results[j].score <= results[k].score
      OBVIOUS
    <3>1. 100 - results[k].score <= 100 - results[j].score
      BY <2>2, <2>3
    <3>2. results[k].score \in Int /\ results[j].score \in Int
      BY <2>0
    <3> QED BY <3>1, <3>2
  <2>5. top \in SUBSET Nat /\ top # {}
    <3>1. k \in top
      BY <2>4
    <3>2. \A i \in S : i \in Nat
      BY <1>2
    <3> QED BY <3>1, <3>2, Zenon
  <2>6. Min(top) \in top
    <3> HIDE DEF top
    <3> QED BY <2>5, FirstTime
  <2>7. Min(top) \in S /\ Min(top) # NoWinner
    BY <1>2, <2>6 DEF NoWinner
  <2>8. \A i \in S : results[i].score <= results[Min(top)].score
    BY <2>6
  <2> QED BY <1>3, <1>5, <2>7, <2>8 DEF S
<1> QED BY <1>4, <1>5

(* WinnerDominates of one decision.                                           *)
Dominates(results, decision) ==
    decision.winner # NoWinner =>
        LET winner == results[decision.winner]
        IN /\ winner.eligible /\ winner.score >= MinScore /\ winner.evidence >= MinEvidence
           /\ \A i \in DOMAIN results : results[i].eligible =>
                results[i].score <= winner.score
                  - (IF results[i].direction = winner.direction THEN 0 ELSE MinSeparation)

(* The winner is one of the results, and dominates the others.                *)
LEMMA SelectedWinner ==
    ASSUME NEW results \in Seq(StrategyResult)
    PROVE  /\ Select(results).winner \in 0..Len(results)
           /\ Dominates(results, Select(results))
<1> DEFINE long == Best(results, LONG)
           short == Best(results, SHORT)
           leads == short = NoWinner \/ (long # NoWinner /\ results[long].score >= results[short].score)
           winner == IF leads THEN long ELSE short
           other == IF leads THEN short ELSE long
           decision == Select(results)
<1>1. /\ Len(results) \in Nat /\ DOMAIN results = 1..Len(results)
      /\ \A i \in 1..Len(results) : /\ results[i].direction \in {LONG, SHORT}
                                    /\ results[i].score \in 0..100
                                    /\ results[i].evidence \in 0..100
  <2>1. \A i \in 1..Len(results) : results[i] \in StrategyResult
    OBVIOUS
  <2> QED BY <2>1 DEF StrategyResult
<1>2. /\ long # NoWinner => long \in EligibleOf(results, LONG)
      /\ \A i \in EligibleOf(results, LONG) :
            long # NoWinner /\ results[i].score <= results[long].score
  BY BestIsBest
<1>3. /\ short # NoWinner => short \in EligibleOf(results, SHORT)
      /\ \A i \in EligibleOf(results, SHORT) :
            short # NoWinner /\ results[i].score <= results[short].score
  BY BestIsBest
<1>4. decision =
        IF winner = NoWinner THEN [winner |-> NoWinner, reason |-> "INSUFFICIENT_DATA"]
        ELSE IF results[winner].score < MinScore THEN [winner |-> NoWinner, reason |-> "LOW_SCORE"]
        ELSE IF results[winner].evidence < MinEvidence THEN [winner |-> NoWinner, reason |-> "LOW_EVIDENCE"]
        ELSE IF results[winner].expected < MinExpectedR THEN [winner |-> NoWinner, reason |-> "LOW_RR"]
        ELSE IF other # NoWinner /\ results[winner].score - results[other].score < MinSeparation
             THEN [winner |-> NoWinner, reason |-> "CONFLICT"]
        ELSE [winner |-> winner, reason |-> "WINNER"]
  BY DEF Select
<1>5. winner = NoWinner => long = NoWinner /\ short = NoWinner
  OBVIOUS
<1> HIDE DEF long, short, decision
<1>6. winner # NoWinner => winner \in 1..Len(results) /\ results[winner].eligible
  BY <1>1, <1>2, <1>3 DEF EligibleOf
<1>7. decision.winner \in 0..Len(results)
  <2> HIDE DEF leads, winner, other
  <2>1. winner \in 0..Len(results) /\ NoWinner \in 0..Len(results)
    BY <1>1, <1>6 DEF NoWinner
  <2>2. decision.winner \in {winner, NoWinner}
    BY <1>4
  <2> QED BY <2>1, <2>2
<1>8. ASSUME decision.winner # NoWinner PROVE Dominates(results, decision)
  <2>1. /\ decision.winner = winner /\ winner # NoWinner
        /\ ~(results[winner].score < MinScore) /\ ~(results[winner].evidence < MinEvidence)
        /\ other # NoWinner => ~(results[winner].score - results[other].score < MinSeparation)
    <3> HIDE DEF leads, winner, other
    <3> QED BY <1>4, <1>8
  <2>2. /\ winner \in 1..Len(results) /\ results[winner].eligible
        /\ results[winner].score \in 0..100 /\ results[winner].evidence \in 0..100
    BY <1>1, <1>6, <2>1
  <2>3. MinScore \in Nat /\ MinEvidence \in Nat /\ MinSeparation \in Nat
    BY ThresholdAssumption
  <2>4. results[winner].score >= MinScore /\ results[winner].evidence >= MinEvidence
    <3> HIDE DEF winner
    <3>1. \A x \in 0..100, m \in Nat : ~(x < m) => x >= m
      OBVIOUS
    <3> QED BY <2>1, <2>2, <2>3, <3>1, Zenon
  <2>5. \A i \in 1..Len(results) : results[i].eligible =>
            results[i].score <= results[winner].score
              - (IF results[i].direction = results[winner].direction THEN 0 ELSE MinSeparation)
    <3> SUFFICES ASSUME NEW i \in 1..Len(results), results[i].eligible
                 PROVE  results[i].score <= results[winner].score
              - (IF results[i].direction = results[winner].direction THEN 0 ELSE MinSeparation)
      OBVIOUS
    <3>1. /\ results[i].direction \in {LONG, SHORT} /\ results[i].score \in 0..100
          /\ i \in EligibleOf(results, results[i].direction)
      BY <1>1 DEF EligibleOf
    <3>2. /\ leads => results[winner].direction = LONG
          /\ ~leads => results[winner].direction = SHORT
      BY <1>2, <1>3, <2>1 DEF EligibleOf
    <3>3. CASE results[i].direction = results[winner].direction
      <4>1. results[i].score <= results[winner].score
        BY <1>2, <1>3, <3>1, <3>2, <3>3
      <4>2. \A x, y \in 0..100 : x <= y => x <= y - 0
        OBVIOUS
      <4>3. results[i].score <= results[winner].score - 0
        BY <2>2, <3>1, <4>1, <4>2, Zenon
      <4> QED BY <3>3, <4>3, Zenon
    <3>4. CASE results[i].direction # results[winner].direction
      <4>1. other # NoWinner /\ results[i].score <= results[other].score
        BY <1>2, <1>3, <3>1, <3>2, <3>4
      <4>2. results[other].score \in 0..100
        BY <1>1, <1>2, <1>3, <4>1 DEF EligibleOf
      <4>3. \A x, y, z \in 0..100, m \in Nat : x <= y /\ ~(z - y < m) => x <= z - m
        OBVIOUS
      <4> HIDE DEF leads, winner, other
      <4>4. results[i].score <= results[winner].score - MinSeparation
        BY <2>1, <2>2, <2>3, <3>1, <4>1, <4>2, <4>3, Zenon
      <4> QED BY <3>4, <4>4, Zenon
    <3> QED BY <3>3, <3>4
  <2> HIDE DEF winner
  <2> QED BY <1>1, <2>1, <2>2, <2>4, <2>5 DEF Dominates
<1> QED BY <1>7, <1>8 DEF Dominates, decision

-----------------------------------------------------------------------------
(* The jobs                                                                   *)

Requested == [strategy : STRING, version : Versions \cup BuiltIns]
Resolved == [strategy : STRING, id : Versions \cup BuiltIns, hash : Valid \cup {NoDefinition},
             definition : Definitions \cup {NoDefinition}]
Decisions == {NoJob.decision} \cup {Select(results) : results \in Seq(StrategyResult)}
Job == [status : JobStatus, wanted : Seq(Requested), resolved : Seq(Resolved),
        results : Seq(StrategyResult), decision : Decisions]

(* The store still has what a job looked up, and it is published.             *)
InStore(used) ==
    used.id \in Versions \ overlap =>
        /\ Published(used.id)
        /\ rows[used.id].hash = used.hash /\ rows[used.id].definition = used.definition

JobOK(job) ==
    /\ Len(job.resolved) <= Len(job.wanted)
    /\ \A i \in DOMAIN job.resolved : InStore(job.resolved[i])
    /\ job.decision.winner \in 0..Len(job.results)
    /\ Dominates(job.results, job.decision)

JInv == /\ IInv
        /\ jobs \in [Jobs -> Job]
        /\ \A j \in Jobs : JobOK(jobs[j])

(* The definitions that ran were valid, so the answers are numbers.           *)
LEMMA ResultsTyped ==
    ASSUME NEW job, job.resolved \in Seq(Resolved), NEW market, NEW builtin \in BuiltInResults,
           \A i \in DOMAIN job.resolved : job.resolved[i].definition \in Valid \cup {NoDefinition}
    PROVE  Results(job, market, builtin) \in Seq(StrategyResult)
<1> DEFINE L == Len(job.resolved)
           both(i) == IF job.resolved[i].definition = NoDefinition THEN builtin
                      ELSE [d \in {LONG, SHORT} |->
                            Result(job.resolved[i].strategy, job.resolved[i].definition, d,
                                   market.row, market.mode)]
           results == Results(job, market, builtin)
<1>1. /\ L \in Nat /\ DOMAIN job.resolved = 1..L
      /\ \A i \in 1..L : job.resolved[i].strategy \in STRING
  <2>1. L \in Nat /\ DOMAIN job.resolved = 1..L /\ \A i \in 1..L : job.resolved[i] \in Resolved
    OBVIOUS
  <2> QED BY <2>1 DEF Resolved
<1>2. \A i \in 1..L, d \in {LONG, SHORT} : both(i)[d] \in StrategyResult
  <2> SUFFICES ASSUME NEW i \in 1..L, NEW d \in {LONG, SHORT} PROVE both(i)[d] \in StrategyResult
    OBVIOUS
  <2>1. CASE job.resolved[i].definition = NoDefinition
    <3>1. builtin \in [{LONG, SHORT} -> StrategyResult]
      BY AnswerAssumption
    <3> QED BY <2>1, <3>1
  <2>2. CASE job.resolved[i].definition # NoDefinition
    <3>1. job.resolved[i].definition \in Valid
      BY <1>1, <2>2
    <3> QED BY <1>1, <2>2, <3>1, ResultTyped
  <2> QED BY <2>1, <2>2
<1>3. results = [n \in 1..2 * L |-> both((n + 1) \div 2)[IF n % 2 = 1 THEN LONG ELSE SHORT]]
  BY DEF Results
<1> HIDE DEF both, results, L
<1>4. \A n \in 1..2 * L : results[n] \in StrategyResult
  <2> SUFFICES ASSUME NEW n \in 1..2 * L PROVE results[n] \in StrategyResult
    OBVIOUS
  <2>1. (n + 1) \div 2 \in 1..L
    BY <1>1
  <2> QED BY <1>2, <1>3, <2>1
<1>5. 2 * L \in Nat /\ results \in [1..2 * L -> StrategyResult]
  BY <1>1, <1>3, <1>4
<1>6. results \in Seq(StrategyResult)
  BY <1>5, SeqDef
<1> QED BY <1>6 DEF results

(* A step of the store leaves what the jobs looked up.                        *)
LEMMA StoreKeeps ==
    ASSUME IInv, [StoreNext]_storeVars, NEW used, InStore(used)
    PROVE  InStore(used)'
<1>1. CASE storeVars' = storeVars
  BY <1>1 DEF storeVars, InStore, Published
<1>2. CASE StoreNext
  <2> SUFFICES ASSUME used.id \in Versions \ overlap'
               PROVE  /\ Published(used.id)'
                      /\ rows'[used.id].hash = used.hash /\ rows'[used.id].definition = used.definition
    BY DEF InStore
  <2>1. overlap \subseteq overlap'
    BY <1>2 DEF StoreNext, CreateDraft, UpdateRead, PublishRead, UpdateWrite, PublishWrite, Archive
  <2>2. /\ used.id \in Versions /\ used.id \notin overlap /\ Published(used.id)
        /\ rows[used.id].hash = used.hash /\ rows[used.id].definition = used.definition
    BY <2>1 DEF InStore
  <2>3. [rows[used.id] EXCEPT !.archived = TRUE] = [rows'[used.id] EXCEPT !.archived = TRUE]
    BY <1>2, <2>2, PublishedKept
  <2>4. rows[used.id] \in Row /\ rows'[used.id] \in Row
    BY <1>2, <2>2, StoreOKStep DEF IInv, StoreOK
  <2>5. \A a, b \in Row : [a EXCEPT !.archived = TRUE] = [b EXCEPT !.archived = TRUE] =>
            a.status = b.status /\ a.hash = b.hash /\ a.definition = b.definition
    BY DEF Row
  <2> QED BY <2>2, <2>3, <2>4, <2>5 DEF Published
<1> QED BY <1>1, <1>2

(* The initial states satisfy the invariant.                                  *)
LEMMA InitJInv == Init => JInv
<1> SUFFICES ASSUME Init PROVE JInv
  OBVIOUS
<1>1. IInv
  BY InitIInv DEF Init
<1>2. /\ NoJob.status = "NOT_FOUND" /\ NoJob.wanted = <<>> /\ NoJob.resolved = <<>>
      /\ NoJob.results = <<>> /\ NoJob.decision.winner = NoWinner
  BY DEF NoJob
<1>3. NoJob \in Job
  <2> DEFINE undecided == NoJob.decision
  <2>1. undecided \in Decisions
    BY DEF Decisions
  <2>2. <<>> \in Seq(Requested) /\ <<>> \in Seq(Resolved) /\ <<>> \in Seq(StrategyResult)
    OBVIOUS
  <2>4. "NOT_FOUND" \in JobStatus
    BY DEF JobStatus
  <2>3. NoJob = [status |-> "NOT_FOUND", wanted |-> <<>>, resolved |-> <<>>, results |-> <<>>,
                 decision |-> undecided]
    BY DEF NoJob
  <2> HIDE DEF NoJob, undecided
  <2> QED BY <2>1, <2>2, <2>3, <2>4 DEF Job
<1>4. JobOK(NoJob)
  BY <1>2 DEF JobOK, Dominates, NoWinner
<1>5. \A j \in Jobs : jobs[j] = NoJob
  BY DEF Init
<1> QED BY <1>1, <1>3, <1>4, <1>5 DEF JInv, Init

(* A job that is submitted has looked nothing up.                             *)
LEMMA SubmitStep ==
    ASSUME JInv, NEW j \in Jobs, NEW wanted \in Wanted, Submit(j, wanted)
    PROVE  jobs'[j] \in Job /\ JobOK(jobs'[j])
<1>1. jobs[j] \in Job /\ JobOK(jobs[j]) /\ jobs[j].resolved = <<>>
  BY DEF JInv, Submit, NoJob
<1>2. wanted \in Seq(Requested)
  BY RequestAssumption DEF Requested
<1>3. jobs'[j] = [jobs[j] EXCEPT !.status = "RUNNING", !.wanted = wanted]
  BY DEF Submit, JInv
<1>4. jobs'[j] \in Job
  BY <1>1, <1>2, <1>3 DEF Job, JobStatus
<1>5. /\ jobs'[j].wanted = wanted /\ jobs'[j].resolved = jobs[j].resolved
      /\ jobs'[j].results = jobs[j].results /\ jobs'[j].decision = jobs[j].decision
  BY <1>1, <1>3 DEF Job
<1>6. Len(<<>>) = 0 /\ Len(wanted) \in Nat
  BY <1>2
<1> QED BY <1>1, <1>4, <1>5, <1>6 DEF JobOK

(* What a job looks up is there.                                              *)
LEMMA ResolveStep ==
    ASSUME JInv, NEW j \in Jobs, Resolve(j)
    PROVE  jobs'[j] \in Job /\ JobOK(jobs'[j])
<1> DEFINE job == jobs[j]
           n == Len(job.resolved) + 1
           s == job.wanted[n].strategy
           v == job.wanted[n].version
<1>1. /\ job \in Job /\ JobOK(job) /\ IInv /\ jobs \in [Jobs -> Job]
  BY DEF JInv
<1>2. /\ job.wanted \in Seq(Requested) /\ job.resolved \in Seq(Resolved)
      /\ job.results \in Seq(StrategyResult) /\ job.decision \in Decisions /\ job.status \in JobStatus
  BY <1>1 DEF Job
<1>9. jobs' = IF v \in BuiltIns
              THEN [jobs EXCEPT ![j].resolved = Append(job.resolved, BuiltInVersion(s, v))]
              ELSE IF Runnable(v)
              THEN [jobs EXCEPT ![j].resolved = Append(job.resolved, ResolvedVersion(s, v))]
              ELSE [jobs EXCEPT ![j].status = "ERROR"]
  BY DEF Resolve
<1>3. n \in 1..Len(job.wanted) /\ Len(job.wanted) \in Nat /\ Len(job.resolved) \in Nat
  BY <1>2 DEF Resolve
<1>4. s \in STRING /\ v \in Versions \cup BuiltIns
  <2>1. job.wanted[n] \in Requested
    BY <1>2, <1>3
  <2> QED BY <2>1 DEF Requested
<1>5. ASSUME NEW used \in Resolved, InStore(used),
             jobs'[j] = [job EXCEPT !.resolved = Append(job.resolved, used)]
      PROVE  jobs'[j] \in Job /\ JobOK(jobs'[j])
  <2>0. Append(job.resolved, used) \in Seq(Resolved)
    BY <1>2, <1>5
  <2>1. jobs'[j] \in Job
    <3> HIDE DEF job
    <3> QED BY <1>1, <1>5, <2>0 DEF Job
  <2>2. /\ jobs'[j].wanted = job.wanted /\ jobs'[j].resolved = Append(job.resolved, used)
        /\ jobs'[j].results = job.results /\ jobs'[j].decision = job.decision
    BY <1>1, <1>5 DEF Job
  <2>3. Len(Append(job.resolved, used)) = n
    BY <1>2
  <2>4. \A i \in DOMAIN Append(job.resolved, used) : InStore(Append(job.resolved, used)[i])
    <3> SUFFICES ASSUME NEW i \in 1..n PROVE InStore(Append(job.resolved, used)[i])
      BY <1>2, <2>3
    <3>1. CASE i = n
      BY <1>2, <1>5, <3>1
    <3>2. CASE i # n
      <4>1. i \in DOMAIN job.resolved /\ Append(job.resolved, used)[i] = job.resolved[i]
        BY <1>2, <3>2
      <4> QED BY <1>1, <4>1 DEF JobOK
    <3> QED BY <3>1, <3>2
  <2> HIDE DEF job, n
  <2> QED BY <1>1, <1>3, <2>1, <2>2, <2>3, <2>4 DEF JobOK
<1>6. CASE v \in BuiltIns
  <2>1. jobs'[j] = [job EXCEPT !.resolved = Append(job.resolved, BuiltInVersion(s, v))]
    BY <1>1, <1>6, <1>9
  <2>2. BuiltInVersion(s, v) \in Resolved /\ BuiltInVersion(s, v).id = v
    BY <1>4, <1>6 DEF BuiltInVersion, Resolved
  <2>3. v \notin Versions
    BY <1>6, RequestAssumption
  <2> QED BY <1>5, <2>1, <2>2, <2>3 DEF InStore
<1>7. CASE v \notin BuiltIns /\ Runnable(v)
  <2>1. jobs'[j] = [job EXCEPT !.resolved = Append(job.resolved, ResolvedVersion(s, v))]
    BY <1>1, <1>7, <1>9
  <2>2. v \in Versions /\ rows[v] \in Row
    BY <1>1, <1>4, <1>7 DEF IInv, StoreOK
  <2>3. ResolvedVersion(s, v) \in Resolved
    BY <1>4, <2>2 DEF ResolvedVersion, Resolved, Row
  <2>4. /\ ResolvedVersion(s, v).id = v /\ ResolvedVersion(s, v).hash = rows[v].hash
        /\ ResolvedVersion(s, v).definition = rows[v].definition
    BY DEF ResolvedVersion
  <2>5. InStore(ResolvedVersion(s, v))
    BY <1>7, <2>4 DEF InStore, Runnable
  <2> QED BY <1>5, <2>1, <2>3, <2>5
<1>8. CASE v \notin BuiltIns /\ ~Runnable(v)
  <2>1. jobs'[j] = [job EXCEPT !.status = "ERROR"]
    BY <1>1, <1>8, <1>9
  <2>2. jobs'[j] \in Job
    BY <1>1, <2>1 DEF Job, JobStatus
  <2>3. /\ jobs'[j].wanted = job.wanted /\ jobs'[j].resolved = job.resolved
        /\ jobs'[j].results = job.results /\ jobs'[j].decision = job.decision
    BY <1>1, <2>1 DEF Job
  <2> HIDE DEF job
  <2> QED BY <1>1, <2>2, <2>3 DEF JobOK
<1> QED BY <1>6, <1>7, <1>8

(* A job that has run has a winner that dominates, or none.                   *)
LEMMA RunStep ==
    ASSUME JInv, NEW j \in Jobs, Run(j)
    PROVE  jobs'[j] \in Job /\ JobOK(jobs'[j])
<1> DEFINE job == jobs[j]
<1>1. /\ job \in Job /\ JobOK(job) /\ jobs \in [Jobs -> Job]
  BY DEF JInv
<1>2. job.resolved \in Seq(Resolved)
  BY <1>1 DEF Job
<1>3. ASSUME NEW market \in Markets, NEW builtin \in BuiltInResults,
             \A i \in DOMAIN job.resolved : job.resolved[i].definition \in Valid \cup {NoDefinition},
             jobs' = [jobs EXCEPT ![j].status = "DONE",
                                  ![j].results = Results(job, market, builtin),
                                  ![j].decision = Select(Results(job, market, builtin))]
      PROVE  jobs'[j] \in Job /\ JobOK(jobs'[j])
  <2> DEFINE results == Results(job, market, builtin)
             decision == Select(results)
  <2>1. results \in Seq(StrategyResult)
    BY <1>2, <1>3, ResultsTyped
  <2>2. decision \in Decisions
    BY <2>1 DEF Decisions
  <2>3. decision.winner \in 0..Len(results) /\ Dominates(results, decision)
    BY <2>1, SelectedWinner
  <2>4. jobs'[j] = [job EXCEPT !.status = "DONE", !.results = results, !.decision = decision]
    BY <1>1, <1>3
  <2> HIDE DEF job, results, decision
  <2>5. jobs'[j] \in Job
    BY <1>1, <2>1, <2>2, <2>4 DEF Job, JobStatus
  <2>6. /\ jobs'[j].wanted = job.wanted /\ jobs'[j].resolved = job.resolved
        /\ jobs'[j].results = results /\ jobs'[j].decision = decision
    BY <1>1, <2>4 DEF Job
  <2> QED BY <1>1, <2>3, <2>5, <2>6 DEF JobOK
<1>4. ASSUME jobs' = [jobs EXCEPT ![j].status = "ERROR"]
      PROVE  jobs'[j] \in Job /\ JobOK(jobs'[j])
  <2>1. jobs'[j] = [job EXCEPT !.status = "ERROR"]
    BY <1>1, <1>4
  <2>2. jobs'[j] \in Job
    BY <1>1, <2>1 DEF Job, JobStatus
  <2>3. /\ jobs'[j].wanted = job.wanted /\ jobs'[j].resolved = job.resolved
        /\ jobs'[j].results = job.results /\ jobs'[j].decision = job.decision
    BY <1>1, <2>1 DEF Job
  <2> HIDE DEF job
  <2> QED BY <1>1, <2>2, <2>3 DEF JobOK
<1> QED BY <1>3, <1>4 DEF Run

(* The invariant is inductive.                                                *)
LEMMA JInvStep == ASSUME JInv, [Next]_vars PROVE JInv'
<1>1. IInv /\ jobs \in [Jobs -> Job] /\ \A j \in Jobs : JobOK(jobs[j])
  BY DEF JInv
<1>2. [StoreNext]_storeVars
  BY DEF Next, StoreStep, Submit, Resolve, Run, vars, storeVars
<1>3. IInv'
  <2>1. StoreOK'
    BY <1>1, <1>2, StoreOKStep DEF IInv
  <2>2. \A w \in Versions : w \notin overlap' => Steady(w)'
    BY <1>1, <1>2, SteadyStep
  <2> QED BY <2>1, <2>2 DEF IInv
<1>4. \A used : InStore(used) => InStore(used)'
  BY <1>1, <1>2, StoreKeeps
<1>5. ASSUME jobs' = jobs PROVE JInv'
  <2>1. \A j \in Jobs : JobOK(jobs[j])'
    BY <1>1, <1>4, <1>5 DEF JobOK
  <2> QED BY <1>1, <1>3, <1>5, <2>1 DEF JInv
<1>6. ASSUME NEW j \in Jobs, storeVars' = storeVars,
             jobs' = [jobs EXCEPT ![j] = jobs'[j]], jobs'[j] \in Job /\ JobOK(jobs'[j])
      PROVE  JInv'
  <2>1. jobs' \in [Jobs -> Job] /\ \A k \in Jobs : k # j => jobs'[k] = jobs[k]
    BY <1>1, <1>6
  <2>2. \A k \in Jobs : JobOK(jobs'[k])
    BY <1>1, <1>6, <2>1
  <2>3. \A k \in Jobs : JobOK(jobs[k])'
    BY <1>6, <2>2 DEF JobOK, InStore, storeVars, Published
  <2> QED BY <1>3, <2>1, <2>3 DEF JInv
<1>7. ASSUME NEW j \in Jobs, \/ \E w \in Wanted : Submit(j, w)
                             \/ Resolve(j)
                             \/ Run(j)
      PROVE  JInv'
  <2>1. storeVars' = storeVars
    BY <1>7 DEF Submit, Resolve, Run
  <2>2. jobs' = [jobs EXCEPT ![j] = jobs'[j]]
    BY <1>1, <1>7 DEF Submit, Resolve, Run
  <2>3. jobs'[j] \in Job /\ JobOK(jobs'[j])
    BY <1>7, SubmitStep, ResolveStep, RunStep
  <2> QED BY <1>6, <2>1, <2>2, <2>3
<1> QED BY <1>5, <1>7 DEF Next, StoreStep, vars

(* The invariant holds throughout.                                            *)
THEOREM JobsInvariant == Spec => []JInv
<1> QED BY InitJInv, JInvStep, PTL DEF Spec

(* Statuses, looked-up versions and winners are what they should be.          *)
THEOREM JobTypes == Spec => []TypeOK
<1>1. JInv => TypeOK
  BY DEF JInv, IInv, TypeOK, JobOK, Job
<1> QED BY JobsInvariant, <1>1, PTL

(* A finished job can be repeated: every version it saved still has, for any  *)
(* number of jobs and requests, the digest and the valid definition that ran, *)
(* unless an edit was in flight when it was published (web/app.py's research  *)
(* jobs and the shadow's start).                                              *)
THEOREM JobsAreReproducible == Spec => []RunsReproducible
<1>1. JInv => RunsReproducible
  BY DEF JInv, IInv, JobOK, InStore, Steady, RunsReproducible
<1> QED BY JobsInvariant, <1>1, PTL

(* The engine's winner is eligible, good enough, and leads every eligible     *)
(* result of the opposite direction by the separation, for any strategies,    *)
(* markets and thresholds (StrategyDecisionEngine.select).                    *)
THEOREM WinnersDominate == Spec => []WinnerDominates
<1>1. JInv => WinnerDominates
  BY DEF JInv, JobOK, Dominates, WinnerDominates
<1> QED BY JobsInvariant, <1>1, PTL

(* To the version store the jobs are readers: what is proved of it holds of   *)
(* the composition.                                                           *)
THEOREM JobsUseStore == Spec => StoreSpec
<1>1. Init => InitStore
  BY DEF Init
<1>2. [Next]_vars => [StoreNext]_storeVars
  BY DEF Next, StoreStep, Submit, Resolve, Run, vars, storeVars
<1> QED BY <1>1, <1>2, PTL DEF Spec, StoreSpec
=============================================================================
