---------------------------- MODULE StrategyJobs ----------------------------
(***************************************************************************)
(* Research jobs and the shadow's start (web/app.py): each looks up the     *)
(* versions it was asked for, one by one, while other requests edit, publish *)
(* and archive; the decision engine then runs the definitions it was given.  *)
(***************************************************************************)
EXTENDS StrategyVersions, StrategyRules

CONSTANTS
    Jobs,
    Wanted,         \* requests: sequences of [strategy, version]
    BuiltIns,       \* strategy ids that are versions of themselves
    BuiltInResults, \* what a built-in may answer: pairs of results
    Markets         \* [row, mode] a job may come to

ASSUME RequestAssumption ==
    /\ \A w \in Wanted : w \in Seq([strategy : STRING, version : Versions \cup BuiltIns])
    /\ Versions \cap BuiltIns = {}

\* Every score of a built-in is clamped; validate refuses weights, targets and urgencies
\* that are no numbers.
ASSUME AnswerAssumption ==
    /\ BuiltInResults \subseteq [{LONG, SHORT} -> StrategyResult]
    /\ \A builtin \in BuiltInResults : \A d \in {LONG, SHORT} : builtin[d].direction = d
    /\ \A d \in Valid : \A side \in {d.long, d.short} :
         /\ side.conditions \in Nodes /\ {side.base, side.target, side.urgency} \subseteq Int
         /\ side.score \in Seq([when : Nodes, weight : Int, family : STRING])

VARIABLE jobs

vars == <<storeVars, jobs>>

NoJob == [status |-> "NOT_FOUND", wanted |-> <<>>, resolved |-> <<>>, results |-> <<>>,
          decision |-> [winner |-> NoWinner, reason |-> "NONE"]]

Init == InitStore /\ jobs = [j \in Jobs |-> NoJob]

StoreStep == StoreNext /\ UNCHANGED jobs

Submit(j, wanted) ==
    /\ jobs[j] = NoJob
    /\ jobs' = [jobs EXCEPT ![j].status = "RUNNING", ![j].wanted = wanted]
    /\ UNCHANGED storeVars

BuiltInVersion(s, v) == [strategy |-> s, id |-> v, hash |-> NoDefinition,
                         definition |-> NoDefinition]

\* Slip: drafts run as well.
RunnableDrafts(v) == rows[v] # NoRow /\ ~rows[v].archived

Runnable(v) == Published(v) /\ ~rows[v].archived

ResolvedVersion(s, v) == [strategy |-> s, id |-> v, hash |-> rows[v].hash,
                          definition |-> rows[v].definition]

\* version_store.get for the next strategy.
Resolve(j) ==
    LET job == jobs[j]
        n == Len(job.resolved) + 1
        s == job.wanted[n].strategy
        v == job.wanted[n].version
    IN /\ job.status = "RUNNING" /\ n <= Len(job.wanted)
       /\ jobs' = IF v \in BuiltIns
                  THEN [jobs EXCEPT ![j].resolved = Append(@, BuiltInVersion(s, v))]
                  ELSE IF Runnable(v)
                  THEN [jobs EXCEPT ![j].resolved = Append(@, ResolvedVersion(s, v))]
                  ELSE [jobs EXCEPT ![j].status = "ERROR"]
       /\ UNCHANGED storeVars

Results(job, market, builtin) ==
    LET both(i) == IF job.resolved[i].definition = NoDefinition THEN builtin
                   ELSE [d \in {LONG, SHORT} |->
                         Result(job.resolved[i].strategy, job.resolved[i].definition, d,
                                market.row, market.mode)]
    IN [n \in 1..2 * Len(job.resolved) |->
          both((n + 1) \div 2)[IF n % 2 = 1 THEN LONG ELSE SHORT]]

\* The engine refuses an invalid definition when it is built; then one row.
Run(j) ==
    LET job == jobs[j] IN
    /\ job.status = "RUNNING" /\ Len(job.resolved) = Len(job.wanted)
    /\ IF \A i \in DOMAIN job.resolved : job.resolved[i].definition \in Valid \cup {NoDefinition}
       THEN \E market \in Markets, builtin \in BuiltInResults :
              LET results == Results(job, market, builtin) IN
              jobs' = [jobs EXCEPT ![j].status = "DONE", ![j].results = results,
                                   ![j].decision = Select(results)]
       ELSE jobs' = [jobs EXCEPT ![j].status = "ERROR"]
    /\ UNCHANGED storeVars

Next == StoreStep \/ \E j \in Jobs : \/ \E w \in Wanted : Submit(j, w)
                                     \/ Resolve(j) \/ Run(j)

Spec == Init /\ [][Next]_vars

-----------------------------------------------------------------------------
JobStatus == {"NOT_FOUND", "RUNNING", "DONE", "ERROR"}

TypeOK == /\ StoreOK
          /\ \A j \in Jobs : /\ jobs[j].status \in JobStatus
                             /\ Len(jobs[j].resolved) <= Len(jobs[j].wanted)
                             /\ jobs[j].decision.winner \in 0..Len(jobs[j].results)

(* A finished job can be repeated from what it saved: every version it names
   still has, whatever was edited, published or archived since, the digest it
   saved and the definition it ran, and that was a valid one.                *)
RunsReproducible == \A j \in Jobs : jobs[j].status = "DONE" =>
    \A i \in DOMAIN jobs[j].resolved :
        LET used == jobs[j].resolved[i] IN
        used.id \in Versions \ overlap =>
            /\ used.hash = used.definition /\ used.definition \in Valid
            /\ rows[used.id].hash = used.hash /\ rows[used.id].definition = used.definition

(* A winner is eligible, good enough, and better than every other eligible
   result: no other beats it, and none of the opposite direction is within the
   separation.                                                               *)
WinnerDominates == \A j \in Jobs : jobs[j].decision.winner # NoWinner =>
    LET results == jobs[j].results
        winner == results[jobs[j].decision.winner]
    IN /\ winner.eligible /\ winner.score >= MinScore /\ winner.evidence >= MinEvidence
       /\ \A i \in DOMAIN results : results[i].eligible =>
            results[i].score <= winner.score
              - (IF results[i].direction = winner.direction THEN 0 ELSE MinSeparation)

=============================================================================
