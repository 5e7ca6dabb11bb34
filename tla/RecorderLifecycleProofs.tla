----------------------- MODULE RecorderLifecycleProofs -----------------------
(* Proofs about RecorderLifecycle, for any keys, segments, clocks and number   *)
(* of faults.                                                                  *)
EXTENDS RecorderLifecycle, TotalsProofs

-----------------------------------------------------------------------------
(* The process and its sessions: a dead process buffers nothing; a living one  *)
(* buffers what its session received, which is running and is classified when  *)
(* start() came past the gap row; signs of life and starts are in order.       *)
Alive == pc # "down" => LET s == sessions[Current] IN
    /\ s.status = "RUNNING" /\ s.end = NoTime
    /\ s.classified = (pc \in {"backfill", "recording", "stopping"})
    /\ \A k \in Key : buffers[k] \subseteq (s.start + 1)..clock
Dead == pc = "down" => job = NoJob /\ \A k \in Key : buffers[k] = {}
Ordered == \A i \in DOMAIN sessions :
    LET s == sessions[i] IN
    /\ s.start <= LastSign(s) /\ LastSign(s) <= clock
    /\ ~s.classified => LastSign(s) = s.start
    /\ i < Current => LastSign(s) <= sessions[i + 1].start

(* Files and buffers: a file spans its rows and everything received between    *)
(* them; it is a part of its key's buffer or has nothing in common with it;    *)
(* a buffer has all its key received since its first event; what is about to   *)
(* be registered is in a file.                                                 *)
FilesSpan == \A f \in files : /\ \A t \in f.rows : f.start <= t /\ t <= f.end
                             /\ \A r \in received : r.key = f.key /\ r.at \in f.start..f.end
                                  => r.at \in f.rows
FilesNest == \A f \in files : \/ f.rows \subseteq buffers[f.key]
                             \/ f.rows \cap buffers[f.key] = {}
BuffersReach == \A k \in Key : \A t \in buffers[k], r \in received :
    r.key = k /\ t <= r.at => r.at \in buffers[k]
Written == job.step = "register" =>
    \E f \in files : f.key = job.key /\ f.rows = job.rows

(* Without a failed registration only the chunk about to be registered shares  *)
(* events with a buffer, and no two chunks share any.                          *)
Apart == faults["register"] = 0 =>
    /\ \A f, g \in files : f.key = g.key => f = g \/ (f.rows \cap g.rows = {})
    /\ \A f \in files : \/ f.rows \cap buffers[f.key] = {}
                        \/ job.step = "register" /\ f.key = job.key /\ f.rows = job.rows

(* After a whole scan the chunks of earlier sessions stay covered.             *)
Scanned == pc \in {"classify", "backfill", "recording", "stopping"} /\ faults["recover"] = 0 =>
    \A f \in files : f.end <= sessions[Current].start => NameOf(f) \in coverage

(* What was missed is settled, or happened after the last sign of life of the  *)
(* session the next gap row will be about.                                     *)
Settled(t) == Logged(t) \/ Tolerated(t) \/ Hidden(t)
Pending(t) == \/ pc = "down" /\ LastSign(sessions[Current]) <= t
              \/ Starting /\ LastSign(sessions[Previous]) <= t
Accounted ==
    /\ (Current = 0 \/ (Current = 1 /\ pc # "down")) => missed = {}
    /\ \A m \in missed : m.phase = "down" => Settled(m.at) \/ Pending(m.at)

Sessions == Alive /\ Dead /\ Ordered
Chunks == FilesSpan /\ FilesNest /\ BuffersReach /\ Written /\ EventsAreKept
          /\ CleanSessionsKeepAll
IInv == TypeOK /\ Sessions /\ Chunks /\ Apart /\ Scanned /\ Accounted
-----------------------------------------------------------------------------
(* Types.                                                                      *)
JobType == {NoJob} \cup [key : Key, rows : SUBSET (1..clock),
                         step : {"write", "rename", "register"}]

LEMMA InitTypes == Init => TypeOK
BY KeyAssumption DEF Init, InitWriter, TypeOK, WriterOK, NoJob, NoTime, Fault, Session, Row, Loop

(* The chunk of a flush in progress has a name in bounds.                      *)
LEMMA JobNames ==
    ASSUME TypeOK, job # NoJob
    PROVE  /\ job.key \in Key /\ job.rows = buffers[job.key] /\ job.rows \subseteq 1..clock
           /\ job.step \in {"write", "rename", "register"}
           /\ JobName \in [key : Key, start : 1..clock, end : 1..clock]
           /\ JobName.key = job.key
           /\ JobName.start \in job.rows /\ JobName.end \in job.rows
           /\ \A t \in job.rows : JobName.start <= t /\ t <= JobName.end
<1>1. /\ job.key \in Key /\ job.rows = buffers[job.key] /\ job.rows \in SUBSET (1..clock)
      /\ job.rows # {} /\ job.step \in {"write", "rename", "register"} /\ clock \in Nat
  BY DEF TypeOK, WriterOK
<1>2. job.rows \in SUBSET Nat
  BY <1>1
<1>3. Min(job.rows) \in job.rows /\ \A t \in job.rows : Min(job.rows) <= t
  BY <1>1, <1>2, FirstTime
<1>4. Max(job.rows) \in job.rows /\ \A t \in job.rows : t <= Max(job.rows)
  BY <1>1, LastTime
<1> QED BY <1>1, <1>3, <1>4 DEF JobName, Name

(* add puts the time of the event into a buffer, and flushes all of it or none. *)
LEMMA AddTypes ==
    ASSUME TypeOK, NEW k \in Key, NEW forced \in BOOLEAN, clock' = clock + 1,
           Add(k, clock + 1, forced)
    PROVE  /\ WriterOK'
           /\ buffers' = [buffers EXCEPT ![k] = @ \cup {clock + 1}]
           /\ job' = NoJob \/ job' = FlushOf(k, buffers'[k])
           /\ UNCHANGED disk
<1>1. /\ buffers' = [buffers EXCEPT ![k] = @ \cup {clock + 1}]
      /\ job' = NoJob \/ job' = FlushOf(k, buffers'[k])
      /\ UNCHANGED disk
  BY DEF Add
<1>2. clock \in Nat /\ clock' \in Nat /\ 1..clock \subseteq 1..clock' /\ clock' \in 1..clock'
  BY DEF TypeOK, WriterOK
<1>3. buffers' \in [Key -> SUBSET (1..clock')]
  BY <1>1, <1>2 DEF TypeOK, WriterOK
<1>4. started' \in [Key -> 1..clock' \cup {NoTime}]
  BY <1>2 DEF Add, TypeOK, WriterOK
<1>5. k \in Key /\ buffers'[k] \in SUBSET (1..clock') /\ buffers'[k] # {}
  BY <1>1, <1>3 DEF TypeOK, WriterOK
<1>6. job' \in JobType' /\ (job' # NoJob => job'.rows = buffers'[job'.key] /\ job'.rows # {})
  BY <1>1, <1>5 DEF JobType, FlushOf
<1>7. /\ files' \subseteq [key : Key, start : 1..clock', end : 1..clock', rows : SUBSET (1..clock')]
      /\ \A f \in files' : f.start \in f.rows /\ f.end \in f.rows
      /\ coverage' \cup tmps' \subseteq [key : Key, start : 1..clock', end : 1..clock']
  BY <1>1, <1>2 DEF TypeOK, WriterOK, disk
<1> QED BY <1>1, <1>2, <1>3, <1>4, <1>6, <1>7 DEF WriterOK, JobType

(* The steps of flush_key keep the writer's types.                             *)
LEMMA WriterSteps ==
    ASSUME TypeOK, UNCHANGED clock,
           \/ WriteTmp \/ Rename \/ Register
           \/ (WriteRaises \/ RegisterRaises) /\ UNCHANGED <<buffers, started>>
           \/ (WriteRaises \/ RegisterRaises \/ UNCHANGED disk) /\ LoseWriter
           \/ \E k \in Key : Flush(k)
           \/ UNCHANGED <<buffers, started, job, files>> /\ tmps' = {} /\ coverage' = coverage
           \/ UNCHANGED <<buffers, started, job>> /\ \E f \in files : Recover(f)
           \/ UNCHANGED <<buffers, started, job, disk>>
    PROVE  WriterOK'
<1> DEFINE Names == [key : Key, start : 1..clock, end : 1..clock]
<1> USE DEF TypeOK, WriterOK
<1>1. CASE WriteTmp
  <2>1. job # NoJob /\ JobName \in Names
    BY <1>1, JobNames DEF WriteTmp, NoJob
  <2> QED BY <1>1, <2>1 DEF WriteTmp, NoJob
<1>2. CASE Rename
  <2> DEFINE new == [key |-> job.key, start |-> JobName.start, end |-> JobName.end,
                     rows |-> job.rows]
  <2>1. job # NoJob /\ JobName \in Names /\ JobName.start \in job.rows /\ JobName.end \in job.rows
    BY <1>2, JobNames DEF Rename, NoJob
  <2>2. new \in [key : Key, start : 1..clock, end : 1..clock, rows : SUBSET (1..clock)]
    BY <2>1, JobNames
  <2>3. /\ files' \subseteq files \cup {new} /\ tmps' \subseteq tmps
        /\ job' = [job EXCEPT !.step = "register"]
        /\ UNCHANGED <<buffers, started, coverage, clock>>
    BY <1>2 DEF Rename
  <2> HIDE DEF new
  <2>4. files' \subseteq [key : Key, start : 1..clock, end : 1..clock, rows : SUBSET (1..clock)]
    BY <2>2, <2>3
  <2>5. \A f \in files' : f.start \in f.rows /\ f.end \in f.rows
    BY <2>1, <2>3 DEF new
  <2>6. job' \in JobType' /\ job'.rows = buffers'[job'.key] /\ job'.rows # {}
    BY <2>1, <2>3 DEF JobType, NoJob
  <2> QED BY <2>3, <2>4, <2>5, <2>6 DEF JobType
<1>3. CASE Register
  <2>1. job # NoJob /\ JobName \in Names /\ job.key \in Key /\ clock \in 1..clock
    <3>1. job # NoJob
      BY <1>3 DEF Register, NoJob
    <3>2. JobName.start \in 1..clock
      BY <3>1, JobNames
    <3> QED BY <3>1, <3>2, JobNames
  <2> QED BY <1>3, <2>1 DEF Register
<1>4. CASE WriteRaises /\ UNCHANGED <<buffers, started>>
  <2>1. job # NoJob /\ JobName \in Names
    BY <1>4, JobNames DEF WriteRaises, NoJob
  <2> QED BY <1>4, <2>1 DEF WriteRaises
<1>5. CASE RegisterRaises /\ UNCHANGED <<buffers, started>>
  BY <1>5 DEF RegisterRaises, disk
<1>6. CASE LoseWriter /\ (WriteRaises \/ RegisterRaises \/ UNCHANGED disk)
  <2>1. CASE WriteRaises
    <3>1. JobName \in Names
      BY <2>1, JobNames DEF WriteRaises, NoJob
    <3> QED BY <1>6, <2>1, <3>1 DEF WriteRaises, LoseWriter
  <2>2. CASE RegisterRaises \/ UNCHANGED disk
    BY <1>6, <2>2 DEF RegisterRaises, LoseWriter, disk
  <2> QED BY <1>6, <2>1, <2>2
<1>7. CASE \E k \in Key : Flush(k)
  BY <1>7 DEF Flush, FlushOf, disk, NoJob
<1>8. CASE UNCHANGED <<buffers, started, job, files>> /\ tmps' = {} /\ coverage' = coverage
  BY <1>8
<1>9. CASE UNCHANGED <<buffers, started, job>> /\ \E f \in files : Recover(f)
  <2>1. PICK f \in files : Recover(f)
    BY <1>9
  <2>2. NameOf(f) \in Names
    BY DEF NameOf
  <2> QED BY <1>9, <2>1, <2>2 DEF Recover
<1>10. CASE UNCHANGED <<buffers, started, job, disk>>
  BY <1>10 DEF disk
<1> QED BY <1>1, <1>2, <1>3, <1>4, <1>5, <1>6, <1>7, <1>8, <1>9, <1>10

(* Counting a fault.                                                           *)
LEMMA FaultTypes ==
    ASSUME TypeOK, NEW f \in Fault, MayFail(f)
    PROVE  /\ faults' \in [Fault -> Nat]
           /\ \A g \in Fault : faults[g] <= faults'[g]
           /\ faults'[f] # 0
BY DEF MayFail, TypeOK

(* What a living process may do to the row of its session.                     *)
LEMMA SessionTypes ==
    ASSUME TypeOK, pc # "down"
    PROVE  /\ Current \in DOMAIN sessions /\ Current \in Nat \ {0}
           /\ sessions[Current] \in Session
           /\ \A s \in Session : [sessions EXCEPT ![Current] = s] \in Seq(Session)
<1>1. Current \in DOMAIN sessions /\ Current \in Nat \ {0}
  BY DEF TypeOK, Current
<1> QED BY <1>1 DEF TypeOK

(* Every step keeps the types.                                                 *)
LEMMA TypesStep == ASSUME TypeOK, [Next]_vars PROVE TypeOK'
<1>0. clock \in Nat /\ 1..clock \subseteq 1..clock + 1 /\ clock + 1 \in 1..clock + 1
  BY DEF TypeOK, WriterOK
<1>1. ASSUME NEW k \in Key, Receive(k) PROVE TypeOK'
  <2>1. WriterOK'
    BY <1>1, AddTypes DEF Receive
  <2> QED BY <1>0, <1>1, <2>1 DEF Receive, TypeOK, process
<1>2. CASE Miss
  <2>1. WriterOK'
    BY <1>0, <1>2 DEF Miss, TypeOK, WriterOK, writer, disk
  <2> QED BY <1>0, <1>2, <2>1 DEF Miss, TypeOK, process
<1>3. CASE Reselect
  <2>1. MetaKey \in Key
    BY KeyAssumption
  <2>2. WriterOK'
    BY <1>3, <2>1, AddTypes DEF Reselect
  <2> QED BY <1>0, <1>3, <2>1, <2>2 DEF Reselect, TypeOK, process
<1>4. CASE FlushStep
  <2>1. WriterOK'
    BY <1>4, WriterSteps DEF FlushStep, Quiet
  <2> QED BY <1>4, <2>1 DEF FlushStep, Quiet, TypeOK, process
<1>5. CASE FlushDone
  <2>1. WriterOK'
    BY <1>5, WriterSteps DEF FlushDone
  <2> QED BY <1>5, <2>1 DEF FlushDone, TypeOK
<1>6. CASE FlushFails
  <2>1. WriterOK'
    <3>1. CASE UNCHANGED <<buffers, started>>
      BY <1>6, <3>1, WriterSteps DEF FlushFails
    <3>2. CASE buffers' = [k \in Key |-> {}] /\ started' = [k \in Key |-> NoTime]
      <4>1. LoseWriter
        BY <1>6, <3>2 DEF FlushFails, LoseWriter, WriteRaises, RegisterRaises
      <4> QED BY <1>6, <4>1, WriterSteps DEF FlushFails
    <3> QED BY <1>6, <3>1, <3>2 DEF FlushFails, Escape
  <2>2. faults' \in [Fault -> Nat]
    BY <1>6, FaultTypes DEF FlushFails, Fault
  <2> QED BY <1>6, <2>1, <2>2 DEF FlushFails, Escape, TypeOK
<1>7. CASE Begin
  <2>1. MetaKey \in Key
    BY KeyAssumption
  <2>2. WriterOK'
    BY <1>7, <2>1, AddTypes DEF Begin
  <2>3. sessions' \in Seq(Session) /\ sessions' # <<>>
    BY <1>0, <1>7 DEF Begin, TypeOK, Session
  <2> QED BY <1>0, <1>7, <2>1, <2>2, <2>3 DEF Begin, TypeOK
<1>8. CASE RecoverOrphan
  <2>1. WriterOK'
    BY <1>8, WriterSteps DEF RecoverOrphan, Orphans, writer
  <2> QED BY <1>8, <2>1 DEF RecoverOrphan, TypeOK, process
<1>9. CASE OrphansDone
  <2>1. WriterOK'
    BY <1>9, WriterSteps DEF OrphansDone, writer
  <2>2. faults' \in [Fault -> Nat]
    BY <1>9, FaultTypes DEF OrphansDone, Fault, TypeOK
  <2> QED BY <1>9, <2>1, <2>2 DEF OrphansDone, TypeOK
<1>10. CASE Classify
  <2>1. WriterOK'
    BY <1>10, WriterSteps DEF Classify, writer
  <2>2. sessions' \in Seq(Session) /\ sessions' # <<>>
    <3>1. [sessions[Current] EXCEPT !.classified = TRUE] \in Session
      BY <1>10, SessionTypes DEF Classify, Session
    <3>2. sessions' = [sessions EXCEPT ![Current] = [sessions[Current] EXCEPT !.classified = TRUE]]
      BY <1>10 DEF Classify
    <3> QED BY <1>10, <3>1, <3>2, SessionTypes DEF Classify
  <2>3. downtime' \subseteq Row
    <3>1. ASSUME Previous > 0 PROVE Window(Previous) \in Row
      <4>1. Previous \in DOMAIN sessions /\ Previous \in Nat
        BY <3>1, <1>10, SessionTypes DEF Previous, Current, TypeOK
      <4>2. sessions[Previous] \in Session
        BY <4>1 DEF TypeOK
      <4>3. LastSign(sessions[Previous]) \in Nat
        BY <4>2 DEF LastSign, Session
      <4> QED BY <1>0, <4>1, <4>3 DEF Window, Row, Reason, GapReason
    <3> QED BY <1>10, <3>1 DEF Classify, TypeOK
  <2>4. pc' \in {"backfill", "recording"} /\ loops' \subseteq Loop
    BY <1>10 DEF Classify
  <2> QED BY <1>10, <2>1, <2>2, <2>3, <2>4 DEF Classify, TypeOK
<1>11. CASE BackfillDone
  <2>1. WriterOK'
    BY <1>11, WriterSteps DEF BackfillDone, writer
  <2> QED BY <1>11, <2>1 DEF BackfillDone, TypeOK
<1>12. CASE Heartbeat
  <2>1. WriterOK'
    BY <1>12, WriterSteps DEF Heartbeat, writer
  <2>2. sessions' \in Seq(Session) /\ sessions' # <<>>
    <3>1. [sessions[Current] EXCEPT !.beat = clock] \in Session
      BY <1>0, <1>12, SessionTypes DEF Heartbeat, Session
    <3>2. sessions' = [sessions EXCEPT ![Current] = [sessions[Current] EXCEPT !.beat = clock]]
      BY <1>12 DEF Heartbeat
    <3> QED BY <1>12, <3>1, <3>2, SessionTypes DEF Heartbeat
  <2> QED BY <1>12, <2>1, <2>2 DEF Heartbeat, TypeOK
<1>13. CASE HeartbeatFails
  <2>1. WriterOK'
    BY <1>13, WriterSteps DEF HeartbeatFails, writer
  <2>2. faults' \in [Fault -> Nat]
    BY <1>13, FaultTypes DEF HeartbeatFails, Fault
  <2> QED BY <1>13, <2>1, <2>2 DEF HeartbeatFails, TypeOK
<1>14. CASE Stop
  <2>1. WriterOK'
    BY <1>14, WriterSteps DEF Stop, writer
  <2>2. faults' \in [Fault -> Nat]
    BY <1>14, FaultTypes DEF Stop, Fault
  <2> QED BY <1>14, <2>1, <2>2 DEF Stop, TypeOK
<1>15. CASE FlushAll
  <2>1. WriterOK'
    BY <1>15, WriterSteps DEF FlushAll, Quiet
  <2> QED BY <1>15, <2>1 DEF FlushAll, Quiet, TypeOK, process
<1>16. CASE EndSession
  <2>1. WriterOK'
    BY <1>16, WriterSteps DEF EndSession
  <2>2. sessions' \in Seq(Session)
    <3>1. [sessions[Current] EXCEPT !.end = clock, !.status = "CLEAN"] \in Session
      BY <1>0, <1>16, SessionTypes DEF EndSession, Session
    <3>2. sessions' = [sessions EXCEPT ![Current] =
                         [sessions[Current] EXCEPT !.end = clock, !.status = "CLEAN"]]
      BY <1>16, SessionTypes DEF EndSession, TypeOK
    <3>3. pc # "down"
      BY <1>16 DEF EndSession
    <3> QED BY <3>1, <3>2, <3>3, SessionTypes
  <2> QED BY <1>16, <2>1, <2>2 DEF EndSession, TypeOK
<1>17. CASE Crash
  <2>1. WriterOK'
    BY <1>17, WriterSteps DEF Crash
  <2>2. faults' \in [Fault -> Nat]
    BY <1>17, FaultTypes DEF Crash, Fault
  <2> QED BY <1>17, <2>1, <2>2 DEF Crash, TypeOK
<1>18. CASE Reboot
  <2>1. WriterOK'
    BY <1>18, WriterSteps DEF Reboot, writer
  <2>2. faults' \in [Fault -> Nat]
    BY <1>18, FaultTypes DEF Reboot, Fault
  <2> QED BY <1>18, <2>1, <2>2 DEF Reboot, TypeOK
<1>19. CASE UNCHANGED vars
  BY <1>19 DEF vars, process, TypeOK, WriterOK
<1> QED BY <1>1, <1>2, <1>3, <1>4, <1>5, <1>6, <1>7, <1>8, <1>9, <1>10, <1>11, <1>12, <1>13,
           <1>14, <1>15, <1>16, <1>17, <1>18, <1>19 DEF Next

(* Every reachable state of the life cycle is well typed.                      *)
THEOREM TypeCorrect == Spec => []TypeOK
<1>1. Init => TypeOK
  BY InitTypes
<1>2. TypeOK /\ [Next]_vars => TypeOK'
  BY TypesStep
<1> QED BY <1>1, <1>2, PTL DEF Spec

-----------------------------------------------------------------------------
(* Sessions.                                                                   *)
Classified == {"backfill", "recording", "stopping"}

LEMMA InitSessions == Init => Sessions
BY DEF Init, InitWriter, Sessions, Alive, Dead, Ordered

(* A step that leaves the sessions and the clock alone and buffers nothing.    *)
LEMMA SessionsKept ==
    ASSUME Sessions, UNCHANGED <<clock, sessions>>, \A k \in Key : buffers'[k] \subseteq buffers[k],
           \/ pc' = "down" /\ job' = NoJob /\ \A k \in Key : buffers'[k] = {}
           \/ pc # "down" /\ pc' # "down" /\ (pc' \in Classified <=> pc \in Classified)
    PROVE  Sessions'
BY DEF Sessions, Alive, Dead, Ordered, Current, LastSign, Classified

(* An event is given to a writer of the living session.                        *)
LEMMA SessionsAdd ==
    ASSUME TypeOK, Sessions, pc # "down", NEW k \in Key, clock' = clock + 1,
           UNCHANGED <<pc, sessions>>, buffers' = [buffers EXCEPT ![k] = @ \cup {clock + 1}]
    PROVE  Sessions'
<1> DEFINE s == sessions[Current]
<1>1. clock \in Nat /\ s.start \in Nat /\ s.start <= clock /\ LastSign(s) \in Nat
  BY SessionTypes DEF TypeOK, WriterOK, Sessions, Ordered, LastSign, Session
<1>2. \A l \in Key : buffers'[l] \subseteq (s.start + 1)..clock'
  BY <1>1 DEF TypeOK, WriterOK, Sessions, Alive
<1>3. \A i \in DOMAIN sessions : LastSign(sessions[i]) <= clock'
  <2> SUFFICES ASSUME NEW i \in DOMAIN sessions PROVE LastSign(sessions[i]) <= clock'
    OBVIOUS
  <2>1. sessions[i] \in Session
    BY DEF TypeOK
  <2> QED BY <1>1, <2>1 DEF Sessions, Ordered, LastSign, Session
<1> QED BY <1>2, <1>3 DEF Sessions, Alive, Dead, Ordered, Current, LastSign

LEMMA SessionsStep == ASSUME TypeOK, TypeOK', Sessions, [Next]_vars PROVE Sessions'
<1>0. clock \in Nat /\ \A i \in DOMAIN sessions :
          sessions[i] \in Session /\ LastSign(sessions[i]) \in Nat /\ LastSign(sessions[i]) <= clock
  <2>1. clock \in Nat /\ \A i \in DOMAIN sessions : sessions[i] \in Session
    BY DEF TypeOK, WriterOK
  <2> QED BY <2>1 DEF Sessions, Ordered, LastSign, Session
<1>1. ASSUME NEW k \in Key, Receive(k) PROVE Sessions'
  BY <1>1, AddTypes, SessionsAdd DEF Receive, process
<1>2. CASE Miss
  <2>1. \A i \in DOMAIN sessions : LastSign(sessions[i]) <= clock'
    BY <1>0, <1>2 DEF Miss
  <2>2. pc # "down" => \A k \in Key : buffers[k] \subseteq (sessions[Current].start + 1)..clock'
    <3> SUFFICES ASSUME pc # "down" 
                 PROVE  \A k \in Key : buffers[k] \subseteq (sessions[Current].start + 1)..clock'
      OBVIOUS
    <3>1. sessions[Current].start \in Nat
      BY SessionTypes DEF Session
    <3> QED BY <1>0, <1>2, <3>1 DEF Miss, Sessions, Alive
  <2> QED BY <1>2, <2>1, <2>2 DEF Miss, writer, process, Sessions, Alive, Dead, Ordered, Current, LastSign
<1>3. CASE Reselect
  <2>1. MetaKey \in Key
    BY KeyAssumption
  <2> QED BY <1>3, <2>1, AddTypes, SessionsAdd DEF Reselect, process
<1>4. CASE FlushStep
  <2>1. UNCHANGED <<clock, sessions, pc, buffers>> /\ pc # "down"
    BY <1>4 DEF FlushStep, Quiet, process, WriteTmp, Rename, Sessions, Dead, NoJob
  <2> QED BY <2>1, SessionsKept
<1>5. CASE FlushDone
  <2>1. UNCHANGED <<clock, sessions>> /\ pc # "down" /\ pc' # "down"
        /\ (pc' \in Classified <=> pc \in Classified)
    BY <1>5 DEF FlushDone, Register, Sessions, Dead, NoJob, Classified
  <2>2. \A k \in Key : buffers'[k] \subseteq buffers[k]
    BY <1>5 DEF FlushDone, Register, TypeOK, WriterOK
  <2> QED BY <2>1, <2>2, SessionsKept
<1>6. CASE FlushFails
  <2>1. UNCHANGED <<clock, sessions>> /\ job' = NoJob
    BY <1>6 DEF FlushFails, Escape, WriteRaises, RegisterRaises
  <2>2. CASE pc = "recording" /\ UNCHANGED <<pc, buffers>>
    BY <2>1, <2>2, SessionsKept
  <2>3. CASE pc' = "down" /\ buffers' = [k \in Key |-> {}]
    BY <2>1, <2>3, SessionsKept
  <2> QED BY <1>6, <2>2, <2>3 DEF FlushFails, Escape
<1>7. CASE Begin
  <2> DEFINE new == [start |-> clock, end |-> NoTime, boot |-> boot, status |-> "RUNNING",
                     beat |-> NoTime, classified |-> FALSE]
  <2>1. sessions' = Append(sessions, new) /\ pc' = "selection" /\ clock' = clock + 1 /\ pc = "down"
    BY <1>7 DEF Begin
  <2> HIDE DEF new
  <2>2. Current \in Nat /\ Current' = Current + 1 /\ sessions'[Current'] = new
        /\ DOMAIN sessions = 1..Current /\ DOMAIN sessions' = 1..Current + 1
        /\ \A i \in DOMAIN sessions : sessions'[i] = sessions[i]
    BY <2>1 DEF TypeOK, Current
  <2>3. new.start = clock /\ LastSign(new) = clock /\ new.status = "RUNNING" /\ new.end = NoTime
        /\ new.classified = FALSE
    BY DEF new, LastSign, NoTime
  <2>4. buffers' = [buffers EXCEPT ![MetaKey] = @ \cup {clock + 1}]
    BY <1>7 DEF Begin, Add
  <2>5. \A k \in Key : buffers'[k] \subseteq (clock + 1)..clock'
    BY <1>0, <2>1, <2>4 DEF Sessions, Dead, TypeOK, WriterOK
  <2>6. Alive' /\ Dead'
    <3>1. pc' # "down" /\ (pc' \in {"backfill", "recording", "stopping"}) = FALSE
      BY <2>1
    <3> QED BY <2>1, <2>2, <2>3, <2>5, <3>1 DEF Alive, Dead
  <2>7. Ordered'
    <3> SUFFICES ASSUME NEW i \in 1..Current + 1
                 PROVE  /\ sessions'[i].start <= LastSign(sessions'[i])
                        /\ LastSign(sessions'[i]) <= clock + 1
                        /\ ~sessions'[i].classified => LastSign(sessions'[i]) = sessions'[i].start
                        /\ i < Current + 1 => LastSign(sessions'[i]) <= sessions'[i + 1].start
      BY <2>1, <2>2 DEF Ordered, LastSign
    <3>1. CASE i = Current + 1
      BY <1>0, <2>2, <2>3, <3>1
    <3>2. CASE i \in 1..Current
      <4>1. sessions'[i] = sessions[i] /\ i \in DOMAIN sessions
        BY <2>2, <3>2
      <4>2. i + 1 = Current + 1 \/ (i < Current /\ i + 1 \in 1..Current)
        BY <2>2, <3>2
      <4> QED BY <1>0, <2>2, <2>3, <4>1, <4>2 DEF Sessions, Ordered
    <3> QED BY <2>2, <3>1, <3>2
  <2> QED BY <2>6, <2>7 DEF Sessions
<1>8. CASE RecoverOrphan
  <2>1. UNCHANGED <<clock, sessions, pc, buffers>> /\ pc # "down"
    BY <1>8 DEF RecoverOrphan, writer, process
  <2> QED BY <2>1, SessionsKept
<1>9. CASE OrphansDone
  <2>1. UNCHANGED <<clock, sessions, buffers>> /\ pc = "orphans" /\ pc' = "classify"
    BY <1>9 DEF OrphansDone, writer
  <2> QED BY <2>1, SessionsKept DEF Classified
<1>10. CASE Classify
  <2>1. /\ UNCHANGED <<clock, buffers>> /\ pc = "classify" /\ pc' \in {"backfill", "recording"}
        /\ sessions' = [sessions EXCEPT ![Current].classified = TRUE]
    BY <1>10 DEF Classify, writer
  <2>2. Current' = Current /\ DOMAIN sessions' = DOMAIN sessions
    BY <2>1 DEF TypeOK, Current
  <2>3. \A i \in DOMAIN sessions : /\ sessions'[i].start = sessions[i].start
                                   /\ LastSign(sessions'[i]) = LastSign(sessions[i])
                                   /\ sessions'[i].status = sessions[i].status
                                   /\ sessions'[i].end = sessions[i].end
                                   /\ sessions[i].classified => sessions'[i].classified
    BY <1>0, <2>1 DEF Session, LastSign
  <2>4. sessions'[Current].classified = TRUE /\ Current \in DOMAIN sessions
    BY <1>0, <2>1, SessionTypes DEF Session
  <2>5. Alive'
    BY <2>1, <2>2, <2>3, <2>4 DEF Sessions, Alive
  <2>6. Ordered'
    <3> SUFFICES ASSUME NEW i \in DOMAIN sessions
                 PROVE  /\ sessions'[i].start <= LastSign(sessions'[i])
                        /\ LastSign(sessions'[i]) <= clock
                        /\ ~sessions'[i].classified => LastSign(sessions'[i]) = sessions'[i].start
                        /\ i < Current => LastSign(sessions'[i]) <= sessions'[i + 1].start
      BY <2>1, <2>2 DEF Ordered, LastSign
    <3>1. i < Current => i + 1 \in DOMAIN sessions
      BY DEF TypeOK, Current
    <3> QED BY <2>3, <3>1 DEF Sessions, Ordered
  <2> QED BY <2>1, <2>5, <2>6 DEF Sessions, Dead
<1>11. CASE BackfillDone
  <2>1. UNCHANGED <<clock, sessions, buffers>> /\ pc = "backfill" /\ pc' = "recording"
    BY <1>11 DEF BackfillDone, writer
  <2> QED BY <2>1, SessionsKept DEF Classified
<1>12. CASE Heartbeat
  <2>1. /\ UNCHANGED <<clock, buffers, pc>> /\ pc = "recording"
        /\ sessions' = [sessions EXCEPT ![Current].beat = clock]
    BY <1>12 DEF Heartbeat, writer
  <2>2. Current' = Current /\ DOMAIN sessions' = DOMAIN sessions /\ Current \in DOMAIN sessions
        /\ Current \in Nat
    BY <2>1, SessionTypes DEF TypeOK, Current
  <2>3. \A i \in DOMAIN sessions : /\ sessions'[i].start = sessions[i].start
                                   /\ i # Current => sessions'[i] = sessions[i]
                                   /\ sessions'[i].status = sessions[i].status
                                   /\ sessions'[i].end = sessions[i].end
                                   /\ sessions'[i].classified = sessions[i].classified
    BY <1>0, <2>1 DEF Session
  <2>4. LastSign(sessions'[Current]) = clock /\ sessions[Current].start <= clock
        /\ sessions[Current].classified
    <3>1. sessions'[Current].beat = clock /\ clock # NoTime
      BY <1>0, <2>1, <2>2 DEF Session, NoTime
    <3>2. sessions[Current].start <= clock
      BY <1>0, <2>2 DEF Sessions, Ordered, Session
    <3> QED BY <2>1, <3>1, <3>2 DEF LastSign, Sessions, Alive
  <2>5. Alive'
    BY <2>1, <2>2, <2>3 DEF Sessions, Alive
  <2>6. Ordered'
    <3> SUFFICES ASSUME NEW i \in DOMAIN sessions
                 PROVE  /\ sessions'[i].start <= LastSign(sessions'[i])
                        /\ LastSign(sessions'[i]) <= clock
                        /\ ~sessions'[i].classified => LastSign(sessions'[i]) = sessions'[i].start
                        /\ i < Current => LastSign(sessions'[i]) <= sessions'[i + 1].start
      BY <2>1, <2>2 DEF Ordered, LastSign
    <3>1. i < Current => i + 1 \in DOMAIN sessions
      BY DEF TypeOK, Current
    <3>2. CASE i = Current
      <4>1. sessions'[i].start = sessions[Current].start /\ sessions'[i].classified
        BY <2>2, <2>3, <2>4, <3>2
      <4> QED BY <1>0, <2>2, <2>4, <3>2, <4>1
    <3>3. CASE i # Current
      BY <2>3, <3>1, <3>3 DEF Sessions, Ordered
    <3> QED BY <3>2, <3>3
  <2> QED BY <2>1, <2>5, <2>6 DEF Sessions, Dead
<1>13. CASE HeartbeatFails \/ Stop
  <2>1. UNCHANGED <<clock, sessions, buffers>> /\ pc = "recording" /\ pc' \in {"recording", "stopping"}
    BY <1>13 DEF HeartbeatFails, Stop, writer
  <2> QED BY <2>1, SessionsKept DEF Classified
<1>14. CASE FlushAll
  <2>1. UNCHANGED <<clock, sessions, pc, buffers>> /\ pc # "down"
    BY <1>14 DEF FlushAll, Flush, Quiet, process
  <2> QED BY <2>1, SessionsKept
<1>15. CASE EndSession
  <2>1. /\ UNCHANGED clock /\ LoseWriter /\ pc = "stopping" /\ pc' = "down"
        /\ sessions' = [sessions EXCEPT ![Current].end = clock, ![Current].status = "CLEAN"]
    BY <1>15 DEF EndSession
  <2>2. Current' = Current /\ DOMAIN sessions' = DOMAIN sessions /\ Current \in DOMAIN sessions
        /\ Current \in Nat
    BY <2>1, SessionTypes DEF TypeOK, Current
  <2>3. \A i \in DOMAIN sessions : /\ sessions'[i].start = sessions[i].start
                                   /\ i # Current => sessions'[i] = sessions[i]
                                   /\ sessions'[i].classified = sessions[i].classified
    BY <1>0, <2>1 DEF Session
  <2>4. LastSign(sessions'[Current]) \in {clock, LastSign(sessions[Current])}
        /\ sessions[Current].start <= clock /\ sessions[Current].classified
    <3>1. sessions'[Current].beat = sessions[Current].beat /\ sessions'[Current].end = clock
          /\ clock # NoTime
      BY <1>0, <2>1, <2>2 DEF Session, NoTime
    <3>2. sessions[Current].start <= clock
      BY <1>0, <2>2 DEF Sessions, Ordered, Session
    <3> QED BY <2>1, <3>1, <3>2 DEF LastSign, Sessions, Alive
  <2>5. Ordered'
    <3> SUFFICES ASSUME NEW i \in DOMAIN sessions
                 PROVE  /\ sessions'[i].start <= LastSign(sessions'[i])
                        /\ LastSign(sessions'[i]) <= clock
                        /\ ~sessions'[i].classified => LastSign(sessions'[i]) = sessions'[i].start
                        /\ i < Current => LastSign(sessions'[i]) <= sessions'[i + 1].start
      BY <2>1, <2>2 DEF Ordered, LastSign
    <3>1. i < Current => i + 1 \in DOMAIN sessions
      BY DEF TypeOK, Current
    <3>2. CASE i = Current
      <4>1. sessions'[i].start = sessions[Current].start /\ sessions'[i].classified
        BY <2>2, <2>3, <2>4, <3>2
      <4>2. LastSign(sessions[Current]) <= clock /\ sessions[Current].start <= LastSign(sessions[Current])
        BY <2>2 DEF Sessions, Ordered
      <4> QED BY <1>0, <2>2, <2>4, <3>2, <4>1, <4>2
    <3>3. CASE i # Current
      BY <2>3, <3>1, <3>3 DEF Sessions, Ordered
    <3> QED BY <3>2, <3>3
  <2> QED BY <2>1, <2>5 DEF Sessions, Alive, Dead, LoseWriter
<1>16. CASE Crash
  <2>1. UNCHANGED <<clock, sessions>> /\ LoseWriter /\ pc' = "down"
    BY <1>16 DEF Crash
  <2> QED BY <2>1, SessionsKept DEF LoseWriter
<1>17. CASE Reboot
  <2>1. UNCHANGED <<clock, sessions, pc, buffers, job>>
    BY <1>17 DEF Reboot, writer
  <2> QED BY <2>1 DEF Sessions, Alive, Dead, Ordered, Current, LastSign
<1>18. CASE UNCHANGED vars
  BY <1>18 DEF vars, process, Sessions, Alive, Dead, Ordered, Current, LastSign
<1> QED BY <1>1, <1>2, <1>3, <1>4, <1>5, <1>6, <1>7, <1>8, <1>9, <1>10, <1>11, <1>12, <1>13,
           <1>14, <1>15, <1>16, <1>17, <1>18 DEF Next

-----------------------------------------------------------------------------
(* Chunks.                                                                     *)

LEMMA InitChunks == Init => Chunks
BY DEF Init, InitWriter, Chunks, FilesSpan, FilesNest, BuffersReach, Written, EventsAreKept,
   CleanSessionsKeepAll, NoJob

(* What is on disk for a key.                                                  *)
LEMMA InDurable == \A k, t : t \in Durable(k) <=> \E f \in files : f.key = k /\ t \in f.rows
BY DEF Durable

(* A disk that has every chunk, maybe in a larger one, has every event.        *)
LEMMA DurableGrows ==
    ASSUME \A f \in files : \E g \in files' : g.key = f.key /\ f.rows \subseteq g.rows
    PROVE  \A k : Durable(k) \subseteq Durable(k)'
BY DEF Durable

(* Starts and states of the sessions are as they were.                         *)
SameSessions == /\ Current' = Current /\ DOMAIN sessions' = DOMAIN sessions
                /\ \A i \in DOMAIN sessions : /\ sessions'[i].start = sessions[i].start
                                              /\ sessions'[i].status = sessions[i].status

(* No event is lost where nothing is received and buffers and disk keep theirs. *)
LEMMA NothingGoes ==
    ASSUME TypeOK, EventsAreKept, CleanSessionsKeepAll, UNCHANGED received, SameSessions,
           \A k : Durable(k) \subseteq Durable(k)',
           pc' # "down" => pc # "down" /\ \A k \in Key :
                               buffers[k] \subseteq buffers'[k] \cup Durable(k)'
    PROVE  EventsAreKept' /\ CleanSessionsKeepAll'
<1>1. \A i \in DOMAIN sessions : ReceivedBy(i)' = ReceivedBy(i)
  <2> SUFFICES ASSUME NEW i \in DOMAIN sessions PROVE ReceivedBy(i)' = ReceivedBy(i)
    OBVIOUS
  <2>1. i < Current => i + 1 \in DOMAIN sessions
    BY DEF TypeOK, Current
  <2> QED BY <2>1 DEF ReceivedBy, SameSessions
<1>2. CleanSessionsKeepAll'
  BY <1>1 DEF CleanSessionsKeepAll, SameSessions
<1>3. ASSUME pc' # "down" PROVE EventsAreKept'
  <2>1. Current \in DOMAIN sessions
    BY <1>3, SessionTypes
  <2>2. \A r \in received : r.key \in Key
    BY DEF TypeOK
  <2> QED BY <1>1, <1>3, <2>1, <2>2 DEF EventsAreKept, SameSessions, ReceivedBy
<1> QED BY <1>2, <1>3 DEF EventsAreKept

(* A step of the process that touches neither buffers nor chunks.              *)
LEMMA ChunksKept ==
    ASSUME TypeOK, Chunks, UNCHANGED <<files, received, buffers>>, SameSessions, Written',
           pc' # "down" => pc # "down"
    PROVE  Chunks'
<1>1. \A k : Durable(k)' = Durable(k)
  BY DEF Durable
<1>2. EventsAreKept' /\ CleanSessionsKeepAll'
  BY <1>1, NothingGoes DEF Chunks
<1>3. FilesSpan' /\ FilesNest' /\ BuffersReach'
  BY DEF Chunks, FilesSpan, FilesNest, BuffersReach
<1> QED BY <1>2, <1>3 DEF Chunks

(* The process dies with its buffers.                                          *)
LEMMA ChunksLost ==
    ASSUME TypeOK, Chunks, UNCHANGED <<files, received, sessions>>, pc' = "down", job' = NoJob,
           buffers' = [k \in Key |-> {}]
    PROVE  Chunks'
<1>1. (\A k : Durable(k)' = Durable(k)) /\ SameSessions
  BY DEF Durable, SameSessions, Current
<1>2. EventsAreKept' /\ CleanSessionsKeepAll'
  BY <1>1, NothingGoes DEF Chunks
<1>3. FilesNest'
  BY DEF TypeOK, WriterOK, FilesNest
<1>4. FilesSpan' /\ BuffersReach' /\ Written'
  BY DEF Chunks, FilesSpan, BuffersReach, Written, NoJob
<1> QED BY <1>2, <1>3, <1>4 DEF Chunks

(* A buffer is emptied once its chunk is registered.                           *)
LEMMA ChunksRegister ==
    ASSUME TypeOK, Chunks, Register, UNCHANGED <<received, sessions>>, pc # "down"
    PROVE  Chunks'
<1>1. /\ job # NoJob /\ job' = NoJob /\ UNCHANGED files
      /\ buffers' = [buffers EXCEPT ![job.key] = {}]
  BY DEF Register, NoJob
<1>2. job.key \in Key /\ job.rows = buffers[job.key]
  BY <1>1, JobNames
<1>3. PICK f \in files : f.key = job.key /\ f.rows = job.rows
  BY DEF Chunks, Written, Register
<1>4. (\A k : Durable(k)' = Durable(k)) /\ SameSessions
  BY <1>1 DEF Durable, SameSessions, Current
<1>5. \A k \in Key : buffers[k] \subseteq buffers'[k] \cup Durable(k)'
  BY <1>1, <1>2, <1>3, <1>4, InDurable DEF TypeOK, WriterOK
<1>6. EventsAreKept' /\ CleanSessionsKeepAll'
  BY <1>4, <1>5, NothingGoes DEF Chunks
<1>7. FilesSpan'
  BY <1>1 DEF Chunks, FilesSpan
<1>8. FilesNest' /\ BuffersReach'
  BY <1>1, <1>2 DEF Chunks, FilesNest, BuffersReach, TypeOK, WriterOK
<1>9. Written'
  BY <1>1 DEF Written, NoJob
<1> QED BY <1>6, <1>7, <1>8, <1>9 DEF Chunks

(* What the rename makes of the chunks: a chunk of the same name goes, and all *)
(* it held is in the new one, since it begins with the same event.             *)
LEMMA RenameFiles ==
    ASSUME TypeOK, Chunks, Rename
    PROVE  \E new \in files' :
             /\ new.key = job.key /\ new.rows = job.rows /\ new.rows = buffers[job.key]
             /\ new.start \in new.rows /\ new.end \in new.rows
             /\ \A t \in new.rows : new.start <= t /\ t <= new.end
             /\ files' \subseteq files \cup {new} /\ NameOf(new) = JobName
             /\ \A f \in files \ files' : /\ f.key = job.key /\ f.start \in f.rows
                                          /\ f.start \in new.rows /\ f.rows \subseteq new.rows
<1>1. job # NoJob
  BY DEF Rename, NoJob
<1> DEFINE new == [key |-> job.key, start |-> JobName.start, end |-> JobName.end, rows |-> job.rows]
<1>2. new \in files' /\ files' = {f \in files : NameOf(f) # JobName} \cup {new}
  BY DEF Rename
<1>3. new.key = job.key /\ new.rows = job.rows /\ new.start = JobName.start /\ new.end = JobName.end
  OBVIOUS
<1>4. NameOf(new) = JobName
  BY DEF NameOf, JobName, Name
<1> HIDE DEF new
<1>5. ASSUME NEW f \in files \ files'
      PROVE  /\ f.key = job.key /\ f.start \in f.rows /\ f.start \in new.rows
             /\ f.rows \subseteq new.rows
  <2>1. NameOf(f) = JobName
    BY <1>2, <1>5
  <2>2. f.key = job.key /\ f.start = JobName.start
    BY <2>1 DEF NameOf, JobName, Name
  <2>3. f.start \in f.rows /\ f.start \in job.rows /\ job.rows = buffers[f.key]
    BY <1>1, <1>5, <2>2, JobNames DEF TypeOK, WriterOK
  <2> QED BY <1>3, <1>5, <2>2, <2>3 DEF Chunks, FilesNest
<1>6. /\ new.rows = buffers[job.key] /\ new.start \in new.rows /\ new.end \in new.rows
      /\ \A t \in new.rows : new.start <= t /\ t <= new.end
  BY <1>1, <1>3, JobNames
<1> QED BY <1>2, <1>3, <1>4, <1>5, <1>6

LEMMA ChunksRename ==
    ASSUME TypeOK, Chunks, Rename, UNCHANGED <<clock, received, sessions, pc>>
    PROVE  Chunks'
<1>1. PICK new \in files' :
         /\ new.key = job.key /\ new.rows = job.rows /\ new.rows = buffers[job.key]
         /\ new.start \in new.rows /\ new.end \in new.rows
         /\ \A t \in new.rows : new.start <= t /\ t <= new.end
         /\ files' \subseteq files \cup {new}
         /\ \A f \in files \ files' : f.key = job.key /\ f.rows \subseteq new.rows
  BY RenameFiles
<1>2. UNCHANGED buffers /\ job' = [job EXCEPT !.step = "register"] /\ job # NoJob
  BY DEF Rename, NoJob
<1>3. job.key \in Key /\ job'.key = job.key /\ job'.rows = job.rows
  BY <1>2, JobNames DEF TypeOK, WriterOK
<1>4. \A f \in files : \E g \in files' : g.key = f.key /\ f.rows \subseteq g.rows
  BY <1>1
<1>5. SameSessions
  BY DEF SameSessions, Current
<1>6. EventsAreKept' /\ CleanSessionsKeepAll'
  BY <1>2, <1>4, <1>5, DurableGrows, NothingGoes DEF Chunks
<1>7. ASSUME NEW r \in received, r.key = new.key, r.at \in new.start..new.end PROVE r.at \in new.rows
  <2>1. new.start <= r.at
    BY <1>1, <1>7
  <2> QED BY <1>1, <1>3, <1>7, <2>1 DEF Chunks, BuffersReach
<1>8. FilesSpan'
  BY <1>1, <1>7 DEF Chunks, FilesSpan
<1>9. FilesNest' /\ BuffersReach' /\ Written'
  BY <1>1, <1>2, <1>3 DEF Chunks, FilesNest, BuffersReach, Written
<1> QED BY <1>6, <1>8, <1>9 DEF Chunks

(* An event joins a buffer: of the living session, or the first of a new one.  *)
LEMMA ChunksAdd ==
    ASSUME TypeOK, TypeOK', Sessions, Chunks, NEW k \in Key, clock' = clock + 1, UNCHANGED files,
           received' = received \cup {[key |-> k, at |-> clock + 1]},
           buffers' = [buffers EXCEPT ![k] = @ \cup {clock + 1}],
           job' = NoJob \/ job' = FlushOf(k, buffers'[k]),
           \/ pc # "down" /\ UNCHANGED <<pc, sessions>>
           \/ \E s \in Session : /\ s.status = "RUNNING" /\ s.start = clock
                                 /\ sessions' = Append(sessions, s)
    PROVE  Chunks'
<1> DEFINE new == [key |-> k, at |-> clock + 1]
<1>1. clock \in Nat /\ (\A r \in received : r.at <= clock /\ r.at \in Nat)
      /\ (\A f \in files : f.end <= clock /\ f.end \in Nat)
      /\ received' = received \cup {new} /\ new.key = k /\ new.at = clock + 1
  BY DEF TypeOK, WriterOK
<1> HIDE DEF new
<1>2. FilesSpan'
  BY <1>1 DEF Chunks, FilesSpan
<1>3. FilesNest'
  <2>1. \A f \in files : clock + 1 \notin f.rows
    BY <1>1 DEF TypeOK, WriterOK
  <2> QED BY <2>1 DEF Chunks, FilesNest, TypeOK, WriterOK
<1>4. BuffersReach'
  <2>1. \A l \in Key : \A t \in buffers[l] : t <= clock /\ t \in Nat
    BY <1>1 DEF TypeOK, WriterOK
  <2>2. \A l \in Key : buffers'[l] = IF l = k THEN buffers[l] \cup {clock + 1} ELSE buffers[l]
    BY DEF TypeOK, WriterOK
  <2> SUFFICES ASSUME NEW l \in Key, NEW t \in buffers'[l], NEW r \in received', r.key = l, t <= r.at
               PROVE  r.at \in buffers'[l]
    BY DEF BuffersReach
  <2>3. CASE r = new
    <3>1. r.key = k /\ r.at = clock + 1
      BY <1>1, <2>3
    <3>2. clock + 1 \in buffers'[k]
      <4>1. buffers'[k] = buffers[k] \cup {clock + 1}
        BY <2>2
      <4> QED BY <4>1
    <3> QED BY <3>1, <3>2
  <2>4. CASE r \in received
    <3>1. t # clock + 1
      BY <1>1, <2>4
    <3>2. t \in buffers[l]
      BY <2>2, <3>1
    <3>3. r.at \in buffers[l]
      BY <2>4, <3>2 DEF Chunks, BuffersReach
    <3> QED BY <2>2, <3>3
  <2> QED BY <1>1, <2>3, <2>4
<1>5. Written'
  BY DEF Written, NoJob, FlushOf
<1>6. \A l : Durable(l)' = Durable(l)
  BY DEF Durable
<1>7. \A i \in DOMAIN sessions : /\ i \in DOMAIN sessions' /\ sessions'[i] = sessions[i]
                                 /\ sessions[i].start <= clock /\ sessions[i].start \in Nat
  <2>1. \A i \in DOMAIN sessions : /\ sessions[i].start <= clock /\ sessions[i].start \in Nat
    <3> SUFFICES ASSUME NEW i \in DOMAIN sessions
                 PROVE sessions[i].start <= clock /\ sessions[i].start \in Nat
      OBVIOUS
    <3>1. sessions[i] \in Session
      BY DEF TypeOK
    <3>2. sessions[i].start <= LastSign(sessions[i]) /\ LastSign(sessions[i]) <= clock
      BY DEF Sessions, Ordered
    <3>3. LastSign(sessions[i]) \in Nat
      BY <3>1 DEF LastSign, Session
    <3> QED BY <1>1, <3>1, <3>2, <3>3 DEF Session
  <2> QED BY <2>1 DEF TypeOK
<1>8. CASE pc # "down" /\ UNCHANGED <<pc, sessions>>
  <2>1. Current \in DOMAIN sessions /\ Current' = Current
    BY <1>8, SessionTypes DEF Current
  <2>2. EventsAreKept'
    BY <1>1, <1>6, <1>8, <2>1 DEF Chunks, EventsAreKept, ReceivedBy, TypeOK, WriterOK
  <2>3. ASSUME NEW i \in DOMAIN sessions, sessions[i].status = "CLEAN"
        PROVE  ReceivedBy(i)' \subseteq ReceivedBy(i)
    <3>1. i # Current
      BY <1>8, <2>3 DEF Sessions, Alive
    <3>2. i < Current /\ i + 1 \in DOMAIN sessions
      BY <2>1, <3>1 DEF TypeOK, Current
    <3> QED BY <1>1, <1>7, <1>8, <2>1, <3>2 DEF ReceivedBy
  <2>4. CleanSessionsKeepAll'
    BY <1>6, <1>8, <2>3 DEF Chunks, CleanSessionsKeepAll
  <2> QED BY <1>2, <1>3, <1>4, <1>5, <2>2, <2>4 DEF Chunks
<1>9. ASSUME NEW s \in Session, s.status = "RUNNING", s.start = clock, sessions' = Append(sessions, s)
      PROVE  Chunks'
  <2>1. Current \in Nat /\ Current' = Current + 1 /\ sessions'[Current + 1] = s
        /\ DOMAIN sessions = 1..Current /\ DOMAIN sessions' = 1..Current + 1
    BY <1>9 DEF TypeOK, Current
  <2>2. EventsAreKept'
    <3>1. \A r \in ReceivedBy(Current)' : r = new
      BY <1>1, <1>9, <2>1 DEF ReceivedBy
    <3>2. new.at \in buffers'[new.key]
      BY <1>1 DEF TypeOK, WriterOK
    <3> QED BY <3>1, <3>2 DEF EventsAreKept
  <2>3. ASSUME NEW i \in DOMAIN sessions PROVE ReceivedBy(i)' \subseteq ReceivedBy(i)
    <3>1. i + 1 \in DOMAIN sessions' /\ i < Current' /\ sessions'[i + 1].start <= clock
      <4>1. i < Current => i + 1 \in DOMAIN sessions
        BY <2>1
      <4> QED BY <1>1, <1>7, <1>9, <2>1, <4>1
    <3>2. \A r \in ReceivedBy(i)' : r \in received /\ sessions[i].start < r.at
                                    /\ r.at <= sessions'[i + 1].start
      BY <1>1, <1>7, <1>9, <2>1, <3>1 DEF ReceivedBy, Session
    <3>3. i < Current => sessions'[i + 1] = sessions[i + 1]
      BY <1>7, <2>1
    <3> QED BY <3>2, <3>3 DEF ReceivedBy
  <2>4. CleanSessionsKeepAll'
    BY <1>6, <1>7, <1>9, <2>1, <2>3 DEF Chunks, CleanSessionsKeepAll
  <2> QED BY <1>2, <1>3, <1>4, <1>5, <2>2, <2>4 DEF Chunks
<1> QED BY <1>8, <1>9

(* A clean stop: every buffer has been flushed.                                *)
LEMMA ChunksEnd == ASSUME TypeOK, Sessions, Chunks, EndSession PROVE Chunks'
<1>1. /\ pc = "stopping" /\ pc' = "down" /\ job' = NoJob /\ UNCHANGED <<files, received>>
      /\ \A k \in Key : buffers[k] = {} /\ buffers'[k] = {}
      /\ sessions' = [sessions EXCEPT ![Current].end = clock, ![Current].status = "CLEAN"]
  BY DEF EndSession, LoseWriter, disk
<1>2. Current \in DOMAIN sessions /\ Current' = Current /\ DOMAIN sessions' = DOMAIN sessions
      /\ \A i \in DOMAIN sessions : /\ sessions'[i].start = sessions[i].start
                                    /\ i # Current => sessions'[i] = sessions[i]
  BY <1>1, SessionTypes DEF TypeOK, Current, Session
<1>3. \A k : Durable(k)' = Durable(k)
  BY <1>1 DEF Durable
<1>4. \A i \in DOMAIN sessions : ReceivedBy(i)' = ReceivedBy(i)
  <2> SUFFICES ASSUME NEW i \in DOMAIN sessions PROVE ReceivedBy(i)' = ReceivedBy(i)
    OBVIOUS
  <2>1. i < Current => i + 1 \in DOMAIN sessions
    BY DEF TypeOK, Current
  <2> QED BY <1>1, <1>2, <2>1 DEF ReceivedBy
<1>5. \A r \in ReceivedBy(Current) : r.at \in Durable(r.key)
  <2>1. \A r \in received : r.key \in Key
    BY DEF TypeOK
  <2> QED BY <1>1, <2>1 DEF Chunks, EventsAreKept, ReceivedBy
<1>6. CleanSessionsKeepAll'
  BY <1>2, <1>3, <1>4, <1>5 DEF Chunks, CleanSessionsKeepAll
<1>7. EventsAreKept'
  BY <1>1 DEF EventsAreKept
<1>8. FilesSpan' /\ FilesNest' /\ BuffersReach' /\ Written'
  BY <1>1 DEF Chunks, FilesSpan, FilesNest, BuffersReach, Written, NoJob, TypeOK, WriterOK
<1> QED BY <1>6, <1>7, <1>8 DEF Chunks

(* Every step keeps them.                                                      *)
LEMMA ChunksStep == ASSUME TypeOK, TypeOK', Sessions, Chunks, [Next]_vars PROVE Chunks'
<1>1. ASSUME NEW k \in Key, Receive(k) PROVE Chunks'
  <2>1. pc # "down" /\ UNCHANGED <<pc, sessions>> /\ clock' = clock + 1
        /\ received' = received \cup {[key |-> k, at |-> clock + 1]}
    BY <1>1 DEF Receive, process
  <2> QED BY <1>1, <2>1, AddTypes, ChunksAdd DEF Receive, disk
<1>2. CASE Miss
  <2>1. Written' /\ SameSessions
    BY <1>2 DEF Miss, writer, disk, process, Chunks, Written, SameSessions, Current
  <2> QED BY <1>2, <2>1, ChunksKept DEF Miss, writer, disk, process
<1>3. CASE Reselect
  <2>1. pc # "down" /\ UNCHANGED <<pc, sessions>> /\ clock' = clock + 1 /\ MetaKey \in Key
        /\ received' = received \cup {[key |-> MetaKey, at |-> clock + 1]}
    BY <1>3, KeyAssumption DEF Reselect, process
  <2> QED BY <1>3, <2>1, AddTypes, ChunksAdd DEF Reselect, disk
<1>4. CASE FlushStep
  <2>1. SameSessions /\ UNCHANGED <<clock, received, sessions, pc>>
    BY <1>4 DEF FlushStep, Quiet, process, SameSessions, Current
  <2>2. CASE WriteTmp
    <3>1. job' = [job EXCEPT !.step = "rename"] /\ job # NoJob /\ UNCHANGED <<files, buffers>>
      BY <2>2 DEF WriteTmp, NoJob
    <3>2. Written'
      BY <3>1 DEF Written, TypeOK, WriterOK
    <3> QED BY <2>1, <3>1, <3>2, ChunksKept
  <2>3. CASE Rename
    BY <2>1, <2>3, ChunksRename
  <2> QED BY <1>4, <2>2, <2>3 DEF FlushStep
<1>5. CASE FlushDone
  <2>1. pc # "down"
    BY <1>5 DEF FlushDone, Register, Sessions, Dead, NoJob
  <2> QED BY <1>5, <2>1, ChunksRegister DEF FlushDone
<1>6. CASE FlushFails
  <2>1. UNCHANGED <<clock, sessions, received, files>> /\ job' = NoJob
    BY <1>6 DEF FlushFails, Escape, WriteRaises, RegisterRaises, disk
  <2>2. CASE pc = "recording" /\ UNCHANGED <<pc, buffers>>
    <3>1. Written' /\ SameSessions
      BY <2>1 DEF Written, NoJob, SameSessions, Current
    <3> QED BY <2>1, <2>2, <3>1, ChunksKept
  <2>3. CASE pc' = "down" /\ buffers' = [k \in Key |-> {}]
    BY <2>1, <2>3, ChunksLost
  <2> QED BY <1>6, <2>2, <2>3 DEF FlushFails, Escape
<1>7. CASE Begin
  <2>1. clock' = clock + 1 /\ MetaKey \in Key
        /\ received' = received \cup {[key |-> MetaKey, at |-> clock + 1]}
    BY <1>7, KeyAssumption DEF Begin
  <2>2. \E s \in Session : s.status = "RUNNING" /\ s.start = clock /\ sessions' = Append(sessions, s)
    <3> DEFINE s == [start |-> clock, end |-> NoTime, boot |-> boot, status |-> "RUNNING",
                     beat |-> NoTime, classified |-> FALSE]
    <3>1. s \in Session
      BY DEF Session, TypeOK, WriterOK
    <3> QED BY <1>7, <3>1 DEF Begin
  <2> QED BY <1>7, <2>1, <2>2, AddTypes, ChunksAdd DEF Begin, disk
<1>8. CASE RecoverOrphan
  <2>1. UNCHANGED <<files, received, buffers, job, sessions, pc>>
    BY <1>8 DEF RecoverOrphan, Recover, writer, process
  <2>2. Written' /\ SameSessions
    BY <2>1 DEF Chunks, Written, SameSessions, Current
  <2> QED BY <2>1, <2>2, ChunksKept
<1>9. CASE OrphansDone \/ BackfillDone \/ HeartbeatFails \/ Stop
  <2>1. UNCHANGED <<files, received, buffers, job, sessions>> /\ pc # "down"
    BY <1>9 DEF OrphansDone, BackfillDone, HeartbeatFails, Stop, writer, disk
  <2>2. Written' /\ SameSessions
    BY <2>1 DEF Chunks, Written, SameSessions, Current
  <2> QED BY <2>1, <2>2, ChunksKept
<1>10. CASE Classify
  <2>1. UNCHANGED <<files, received, buffers, job>> /\ pc # "down"
        /\ sessions' = [sessions EXCEPT ![Current].classified = TRUE]
    BY <1>10 DEF Classify, writer
  <2>2. SameSessions
    BY <2>1 DEF TypeOK, Current, Session, SameSessions
  <2>3. Written'
    BY <2>1 DEF Chunks, Written
  <2> QED BY <2>1, <2>2, <2>3, ChunksKept
<1>11. CASE Heartbeat
  <2>1. UNCHANGED <<files, received, buffers, job, pc>>
        /\ sessions' = [sessions EXCEPT ![Current].beat = clock]
    BY <1>11 DEF Heartbeat, writer, disk
  <2>2. SameSessions
    BY <2>1 DEF TypeOK, Current, Session, SameSessions
  <2>3. Written'
    BY <2>1 DEF Chunks, Written
  <2> QED BY <2>1, <2>2, <2>3, ChunksKept
<1>12. CASE FlushAll
  <2>1. UNCHANGED <<files, received, buffers, sessions, pc>> /\ job'.step = "write"
    BY <1>12 DEF FlushAll, Flush, FlushOf, Quiet, disk, process
  <2>2. Written' /\ SameSessions
    BY <2>1 DEF Written, SameSessions, Current
  <2> QED BY <2>1, <2>2, ChunksKept
<1>13. CASE EndSession
  BY <1>13, ChunksEnd
<1>14. CASE Crash
  <2>1. UNCHANGED <<files, received, sessions>> /\ LoseWriter /\ pc' = "down"
    BY <1>14 DEF Crash, disk
  <2> QED BY <2>1, ChunksLost DEF LoseWriter
<1>15. CASE Reboot \/ UNCHANGED vars
  <2>1. UNCHANGED <<files, received, buffers, job, sessions, pc>>
    BY <1>15 DEF Reboot, vars, writer, disk, process
  <2>2. Written' /\ SameSessions
    BY <2>1 DEF Chunks, Written, SameSessions, Current
  <2> QED BY <2>1, <2>2, ChunksKept
<1> QED BY <1>1, <1>2, <1>3, <1>4, <1>5, <1>6, <1>7, <1>8, <1>9, <1>10, <1>11, <1>12, <1>13,
           <1>14, <1>15 DEF Next


-----------------------------------------------------------------------------
(* Chunks without a failed registration.                                       *)

(* No chunk is made, no event is buffered, and what was about to be registered *)
(* still is, or its buffer is gone.                                            *)
LEMMA ApartKept ==
    ASSUME TypeOK, Apart, UNCHANGED files, \A k \in Key : buffers'[k] \subseteq buffers[k],
           faults'["register"] = 0 => faults["register"] = 0,
           job' = job \/ job.step # "register" \/ \A k \in Key : buffers'[k] = {}
    PROVE  Apart'
<1> SUFFICES ASSUME faults'["register"] = 0 PROVE Apart'
  BY DEF Apart
<1>1. \A f \in files : f.key \in Key
  BY DEF TypeOK, WriterOK
<1> QED BY <1>1 DEF Apart

(* A new event is in no chunk.                                                 *)
LEMMA ApartAdd ==
    ASSUME TypeOK, Apart, NEW k \in Key, UNCHANGED <<files, faults>>, job = NoJob,
           buffers' = [buffers EXCEPT ![k] = @ \cup {clock + 1}]
    PROVE  Apart'
<1> SUFFICES ASSUME faults["register"] = 0 PROVE Apart'
  BY DEF Apart
<1>1. \A f \in files : f.key \in Key /\ f.rows \cap buffers[f.key] = {}
  BY DEF Apart, NoJob, TypeOK, WriterOK
<1>2. \A f \in files : clock + 1 \notin f.rows
  BY DEF TypeOK, WriterOK
<1>3. \A f \in files : f.rows \cap buffers'[f.key] = {}
  BY <1>1, <1>2 DEF TypeOK, WriterOK
<1> QED BY <1>3 DEF Apart

LEMMA ApartRename ==
    ASSUME TypeOK, Chunks, Apart, Rename, UNCHANGED faults
    PROVE  Apart'
<1> SUFFICES ASSUME faults["register"] = 0 PROVE Apart'
  BY DEF Apart
<1>1. PICK new \in files' : /\ new.key = job.key /\ new.rows = job.rows
                            /\ new.rows = buffers[job.key] /\ files' \subseteq files \cup {new}
  BY RenameFiles
<1>2. UNCHANGED buffers /\ job'.step = "register" /\ job'.key = job.key /\ job'.rows = job.rows
  <2>1. job \in JobType /\ job # NoJob
    BY DEF Rename, TypeOK, WriterOK, JobType, NoJob
  <2> QED BY <2>1 DEF Rename, JobType
<1>3. \A f \in files : f.rows \cap buffers[f.key] = {}
  BY DEF Apart, Rename
<1>4. \A f \in files : f.key = job.key => f.rows \cap new.rows = {}
  BY <1>1, <1>3
<1>5. \A f, g \in files' : f.key = g.key => f = g \/ f.rows \cap g.rows = {}
  BY <1>1, <1>4 DEF Apart
<1>6. \A f \in files' : \/ f.rows \cap buffers'[f.key] = {}
                        \/ job'.step = "register" /\ f.key = job'.key /\ f.rows = job'.rows
  BY <1>1, <1>2, <1>3
<1> QED BY <1>5, <1>6 DEF Apart

LEMMA ApartStep == ASSUME TypeOK, Sessions, Chunks, Apart, [Next]_vars PROVE Apart'
<1>1. ASSUME NEW k \in Key, Receive(k) PROVE Apart'
  BY <1>1, ApartAdd DEF Receive, Add, disk
<1>2. CASE Reselect \/ Begin
  BY <1>2, ApartAdd, KeyAssumption DEF Reselect, Begin, Add, disk
<1>3. CASE FlushStep
  <2>1. CASE WriteTmp
    BY <1>3, <2>1, ApartKept DEF FlushStep, Quiet, WriteTmp
  <2>2. CASE Rename
    BY <1>3, <2>2, ApartRename DEF FlushStep, Quiet
  <2> QED BY <1>3, <2>1, <2>2 DEF FlushStep
<1>4. CASE FlushDone
  <2>1. /\ job.step = "register" /\ job.key \in Key /\ UNCHANGED <<files, faults>>
        /\ buffers' = [buffers EXCEPT ![job.key] = {}] /\ job' = NoJob
    BY <1>4 DEF FlushDone, Register, TypeOK, WriterOK, NoJob
  <2> SUFFICES ASSUME faults["register"] = 0 PROVE Apart'
    BY <2>1 DEF Apart
  <2>2. \A f \in files : f.key \in Key
    BY DEF TypeOK, WriterOK
  <2>3. buffers'[job.key] = {} /\ \A k \in Key \ {job.key} : buffers'[k] = buffers[k]
    BY <2>1 DEF TypeOK, WriterOK
  <2>4. \A f \in files : f.rows \cap buffers'[f.key] = {}
    BY <2>2, <2>3 DEF Apart
  <2> QED BY <2>1, <2>4 DEF Apart
<1>5. CASE FlushFails
  <2>1. UNCHANGED files /\ job' = NoJob
    BY <1>5 DEF FlushFails, WriteRaises, RegisterRaises, disk
  <2>2. \A k \in Key : buffers'[k] \subseteq buffers[k]
    BY <1>5 DEF FlushFails, Escape
  <2>3. CASE WriteRaises /\ MayFail("write")
    <3>1. faults'["register"] = 0 => faults["register"] = 0
      BY <2>3 DEF MayFail, TypeOK, Fault
    <3>2. job.step # "register"
      BY <2>3 DEF WriteRaises
    <3> QED BY <2>1, <2>2, <3>1, <3>2, ApartKept
  <2>4. CASE RegisterRaises /\ MayFail("register")
    BY <2>4, FaultTypes DEF Fault, Apart
  <2> QED BY <1>5, <2>3, <2>4 DEF FlushFails
<1>6. CASE Crash \/ EndSession
  <2>1. faults'["register"] = 0 => faults["register"] = 0
    BY <1>6 DEF Crash, EndSession, MayFail, TypeOK, Fault
  <2>2. UNCHANGED files /\ \A k \in Key : buffers'[k] = {}
    BY <1>6 DEF Crash, EndSession, LoseWriter, disk
  <2> QED BY <2>1, <2>2, ApartKept
<1>7. CASE FlushAll
  BY <1>7, ApartKept DEF FlushAll, Flush, Quiet, disk, NoJob
<1>8. CASE Miss \/ RecoverOrphan \/ OrphansDone \/ Classify \/ BackfillDone \/ Heartbeat
           \/ HeartbeatFails \/ Stop \/ Reboot \/ UNCHANGED vars
  <2>1. UNCHANGED <<files, buffers, job>>
    BY <1>8 DEF Miss, RecoverOrphan, Recover, OrphansDone, Classify, BackfillDone, Heartbeat,
                HeartbeatFails, Stop, Reboot, vars, writer, disk
  <2>2. faults'["register"] = 0 => faults["register"] = 0
    BY <1>8 DEF Miss, RecoverOrphan, OrphansDone, Classify, BackfillDone, Heartbeat,
                HeartbeatFails, Stop, Reboot, vars, MayFail, TypeOK, Fault
  <2> QED BY <2>1, <2>2, ApartKept
<1> QED BY <1>1, <1>2, <1>3, <1>4, <1>5, <1>6, <1>7, <1>8 DEF Next

-----------------------------------------------------------------------------
(* The orphan scan.                                                            *)
Past == {"classify", "backfill", "recording", "stopping"}

LEMMA ScannedKept ==
    ASSUME Scanned, files' \subseteq files, coverage \subseteq coverage', Current' = Current,
           sessions'[Current].start = sessions[Current].start, pc' \in Past => pc \in Past,
           faults'["recover"] = 0 => faults["recover"] = 0
    PROVE  Scanned'
BY DEF Scanned, Past

LEMMA ScannedStep == ASSUME TypeOK, Sessions, Chunks, Scanned, [Next]_vars PROVE Scanned'
<1>1. ASSUME NEW k \in Key, Receive(k) PROVE Scanned'
  BY <1>1, ScannedKept DEF Receive, Add, disk, process, Current
<1>2. CASE Begin
  BY <1>2 DEF Begin, Scanned
<1>3. CASE FlushStep
  <2>1. UNCHANGED <<pc, sessions, faults, coverage>>
    BY <1>3 DEF FlushStep, Quiet, process, WriteTmp, Rename
  <2>2. CASE WriteTmp
    BY <2>1, <2>2, ScannedKept DEF WriteTmp, Current
  <2>3. CASE Rename
    <3>1. PICK new \in files' : /\ new.rows = buffers[job.key] /\ new.end \in new.rows
                                /\ files' \subseteq files \cup {new}
      BY <2>3, RenameFiles
    <3>2. pc # "down" /\ job.key \in Key
      BY <2>3 DEF Rename, NoJob, Sessions, Dead, TypeOK, WriterOK
    <3>3. sessions[Current].start \in Nat /\ clock \in Nat
      BY <3>2, SessionTypes DEF Session, TypeOK, WriterOK
    <3>4. ~(new.end <= sessions[Current].start)
      BY <3>1, <3>2, <3>3 DEF Sessions, Alive
    <3> QED BY <2>1, <3>1, <3>4 DEF Scanned, Current
  <2> QED BY <1>3, <2>2, <2>3 DEF FlushStep
<1>4. CASE FlushDone
  BY <1>4, ScannedKept DEF FlushDone, Register, Current, Past
<1>5. CASE FlushFails
  <2>1. CASE pc = "recording" /\ UNCHANGED <<pc, sessions>>
    <3>1. UNCHANGED <<files, coverage>>
      BY <1>5 DEF FlushFails, WriteRaises, RegisterRaises, disk
    <3>2. faults'["recover"] = 0 => faults["recover"] = 0
      BY <1>5 DEF FlushFails, MayFail, TypeOK, Fault
    <3> QED BY <2>1, <3>1, <3>2, ScannedKept DEF Current
  <2>2. CASE pc' = "down"
    BY <2>2 DEF Scanned
  <2> QED BY <1>5, <2>1, <2>2 DEF FlushFails, Escape
<1>6. CASE RecoverOrphan
  BY <1>6, ScannedKept DEF RecoverOrphan, Recover, process, Current
<1>7. CASE OrphansDone
  <2>1. UNCHANGED <<files, coverage>>
    BY <1>7 DEF OrphansDone, disk
  <2>2. CASE Orphans = {}
    BY <2>1, <2>2 DEF Scanned, Orphans, NameOf
  <2>3. CASE MayFail("recover")
    BY <2>3, FaultTypes DEF Scanned, Fault
  <2> QED BY <1>7, <2>2, <2>3 DEF OrphansDone
<1>8. CASE Classify \/ Heartbeat
  <2>1. /\ UNCHANGED <<files, coverage, faults>> /\ pc \in Past
        /\ \/ sessions' = [sessions EXCEPT ![Current].classified = TRUE]
           \/ sessions' = [sessions EXCEPT ![Current].beat = clock]
    BY <1>8 DEF Classify, Heartbeat, disk, Past
  <2>2. Current' = Current /\ sessions'[Current].start = sessions[Current].start
    <3>1. Current \in DOMAIN sessions /\ sessions[Current] \in Session
      BY <2>1, SessionTypes DEF Past
    <3> QED BY <2>1, <3>1 DEF Current, TypeOK, Session
  <2> QED BY <2>1, <2>2, ScannedKept
<1>9. CASE Crash \/ EndSession
  BY <1>9 DEF Crash, EndSession, Scanned
<1>10. CASE Miss \/ Reselect \/ BackfillDone \/ HeartbeatFails \/ Stop \/ FlushAll \/ Reboot
            \/ UNCHANGED vars
  <2>1. UNCHANGED <<files, coverage, sessions>> /\ (pc' \in Past => pc \in Past)
    BY <1>10 DEF Miss, Reselect, Add, BackfillDone, HeartbeatFails, Stop, FlushAll, Flush, Quiet,
                 Reboot, vars, disk, process, Past
  <2>2. faults'["recover"] = 0 => faults["recover"] = 0
    BY <1>10 DEF Miss, Reselect, BackfillDone, HeartbeatFails, Stop, FlushAll, Quiet,
                 Reboot, vars, MayFail, TypeOK, Fault
  <2> QED BY <2>1, <2>2, ScannedKept DEF Current
<1> QED BY <1>1, <1>2, <1>3, <1>4, <1>5, <1>6, <1>7, <1>8, <1>9, <1>10 DEF Next


-----------------------------------------------------------------------------
(* Missed events.                                                              *)

(* A step that leaves the sessions and the rows alone.                         *)
LEMMA AccountedKept ==
    ASSUME Accounted, UNCHANGED <<sessions, downtime, missed>>,
           pc' = "down" <=> pc = "down", Starting => Starting'
    PROVE  Accounted'
BY DEF Accounted, Settled, Pending, Logged, Tolerated, Hidden, LastSign, Current, Previous

(* The process ends, closing its session or not.  What was pending for its gap *)
(* row happened since its start, so is pending for the next one's, or before   *)
(* it, when it died before its row.                                            *)
LEMMA AccountedDown ==
    ASSUME TypeOK, Sessions, Accounted, pc # "down", pc' = "down", UNCHANGED <<downtime, missed>>,
           \/ UNCHANGED sessions
           \/ pc = "stopping" /\ sessions' = [sessions EXCEPT ![Current].end = clock,
                                                              ![Current].status = "CLEAN"]
    PROVE  Accounted'
<1>1. /\ Current \in Nat \ {0} /\ Current \in DOMAIN sessions /\ DOMAIN sessions = 1..Current
      /\ Current' = Current
  BY SessionTypes DEF TypeOK, Current
<1>2. Current = 1 => missed = {}
  BY DEF Accounted
<1>3. \A m \in missed : m.at \in Nat
  BY DEF TypeOK
<1> SUFFICES ASSUME NEW m \in missed, m.phase = "down" PROVE Settled(m.at)' \/ Pending(m.at)'
  BY <1>1, <1>2 DEF Accounted
<1>4. \A i \in DOMAIN sessions : /\ sessions'[i].start = sessions[i].start
                                 /\ sessions'[i].classified = sessions[i].classified
                                 /\ i # Current => sessions'[i] = sessions[i]
  <2>1. \A i \in DOMAIN sessions : sessions[i] \in Session
    BY DEF TypeOK
  <2>2. CASE UNCHANGED sessions
    BY <2>2
  <2>3. CASE sessions' = [sessions EXCEPT ![Current].end = clock, ![Current].status = "CLEAN"]
    BY <1>1, <2>1, <2>3 DEF Session
  <2> QED BY <2>2, <2>3
<1>5. CASE Logged(m.at)
  BY <1>5 DEF Settled, Logged
<1>6. CASE Tolerated(m.at)
  <2>1. PICK i \in DOMAIN sessions : /\ sessions[i].status = "CLEAN" /\ LastSign(sessions[i]) <= m.at
                                     /\ m.at <= LastSign(sessions[i]) + CleanSlack
    BY <1>6 DEF Tolerated
  <2>2. i # Current
    BY <2>1 DEF Sessions, Alive
  <2>3. i \in DOMAIN sessions' /\ sessions'[i] = sessions[i]
    BY <1>1, <1>4, <2>2
  <2> QED BY <2>1, <2>3 DEF Settled, Tolerated, LastSign
<1>7. CASE Hidden(m.at)
  <2>1. PICK i \in 2..Current : /\ ~sessions[i].classified /\ LastSign(sessions[i - 1]) <= m.at
                                /\ m.at < sessions[i].start
    BY <1>7 DEF Hidden
  <2>2. i \in DOMAIN sessions /\ i - 1 \in DOMAIN sessions /\ i - 1 # Current
    BY <1>1
  <2>3. sessions'[i - 1] = sessions[i - 1]
    BY <1>4, <2>2
  <2> QED BY <1>1, <1>4, <2>1, <2>2, <2>3 DEF Settled, Hidden, LastSign
<1>8. CASE Starting /\ LastSign(sessions[Previous]) <= m.at
  <2>1. UNCHANGED sessions
    BY <1>8 DEF Starting
  <2>2. sessions[Current] \in Session /\ Current \in 2..Current /\ Previous = Current - 1
    BY <1>1, <1>2 DEF TypeOK, Previous, Current
  <2>3. ~sessions[Current].classified
    <3>1. pc \notin {"backfill", "recording", "stopping"}
      BY <1>8 DEF Starting
    <3> QED BY <3>1 DEF Sessions, Alive
  <2>4. LastSign(sessions[Current]) = sessions[Current].start /\ sessions[Current].start \in Nat
    BY <1>1, <2>2, <2>3 DEF Sessions, Ordered, Session
  <2>5. CASE sessions[Current].start <= m.at
    BY <1>1, <2>1, <2>4, <2>5 DEF Pending, LastSign
  <2>6. CASE ~(sessions[Current].start <= m.at)
    <3>1. m.at < sessions[Current].start
      BY <1>3, <2>4, <2>6
    <3>2. Hidden(m.at)
      BY <1>8, <2>2, <2>3, <3>1 DEF Hidden
    <3>3. Hidden(m.at)'
      BY <1>1, <2>1, <3>2 DEF Hidden, LastSign
    <3> QED BY <3>3 DEF Settled
  <2> QED BY <2>5, <2>6
<1> QED BY <1>5, <1>6, <1>7, <1>8 DEF Accounted, Settled, Pending

(* The gap row: what was pending is inside it, or a clean stop just before.     *)
LEMMA AccountedClassify ==
    ASSUME TypeOK, Sessions, Accounted, Classify PROVE Accounted'
<1>1. /\ Current \in Nat \ {0} /\ Current \in DOMAIN sessions /\ DOMAIN sessions = 1..Current
      /\ DOMAIN sessions' = 1..Current
      /\ Current' = Current /\ pc = "classify" /\ pc' \in {"backfill", "recording"}
      /\ sessions' = [sessions EXCEPT ![Current].classified = TRUE] /\ missed' = missed
      /\ downtime' = IF Previous > 0 /\ Reportable(sessions[Previous])
                     THEN downtime \cup {Window(Previous)} ELSE downtime
  <2>1. pc # "down" /\ pc = "classify"
    BY DEF Classify
  <2> QED BY <2>1, SessionTypes DEF Classify, TypeOK, Current
<1>2. Current = 1 => missed = {}
  BY <1>1 DEF Accounted
<1>3. clock \in Nat /\ \A m \in missed : m.at \in Nat /\ m.at <= clock
  BY DEF TypeOK, WriterOK
<1> SUFFICES ASSUME NEW m \in missed, m.phase = "down" PROVE Settled(m.at)'
  BY <1>1, <1>2 DEF Accounted
<1>4. \A i \in DOMAIN sessions : /\ sessions'[i].start = sessions[i].start
                                 /\ sessions'[i].status = sessions[i].status
                                 /\ LastSign(sessions'[i]) = LastSign(sessions[i])
                                 /\ i # Current => sessions'[i] = sessions[i]
  <2>1. \A i \in DOMAIN sessions : sessions[i] \in Session
    BY DEF TypeOK
  <2> QED BY <1>1, <2>1 DEF Session, LastSign
<1>5. CASE Logged(m.at)
  BY <1>1, <1>5 DEF Settled, Logged
<1>6. CASE Tolerated(m.at)
  BY <1>1, <1>4, <1>6 DEF Settled, Tolerated, LastSign
<1>7. ASSUME LastSign(sessions[Previous]) <= m.at PROVE Settled(m.at)'
  <2>1. Previous \in DOMAIN sessions /\ Previous > 0 /\ Previous # Current
    <3>1. Current # 1
      BY <1>2
    <3>2. Current - 1 \in 1..Current /\ Current - 1 # Current
      BY <1>1, <3>1
    <3>3. Previous = Current - 1
      BY DEF Previous, Current
    <3> QED BY <1>1, <3>2, <3>3
  <2>2. sessions[Previous] \in Session
    BY <2>1 DEF TypeOK
  <2>3. LastSign(sessions[Previous]) \in Nat
    BY <2>2 DEF LastSign, Session
  <2>4. CASE Reportable(sessions[Previous])
    <3>1. Window(Previous) \in downtime'
      BY <1>1, <2>1, <2>4
    <3>2. Window(Previous).start <= m.at /\ m.at <= Window(Previous).end
      BY <1>3, <1>7 DEF Window
    <3> QED BY <3>1, <3>2 DEF Settled, Logged
  <2>5. CASE ~Reportable(sessions[Previous])
    <3>1. sessions[Previous].status = "CLEAN" /\ clock - LastSign(sessions[Previous]) <= CleanSlack
      BY <1>3, <2>2, <2>3, <2>5, SlackAssumption DEF Reportable, Session
    <3>2. m.at <= LastSign(sessions[Previous]) + CleanSlack
      BY <1>3, <2>3, <3>1, SlackAssumption
    <3>3. Tolerated(m.at)
      BY <1>7, <2>1, <3>1, <3>2 DEF Tolerated
    <3> QED BY <1>1, <1>4, <3>3 DEF Settled, Tolerated, LastSign
  <2> QED BY <2>4, <2>5
<1>8. CASE Hidden(m.at)
  <2>1. PICK i \in 2..Current : /\ ~sessions[i].classified /\ LastSign(sessions[i - 1]) <= m.at
                                /\ m.at < sessions[i].start
    BY <1>8 DEF Hidden
  <2>2. i \in DOMAIN sessions /\ i - 1 \in DOMAIN sessions
    BY <1>1
  <2>3. CASE i = Current
    BY <1>7, <2>1, <2>3 DEF Previous, Current
  <2>4. CASE i # Current
    <3>1. sessions'[i] = sessions[i] /\ LastSign(sessions'[i - 1]) = LastSign(sessions[i - 1])
      BY <1>4, <2>2, <2>4
    <3> QED BY <1>1, <2>1, <3>1 DEF Settled, Hidden, LastSign
  <2> QED BY <2>3, <2>4
<1>9. CASE Pending(m.at)
  BY <1>1, <1>7, <1>9 DEF Pending
<1> QED BY <1>5, <1>6, <1>8, <1>9 DEF Accounted, Settled

LEMMA AccountedBegin == ASSUME TypeOK, Sessions, Accounted, Begin PROVE Accounted'
<1>1. /\ Current \in Nat /\ Current' = Current + 1 /\ pc = "down" /\ pc' = "selection"
      /\ DOMAIN sessions = 1..Current /\ DOMAIN sessions' = 1..Current + 1
      /\ \A i \in DOMAIN sessions : sessions'[i] = sessions[i]
      /\ UNCHANGED <<downtime, missed>>
  BY DEF Begin, TypeOK, Current
<1>2. Current = 0 => missed = {}
  BY DEF Accounted
<1> SUFFICES ASSUME NEW m \in missed, m.phase = "down" PROVE Settled(m.at)' \/ Pending(m.at)'
  BY <1>1, <1>2 DEF Accounted
<1>3. CASE Logged(m.at) \/ Tolerated(m.at)
  BY <1>1, <1>3 DEF Settled, Logged, Tolerated, LastSign
<1>4. CASE Hidden(m.at)
  <2>1. PICK i \in 2..Current : /\ ~sessions[i].classified /\ LastSign(sessions[i - 1]) <= m.at
                                /\ m.at < sessions[i].start
    BY <1>4 DEF Hidden
  <2>2. i \in DOMAIN sessions /\ i - 1 \in DOMAIN sessions /\ i \in 2..Current + 1
    BY <1>1
  <2> QED BY <1>1, <2>1, <2>2 DEF Settled, Hidden, LastSign
<1>5. CASE Pending(m.at)
  <2>1. Current \in DOMAIN sessions /\ LastSign(sessions[Current]) <= m.at
    BY <1>1, <1>2, <1>5 DEF Pending, Starting
  <2>2. Previous' = Current
    BY <1>1 DEF Previous, Current
  <2>3. LastSign(sessions'[Previous']) <= m.at /\ Starting'
    BY <1>1, <2>1, <2>2 DEF Starting
  <2> QED BY <2>3 DEF Pending, LastSign
<1> QED BY <1>3, <1>4, <1>5 DEF Accounted, Settled

LEMMA AccountedMiss == ASSUME TypeOK, Sessions, Accounted, Miss PROVE Accounted'
<1>1. /\ UNCHANGED <<sessions, downtime, pc>>
      /\ missed' = missed \cup {[at |-> clock + 1,
                                 phase |-> IF pc = "backfill" THEN "backfill" ELSE "down"]}
      /\ Current > 1 \/ (Current = 1 /\ pc = "down")
      /\ pc \in {"down", "orphans", "classify", "backfill"}
      /\ clock \in Nat /\ Current \in Nat /\ DOMAIN sessions = 1..Current
  BY DEF Miss, process, TypeOK, WriterOK, Current
<1>2. \A t : (Settled(t) <=> Settled(t)') /\ (Pending(t) <=> Pending(t)')
  BY <1>1 DEF Settled, Pending, Logged, Tolerated, Hidden, LastSign, Starting, Current, Previous
<1>3. \A i \in DOMAIN sessions : LastSign(sessions[i]) <= clock /\ LastSign(sessions[i]) \in Nat
  <2>1. \A i \in DOMAIN sessions : sessions[i] \in Session
    BY DEF TypeOK
  <2> QED BY <2>1 DEF Sessions, Ordered, LastSign, Session
<1>4. CASE pc = "backfill"
  <2> DEFINE n == [at |-> clock + 1, phase |-> "backfill"]
  <2>1. missed' = missed \cup {n} /\ n.phase # "down"
    BY <1>1, <1>4
  <2> HIDE DEF n
  <2>2. Current' = Current /\ pc' # "down" /\ Current # 0 /\ Current # 1
    BY <1>1, <1>4 DEF Current
  <2>3. \A m \in missed' : m.phase = "down" => Settled(m.at)' \/ Pending(m.at)'
    BY <1>2, <2>1 DEF Accounted
  <2> QED BY <2>2, <2>3 DEF Accounted
<1>5. CASE pc = "down"
  <2>1. LastSign(sessions[Current]) <= clock + 1
    BY <1>1, <1>3
  <2> QED BY <1>1, <1>2, <1>5, <2>1 DEF Accounted, Pending, Current
<1>6. CASE pc \in {"orphans", "classify"}
  <2>1. LastSign(sessions[Previous]) <= clock + 1
    <3>1. Previous \in DOMAIN sessions
      BY <1>1, <1>6 DEF Previous, Current
    <3> QED BY <1>1, <1>3, <3>1
  <2> QED BY <1>1, <1>2, <1>6, <2>1 DEF Accounted, Pending, Starting, Current
<1> QED BY <1>1, <1>4, <1>5, <1>6

(* A heartbeat moves the last sign of life of the living session only.          *)
LEMMA AccountedBeat == ASSUME TypeOK, Sessions, Accounted, Heartbeat PROVE Accounted'
<1>1. /\ UNCHANGED <<downtime, missed, pc>> /\ pc = "recording"
      /\ sessions' = [sessions EXCEPT ![Current].beat = clock]
      /\ Current \in DOMAIN sessions /\ Current \in Nat /\ Current' = Current
      /\ DOMAIN sessions = 1..Current /\ DOMAIN sessions' = 1..Current
  <2>1. pc = "recording" /\ sessions' = [sessions EXCEPT ![Current].beat = clock]
    BY DEF Heartbeat
  <2> QED BY <2>1, SessionTypes DEF Heartbeat, TypeOK, Current
<1>2. \A i \in DOMAIN sessions : /\ sessions'[i].start = sessions[i].start
                                 /\ sessions'[i].classified = sessions[i].classified
                                 /\ i # Current => sessions'[i] = sessions[i]
  BY <1>1 DEF TypeOK, Session
<1> SUFFICES ASSUME NEW m \in missed, m.phase = "down" PROVE Settled(m.at)'
  BY <1>1 DEF Accounted
<1>3. CASE Logged(m.at)
  BY <1>1, <1>3 DEF Settled, Logged
<1>4. CASE Tolerated(m.at)
  <2>1. PICK i \in DOMAIN sessions : /\ sessions[i].status = "CLEAN" /\ LastSign(sessions[i]) <= m.at
                                     /\ m.at <= LastSign(sessions[i]) + CleanSlack
    BY <1>4 DEF Tolerated
  <2>2. i # Current
    BY <1>1, <2>1 DEF Sessions, Alive
  <2> QED BY <1>1, <1>2, <2>1, <2>2 DEF Settled, Tolerated, LastSign
<1>5. CASE Hidden(m.at)
  <2>1. PICK i \in 2..Current : /\ ~sessions[i].classified /\ LastSign(sessions[i - 1]) <= m.at
                                /\ m.at < sessions[i].start
    BY <1>5 DEF Hidden
  <2>2. i \in DOMAIN sessions /\ i - 1 \in DOMAIN sessions /\ i - 1 # Current
    BY <1>1
  <2>3. sessions'[i - 1] = sessions[i - 1]
    BY <1>2, <2>2
  <2> QED BY <1>1, <1>2, <2>1, <2>2, <2>3 DEF Settled, Hidden, LastSign
<1> QED BY <1>1, <1>3, <1>4, <1>5 DEF Accounted, Settled, Pending, Starting

LEMMA AccountedStep == ASSUME TypeOK, Sessions, Accounted, [Next]_vars PROVE Accounted'
<1>1. ASSUME NEW k \in Key, Receive(k) PROVE Accounted'
  BY <1>1, AccountedKept DEF Receive, process, Starting
<1>2. CASE Reselect \/ FlushStep \/ RecoverOrphan \/ OrphansDone \/ BackfillDone
           \/ HeartbeatFails \/ Stop \/ FlushAll \/ Reboot \/ UNCHANGED vars
  BY <1>2, AccountedKept DEF Reselect, FlushStep, Quiet, RecoverOrphan, OrphansDone, BackfillDone,
                             HeartbeatFails, Stop, FlushAll, Reboot, vars, process, Starting
<1>3. CASE FlushDone
  <2>1. pc # "down"
    BY <1>3 DEF FlushDone, Register, Sessions, Dead, NoJob
  <2> QED BY <1>3, <2>1, AccountedKept DEF FlushDone, Starting
<1>4. CASE FlushFails
  <2>1. UNCHANGED <<sessions, downtime, missed>>
    BY <1>4 DEF FlushFails, Escape
  <2>2. CASE UNCHANGED pc
    BY <2>1, <2>2, AccountedKept DEF Starting
  <2>3. CASE pc # "down" /\ pc' = "down"
    BY <2>1, <2>3, AccountedDown
  <2> QED BY <1>4, <2>2, <2>3 DEF FlushFails, Escape
<1>5. CASE Crash \/ EndSession
  BY <1>5, AccountedDown DEF Crash, EndSession
<1>6. CASE Miss
  BY <1>6, AccountedMiss
<1>7. CASE Begin
  BY <1>7, AccountedBegin
<1>8. CASE Classify
  BY <1>8, AccountedClassify
<1>9. CASE Heartbeat
  BY <1>9, AccountedBeat
<1> QED BY <1>1, <1>2, <1>3, <1>4, <1>5, <1>6, <1>7, <1>8, <1>9 DEF Next

-----------------------------------------------------------------------------
(* The inductive invariant, and what follows from it.                          *)
LEMMA InitIInv == Init => IInv
<1> SUFFICES ASSUME Init PROVE IInv
  OBVIOUS
<1>1. Apart /\ Scanned
  BY DEF Init, InitWriter, Apart, Scanned
<1>2. Accounted
  BY DEF Init, Accounted
<1> QED BY <1>1, <1>2, InitTypes, InitSessions, InitChunks DEF IInv

LEMMA IInvStep == IInv /\ [Next]_vars => IInv'
<1> SUFFICES ASSUME IInv, [Next]_vars PROVE IInv'
  OBVIOUS
<1>1. TypeOK'
  BY TypesStep DEF IInv
<1>2. Sessions' /\ Chunks'
  BY <1>1, SessionsStep, ChunksStep DEF IInv
<1>3. Apart' /\ Scanned' /\ Accounted'
  BY ApartStep, ScannedStep, AccountedStep DEF IInv
<1> QED BY <1>1, <1>2, <1>3 DEF IInv

LEMMA Invariant == Spec => []IInv
BY InitIInv, IInvStep, PTL DEF Spec

(* Nothing received by the living process is lost by a write, a rename or a    *)
(* registration that fails: flush_key empties a buffer only once its chunk is  *)
(* on disk and registered.                                                     *)
THEOREM EventsKept == Spec => []EventsAreKept
<1>1. IInv => EventsAreKept
  BY DEF IInv, Chunks
<1> QED BY <1>1, Invariant, PTL

(* A session that end_session marked CLEAN has everything it received in a     *)
(* chunk on disk, however often its flushes failed and whatever came later.    *)
THEOREM CleanSessions == Spec => []CleanSessionsKeepAll
<1>1. IInv => CleanSessionsKeepAll
  BY DEF IInv, Chunks
<1> QED BY <1>1, Invariant, PTL

(* A chunk that has its coverage row holds every event of its key received     *)
(* between the start and the end the row tells.                                *)
THEOREM CoverageComplete == Spec => []CoverageIsComplete
<1>1. IInv => CoverageIsComplete
  BY DEF IInv, Chunks, FilesSpan, CoverageIsComplete
<1> QED BY <1>1, Invariant, PTL

(* Without a failed registration no event is in two covered chunks: crashes    *)
(* between any two steps of flush_key and failed writes do not write one twice.*)
THEOREM Once == Spec => []CoveredOnce
<1>1. IInv => CoveredOnce
  BY DEF IInv, Apart, CoveredOnce
<1> QED BY <1>1, Invariant, PTL

(* Once a session records, the chunks of all sessions before it have their     *)
(* coverage rows, unless registering one failed again in the orphan scan.      *)
THEOREM OldCovered == Spec => []OldChunksAreCovered
<1>1. IInv => OldChunksAreCovered
  BY DEF IInv, Scanned, OldChunksAreCovered
<1> QED BY <1>1, Invariant, PTL

(* Once a session records, what was missed while no recorder ran is in a gap   *)
(* row, or short after a clean stop, or before a session that died in start(). *)
THEOREM DowntimeLogged == Spec => []DowntimeIsLogged
<1>1. IInv => DowntimeIsLogged
  BY DEF IInv, Accounted, Settled, Pending, Starting, DowntimeIsLogged
<1> QED BY <1>1, Invariant, PTL

=============================================================================
