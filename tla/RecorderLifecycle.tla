-------------------------- MODULE RecorderLifecycle -------------------------
(***************************************************************************)
(* The life of the recorder process: BinanceLiveRecorder.start, the sessions *)
(* and heartbeats it keeps in IntegrityStore, the chunks it writes, and what *)
(* a restart finds out about the process before it.                         *)
(*                                                                          *)
(* One market event happens per clock tick, whether or not a recorder is    *)
(* there to receive it.                                                     *)
(***************************************************************************)
EXTENDS ChunkWriter, Sequences

CONSTANTS
    RawKeys,       \* keys of the raw writer that carry market events
    FeatureKeys,   \* keys of the feature writer
    MetaKey,       \* ("metadata", "GLOBAL", "universe_selection")
    CleanSlack,    \* heartbeat_seconds * 2000
    BackfillAfter, \* 60_000: a window this long is backfilled
    MaxClock,      \* bound: market events in all
    FaultLimit     \* bound: how often each fault happens

Fault == {"crash", "startcrash", "reboot", "write", "register", "recover", "heartbeat", "stop"}

ASSUME KeyAssumption == Key = RawKeys \cup FeatureKeys \cup {MetaKey}
ASSUME DisjointAssumption == /\ RawKeys \cap FeatureKeys = {}
                             /\ MetaKey \notin RawKeys \cup FeatureKeys
ASSUME SlackAssumption == CleanSlack \in Nat /\ BackfillAfter \in Nat /\ MaxClock \in Nat
ASSUME FaultAssumption == FaultLimit \in [Fault -> Nat]

VARIABLES
    pc,         \* where start() is
    boot,       \* the kernel's boot_id
    sessions,   \* rows of the sessions table, with the session's heartbeat row
                \* and, as history, whether start() came past its gap row
    downtime,   \* the gap rows start() records
    loops,      \* the tasks of start() that have not died of an exception
    faults,     \* faults so far
    received,   \* history: [key, at] of every event given to a writer
    missed      \* history: [at, phase] of market events no recorder received

process == <<pc, boot, sessions, downtime, loops>>
vars == <<clock, buffers, started, job, files, tmps, coverage, process, faults,
          received, missed>>

Loop == {"features", "heartbeat", "universe"}
Current == Len(sessions)
Previous == Len(sessions) - 1

MayFail(f) == /\ faults[f] < FaultLimit[f]
              /\ faults' = [faults EXCEPT ![f] = @ + 1]

Starting == pc \in {"selection", "orphans", "classify"}

Init == /\ InitWriter
        /\ clock = 0 /\ pc = "down" /\ boot = 0 /\ sessions = <<>>
        /\ downtime = {} /\ loops = {} /\ faults = [f \in Fault |-> 0]
        /\ received = {} /\ missed = {}

-----------------------------------------------------------------------------
(* Market events *)

\* _write_event / feature_writer.add while the tasks of start() run.
Receive(k) ==
    /\ pc = "recording" /\ clock < MaxClock
    /\ k \in FeatureKeys => "features" \in loops
    /\ k \in RawKeys \cup FeatureKeys
    /\ clock' = clock + 1
    /\ Add(k, clock + 1, FALSE)
    /\ received' = received \cup {[key |-> k, at |-> clock + 1]}
    /\ UNCHANGED <<process, faults, missed>>

\* Counted from the end of the first session on: nothing was promised before.
Miss == /\ clock < MaxClock /\ job = NoJob
        /\ Current > 1 \/ (Current = 1 /\ pc = "down")
        /\ pc \in {"down", "orphans", "classify", "backfill"}
        /\ clock' = clock + 1
        /\ missed' = missed \cup {[at |-> clock + 1,
                         phase |-> IF pc = "backfill" THEN "backfill" ELSE "down"]}
        /\ UNCHANGED <<writer, disk, process, faults, received>>

\* _refresh_universe found another top 20: one metadata event, flushed at once.
Reselect == /\ pc = "recording" /\ "universe" \in loops /\ clock < MaxClock
            /\ clock' = clock + 1
            /\ Add(MetaKey, clock + 1, TRUE)
            /\ received' = received \cup {[key |-> MetaKey, at |-> clock + 1]}
            /\ UNCHANGED <<process, faults, missed>>

-----------------------------------------------------------------------------
(* flush_key *)

Quiet == UNCHANGED <<clock, process, faults, received, missed>>

FlushStep == (WriteTmp \/ Rename) /\ Quiet

\* Registered: the caller goes on; at start-up that is the orphan scan.
FlushDone == /\ Register
             /\ pc' = IF pc = "selection" THEN "orphans" ELSE pc
             /\ UNCHANGED <<clock, boot, sessions, downtime, loops, faults, received, missed>>

\* Slip: a failed flush gives its events up.
EscapeDrops == /\ pc = "recording"
               /\ buffers' = [buffers EXCEPT ![job.key] = {}]
               /\ UNCHANGED <<process, started>>

\* The exception leaves flush_key.  _ws_loop catches it; the feature and
\* universe loops end; start() itself ends without end_session.
Escape == \/ /\ pc = "recording"
             /\ loops' = loops \ (IF job.key \in FeatureKeys THEN {"features"}
                                  ELSE IF job.key = MetaKey THEN {"universe"} ELSE {})
             /\ UNCHANGED <<pc, boot, sessions, downtime>>
             /\ UNCHANGED <<buffers, started>>
          \/ /\ pc \in {"selection", "stopping"}
             /\ pc' = "down" /\ loops' = {} /\ UNCHANGED <<boot, sessions, downtime>>
             /\ buffers' = [k \in Key |-> {}] /\ started' = [k \in Key |-> NoTime]

FlushFails == /\ \/ WriteRaises /\ MayFail("write")
                 \/ RegisterRaises /\ MayFail("register")
              /\ Escape
              /\ UNCHANGED <<clock, received, missed>>

-----------------------------------------------------------------------------
(* start() *)

\* begin_session, then the first universe selection is written and flushed.
Begin == /\ pc = "down" /\ clock < MaxClock
         /\ pc' = "selection"
         /\ clock' = clock + 1
         /\ sessions' = Append(sessions, [start |-> clock, end |-> NoTime, boot |-> boot,
                                          status |-> "RUNNING", beat |-> NoTime,
                                          classified |-> FALSE])
         /\ Add(MetaKey, clock + 1, TRUE)
         /\ received' = received \cup {[key |-> MetaKey, at |-> clock + 1]}
         /\ UNCHANGED <<boot, downtime, loops, faults, missed>>

RecoverOrphan == /\ pc = "orphans"
                 /\ \E f \in Orphans : Recover(f)
                 /\ UNCHANGED <<writer, clock, process, faults, received, missed>>

\* Slip: recording starts before the scan has reached every file.
OrphansCutShort == /\ pc = "orphans" /\ pc' = "classify"
                   /\ UNCHANGED <<clock, writer, disk, boot, sessions, downtime, loops,
                                  faults, received, missed>>

\* A chunk whose registration fails again is skipped ("except Exception: continue").
OrphansDone == /\ pc = "orphans" /\ pc' = "classify"
               /\ IF Orphans = {} THEN UNCHANGED faults ELSE MayFail("recover")
               /\ UNCHANGED <<clock, writer, disk, boot, sessions, downtime, loops,
                              received, missed>>

\* The last time the session is known to have been alive.
LastSign(s) == IF s.beat # NoTime THEN s.beat
               ELSE IF s.end # NoTime THEN s.end ELSE s.start

Reason(s) == IF s.status = "RUNNING"
             THEN IF s.boot # boot THEN "POWER_LOSS" ELSE "PROCESS_CRASH"
             ELSE IF s.boot # boot THEN "MANUAL_REBOOT" ELSE "UNKNOWN"

\* A session that did not close, or closed longer ago than two heartbeats.
Reportable(s) == s.status = "RUNNING" \/ clock - LastSign(s) > CleanSlack

\* Slip: the row starts where this session starts.
WindowFromStart(i) == [start |-> sessions[i + 1].start, end |-> clock,
                       reason |-> Reason(sessions[i]), session |-> i]

Window(i) == [start |-> LastSign(sessions[i]), end |-> clock,
              reason |-> Reason(sessions[i]), session |-> i]

\* The gap row, the .tmp files renamed to .incomplete, and maybe a backfill.
Classify ==
    /\ pc = "classify"
    /\ LET report == Previous > 0 /\ Reportable(sessions[Previous]) IN
       /\ downtime' = IF report THEN downtime \cup {Window(Previous)} ELSE downtime
       /\ pc' = IF report /\ clock - Window(Previous).start >= BackfillAfter
                THEN "backfill" ELSE "recording"
       /\ loops' = IF pc' = "recording" THEN Loop ELSE {}
    /\ sessions' = [sessions EXCEPT ![Current].classified = TRUE]
    /\ tmps' = {}
    /\ UNCHANGED <<clock, writer, files, coverage, boot, faults, received, missed>>

BackfillDone == /\ pc = "backfill" /\ pc' = "recording" /\ loops' = Loop
                /\ UNCHANGED <<clock, writer, disk, boot, sessions, downtime, faults,
                               received, missed>>

Heartbeat == /\ pc = "recording" /\ job = NoJob /\ "heartbeat" \in loops
             /\ sessions' = [sessions EXCEPT ![Current].beat = clock]
             /\ UNCHANGED <<clock, writer, disk, pc, boot, downtime, loops, faults,
                            received, missed>>

\* status() or the heartbeat's SQLite write raises: nothing restarts the loop.
HeartbeatFails == /\ pc = "recording" /\ job = NoJob /\ "heartbeat" \in loops
                  /\ MayFail("heartbeat") /\ loops' = loops \ {"heartbeat"}
                  /\ UNCHANGED <<clock, writer, disk, pc, boot, sessions, downtime,
                                 received, missed>>

\* stop_event: the tasks are cancelled, then flush_all of both writers.
Stop == /\ pc = "recording" /\ job = NoJob /\ MayFail("stop")
        /\ pc' = "stopping" /\ loops' = {}
        /\ UNCHANGED <<clock, writer, disk, boot, sessions, downtime, received, missed>>

FlushAll == /\ pc = "stopping"
            /\ \E k \in Key :
                 /\ k \in FeatureKeys => \A r \in Key \ FeatureKeys : buffers[r] = {}
                 /\ Flush(k)
            /\ Quiet

\* Slip: the session closes before the feature writer is flushed.
EndBeforeFeatures == /\ pc = "stopping" /\ job = NoJob
                     /\ \A k \in Key \ FeatureKeys : buffers[k] = {}
                     /\ sessions' = [sessions EXCEPT ![Current].end = clock,
                                                     ![Current].status = "CLEAN"]
                     /\ pc' = "down" /\ LoseWriter
                     /\ UNCHANGED <<clock, disk, boot, downtime, loops, faults, received,
                                    missed>>

EndSession == /\ pc = "stopping" /\ job = NoJob /\ \A k \in Key : buffers[k] = {}
              /\ sessions' = [sessions EXCEPT ![Current].end = clock,
                                              ![Current].status = "CLEAN"]
              /\ pc' = "down" /\ LoseWriter
              /\ UNCHANGED <<clock, disk, boot, downtime, loops, faults, received, missed>>

-----------------------------------------------------------------------------
(* Crashes *)

Crash == /\ pc # "down"
         /\ MayFail(IF Starting THEN "startcrash" ELSE "crash")
         /\ boot' \in {boot, boot + 1}
         /\ pc' = "down" /\ loops' = {} /\ LoseWriter
         /\ UNCHANGED <<clock, disk, sessions, downtime, received, missed>>

Reboot == /\ pc = "down" /\ MayFail("reboot") /\ boot' = boot + 1
          /\ UNCHANGED <<clock, writer, disk, pc, sessions, downtime, loops, received,
                         missed>>

-----------------------------------------------------------------------------
Next == \/ \E k \in Key : Receive(k)
        \/ Miss \/ Reselect \/ FlushStep \/ FlushDone \/ FlushFails
        \/ Begin \/ RecoverOrphan \/ OrphansDone \/ Classify \/ BackfillDone
        \/ Heartbeat \/ HeartbeatFails \/ Stop \/ FlushAll \/ EndSession
        \/ Crash \/ Reboot

Spec == Init /\ [][Next]_vars

-----------------------------------------------------------------------------
Session == [start : Nat, end : Nat \cup {NoTime}, boot : Nat,
            status : {"RUNNING", "CLEAN"}, beat : Nat \cup {NoTime}, classified : BOOLEAN]
GapReason == {"POWER_LOSS", "PROCESS_CRASH", "MANUAL_REBOOT", "UNKNOWN"}
Row == [start : Nat, end : Nat, reason : GapReason, session : Nat]

TypeOK ==
    /\ WriterOK
    /\ pc \in {"down", "selection", "orphans", "classify", "backfill", "recording",
               "stopping"}
    /\ pc # "down" => sessions # <<>>
    /\ boot \in Nat /\ sessions \in Seq(Session) /\ downtime \subseteq Row
    /\ loops \subseteq Loop /\ faults \in [Fault -> Nat]
    /\ received \subseteq [key : Key, at : 1..clock]
    /\ missed \subseteq [at : 1..clock, phase : {"down", "backfill"}]

\* Events the session i received; a later session has started since.
ReceivedBy(i) == {r \in received :
    /\ sessions[i].start < r.at
    /\ i < Current => r.at <= sessions[i + 1].start}

(* Nothing received by the living process is lost, whatever fails: until its
   chunk is on disk an event stays in its buffer (flush_key).                *)
EventsAreKept == pc # "down" =>
    \A r \in ReceivedBy(Current) : r.at \in buffers[r.key] \cup Durable(r.key)

(* A session marked CLEAN has every event it received on disk. *)
CleanSessionsKeepAll == \A i \in DOMAIN sessions :
    sessions[i].status = "CLEAN" => \A r \in ReceivedBy(i) : r.at \in Durable(r.key)

(* A covered chunk misses nothing that was received between its start and its
   end, over failed and repeated flushes.                                    *)
CoverageIsComplete == \A f \in files : NameOf(f) \in coverage =>
    \A r \in received : r.key = f.key /\ r.at \in f.start..f.end => r.at \in f.rows

(* No event is in two covered chunks of its key, over crashes, restarts and
   failed writes, unless a registration failed.                              *)
CoveredOnce == faults["register"] = 0 => \A f, g \in files :
    f.key = g.key /\ {NameOf(f), NameOf(g)} \subseteq coverage => f = g \/ f.rows \cap g.rows = {}

(* A chunk finalized by an earlier session has its row once a new session
   records, unless its registration fails again ("Finalized chunks orphaned
   between atomic rename and SQLite metadata commit are rediscovered/re-registered
   after restart", IMPLEMENTATION_STATUS.md).                                *)
OldChunksAreCovered == pc = "recording" /\ faults["recover"] = 0 =>
    \A f \in files : f.end <= sessions[Current].start => NameOf(f) \in coverage

\* No row is required of a clean stop shorter than two heartbeats.
Tolerated(t) == \E i \in DOMAIN sessions :
    /\ sessions[i].status = "CLEAN" /\ LastSign(sessions[i]) <= t
    /\ t <= LastSign(sessions[i]) + CleanSlack

Logged(t) == \E w \in downtime : w.start <= t /\ t <= w.end

\* Before a session that died in start(): the next one only looks at that one.
Hidden(t) == \E i \in 2..Current :
    ~sessions[i].classified /\ LastSign(sessions[i - 1]) <= t /\ t < sessions[i].start

(* Once a session records, every market event missed while no recorder ran is
   inside a gap row: also when the process crashed in the middle of a flush, of
   the backfill or of its clean stop, and when its heartbeat had died; but for
   the time before a session that died in start() without its gap row.       *)
DowntimeIsLogged == pc = "recording" => \A m \in missed : m.phase = "down" =>
    Logged(m.at) \/ Tolerated(m.at) \/ Hidden(m.at)

=============================================================================
