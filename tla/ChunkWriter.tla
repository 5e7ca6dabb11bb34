---------------------------- MODULE ChunkWriter ----------------------------
(***************************************************************************)
(* The two ChunkWriters of the recorder (live/chunks.py): events buffered   *)
(* per key, written as one chunk file (.tmp, fsync, rename) and registered  *)
(* in the coverage table of IntegrityStore.                                 *)
(*                                                                          *)
(* An event is its receive time: the clock moves with every event, so no    *)
(* two events share one.  A flush is synchronous code; it is cut into the   *)
(* steps a crash or an exception can separate.                              *)
(***************************************************************************)
EXTENDS Integers, FiniteSetsExt

CONSTANTS
    Key,        \* (market, symbol, event_type)
    MaxEvents,  \* max_events: a buffer this long is flushed by the next add
    Segment     \* segment_seconds: so is a buffer this old

ASSUME MaxEventsAssumption == MaxEvents \in Nat \ {0}
ASSUME SegmentAssumption == Segment \in Nat

VARIABLES
    clock,      \* now_ms()
    buffers,    \* buffers[k]: the receive times of the buffered events of k
    started,    \* started[k], NoTime before the first event of k
    job,        \* the flush_key call in progress, or NoJob
    files,      \* finalized chunks: name (key, start, end) and contents
    tmps,       \* names of .tmp files
    coverage    \* rows of the coverage table, by the chunk they name

disk == <<files, tmps, coverage>>
writer == <<buffers, started, job>>

NoTime == -1
NoJob == [key |-> "none", rows |-> {}, step |-> "none"]

Name(k, rows) == [key |-> k, start |-> Min(rows), end |-> Max(rows)]
NameOf(f) == [key |-> f.key, start |-> f.start, end |-> f.end]

\* Rows of the files a reader finds for k.
Durable(k) == UNION {f.rows : f \in {f \in files : f.key = k}}

InitWriter == /\ buffers = [k \in Key |-> {}] /\ started = [k \in Key |-> NoTime]
              /\ job = NoJob /\ files = {} /\ tmps = {} /\ coverage = {}

\* The writer objects of a dead process.
LoseWriter == /\ buffers' = [k \in Key |-> {}] /\ started' = [k \in Key |-> NoTime]
              /\ job' = NoJob

FlushOf(k, rows) == [key |-> k, rows |-> rows, step |-> "write"]

Due(k, now) == \/ Cardinality(buffers[k]) + 1 >= MaxEvents
               \/ started[k] # NoTime /\ now - started[k] >= Segment

\* add: the event joins its buffer, and a full or old buffer is flushed now.
Add(k, now, forced) ==
    /\ job = NoJob
    /\ buffers' = [buffers EXCEPT ![k] = @ \cup {now}]
    /\ started' = [started EXCEPT ![k] = IF @ = NoTime THEN now ELSE @]
    /\ job' = IF forced \/ Due(k, now) THEN FlushOf(k, buffers'[k]) ELSE NoJob
    /\ UNCHANGED disk

\* flush_all reaches k.
Flush(k) == /\ job = NoJob /\ buffers[k] # {}
            /\ job' = FlushOf(k, buffers[k])
            /\ UNCHANGED <<buffers, started, disk>>

\* Slip: the chunk is named by the time its buffer was started.
JobNameFromStarted == [Name(job.key, job.rows) EXCEPT !.start = started[job.key]]

JobName == Name(job.key, job.rows)

\* Slip: the buffer is emptied once the rows are in the .tmp file.
WriteTmpClears == /\ job.step = "write"
                  /\ tmps' = tmps \cup {JobName}
                  /\ job' = [job EXCEPT !.step = "rename"]
                  /\ buffers' = [buffers EXCEPT ![job.key] = {}]
                  /\ UNCHANGED <<started, files, coverage>>

WriteTmp == /\ job.step = "write"
            /\ tmps' = tmps \cup {JobName}
            /\ job' = [job EXCEPT !.step = "rename"]
            /\ UNCHANGED <<buffers, started, files, coverage>>

\* os.replace(tmp, final): a file of the same name is replaced.
Rename == /\ job.step = "rename"
          /\ tmps' = tmps \ {JobName}
          /\ files' = {f \in files : NameOf(f) # JobName} \cup
                      {[key |-> job.key, start |-> JobName.start, end |-> JobName.end,
                        rows |-> job.rows]}
          /\ job' = [job EXCEPT !.step = "register"]
          /\ UNCHANGED <<buffers, started, coverage>>

\* Slip: the buffer survives its registration.
RegisterKeeps == /\ job.step = "register"
                 /\ coverage' = coverage \cup {JobName}
                 /\ started' = [started EXCEPT ![job.key] = clock]
                 /\ job' = NoJob
                 /\ UNCHANGED <<buffers, files, tmps>>

\* register_coverage commits; only then is the buffer emptied.
Register == /\ job.step = "register"
            /\ coverage' = coverage \cup {JobName}
            /\ buffers' = [buffers EXCEPT ![job.key] = {}]
            /\ started' = [started EXCEPT ![job.key] = clock]
            /\ job' = NoJob
            /\ UNCHANGED <<files, tmps>>

\* A step raises: what it did stays; what becomes of the buffer is the caller's.
WriteRaises == /\ job.step \in {"write", "rename"}
               /\ tmps' \in {tmps, tmps \cup {JobName}}
               /\ job' = NoJob
               /\ UNCHANGED <<files, coverage>>

RegisterRaises == /\ job.step = "register"
                  /\ job' = NoJob
                  /\ UNCHANGED disk

Orphans == {f \in files : NameOf(f) \notin coverage}

\* recover_orphan_coverage: one finalized chunk without a row.
Recover(f) == /\ coverage' = coverage \cup {NameOf(f)}
              /\ UNCHANGED <<files, tmps>>

WriterOK ==
    /\ clock \in Nat
    /\ buffers \in [Key -> SUBSET (1..clock)]
    /\ started \in [Key -> 1..clock \cup {NoTime}]
    /\ job \in {NoJob} \cup [key : Key, rows : SUBSET (1..clock),
                              step : {"write", "rename", "register"}]
    /\ job # NoJob => job.rows = buffers[job.key] /\ job.rows # {}
    /\ files \subseteq [key : Key, start : 1..clock, end : 1..clock, rows : SUBSET (1..clock)]
    /\ \A f \in files : f.start \in f.rows /\ f.end \in f.rows
    /\ coverage \cup tmps \subseteq [key : Key, start : 1..clock, end : 1..clock]

=============================================================================
