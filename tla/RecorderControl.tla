--------------------------- MODULE RecorderControl ---------------------------
(***************************************************************************)
(* The recorder daemon, the commands the web application leaves for it in    *)
(* the control database, and the migration of the runtime root, which asks   *)
(* the daemon to pause and resumes it afterwards.  The database lies under   *)
(* the root that is being moved.                                            *)
(***************************************************************************)
EXTENDS RuntimeRoots, Sequences, SequencesExt

CONSTANTS
    NoCommand,
    MaxAsked,    \* bound: requests of the dashboard: start, stop, migrate
    MaxRows,     \* bound: rows the recorder writes
    MaxRuns,     \* bound: results that are saved
    MaxCrashes   \* bound: crashes of the two processes

VARIABLES
    daemon,  \* the daemon process
    web,     \* the web process: its research job and its request to migrate
    made     \* history: rows and runs written, and those a migration cannot carry

vars == <<rootVars, daemon, web, made>>

Database == "state"
RunsFile == "results"
RawChunks == "raw"

commands(r) == tree[r][Database].commands
Health(r) == tree[r][Database].health

Commanded(t, r, action) ==
    [t EXCEPT ![r][Database].commands = Append(@, [action |-> action, handled |-> FALSE])]
Heartbeat(t, r, state) == [t EXCEPT ![r][Database].health = state]
Handled(t, r, n) == [t EXCEPT ![r][Database].commands[n].handled = TRUE]

Unhandled(r) == {n \in DOMAIN commands(r) : ~commands(r)[n].handled}
NextCommand(r) == IF Unhandled(r) = {} THEN NoCommand
                  ELSE CHOOSE n \in Unhandled(r) : \A k \in Unhandled(r) : n <= k

FirstContent == [state |-> [commands |-> <<>>, health |-> "IDLE"], results |-> {}, raw |-> {}]

ASSUME ContentAssumption == /\ DOMAIN FirstContent \subseteq Children
                            /\ \A c \in DOMAIN FirstContent : Content[c] = FirstContent[c]

Asleep == [step |-> "dead", task |-> "none", root |-> FirstRoot, paused |-> FALSE,
           store |-> FirstRoot, command |-> NoCommand, intruder |-> FALSE]

\* The daemon runs; the recorder it began with was stopped.
Init == /\ InitRoots
        /\ daemon = [Asleep EXCEPT !.step = "poll", !.task = "done"]
        /\ web = [step |-> "idle", store |-> FirstRoot, runStore |-> FirstRoot, paused |-> FALSE,
                  job |-> "none", intruder |-> FALSE]
        /\ made = [rows |-> 0, runs |-> 0, asked |-> 0, stray |-> {}, daemonCrashes |-> 0,
                   webCrashes |-> 0]

-----------------------------------------------------------------------------
Crashes == made.daemonCrashes + made.webCrashes

Recording == daemon.task \in {"recording", "stopping"}

\* A recorder that starts now is one that the migration does not look for: the
\* request is on its way, or the heartbeat it reads says what it does not ask
\* about (that of a paused daemon, or one copied with its database).
Unseen == \/ web.step # "idle" \/ daemon.paused
          \/ Health(pointer) \notin {"IDLE", "RECORDING"}

Fresh(d, unseen) == [d EXCEPT !.task = "recording", !.root = pointer, !.intruder = unseen]

Poll == /\ daemon.step = "poll"
        /\ daemon' = [daemon EXCEPT !.step = "act", !.store = pointer,
                                    !.command = NextCommand(pointer)]
        /\ UNCHANGED <<rootVars, web, made>>

Action == commands(daemon.store)[daemon.command].action

Done(d) == /\ daemon' = [d EXCEPT !.step = "beat"]
           /\ tree' = Handled(tree, daemon.store, daemon.command)

\* start: stops the recorder that runs and waits for it, 15 s.
ActStart ==
    /\ daemon.step = "act" /\ daemon.command # NoCommand /\ Action = "start"
    /\ \/ Done(Fresh(daemon, Unseen))
       \/ Recording /\ Done([daemon EXCEPT !.task = "failed"])
       \/ /\ Recording   \* cancelled: task.exception() raises, the daemon dies
          /\ daemon' = Asleep
          /\ tree' = Heartbeat(Handled(tree, daemon.store, daemon.command), pointer, "STOPPED")
    /\ UNCHANGED <<pointer, present, staged, copies, migration, web, made>>

ActOther ==
    /\ daemon.step = "act" /\ daemon.command # NoCommand /\ Action # "start"
    /\ Done(CASE Action = "stop" /\ daemon.task = "recording" ->
                   [daemon EXCEPT !.task = "stopping"]
              [] Action = "pause" /\ ~Recording -> [daemon EXCEPT !.paused = TRUE]
              [] Action = "resume" -> [daemon EXCEPT !.paused = FALSE]
              [] OTHER -> daemon)
    /\ UNCHANGED <<pointer, present, staged, copies, migration, web, made>>

ActIdle == /\ daemon.step = "act" /\ daemon.command = NoCommand
           /\ daemon' = [daemon EXCEPT !.step = "beat"]
           /\ UNCHANGED <<rootVars, web, made>>

State == CASE daemon.task = "failed" -> "ERROR"
           [] daemon.paused -> "PAUSED"
           [] Recording -> "RECORDING"
           [] OTHER -> "IDLE"

\* While paused, no heartbeat but the one that acknowledges a command.
Beat == /\ daemon.step = "beat"
        /\ daemon' = [daemon EXCEPT !.step = "poll", !.command = NoCommand]
        /\ tree' = IF daemon.paused /\ daemon.command = NoCommand THEN tree
                   ELSE Heartbeat(tree, daemon.store, State)
        /\ UNCHANGED <<pointer, present, staged, copies, migration, web, made>>

-----------------------------------------------------------------------------
\* A row goes to the root the recorder was configured with.
Record == /\ Recording /\ made.rows < MaxRows
          /\ tree' = [tree EXCEPT ![daemon.root][RawChunks] = @ \cup {made.rows + 1}]
          /\ made' = [made EXCEPT !.rows = @ + 1,
                         !.stray = IF daemon.intruder THEN @ \cup {<<RawChunks, made.rows + 1>>}
                                   ELSE @]
          /\ UNCHANGED <<pointer, present, staged, copies, migration, daemon, web>>

TaskEnds == /\ \/ daemon.task = "stopping" /\ daemon' = [daemon EXCEPT !.task = "done"]
               \/ Recording /\ daemon' = [daemon EXCEPT !.task = "failed"]
            /\ UNCHANGED <<rootVars, web, made>>

\* Killed: nothing catches SIGTERM, the last heartbeat stays.
DaemonCrash == /\ daemon.step # "dead" /\ Crashes < MaxCrashes
               /\ daemon' = Asleep
               /\ made' = [made EXCEPT !.daemonCrashes = @ + 1]
               /\ UNCHANGED <<rootVars, web>>

\* systemd; the daemon looks up the root, ...
DaemonWakes == /\ daemon.step = "dead"
               /\ daemon' = [Asleep EXCEPT !.step = "boot", !.store = pointer]
               /\ UNCHANGED <<rootVars, web, made>>

\* ... and begins to record of itself, which it has told nobody till now.
DaemonBoot == /\ daemon.step = "boot"
              /\ daemon' = [Fresh(daemon, web.step # "idle" \/ daemon.store # pointer)
                               EXCEPT !.step = "poll", !.root = daemon.store]
              /\ tree' = Heartbeat(tree, daemon.store, "RECORDING")
              /\ UNCHANGED <<pointer, present, staged, copies, migration, web, made>>

-----------------------------------------------------------------------------
Button(action) == /\ made.asked < MaxAsked
                  /\ tree' = Commanded(tree, pointer, action)
                  /\ made' = [made EXCEPT !.asked = @ + 1]
                  /\ UNCHANGED <<pointer, present, staged, copies, migration, daemon, web>>

JobStarts == /\ web.job = "none" /\ made.runs < MaxRuns
             /\ web' = [web EXCEPT !.job = "RUNNING", !.intruder = web.step # "idle"]
             /\ UNCHANGED <<rootVars, daemon, made>>

\* RunStore opened its file when the module was imported.
JobSaves == /\ web.job = "RUNNING"
            /\ web' = [web EXCEPT !.job = "none"]
            /\ tree' = [tree EXCEPT ![web.runStore][RunsFile] = @ \cup {made.runs + 1}]
            /\ made' = [made EXCEPT !.runs = @ + 1,
                           !.stray = IF web.intruder \/ web.runStore # pointer
                                     THEN @ \cup {<<RunsFile, made.runs + 1>>} ELSE @]
            /\ UNCHANGED <<pointer, present, staged, copies, migration, daemon>>

\* It fails, and saves nothing.
JobFails == /\ web.job = "RUNNING"
            /\ web' = [web EXCEPT !.job = "none"]
            /\ UNCHANGED <<rootVars, daemon, made>>

\* Slip: the recorder's state is not asked for.
ProducingJobsOnly == web.job = "RUNNING"

\* Slip: a job is not looked for.
ProducingRecorderOnly == Health(pointer) = "RECORDING"

Producing == web.job = "RUNNING" \/ Health(pointer) = "RECORDING"

\* storage_migrate: refused while something produces; a daemon that idles is paused.
AskMigrate ==
    /\ web.step = "idle" /\ ~Producing /\ made.asked < MaxAsked
    /\ made' = [made EXCEPT !.asked = @ + 1]
    /\ \/ /\ Health(pointer) = "IDLE"
          /\ web' = [web EXCEPT !.step = "pausing", !.store = pointer]
          /\ tree' = Commanded(tree, pointer, "pause")
       \/ /\ Health(pointer) = "IDLE" => daemon.step \in {"dead", "boot"} \* the heartbeat is stale
          /\ web' = [web EXCEPT !.step = "ready", !.store = pointer]
          /\ UNCHANGED tree
    /\ UNCHANGED <<pointer, present, staged, copies, migration, daemon>>

SeePaused == /\ web.step = "pausing" /\ Health(web.store) = "PAUSED"
             /\ web' = [web EXCEPT !.step = "ready", !.paused = TRUE]
             /\ UNCHANGED <<rootVars, daemon, made>>

\* Slip: the request may end while its migration runs on.
GiveUpLate == /\ web.step \in {"pausing", "called"}
              /\ web' = [web EXCEPT !.step = "idle"]
              /\ UNCHANGED <<rootVars, daemon, made>>

\* After 5 s the request fails; its command stays.
GiveUp == /\ web.step = "pausing"
          /\ web' = [web EXCEPT !.step = "idle"]
          /\ UNCHANGED <<rootVars, daemon, made>>

CallMigrate == /\ web.step = "ready"
               /\ \E dest \in Roots : BeginMigration(dest)
               /\ web' = [web EXCEPT !.step = "called"]
               /\ UNCHANGED <<daemon, made>>

Migrate == /\ MigrationProceeds \/ MigrationFails
           /\ UNCHANGED <<daemon, web, made>>

\* Slip: resume is left in the database the request began with.
AnswerOldStore ==
    /\ web.step = "called" /\ ~Migrating
    /\ web' = [web EXCEPT !.step = "idle", !.paused = FALSE]
    /\ tree' = IF web.paused THEN Commanded(tree, web.store, "resume") ELSE tree
    /\ UNCHANGED <<pointer, present, staged, copies, migration, daemon, made>>

\* finally: resume, in the root the pointer names by now.
Answer ==
    /\ web.step = "called" /\ ~Migrating
    /\ web' = [web EXCEPT !.step = "idle", !.paused = FALSE]
    /\ tree' = IF web.paused THEN Commanded(tree, pointer, "resume") ELSE tree
    /\ UNCHANGED <<pointer, present, staged, copies, migration, daemon, made>>

WebRestart == /\ Crashes < MaxCrashes
              /\ web' = [step |-> "idle", store |-> FirstRoot, runStore |-> pointer,
                         paused |-> FALSE, job |-> "none", intruder |-> FALSE]
              /\ migration' = Returned(migration.result)
              /\ made' = [made EXCEPT !.webCrashes = @ + 1]
              /\ UNCHANGED <<pointer, present, tree, staged, copies, daemon>>

-----------------------------------------------------------------------------
DaemonNext == Poll \/ ActStart \/ ActOther \/ ActIdle \/ Beat
WebNext == SeePaused \/ GiveUp \/ CallMigrate \/ Migrate \/ Answer

Next == \/ DaemonNext \/ Record \/ TaskEnds \/ DaemonCrash \/ DaemonWakes \/ DaemonBoot
        \/ \E action \in {"start", "stop"} : Button(action)
        \/ JobStarts \/ JobSaves \/ JobFails \/ AskMigrate \/ WebNext \/ WebRestart

Spec == Init /\ [][Next]_vars
FairSpec == Spec /\ WF_vars(DaemonNext) /\ WF_vars(WebNext)

-----------------------------------------------------------------------------
TaskState == {"none", "recording", "stopping", "failed", "done"}
HealthState == {"IDLE", "RECORDING", "PAUSED", "ERROR", "STOPPED"}
Command == [action : {"start", "stop", "pause", "resume"}, handled : BOOLEAN]

TypeOK ==
    /\ RootsOK
    /\ \A r \in Roots : Health(r) \in HealthState /\ Range(commands(r)) \subseteq Command
    /\ daemon.step \in {"dead", "boot", "poll", "act", "beat"} /\ daemon.task \in TaskState
    /\ web.step \in {"idle", "pausing", "ready", "called"} /\ (Migrating => web.step = "called")
    /\ \A r \in {daemon.store, daemon.root, web.store, web.runStore} : present[r] = Children

(* Every row and every run that a migration had to carry is under the root the
   pointer names: all but what a producer wrote that began while the migration
   was on its way, or where it does not look, and runs of a web process that
   has not been restarted since.                                             *)
NothingLost ==
    /\ \A n \in 1..made.rows : <<RawChunks, n>> \in made.stray \/ n \in tree[pointer][RawChunks]
    /\ \A n \in 1..made.runs : <<RunsFile, n>> \in made.stray \/ n \in tree[pointer][RunsFile]

(* A recorder that did not begin then or where the migration does not look writes
   under the root the pointer names, and never while that root is copied.    *)
RecordsUnderPointer == Recording /\ ~daemon.intruder => daemon.root = pointer /\ ~Migrating

(* A pause the migration saw does not outlast it.                            *)
PauseEnds == web.paused ~> (~daemon.paused \/ made.webCrashes > 0)

(* The old root keeps all it had: it is what one goes back to.               *)
OldDataRetained == [][\A r \in Roots :
    /\ present[r] \subseteq present'[r]
    /\ \A c \in {RawChunks, RunsFile} : c \in present[r] => tree[r][c] \subseteq tree'[r][c]]_vars

(* "after migration, ... results ... all use the selected destination"
   (README.md): a run saved while nothing migrates is under the pointer's root. *)
ResultsFollow == [][web.step = "idle" => \A n \in (made.runs + 1)..made'.runs :
    n \in tree'[pointer][RunsFile]]_vars
=============================================================================
