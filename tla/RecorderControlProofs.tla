------------------------ MODULE RecorderControlProofs ------------------------
(* Proofs about RecorderControl, for any set of directories and any children   *)
(* of them, whatever the daemon, the web process and their crashes do: the     *)
(* pointer names a directory that has every child, the old one stays as it is, *)
(* what was written before the migration looked is carried along, and the      *)
(* recorders it looks for record under the pointer.                            *)
EXTENDS RecorderControl, SequenceTheorems, TLAPS

(* The destination is another directory than the pointer's, and while children *)
(* are moved each of them is in one of the two places.                         *)
Placed ==
    LET m == migration IN
    /\ Migrating => m.dest # pointer /\ m.source = pointer
    /\ m.step = "copy" => present[m.dest] = {}
    /\ m.step = "move" => /\ Children \subseteq staged[m.dest] \cup present[m.dest]
                          /\ staged[m.dest] \cap present[m.dest] = {}

IInv == RootsOK /\ Placed /\ PointerIsComplete

(* What the steps of a migration change, but for contents.                     *)
where == <<pointer, present, staged, migration>>
-----------------------------------------------------------------------------
(* The initial states satisfy the invariant.                                   *)
LEMMA InitIInv == Init => IInv
BY RootsAssumption DEF Init, InitRoots, NoMigration, IInv, RootsOK, Placed, PointerIsComplete,
   Migrating, Steps, Results

(* A call that returns leaves every directory as it is.                        *)
LEMMA ReturnStep ==
    ASSUME IInv, NEW result \in Results, migration' = Returned(result),
           pointer' = pointer, present' = present, staged' = staged
    PROVE  IInv'
BY DEF IInv, RootsOK, Placed, PointerIsComplete, Migrating, Returned, Steps

(* A step of migrate keeps the invariant.                                      *)
LEMMA MigrateStep == ASSUME IInv, Migrate PROVE IInv'
<1> USE DEF IInv, RootsOK, Placed, PointerIsComplete, Migrating, Steps
<1>1. ASSUME NEW c \in Children, CopyChild(c) PROVE IInv'
  BY <1>1 DEF CopyChild
<1>2. ASSUME NEW c \in Children, MoveChild(c) PROVE IInv'
  <2>1. /\ migration' = migration /\ pointer' = pointer /\ migration.step = "move"
        /\ present'[pointer] = present[pointer]
        /\ present'[migration.dest] = present[migration.dest] \cup {c}
        /\ staged'[migration.dest] = staged[migration.dest] \ {c}
    BY <1>2 DEF MoveChild
  <2>2. /\ present' \in [Roots -> SUBSET Children]
        /\ staged' \in [Roots -> SUBSET Children]
    BY <1>2 DEF MoveChild
  <2> QED BY <2>1, <2>2
<1>3. ASSUME Verify PROVE IInv'
  <2>1. CASE migration' = Returned("FAILED")
    BY <1>3, <2>1, ReturnStep DEF Verify, Results
  <2>2. CASE migration' = [migration EXCEPT !.step = "move"]
    BY <1>3, <2>2 DEF Verify
  <2> QED BY <1>3, <2>1, <2>2 DEF Verify
<1>4. ASSUME Switch PROVE IInv'
  BY <1>4 DEF Switch, Returned, Results
<1>5. ASSUME MigrationFails PROVE IInv'
  BY <1>5, ReturnStep DEF MigrationFails, Results
<1> QED BY <1>1, <1>2, <1>3, <1>4, <1>5 DEF Migrate, MigrationProceeds

(* The beginning of a migration keeps the invariant.                           *)
LEMMA BeginStep == ASSUME IInv, NEW dest \in Roots, BeginMigration(dest) PROVE IInv'
<1>1. CASE migration' = Returned("UNCHANGED") /\ staged' = staged
  BY <1>1, ReturnStep DEF BeginMigration, Results
<1>2. CASE migration' = Returned("REFUSED") /\ staged' = staged
  BY <1>2, ReturnStep DEF BeginMigration, Results
<1>3. CASE /\ dest # pointer /\ present[dest] = {}
           /\ migration' = [step |-> "copy", source |-> pointer, dest |-> dest, result |-> "NONE"]
           /\ staged' = [staged EXCEPT ![dest] = {}]
  BY <1>3 DEF BeginMigration, IInv, RootsOK, Placed, PointerIsComplete, Migrating, Steps, Results
<1> QED BY <1>1, <1>2, <1>3 DEF BeginMigration

(* The other steps touch neither directories nor the migration, but that a     *)
(* restart of the web process ends it.                                         *)
LEMMA OtherSteps ==
    ASSUME IInv, [Next]_vars
    PROVE  \/ UNCHANGED where
           \/ Migrate
           \/ \E dest \in Roots : BeginMigration(dest)
           \/ WebRestart
BY DEF Next, vars, rootVars, where, DaemonNext, WebNext, Poll, ActStart, ActOther, ActIdle, Beat,
   Record, TaskEnds, DaemonCrash, DaemonWakes, DaemonBoot, Button, JobStarts, JobFails, JobSaves,
   AskMigrate, SeePaused,
   GiveUp, CallMigrate, Answer

(* The invariant holds throughout.                                             *)
LEMMA Invariant == Spec => []IInv
<1>1. IInv /\ [Next]_vars => IInv'
  <2> SUFFICES ASSUME IInv, [Next]_vars PROVE IInv'
    OBVIOUS
  <2>1. CASE UNCHANGED where
    BY <2>1 DEF where, IInv, RootsOK, Placed, PointerIsComplete, Migrating
  <2>2. CASE WebRestart
    <3>1. migration.result \in Results
      BY DEF IInv, RootsOK
    <3> QED BY <2>2, <3>1, ReturnStep DEF WebRestart
  <2> QED BY <2>1, <2>2, MigrateStep, BeginStep, OtherSteps
<1> QED BY InitIInv, <1>1, PTL DEF Spec

(* The pointer names a complete directory at every moment, whatever fails or   *)
(* crashes: migrate of RuntimeRootManager.                                     *)
THEOREM PointerStaysComplete == Spec => []PointerIsComplete
<1>1. IInv => PointerIsComplete
  BY DEF IInv
<1> QED BY Invariant, <1>1, PTL

-----------------------------------------------------------------------------
(* Two trees have the same shape, and the second holds the rows and runs of the *)
(* first.                                                                       *)
Shaped(t) == DOMAIN t = Roots /\ \A r \in Roots : DOMAIN t[r] = Children
Grows(t, u) == Shaped(u) /\ \A r \in Roots, c \in {RawChunks, RunsFile} : t[r][c] \subseteq u[r][c]

(* The names of the children are those of Children.                             *)
LEMMA Names == {Database, RawChunks, RunsFile} \subseteq Children
BY ContentAssumption DEF FirstContent, Database, RawChunks, RunsFile

(* Commands and heartbeats only touch the control database.                     *)
LEMMA DatabaseWrites ==
    ASSUME NEW t, Shaped(t), NEW r
    PROVE  /\ \A action : Grows(t, Commanded(t, r, action))
           /\ \A state : Grows(t, Heartbeat(t, r, state))
           /\ \A n : Grows(t, Handled(t, r, n))
BY Names DEF Shaped, Grows, Commanded, Heartbeat, Handled, Database, RawChunks, RunsFile

(* A row or a run is added to what a child holds.                               *)
LEMMA ChildWrites ==
    ASSUME NEW t, Shaped(t), NEW r, NEW c \in {RawChunks, RunsFile}, NEW added
    PROVE  Grows(t, [t EXCEPT ![r][c] = @ \cup added])
BY Names DEF Shaped, Grows, RawChunks, RunsFile

(* A directory keeps its children, and their rows and runs.                     *)
Kept == \A r \in Roots :
    /\ present[r] \subseteq present'[r]
    /\ \A c \in {RawChunks, RunsFile} : c \in present[r] => tree[r][c] \subseteq tree'[r][c]

(* Growth keeps everything and the shape.                                       *)
LEMMA GrowthKeeps == ASSUME Shaped(tree), present' = present, Grows(tree, tree') \/ tree' = tree
                     PROVE  Kept /\ Shaped(tree')
BY DEF Kept, Grows

(* A child is only moved to where there was none.                               *)
LEMMA MoveKeeps == ASSUME IInv, Shaped(tree), NEW c \in Children, MoveChild(c)
                   PROVE  Kept /\ Shaped(tree')
<1>1. c \notin present[migration.dest] /\ present \in [Roots -> SUBSET Children]
  BY DEF MoveChild, IInv, Placed, RootsOK
<1>2. Shaped(tree')
  BY DEF MoveChild, Shaped
<1>3. ASSUME NEW r \in Roots PROVE present[r] \subseteq present'[r]
  BY <1>1 DEF MoveChild
<1>4. ASSUME NEW r \in Roots, NEW k \in Children, k \in present[r] PROVE tree'[r][k] = tree[r][k]
  BY <1>1, <1>4 DEF MoveChild, Shaped
<1> QED BY <1>2, <1>3, <1>4, Names DEF Kept

(* Every step keeps what the directories hold.                                  *)
LEMMA StepKeeps == ASSUME IInv, Shaped(tree), [Next]_vars PROVE Kept /\ Shaped(tree')
<1>1. CASE UNCHANGED vars
  BY <1>1, GrowthKeeps DEF vars, rootVars
<1>2. CASE ActStart \/ ActOther
  <2>1. present' = present
    BY <1>2 DEF ActStart, ActOther
  <2>2. CASE tree' = Handled(tree, daemon.store, daemon.command)
    BY <2>1, <2>2, DatabaseWrites, GrowthKeeps
  <2>3. CASE tree' = Heartbeat(Handled(tree, daemon.store, daemon.command), pointer, "STOPPED")
    <3>1. Grows(tree, Handled(tree, daemon.store, daemon.command))
      BY DatabaseWrites
    <3>2. Grows(Handled(tree, daemon.store, daemon.command), tree')
      BY <2>3, <3>1, DatabaseWrites DEF Grows
    <3> QED BY <2>1, <3>1, <3>2, GrowthKeeps DEF Grows
  <2> QED BY <1>2, <2>2, <2>3 DEF ActStart, ActOther, Done
<1>3. CASE Poll \/ ActIdle \/ TaskEnds \/ DaemonCrash \/ DaemonWakes \/ JobStarts \/ JobFails
           \/ SeePaused \/ GiveUp \/ WebRestart
  BY <1>3, GrowthKeeps DEF Poll, ActIdle, TaskEnds, DaemonCrash, DaemonWakes, JobStarts,
     JobFails, SeePaused, GiveUp,
     WebRestart, rootVars
<1>4. CASE Beat
  BY <1>4, DatabaseWrites, GrowthKeeps DEF Beat
<1>5. CASE Record
  BY <1>5, ChildWrites, GrowthKeeps DEF Record
<1>6. CASE DaemonBoot
  BY <1>6, DatabaseWrites, GrowthKeeps DEF DaemonBoot
<1>7. ASSUME NEW action, Button(action) PROVE Kept /\ Shaped(tree')
  BY <1>7, DatabaseWrites, GrowthKeeps DEF Button
<1>8. CASE JobSaves
  BY <1>8, ChildWrites, GrowthKeeps DEF JobSaves
<1>9. CASE AskMigrate \/ Answer
  BY <1>9, DatabaseWrites, GrowthKeeps DEF AskMigrate, Answer
<1>10. CASE CallMigrate
  BY <1>10, GrowthKeeps DEF CallMigrate, BeginMigration
<1>11. CASE Migrate
  <2>1. ASSUME NEW c \in Children, MoveChild(c) PROVE Kept /\ Shaped(tree')
    BY <2>1, MoveKeeps
  <2>2. ASSUME NEW c \in Children, CopyChild(c) PROVE Kept /\ Shaped(tree')
    BY <2>2, GrowthKeeps DEF CopyChild
  <2>3. CASE Verify \/ Switch \/ MigrationFails
    BY <2>3, GrowthKeeps DEF Verify, Switch, MigrationFails
  <2> QED BY <1>11, <2>1, <2>2, <2>3 DEF Migrate, MigrationProceeds
<1> QED BY <1>1, <1>2, <1>3, <1>4, <1>5, <1>6, <1>7, <1>8, <1>9, <1>10, <1>11
        DEF Next, DaemonNext, WebNext

(* The old root keeps its children and every row and run: nothing that migrate, *)
(* the daemon or the web process does takes one away.                           *)
THEOREM OldRootStays == Spec => OldDataRetained
<1>1. Init => Shaped(tree)
  BY DEF Init, InitRoots, Shaped, NewTree
<1>2. Spec => [](IInv /\ Shaped(tree))
  <2>1. IInv /\ Shaped(tree) /\ [Next]_vars => Shaped(tree)'
    BY StepKeeps
  <2> QED BY Invariant, <1>1, <2>1, PTL DEF Spec
<1>3. IInv /\ Shaped(tree) /\ [Next]_vars => [Kept]_vars
  BY StepKeeps
<1> QED BY <1>2, <1>3, PTL DEF Spec, OldDataRetained, Kept

-----------------------------------------------------------------------------
(* The daemon, the web process and the control databases.                       *)

(* A control database: its commands and the last heartbeat.                     *)
ControlDatabase == [commands : Seq(Command), health : HealthState]
DatabasesIn(t) == Shaped(t) /\ \A r \in Roots : t[r][Database] \in ControlDatabase

DaemonOK ==
    /\ DOMAIN daemon = {"step", "task", "root", "paused", "store", "command", "intruder"}
    /\ daemon.step \in {"dead", "boot", "poll", "act", "beat"} /\ daemon.task \in TaskState
    /\ Recording => daemon.step \notin {"dead", "boot"}
    /\ daemon.step = "boot" => ~daemon.paused

(* A job that runs while a migration is on its way has begun after it.          *)
WebOK ==
    /\ DOMAIN web = {"step", "store", "runStore", "paused", "job", "intruder"}
    /\ web.step \in {"idle", "pausing", "ready", "called"}
    /\ Migrating => web.step = "called"
    /\ web.step = "pausing" => web.store = pointer
    /\ web.job = "RUNNING" /\ web.step # "idle" => web.intruder

MadeOK ==
    /\ DOMAIN made = {"rows", "runs", "asked", "stray", "daemonCrashes", "webCrashes"}
    /\ made.rows \in Nat /\ made.runs \in Nat

StoresOK == \A r \in {FirstRoot, daemon.store, daemon.root, web.store, web.runStore} :
    r \in Roots /\ present[r] = Children

(* A recorder the migration looks for shows in the heartbeat it looks at, or    *)
(* will before it can be paused: no request of it goes further than that.       *)
Watched == Recording /\ ~daemon.intruder =>
    /\ daemon.root = pointer /\ ~daemon.paused
    /\ Health(pointer) \in {"IDLE", "RECORDING"} /\ web.step \in {"idle", "pausing"}

(* What the directories hold at first.                                          *)
NewTrees == [r \in Roots |-> NewTree]

ProcessInv == /\ DatabasesIn(tree) /\ DatabasesIn(copies)
              /\ DaemonOK /\ WebOK /\ MadeOK /\ StoresOK /\ Watched

(* What child c of tree t has of the first n rows or runs but the stray ones.   *)
Has(t, r, c, n) == \A k \in 1..n : <<c, k>> \in made.stray \/ k \in t[r][c]

(* What a migration has to carry is where the pointer is, in the copy and in    *)
(* what has been moved.                                                         *)
CarriedOf(c, n) ==
    /\ Has(tree, pointer, c, n)
    /\ Migrating => LET m == migration IN
          /\ c \in staged[m.dest] => Has(copies, m.dest, c, n)
          /\ m.step = "move" /\ c \in present[m.dest] => Has(tree, m.dest, c, n)
Carried == CarriedOf(RawChunks, made.rows) /\ CarriedOf(RunsFile, made.runs)

(* A command that is left in a database leaves a database and its heartbeat.    *)
LEMMA CommandTypes ==
    ASSUME NEW t, DatabasesIn(t), NEW r, NEW action \in {"start", "stop", "pause", "resume"}
    PROVE  /\ DatabasesIn(Commanded(t, r, action))
           /\ \A q \in Roots : Commanded(t, r, action)[q][Database].health = t[q][Database].health
<1>1. Shaped(t) /\ Database \in Children /\ \A q \in Roots : t[q][Database] \in ControlDatabase
  BY Names DEF DatabasesIn
<1> DEFINE u == Commanded(t, r, action)
           new == [action |-> action, handled |-> FALSE]
<1>5. new \in Command
  BY DEF Command
<1>2. Shaped(u)
  BY <1>1 DEF Shaped, Commanded
<1>3. ASSUME NEW q \in Roots
      PROVE  u[q][Database] = IF q = r THEN [t[q][Database] EXCEPT !.commands = Append(@, new)]
                              ELSE t[q][Database]
  BY <1>1 DEF Shaped, Commanded
<1>4. ASSUME NEW q \in Roots
      PROVE  u[q][Database] \in ControlDatabase /\ u[q][Database].health = t[q][Database].health
  <2>1. t[q][Database] \in [commands : Seq(Command), health : HealthState]
    BY <1>1 DEF ControlDatabase
  <2>2. Append(t[q][Database].commands, new) \in Seq(Command)
    BY <1>5, <2>1
  <2> HIDE DEF new, u
  <2> QED BY <1>3, <2>1, <2>2 DEF ControlDatabase
<1> QED BY <1>2, <1>4 DEF DatabasesIn

(* So does one that is marked as handled.                                       *)
LEMMA HandledTypes ==
    ASSUME NEW t, DatabasesIn(t), NEW r, NEW n
    PROVE  /\ DatabasesIn(Handled(t, r, n))
           /\ \A q \in Roots : Handled(t, r, n)[q][Database].health = t[q][Database].health
<1>1. Shaped(t) /\ Database \in Children /\ \A q \in Roots : t[q][Database] \in ControlDatabase
  BY Names DEF DatabasesIn
<1> DEFINE u == Handled(t, r, n)
<1>2. Shaped(u)
  BY <1>1 DEF Shaped, Handled
<1>3. ASSUME NEW q \in Roots
      PROVE  u[q][Database] = IF q = r THEN [t[q][Database] EXCEPT !.commands[n].handled = TRUE]
                              ELSE t[q][Database]
  BY <1>1 DEF Shaped, Handled
<1>4. ASSUME NEW q \in Roots
      PROVE  u[q][Database] \in ControlDatabase /\ u[q][Database].health = t[q][Database].health
  <2>1. PICK d \in [commands : Seq(Command), health : HealthState] : d = t[q][Database]
    BY <1>1 DEF ControlDatabase
  <2>2. [d.commands EXCEPT ![n].handled = TRUE] \in Seq(Command)
    <3>1. \A c \in Command : [c EXCEPT !.handled = TRUE] \in Command
      BY DEF Command
    <3>2. d.commands \in [1..Len(d.commands) -> Command] /\ Len(d.commands) \in Nat
      OBVIOUS
    <3>3. [d.commands EXCEPT ![n].handled = TRUE] \in [1..Len(d.commands) -> Command]
      BY <3>1, <3>2
    <3> QED BY <3>2, <3>3, SeqDef
  <2>3. [d EXCEPT !.commands[n].handled = TRUE]
          = [d EXCEPT !.commands = [d.commands EXCEPT ![n].handled = TRUE]]
    OBVIOUS
  <2> HIDE DEF u
  <2> QED BY <1>3, <2>1, <2>2, <2>3 DEF ControlDatabase
<1> QED BY <1>2, <1>4 DEF DatabasesIn

(* A heartbeat leaves a database.                                               *)
LEMMA HeartbeatTypes ==
    ASSUME NEW t, DatabasesIn(t), NEW r, NEW state \in HealthState
    PROVE  /\ DatabasesIn(Heartbeat(t, r, state))
           /\ \A q \in Roots : Heartbeat(t, r, state)[q][Database].health
                                 = IF q = r THEN state ELSE t[q][Database].health
<1>1. Shaped(t) /\ Database \in Children /\ \A q \in Roots : t[q][Database] \in ControlDatabase
  BY Names DEF DatabasesIn
<1> DEFINE u == Heartbeat(t, r, state)
<1>2. Shaped(u)
  BY <1>1 DEF Shaped, Heartbeat
<1>3. ASSUME NEW q \in Roots
      PROVE  u[q][Database] = IF q = r THEN [t[q][Database] EXCEPT !.health = state]
                              ELSE t[q][Database]
  BY <1>1 DEF Shaped, Heartbeat
<1>4. ASSUME NEW q \in Roots
      PROVE  /\ u[q][Database] \in ControlDatabase
             /\ u[q][Database].health = IF q = r THEN state ELSE t[q][Database].health
  <2>1. t[q][Database] \in [commands : Seq(Command), health : HealthState]
    BY <1>1 DEF ControlDatabase
  <2> HIDE DEF u
  <2> QED BY <1>3, <2>1 DEF ControlDatabase
<1> QED BY <1>2, <1>4 DEF DatabasesIn

(* A row, a run or a copied child leaves databases.                             *)
LEMMA ContentTypes ==
    ASSUME NEW t, DatabasesIn(t), NEW r
    PROVE  /\ \A c \in {RawChunks, RunsFile} : \A x :
                 /\ DatabasesIn([t EXCEPT ![r][c] = x])
                 /\ \A q \in Roots : [t EXCEPT ![r][c] = x][q][Database] = t[q][Database]
           /\ \A u : DatabasesIn(u) => \A q \in Roots, c \in Children :
                 DatabasesIn([t EXCEPT ![r][c] = u[q][c]])
<1>1. Shaped(t) /\ Database \in Children /\ \A q \in Roots : t[q][Database] \in ControlDatabase
  BY Names DEF DatabasesIn
<1>2. ASSUME NEW c, NEW x
      PROVE  /\ Shaped([t EXCEPT ![r][c] = x])
             /\ \A q \in Roots : [t EXCEPT ![r][c] = x][q][Database]
                                   = IF q = r /\ c = Database THEN x ELSE t[q][Database]
  BY <1>1 DEF Shaped
<1>3. RawChunks # Database /\ RunsFile # Database
  BY DEF RawChunks, RunsFile, Database
<1>4. ASSUME NEW c \in {RawChunks, RunsFile}, NEW x
      PROVE  /\ DatabasesIn([t EXCEPT ![r][c] = x])
             /\ \A q \in Roots : [t EXCEPT ![r][c] = x][q][Database] = t[q][Database]
  <2>1. \A q \in Roots : [t EXCEPT ![r][c] = x][q][Database] = t[q][Database]
    BY <1>2, <1>3, <1>4
  <2> QED BY <1>1, <1>2, <2>1 DEF DatabasesIn
<1>5. ASSUME NEW u, DatabasesIn(u), NEW q \in Roots, NEW c \in Children
      PROVE  DatabasesIn([t EXCEPT ![r][c] = u[q][c]])
  <2>1. \A d \in Roots : [t EXCEPT ![r][c] = u[q][c]][d][Database] \in ControlDatabase
    BY <1>1, <1>2, <1>5 DEF DatabasesIn
  <2> QED BY <1>2, <2>1 DEF DatabasesIn
<1> QED BY <1>4, <1>5

(* The databases of the roots, and those a migration has copied.                *)
LEMMA DatabaseStep ==
    ASSUME IInv, DatabasesIn(tree), DatabasesIn(copies), [Next]_vars
    PROVE  DatabasesIn(tree') /\ DatabasesIn(copies')
<1>1. CASE UNCHANGED <<tree, copies>>
  BY <1>1
<1>2. CASE ActStart
  <2>1. CASE tree' = Handled(tree, daemon.store, daemon.command)
    BY <1>2, <2>1, HandledTypes DEF ActStart
  <2>2. CASE tree' = Heartbeat(Handled(tree, daemon.store, daemon.command), pointer, "STOPPED")
    <3>1. "STOPPED" \in HealthState
      BY DEF HealthState
    <3> QED BY <1>2, <2>2, <3>1, HandledTypes, HeartbeatTypes DEF ActStart
  <2> QED BY <1>2, <2>1, <2>2 DEF ActStart, Done
<1>3. CASE ActOther
  BY <1>3, HandledTypes DEF ActOther, Done
<1>4. CASE Beat
  <2>1. State \in HealthState
    BY DEF State, HealthState
  <2> QED BY <1>4, <2>1, HeartbeatTypes DEF Beat
<1>5. CASE Record
  BY <1>5, ContentTypes DEF Record
<1>6. CASE DaemonBoot
  <2>1. "RECORDING" \in HealthState
    BY DEF HealthState
  <2> QED BY <1>6, <2>1, HeartbeatTypes DEF DaemonBoot
<1>7. ASSUME NEW action \in {"start", "stop"}, Button(action)
      PROVE  DatabasesIn(tree') /\ DatabasesIn(copies')
  BY <1>7, CommandTypes DEF Button
<1>8. CASE JobSaves
  BY <1>8, ContentTypes DEF JobSaves
<1>9. CASE AskMigrate \/ Answer
  BY <1>9, CommandTypes DEF AskMigrate, Answer
<1>10. CASE Migrate
  <2>1. migration.source \in Roots /\ migration.dest \in Roots
    BY DEF IInv, RootsOK
  <2>2. ASSUME NEW c \in Children, MoveChild(c) PROVE DatabasesIn(tree') /\ DatabasesIn(copies')
    BY <2>1, <2>2, ContentTypes DEF MoveChild
  <2>3. ASSUME NEW c \in Children, CopyChild(c) PROVE DatabasesIn(tree') /\ DatabasesIn(copies')
    BY <2>1, <2>3, ContentTypes DEF CopyChild
  <2>4. CASE Verify \/ Switch \/ MigrationFails
    BY <1>1, <2>4 DEF Verify, Switch, MigrationFails
  <2> QED BY <1>10, <2>2, <2>3, <2>4 DEF Migrate, MigrationProceeds
<1>11. CASE Poll \/ ActIdle \/ TaskEnds \/ DaemonCrash \/ DaemonWakes \/ JobStarts \/ JobFails
            \/ SeePaused \/ GiveUp
            \/ WebRestart \/ CallMigrate \/ UNCHANGED vars
  BY <1>1, <1>11 DEF Poll, ActIdle, TaskEnds, DaemonCrash, DaemonWakes, JobStarts, JobFails,
     SeePaused, GiveUp,
     WebRestart, CallMigrate, BeginMigration, vars, rootVars
<1> QED BY <1>2, <1>3, <1>4, <1>5, <1>6, <1>7, <1>8, <1>9, <1>10, <1>11
        DEF Next, DaemonNext, WebNext

LEMMA DaemonStep == ASSUME DaemonOK, [Next]_vars PROVE DaemonOK'
<1> USE DEF DaemonOK, TaskState, Recording
<1>1. CASE daemon' = daemon
  BY <1>1
<1>2. CASE daemon' = Asleep
  BY <1>2 DEF Asleep
<1>3. CASE ActStart
  BY <1>2, <1>3 DEF ActStart, Done, Fresh
<1>4. CASE ActOther
  BY <1>4 DEF ActOther, Done
<1>5. CASE Poll \/ ActIdle \/ Beat \/ TaskEnds \/ DaemonCrash
  BY <1>2, <1>5 DEF Poll, ActIdle, Beat, TaskEnds, DaemonCrash
<1>6. CASE DaemonWakes \/ DaemonBoot
  BY <1>6 DEF DaemonWakes, DaemonBoot, Fresh, Asleep
<1> QED BY <1>1, <1>3, <1>4, <1>5, <1>6
        DEF Next, vars, DaemonNext, WebNext, Record, Button, JobStarts, JobFails, JobSaves,
        AskMigrate,
            SeePaused, GiveUp, CallMigrate, Migrate, Answer, WebRestart

LEMMA MadeStep == ASSUME MadeOK, [Next]_vars PROVE MadeOK'
<1> USE DEF MadeOK
<1>1. CASE made' = made
  BY <1>1
<1>2. CASE Record \/ JobSaves
  <2>1. PICK S : \/ made' = [made EXCEPT !.rows = made.rows + 1, !.stray = S]
                 \/ made' = [made EXCEPT !.runs = made.runs + 1, !.stray = S]
    BY <1>2 DEF Record, JobSaves
  <2>2. CASE made' = [made EXCEPT !.rows = made.rows + 1, !.stray = S]
    BY <2>2
  <2>3. CASE made' = [made EXCEPT !.runs = made.runs + 1, !.stray = S]
    BY <2>3
  <2> QED BY <2>1, <2>2, <2>3
<1>4. CASE DaemonCrash \/ WebRestart
  BY <1>4 DEF DaemonCrash, WebRestart
<1>5. CASE AskMigrate
  <2>1. made' = [made EXCEPT !.asked = @ + 1]
    BY <1>5 DEF AskMigrate
  <2> QED BY <2>1
<1>3. ASSUME NEW action, Button(action) PROVE MadeOK'
  BY <1>3 DEF Button
<1> QED BY <1>1, <1>2, <1>3, <1>4, <1>5
        DEF Next, vars, DaemonNext, WebNext, Poll, ActStart, ActOther, ActIdle, Beat, TaskEnds,
            DaemonWakes, DaemonBoot, JobStarts, JobFails, SeePaused, GiveUp, CallMigrate,
            Migrate, Answer

(* Where the pointer is, and whether a migration runs.                          *)
LEMMA WebStep == ASSUME IInv, WebOK, [Next]_vars PROVE WebOK'
<1> USE DEF WebOK, Migrating
<1>1. CASE web' = web /\ pointer' = pointer /\ migration' = migration
  BY <1>1
<1>2. CASE JobStarts \/ JobFails \/ JobSaves \/ AskMigrate \/ SeePaused \/ GiveUp \/ Answer
  BY <1>2 DEF JobStarts, JobFails, JobSaves, AskMigrate, SeePaused, GiveUp, Answer, rootVars,
     Producing
<1>3. CASE WebRestart
  BY <1>3 DEF WebRestart, Returned, IInv, RootsOK
<1>4. CASE CallMigrate
  BY <1>4 DEF CallMigrate, BeginMigration
<1>5. CASE Migrate
  <2>1. Migrating /\ web' = web
    BY <1>5 DEF Migrate, MigrationProceeds, CopyChild, MoveChild, Verify, Switch, MigrationFails
  <2> QED BY <2>1
<1> QED BY <1>1, <1>2, <1>3, <1>4, <1>5
        DEF Next, vars, rootVars, DaemonNext, WebNext, Poll, ActStart, ActOther, ActIdle, Beat,
            Record, TaskEnds, DaemonCrash, DaemonWakes, DaemonBoot, Button

(* Every directory that a process has a file open in is complete.               *)
LEMMA StoresStep ==
    ASSUME IInv, IInv', Kept, DaemonOK, WebOK, StoresOK, [Next]_vars
    PROVE  StoresOK'
<1>1. \A r \in Roots : present[r] = Children => present'[r] = Children
  BY DEF Kept, IInv, RootsOK
<1>2. pointer \in Roots /\ present[pointer] = Children /\ FirstRoot \in Roots
      /\ present[FirstRoot] = Children
  BY RootsAssumption DEF IInv, RootsOK, PointerIsComplete, StoresOK
<1>3. /\ daemon'.store \in {daemon.store, pointer, FirstRoot}
      /\ daemon'.root \in {daemon.root, daemon.store, pointer, FirstRoot}
  <2>1. CASE ActStart
    <3>1. \/ daemon' = [Fresh(daemon, Unseen) EXCEPT !.step = "beat"]
          \/ daemon' = [[daemon EXCEPT !.task = "failed"] EXCEPT !.step = "beat"]
          \/ daemon' = Asleep
      BY <2>1 DEF ActStart, Done
    <3>2. CASE daemon' = [Fresh(daemon, Unseen) EXCEPT !.step = "beat"]
      BY <3>2 DEF DaemonOK, Fresh
    <3>3. CASE daemon' = [[daemon EXCEPT !.task = "failed"] EXCEPT !.step = "beat"]
      BY <3>3 DEF DaemonOK
    <3> QED BY <3>1, <3>2, <3>3 DEF Asleep
  <2>2. CASE ActOther
    <3>1. PICK d : /\ \/ d = daemon \/ d = [daemon EXCEPT !.task = "stopping"]
                      \/ d = [daemon EXCEPT !.paused = TRUE] \/ d = [daemon EXCEPT !.paused = FALSE]
                   /\ daemon' = [d EXCEPT !.step = "beat"]
      BY <2>2 DEF ActOther, Done
    <3>2. DOMAIN d = DOMAIN daemon /\ d.store = daemon.store /\ d.root = daemon.root
      BY <3>1 DEF DaemonOK
    <3> QED BY <3>1, <3>2 DEF DaemonOK
  <2>3. CASE Poll
    BY <2>3 DEF DaemonOK, Poll
  <2>4. CASE ActIdle \/ Beat \/ TaskEnds
    BY <2>4 DEF DaemonOK, ActIdle, Beat, TaskEnds
  <2>5. CASE DaemonCrash
    BY <2>5 DEF DaemonCrash, Asleep
  <2>7. CASE DaemonWakes \/ DaemonBoot
    BY <2>7 DEF DaemonWakes, DaemonBoot, DaemonOK, Fresh, Asleep
  <2>6. CASE daemon' = daemon
    BY <2>6
  <2> QED BY <2>1, <2>2, <2>3, <2>4, <2>5, <2>6, <2>7
          DEF Next, vars, DaemonNext, WebNext, Record, Button, JobStarts, JobFails, JobSaves,
          AskMigrate,
              SeePaused, GiveUp, CallMigrate, Migrate, Answer, WebRestart
<1>4. /\ web'.store \in {web.store, pointer, FirstRoot}
      /\ web'.runStore \in {web.runStore, pointer}
  <2>1. CASE JobStarts \/ JobFails \/ JobSaves \/ SeePaused \/ GiveUp \/ CallMigrate \/ Answer
    BY <2>1 DEF WebOK, JobStarts, JobFails, JobSaves, SeePaused, GiveUp, CallMigrate, Answer
  <2>2. CASE AskMigrate
    BY <2>2 DEF WebOK, AskMigrate
  <2>3. CASE WebRestart
    BY <2>3 DEF WebRestart
  <2>4. CASE web' = web
    BY <2>4
  <2> QED BY <2>1, <2>2, <2>3, <2>4
          DEF Next, vars, DaemonNext, WebNext, Poll, ActStart, ActOther, ActIdle, Beat, Record,
              TaskEnds, DaemonCrash, DaemonWakes, DaemonBoot, Button, Migrate
<1> QED BY <1>1, <1>2, <1>3, <1>4 DEF StoresOK

(* A recorder that the migration looks for stays one.                           *)
LEMMA WatchedStep == ASSUME IInv, ProcessInv, [Next]_vars PROVE Watched'
<1> SUFFICES ASSUME Recording', ~daemon'.intruder
             PROVE  /\ daemon'.root = pointer' /\ ~daemon'.paused
                    /\ Health(pointer)' \in {"IDLE", "RECORDING"}
                    /\ web'.step \in {"idle", "pausing"}
  BY DEF Watched
<1> USE DEF Recording
<1>1. DatabasesIn(tree) /\ DaemonOK /\ WebOK /\ StoresOK /\ pointer \in Roots
  BY DEF ProcessInv, IInv, RootsOK
<1>2. ASSUME Recording, ~daemon.intruder
      PROVE  /\ daemon.root = pointer /\ ~daemon.paused
             /\ Health(pointer) \in {"IDLE", "RECORDING"} /\ web.step \in {"idle", "pausing"}
             /\ daemon.step \notin {"dead", "boot"} /\ (web.step = "pausing" => web.store = pointer)
             /\ ~Migrating
  BY <1>2 DEF ProcessInv, Watched, DaemonOK, WebOK
<1>3. CASE daemon' = daemon /\ pointer' = pointer /\ Health(pointer)' = Health(pointer) /\ web'.step = web.step
  BY <1>2, <1>3
<1>4. CASE ActStart
  <2>1. /\ daemon' = [Fresh(daemon, Unseen) EXCEPT !.step = "beat"]
        /\ tree' = Handled(tree, daemon.store, daemon.command)
        /\ pointer' = pointer /\ web' = web
    <3>1. daemon'.task # "failed" => daemon' # [[daemon EXCEPT !.task = "failed"] EXCEPT !.step = "beat"]
      BY <1>1 DEF DaemonOK
    <3>2. daemon' # Asleep
      BY DEF Asleep
    <3> QED BY <1>4, <3>1, <3>2 DEF ActStart, Done
  <2>2. daemon'.root = pointer /\ daemon'.paused = daemon.paused /\ daemon'.intruder = Unseen
    BY <1>1, <2>1 DEF Fresh, DaemonOK
  <2>3. ~Unseen
    BY <2>2
  <2>4. Health(pointer)' = Health(pointer)
    <3>1. \A q \in Roots : tree'[q][Database].health = tree[q][Database].health
      BY <1>1, <2>1, HandledTypes
    <3> QED BY <1>1, <2>1, <3>1 DEF Health
  <2> QED BY <2>1, <2>2, <2>3, <2>4 DEF Unseen
<1>5. CASE ActOther
  <2>1. /\ pointer' = pointer /\ web' = web /\ tree' = Handled(tree, daemon.store, daemon.command)
    BY <1>5 DEF ActOther, Done
  <2>2. PICK d : /\ \/ d = daemon
                    \/ d = [daemon EXCEPT !.task = "stopping"] /\ daemon.task = "recording"
                    \/ d = [daemon EXCEPT !.paused = TRUE] /\ ~Recording
                    \/ d = [daemon EXCEPT !.paused = FALSE]
                 /\ daemon' = [d EXCEPT !.step = "beat"]
    BY <1>5 DEF ActOther, Done
  <2>3. DOMAIN d = DOMAIN daemon
    BY <2>2
  <2>4. daemon'.task = d.task /\ daemon'.intruder = d.intruder /\ daemon'.paused = d.paused
        /\ daemon'.root = d.root
    BY <1>1, <2>2, <2>3 DEF DaemonOK
  <2>5. Recording /\ ~daemon.intruder /\ d.root = daemon.root /\ (~daemon.paused => ~d.paused)
    BY <1>1, <2>2, <2>4 DEF DaemonOK
  <2>6. Health(pointer)' = Health(pointer)
    <3>1. \A q \in Roots : tree'[q][Database].health = tree[q][Database].health
      BY <1>1, <2>1, HandledTypes
    <3> QED BY <1>1, <2>1, <3>1 DEF Health
  <2> QED BY <1>2, <2>1, <2>4, <2>5, <2>6
<1>6. CASE Beat
  <2>1. /\ daemon'.task = daemon.task /\ daemon'.intruder = daemon.intruder
        /\ daemon'.root = daemon.root /\ daemon'.paused = daemon.paused
        /\ pointer' = pointer /\ web' = web
    BY <1>1, <1>6 DEF Beat, DaemonOK
  <2>2. Recording /\ ~daemon.intruder /\ ~daemon.paused
    BY <1>2, <2>1
  <2>3. State = "RECORDING" /\ "RECORDING" \in HealthState
    BY <2>2 DEF State, HealthState
  <2>4. tree' = Heartbeat(tree, daemon.store, "RECORDING")
    BY <1>6, <2>2, <2>3 DEF Beat
  <2>5. Health(pointer)' \in {Health(pointer), "RECORDING"}
    <3>1. \A q \in Roots : tree'[q][Database].health \in {tree[q][Database].health, "RECORDING"}
      BY <1>1, <2>3, <2>4, HeartbeatTypes
    <3> QED BY <1>1, <2>1, <3>1 DEF Health
  <2> QED BY <1>2, <2>1, <2>2, <2>5
<1>7. CASE Poll \/ ActIdle
  <2>1. /\ daemon'.task = daemon.task /\ daemon'.intruder = daemon.intruder
        /\ daemon'.root = daemon.root /\ daemon'.paused = daemon.paused
    BY <1>1, <1>7 DEF Poll, ActIdle, DaemonOK
  <2>2. pointer' = pointer /\ web' = web /\ tree' = tree
    BY <1>7 DEF Poll, ActIdle, rootVars
  <2> QED BY <1>2, <2>1, <2>2 DEF Health
<1>8. CASE TaskEnds
  BY <1>1, <1>8 DEF TaskEnds, DaemonOK
<1>9. CASE DaemonCrash \/ DaemonWakes
  <2>1. daemon' = Asleep \/ daemon' = [Asleep EXCEPT !.step = "boot", !.store = pointer]
    BY <1>9 DEF DaemonCrash, DaemonWakes
  <2>2. daemon'.task = "none"
    <3>1. Asleep.task = "none" /\ DOMAIN Asleep = {"step", "task", "root", "paused",
                                                  "store", "command", "intruder"}
      BY DEF Asleep
    <3> QED BY ONLY <2>1, <3>1
  <2> QED BY <2>2
<1>10. CASE DaemonBoot
  <2>1. /\ daemon'.root = daemon.store /\ ~daemon'.paused
        /\ daemon'.intruder = (web.step # "idle" \/ daemon.store # pointer)
        /\ pointer' = pointer /\ web' = web /\ tree' = Heartbeat(tree, daemon.store, "RECORDING")
    BY <1>1, <1>10 DEF DaemonBoot, Fresh, DaemonOK
  <2>2. daemon.store = pointer /\ web.step = "idle"
    BY <2>1
  <2>3. Health(pointer)' = "RECORDING"
    <3>1. "RECORDING" \in HealthState
      BY DEF HealthState
    <3>2. tree'[pointer][Database].health = "RECORDING"
      BY <1>1, <2>1, <2>2, <3>1, HeartbeatTypes
    <3> QED BY <2>1, <3>2 DEF Health
  <2> QED BY <2>1, <2>2, <2>3
<1>11. CASE Record \/ JobSaves
  <2>1. pointer' = pointer /\ daemon' = daemon /\ web'.step = web.step
    BY <1>1, <1>11 DEF Record, JobSaves, WebOK
  <2>2. Health(pointer)' = Health(pointer)
    <3>1. ASSUME NEW r, NEW c \in {RawChunks, RunsFile}, NEW x, tree' = [tree EXCEPT ![r][c] = x]
          PROVE  Health(pointer)' = Health(pointer)
      <4>1. \A q \in Roots : tree'[q][Database] = tree[q][Database]
        BY <1>1, <3>1, ContentTypes
      <4> QED BY <1>1, <2>1, <4>1 DEF Health
    <3> QED BY <1>11, <3>1 DEF Record, JobSaves
  <2> QED BY <1>3, <2>1, <2>2
<1>12. ASSUME NEW action \in {"start", "stop"}, Button(action)
       PROVE  /\ daemon' = daemon /\ pointer' = pointer /\ Health(pointer)' = Health(pointer)
              /\ web'.step = web.step
  BY <1>1, <1>12, CommandTypes DEF Button, Health
<1>13. CASE AskMigrate
  <2>1. daemon' = daemon /\ pointer' = pointer
    BY <1>13 DEF AskMigrate
  <2>2. Health(pointer) = "IDLE" /\ daemon.step \notin {"dead", "boot"}
    BY <1>2, <1>13, <2>1 DEF AskMigrate, Producing
  <2>3. tree' = Commanded(tree, pointer, "pause") /\ web'.step = "pausing"
    BY <1>1, <1>13, <2>2 DEF AskMigrate, WebOK
  <2>4. Health(pointer)' = Health(pointer)
    BY <1>1, <2>1, <2>3, CommandTypes DEF Health
  <2> QED BY <1>2, <2>1, <2>3, <2>4
<1>14. CASE GiveUp \/ JobStarts \/ JobFails
  <2>1. /\ daemon' = daemon /\ pointer' = pointer /\ tree' = tree /\ web'.step \in {web.step, "idle"}
    BY <1>1, <1>14 DEF GiveUp, JobStarts, JobFails, rootVars, WebOK
  <2> QED BY <1>2, <2>1 DEF Health
<1>15. CASE WebRestart
  BY <1>2, <1>15 DEF WebRestart, Health
<1>16. CASE SeePaused \/ CallMigrate \/ Answer
  BY <1>2, <1>16 DEF SeePaused, CallMigrate, Answer
<1>17. CASE Migrate
  <2>1. Migrating /\ daemon' = daemon
    BY <1>17 DEF Migrate, MigrationProceeds, CopyChild, MoveChild, Verify, Switch, MigrationFails,
                 Migrating
  <2> QED BY <1>2, <2>1
<1>18. CASE UNCHANGED vars
  BY <1>3, <1>18 DEF vars, rootVars, Health
<1> QED BY <1>3, <1>4, <1>5, <1>6, <1>7, <1>8, <1>9, <1>10, <1>11, <1>12, <1>13, <1>14, <1>15,
           <1>16, <1>17, <1>18 DEF Next, DaemonNext, WebNext

(* The processes' invariant holds throughout.                                   *)
LEMMA ProcessInvariant == Spec => []ProcessInv
<1>1. Init => ProcessInv
  <2> SUFFICES ASSUME Init PROVE ProcessInv
    OBVIOUS
  <2>1. DatabasesIn(NewTrees) /\ tree = NewTrees /\ copies = NewTrees
    <3>1. Content[Database] = FirstContent.state
      BY ContentAssumption DEF FirstContent, Database
    <3>2. Content[Database] \in ControlDatabase
      BY <3>1 DEF FirstContent, ControlDatabase, HealthState
    <3> QED BY <3>2, Names DEF Init, InitRoots, NewTrees, NewTree, DatabasesIn, Shaped
  <2>2. DaemonOK /\ Watched
    BY DEF Init, Asleep, DaemonOK, TaskState, Recording, Watched
  <2>3. WebOK /\ MadeOK
    BY DEF Init, InitRoots, NoMigration, Migrating, WebOK, MadeOK
  <2>4. StoresOK
    BY RootsAssumption DEF Init, InitRoots, Asleep, StoresOK
  <2> QED BY <2>1, <2>2, <2>3, <2>4 DEF ProcessInv
<1>2. IInv /\ IInv' /\ ProcessInv /\ [Next]_vars => ProcessInv'
  <2> SUFFICES ASSUME IInv, IInv', ProcessInv, [Next]_vars PROVE ProcessInv'
    OBVIOUS
  <2>1. Kept
    BY StepKeeps DEF ProcessInv, DatabasesIn
  <2>2. DatabasesIn(tree') /\ DatabasesIn(copies')
    BY DatabaseStep DEF ProcessInv
  <2>3. DatabasesIn(tree)' /\ DatabasesIn(copies)'
    BY <2>2 DEF DatabasesIn, Shaped
  <2>4. DaemonOK' /\ WebOK' /\ MadeOK' /\ StoresOK'
    BY <2>1, DaemonStep, WebStep, MadeStep, StoresStep DEF ProcessInv
  <2>5. Watched'
    BY WatchedStep
  <2> QED BY <2>3, <2>4, <2>5 DEF ProcessInv
<1> QED BY <1>1, <1>2, Invariant, PTL DEF Spec

(* The variables have their types; every store a process has open is in a       *)
(* complete directory.                                                          *)
THEOREM TypeCorrect == Spec => []TypeOK
<1>1. IInv /\ ProcessInv => TypeOK
  <2> SUFFICES ASSUME IInv, ProcessInv PROVE TypeOK
    OBVIOUS
  <2>1. ASSUME NEW r \in Roots PROVE Health(r) \in HealthState /\ Range(commands(r)) \subseteq Command
    <3>1. tree[r][Database] \in [commands : Seq(Command), health : HealthState]
      BY DEF ProcessInv, DatabasesIn, ControlDatabase
    <3>2. commands(r) \in Seq(Command)
      BY <3>1 DEF commands
    <3>3. \A i \in DOMAIN commands(r) : commands(r)[i] \in Command
      BY <3>2, ElementOfSeq
    <3> QED BY <3>1, <3>3 DEF Health, Range
  <2>2. RootsOK
    BY DEF IInv
  <2> QED BY <2>1, <2>2 DEF TypeOK, ProcessInv, DaemonOK, WebOK, StoresOK
<1> QED BY <1>1, Invariant, ProcessInvariant, PTL

(* A recorder the migration looks for records under the pointer, and never      *)
(* while its directory is copied: storage_migrate asks the daemon to pause, and *)
(* a daemon that records does not.                                              *)
THEOREM RecordersFollow == Spec => []RecordsUnderPointer
<1>1. ProcessInv => RecordsUnderPointer
  BY DEF ProcessInv, Watched, WebOK, RecordsUnderPointer
<1> QED BY <1>1, ProcessInvariant, PTL

-----------------------------------------------------------------------------
(* Rows and runs.                                                               *)

(* A child that is in place keeps what it has.                                  *)
LEMMA HasStays ==
    ASSUME Kept, made.stray \subseteq made'.stray, NEW r \in Roots,
           NEW c \in {RawChunks, RunsFile}, c \in present[r], NEW n, Has(tree, r, c, n)
    PROVE  Has(tree, r, c, n)'
BY DEF Has, Kept

(* What is made is numbered, and what is stray stays so.                        *)
LEMMA Numbers ==
    ASSUME MadeOK, [Next]_vars
    PROVE  /\ made.stray \subseteq made'.stray
           /\ made'.rows = made.rows \/ Record
           /\ made'.runs = made.runs \/ JobSaves
<1>1. CASE made' = made
  BY <1>1
<1>2. CASE Record
  <2>1. PICK S : made' = [made EXCEPT !.rows = made.rows + 1, !.stray = S] /\ made.stray \subseteq S
    BY <1>2 DEF Record
  <2> QED BY <1>2, <2>1 DEF MadeOK
<1>3. CASE JobSaves
  <2>1. PICK S : made' = [made EXCEPT !.runs = made.runs + 1, !.stray = S] /\ made.stray \subseteq S
    BY <1>3 DEF JobSaves
  <2> QED BY <1>3, <2>1 DEF MadeOK
<1>4. CASE DaemonCrash \/ WebRestart
  BY <1>4 DEF DaemonCrash, WebRestart, MadeOK
<1>5. CASE \E x : made' = [made EXCEPT !.asked = x]
  BY <1>5 DEF MadeOK
<1>6. (\E action : Button(action)) \/ AskMigrate => \E x : made' = [made EXCEPT !.asked = x]
  BY DEF Button, AskMigrate
<1> QED BY <1>1, <1>2, <1>3, <1>4, <1>5, <1>6
        DEF Next, vars, DaemonNext, WebNext, Poll, ActStart, ActOther, ActIdle, Beat, TaskEnds,
            DaemonWakes, DaemonBoot, JobStarts, JobFails, SeePaused, GiveUp, CallMigrate,
            Migrate, Answer

(* Of the rows and runs there have been, a step leaves in place and carries     *)
(* what it found in place and carried.                                          *)
LEMMA CarriedStays ==
    ASSUME IInv, DatabasesIn(tree), DatabasesIn(copies), Kept, made.stray \subseteq made'.stray,
           [Next]_vars, NEW c \in {RawChunks, RunsFile}, NEW n \in Nat, CarriedOf(c, n)
    PROVE  CarriedOf(c, n)'
<1>1. PICK p \in Roots, d \in Roots : p = pointer /\ d = migration.dest
  BY DEF IInv, RootsOK
<1>2. /\ c \in Children /\ c \in present[p]
      /\ Migrating => d # p /\ migration.source = p
  BY <1>1, Names DEF IInv, Placed, PointerIsComplete
<1>3. /\ Has(tree, p, c, n) /\ Has(tree, p, c, n)'
      /\ Migrating /\ c \in staged[d] => Has(copies, d, c, n)
      /\ migration.step = "move" /\ c \in present[d] => Has(tree, d, c, n) /\ Has(tree, d, c, n)'
  BY <1>1, <1>2, HasStays DEF CarriedOf, Migrating
<1>4. ASSUME ~Migrating', NEW q \in {p, d}, pointer' = q, Has(tree, q, c, n)' PROVE CarriedOf(c, n)'
  BY <1>4 DEF CarriedOf, Has
<1>5. ASSUME pointer' = p, migration'.dest = d, Migrating',
             c \in staged'[d] => Has(copies, d, c, n)',
             migration'.step = "move" /\ c \in present'[d] => Has(tree, d, c, n)'
      PROVE  CarriedOf(c, n)'
  BY <1>3, <1>5 DEF CarriedOf, Has
<1>6. ASSUME UNCHANGED <<staged, copies>>, Migrating, c \in staged[d] PROVE Has(copies, d, c, n)'
  BY <1>3, <1>6 DEF Has
<1>7. ASSUME NEW result, migration' = Returned(result), pointer' = pointer PROVE CarriedOf(c, n)'
  <2>1. ~Migrating'
    BY <1>7 DEF Migrating, Returned, IInv, RootsOK
  <2> QED BY <1>1, <1>3, <1>4, <1>7, <2>1
<1>8. CASE UNCHANGED where /\ copies' = copies
  <2>1. CASE ~Migrating
    BY <1>1, <1>3, <1>4, <1>8, <2>1 DEF where, Migrating
  <2>2. CASE Migrating
    BY <1>1, <1>3, <1>5, <1>6, <1>8, <2>2 DEF where, Migrating
  <2> QED BY <2>1, <2>2
<1>9. ASSUME NEW dest \in Roots, BeginMigration(dest) PROVE CarriedOf(c, n)'
  <2>1. CASE \E result : migration' = Returned(result)
    BY <1>7, <1>9, <2>1 DEF BeginMigration
  <2>2. CASE /\ migration' = [step |-> "copy", source |-> pointer, dest |-> dest, result |-> "NONE"]
             /\ staged' = [staged EXCEPT ![dest] = {}]
    <3>1. staged'[dest] = {} /\ pointer' = p
      BY <1>1, <1>9, <2>2 DEF BeginMigration, IInv, RootsOK
    <3> QED BY <1>3, <2>2, <3>1 DEF CarriedOf, Has
  <2> QED BY <1>9, <2>1, <2>2 DEF BeginMigration
<1>10. CASE WebRestart
  BY <1>7, <1>10 DEF WebRestart
<1>11. ASSUME NEW k \in Children, CopyChild(k) PROVE CarriedOf(c, n)'
  <2>1. /\ migration' = migration /\ pointer' = pointer /\ present' = present
        /\ migration.step = "copy" /\ Migrating /\ Migrating'
    BY <1>11 DEF CopyChild, Migrating
  <2>2. /\ staged'[d] = staged[d] \cup {k}
        /\ copies'[d][c] = IF k = c THEN tree[p][c] ELSE copies[d][c]
    BY <1>1, <1>2, <1>11, <2>1 DEF CopyChild, DatabasesIn, Shaped, IInv, RootsOK
  <2>3. c \in staged'[d] => Has(copies, d, c, n)'
    <3>1. CASE k = c
      BY <1>3, <2>2, <3>1 DEF Has
    <3>2. CASE k # c
      BY <1>3, <2>1, <2>2, <3>2 DEF Has
    <3> QED BY <3>1, <3>2
  <2> QED BY <1>1, <1>5, <2>1, <2>3
<1>12. ASSUME NEW k \in Children, MoveChild(k) PROVE CarriedOf(c, n)'
  <2>1. /\ migration' = migration /\ pointer' = pointer /\ copies' = copies
        /\ migration.step = "move" /\ Migrating /\ Migrating' /\ k \in staged[d]
    BY <1>1, <1>12 DEF MoveChild, Migrating
  <2>2. /\ staged'[d] = staged[d] \ {k} /\ present'[d] = present[d] \cup {k}
        /\ k = c => tree'[d][c] = copies[d][c]
    BY <1>1, <1>2, <1>12 DEF MoveChild, DatabasesIn, Shaped, IInv, RootsOK
  <2>3. c \in present'[d] => Has(tree, d, c, n)'
    <3>1. CASE k = c
      BY <1>3, <2>1, <2>2, <3>1 DEF Has
    <3>2. CASE k # c
      BY <1>3, <2>1, <2>2, <3>2
    <3> QED BY <3>1, <3>2
  <2>4. c \in staged'[d] => Has(copies, d, c, n)'
    BY <1>3, <2>1, <2>2 DEF Has
  <2> QED BY <1>1, <1>5, <2>1, <2>3, <2>4
<1>13. CASE Verify
  <2>1. pointer' = pointer /\ UNCHANGED <<present, staged, copies>> /\ migration.step = "copy" /\ Migrating
    BY <1>13 DEF Verify, Migrating
  <2>2. CASE migration' = Returned("FAILED")
    BY <1>7, <2>1, <2>2
  <2>3. CASE migration' = [migration EXCEPT !.step = "move"]
    <3>1. migration'.dest = d /\ migration'.step = "move" /\ Migrating'
      BY <1>1, <2>3 DEF IInv, RootsOK, Migrating
    <3>2. present[d] = {}
      BY <1>1, <2>1 DEF IInv, Placed
    <3> QED BY <1>1, <1>5, <1>6, <2>1, <3>1, <3>2
  <2> QED BY <1>13, <2>2, <2>3 DEF Verify
<1>14. CASE Switch
  <2>1. migration.step = "move" /\ staged[d] = {} /\ pointer' = d /\ ~Migrating'
    BY <1>1, <1>14 DEF Switch, Returned, Migrating, IInv, RootsOK
  <2>2. c \in present[d]
    BY <1>1, <1>2, <2>1 DEF IInv, Placed
  <2> QED BY <1>3, <1>4, <2>1, <2>2
<1>15. CASE MigrationFails
  BY <1>7, <1>15 DEF MigrationFails
<1>16. copies' = copies \/ Migrate
  BY DEF Next, vars, rootVars, DaemonNext, WebNext, Poll, ActStart, ActOther, ActIdle, Beat,
     Record, TaskEnds, DaemonCrash, DaemonWakes, DaemonBoot, Button, JobStarts, JobFails,
     JobSaves, AskMigrate, SeePaused,
     GiveUp, CallMigrate, BeginMigration, Answer, WebRestart
<1> QED BY <1>8, <1>9, <1>10, <1>11, <1>12, <1>13, <1>14, <1>15, <1>16, OtherSteps
        DEF Migrate, MigrationProceeds

(* The next row or run is under the pointer, and nothing has to carry it.       *)
LEMMA CarriedAdds ==
    ASSUME NEW c, NEW n \in Nat, CarriedOf(c, n)',
           \/ <<c, n + 1>> \in made'.stray
           \/ ~Migrating' /\ n + 1 \in tree'[pointer'][c]
    PROVE  CarriedOf(c, n + 1)'
<1>1. \A k \in 1..(n + 1) : k \in 1..n \/ k = n + 1
  OBVIOUS
<1>2. CASE <<c, n + 1>> \in made'.stray
  BY <1>1, <1>2 DEF CarriedOf, Has
<1>3. CASE ~Migrating' /\ n + 1 \in tree'[pointer'][c]
  BY <1>1, <1>3 DEF CarriedOf, Has
<1> QED BY <1>2, <1>3

LEMMA CarriedStep == ASSUME IInv, ProcessInv, Carried, [Next]_vars PROVE Carried'
<1>1. /\ DatabasesIn(tree) /\ DatabasesIn(copies) /\ DaemonOK /\ WebOK /\ MadeOK /\ StoresOK /\ Watched
      /\ Kept /\ made.stray \subseteq made'.stray
  BY StepKeeps, Numbers DEF ProcessInv, DatabasesIn
<1>2. PICK n \in Nat, m \in Nat : n = made.rows /\ m = made.runs
  BY <1>1 DEF MadeOK
<1>3. CarriedOf(RawChunks, n)' /\ CarriedOf(RunsFile, m)'
  BY <1>1, <1>2, CarriedStays DEF Carried
<1>4. ASSUME Record PROVE Carried'
  <2>1. made'.rows = n + 1 /\ made'.runs = m
    BY <1>1, <1>2, <1>4 DEF Record, MadeOK
  <2>2. daemon.root \in Roots /\ pointer \in Roots /\ RawChunks \in Children
    BY <1>1, Names DEF StoresOK, IInv, RootsOK
  <2>3. CASE daemon.intruder
    <3>1. <<RawChunks, n + 1>> \in made'.stray
      BY <1>1, <1>2, <1>4, <2>3 DEF Record, MadeOK
    <3> QED BY <1>3, <2>1, <3>1, CarriedAdds DEF Carried
  <2>4. CASE ~daemon.intruder
    <3>1. daemon.root = pointer /\ ~Migrating /\ ~Migrating' /\ pointer' = pointer
      BY <1>1, <1>4, <2>4 DEF Record, Watched, WebOK, Migrating
    <3>2. n + 1 \in tree'[pointer'][RawChunks]
      BY <1>1, <1>2, <1>4, <2>2, <3>1 DEF Record, DatabasesIn, Shaped
    <3> QED BY <1>3, <2>1, <3>1, <3>2, CarriedAdds DEF Carried
  <2> QED BY <2>3, <2>4
<1>5. ASSUME JobSaves PROVE Carried'
  <2>1. made'.rows = n /\ made'.runs = m + 1
    BY <1>1, <1>2, <1>5 DEF JobSaves, MadeOK
  <2>2. pointer \in Roots /\ RunsFile \in Children
    BY Names DEF IInv, RootsOK
  <2>3. CASE web.intruder \/ web.runStore # pointer
    <3>1. <<RunsFile, m + 1>> \in made'.stray
      BY <1>1, <1>2, <1>5, <2>3 DEF JobSaves, MadeOK
    <3> QED BY <1>3, <2>1, <3>1, CarriedAdds DEF Carried
  <2>4. CASE ~web.intruder /\ web.runStore = pointer
    <3>1. ~Migrating /\ ~Migrating' /\ pointer' = pointer
      BY <1>1, <1>5, <2>4 DEF JobSaves, WebOK, Migrating
    <3>2. m + 1 \in tree'[pointer'][RunsFile]
      BY <1>1, <1>2, <1>5, <2>2, <2>4, <3>1 DEF JobSaves, DatabasesIn, Shaped
    <3> QED BY <1>3, <2>1, <3>1, <3>2, CarriedAdds DEF Carried
  <2> QED BY <2>3, <2>4
<1>6. CASE made'.rows = made.rows /\ made'.runs = made.runs
  BY <1>2, <1>3, <1>6 DEF Carried
<1> QED BY <1>1, <1>4, <1>5, <1>6, Numbers

(* Nothing that a migration has to carry is lost by it, by its failure or by a  *)
(* crash: what was made while nobody migrated is copied before the pointer      *)
(* moves, and what the pointer names is complete.                               *)
THEOREM NothingIsLost == Spec => []NothingLost
<1>1. Init => Carried
  BY DEF Init, InitRoots, NoMigration, Migrating, Carried, CarriedOf, Has
<1>2. IInv /\ ProcessInv /\ Carried /\ [Next]_vars => Carried'
  BY CarriedStep
<1>3. Carried => NothingLost
  BY DEF Carried, CarriedOf, Has, NothingLost
<1> QED BY <1>1, <1>2, <1>3, Invariant, ProcessInvariant, PTL DEF Spec
=============================================================================
