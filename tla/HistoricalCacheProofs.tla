------------------------ MODULE HistoricalCacheProofs ------------------------
(* Proofs about HistoricalCache, for any number of jobs, days and candles:     *)
(* under its own name the file of a day is whole, unless two jobs were writing *)
(* that day at once.                                                           *)
EXTENDS HistoricalCache, TotalsProofs, FiniteSetTheorems

Target(j) == Min(job[j].saving)
Saving(j) == job[j].at \in {"write", "replace"}

(* Only one job saves a day that is not contended; it has its temporary file,  *)
(* which nobody else writes and which it has closed before it renames it.      *)
OneWriter(d) ==
    /\ \A j, k \in Jobs : Saving(j) /\ Saving(k) /\ Target(j) = d /\ Target(k) = d => j = k
    /\ \A j \in Jobs : Saving(j) /\ Target(j) = d => tmp[d].there /\ ~tmp[d].torn
    /\ \A j \in tmp[d].writers : j \in Jobs /\ job[j].at = "write" /\ Target(j) = d
    /\ file[d].writers = {} /\ ~file[d].torn

(* The records have the fields that are updated.                               *)
Shaped(f) == /\ DOMAIN f = Days
             /\ \A d \in Days : DOMAIN f[d] = DOMAIN NoFile
Shapes == /\ Shaped(file) /\ Shaped(tmp) /\ DOMAIN job = Jobs
          /\ \A j \in Jobs : DOMAIN job[j] = DOMAIN NewJob
          /\ DOMAIN history = {"short", "contended", "faults"}

IInv == Shapes /\ \A d \in Days \ history.contended : OneWriter(d)
-----------------------------------------------------------------------------
LEMMA InitIInv == Init => IInv
BY DEF Init, IInv, Shapes, Shaped, OneWriter, Saving, NewJob, NoFile

(* The fields of a job and of a file.                                          *)
LEMMA Fields == DOMAIN NewJob = {"at", "day", "last", "saving", "amount", "kind", "got", "early"}
BY DEF NewJob

LEMMA FailedFields == DOMAIN Failed = DOMAIN NewJob /\ Failed.at = "failed"
BY DEF NewJob, Failed

LEMMA RecordFields == DOMAIN NoFile = {"there", "candles", "writers", "torn"}
BY DEF NoFile

(* A step that saves nothing: no temporary file changes, no job begins or ends *)
(* to save, and a file may only go.                                            *)
Quiet == /\ tmp' = tmp /\ Shapes' /\ history'.contended = history.contended
         /\ \A d \in Days : file'[d] = file[d] \/ file'[d] = NoFile
         /\ \A j \in Jobs : job'[j] = job[j]
                \/ {job[j].at, job'[j].at} \cap {"write", "replace"} = {}

LEMMA QuietStep == ASSUME IInv, Quiet PROVE IInv'
<1> SUFFICES ASSUME NEW d \in Days, d \notin history.contended PROVE OneWriter(d)'
  BY DEF IInv, Quiet
<1>1. OneWriter(d) /\ tmp' = tmp
  BY DEF IInv, Quiet
<1>2. \A j \in Jobs : Saving(j)' => Saving(j) /\ Target(j)' = Target(j)
  BY DEF Quiet, Saving, Target
<1>3. \A j \in Jobs : job[j].at = "write" => job'[j] = job[j]
  BY DEF Quiet
<1>4. file'[d].writers = {} /\ ~file'[d].torn
  BY <1>1 DEF Quiet, OneWriter, NoFile
<1> QED BY <1>1, <1>2, <1>3, <1>4 DEF OneWriter, Target

(* One job changes, from a step that saves nothing to such a step; the files do *)
(* not change.                                                                 *)
Idle(j) == /\ tmp' = tmp /\ file' = file
           /\ DOMAIN job' = Jobs /\ DOMAIN job'[j] = DOMAIN job[j]
           /\ \A k \in Jobs : k # j => job'[k] = job[k]
           /\ job[j].at \notin {"write", "replace"} /\ job'[j].at \notin {"write", "replace"}
           /\ history'.contended = history.contended /\ DOMAIN history' = DOMAIN history

LEMMA IdleStep == ASSUME IInv, NEW j \in Jobs, Idle(j) PROVE Quiet
<1>1. Shapes'
  BY DEF IInv, Shapes, Shaped, Idle
<1> QED BY <1>1 DEF Quiet, Idle

LEMMA GotoIdle ==
    ASSUME IInv, NEW j \in Jobs, NEW at, Goto(j, at), at \notin {"write", "replace"},
           job[j].at \notin {"write", "replace"}, UNCHANGED <<now, disk, cleaning, history>>
    PROVE  Idle(j)
BY Fields DEF IInv, Shapes, Goto, disk, Idle

LEMMA BeginIdle ==
    ASSUME IInv, NEW j \in Jobs, NEW first, NEW last, Begin(j, first, last)
    PROVE  Idle(j)
BY Fields DEF IInv, Shapes, Begin, disk, Idle

LEMMA FailIdle ==
    ASSUME IInv, NEW j \in Jobs, Fail(j), job[j].at \notin {"write", "replace"},
           UNCHANGED <<now, disk, cleaning, history>>
    PROVE  Idle(j)
BY FailedFields DEF IInv, Shapes, Fail, disk, Idle

LEMMA GatheredJob ==
    ASSUME IInv, NEW j \in Jobs, NEW n, Gathered(j, n)
    PROVE  /\ DOMAIN job' = Jobs /\ DOMAIN job'[j] = DOMAIN job[j]
           /\ \A k \in Jobs : k # j => job'[k] = job[k]
           /\ job'[j].at \notin {"write", "replace"}
<1> DEFINE d == Today(j)
           got == [job[j].got EXCEPT ![d] = n]
           at == IF Today(j) = job[j].last THEN "done" ELSE "look"
           day == IF Today(j) = job[j].last THEN job[j].day ELSE job[j].day + 1
<1> HIDE DEF got, at, day, d
<1>1. job' = [job EXCEPT ![j] = [job[j] EXCEPT !.got = got, !.at = at, !.day = day]]
  BY DEF Gathered, got, at, day, d
<1>2. at \notin {"write", "replace"}
  BY DEF at
<1> QED BY <1>1, <1>2, Fields DEF IInv, Shapes

LEMMA JobSteps ==
    ASSUME IInv, NEW j \in Jobs,
           \/ \E first, last \in Days : Begin(j, first, last)
           \/ Look(j) \/ FetchMonth(j) \/ FetchDay(j) \/ FetchFails(j) \/ Saved(j)
           \/ Read(j) \/ Touch(j)
    PROVE  Quiet
<1> SUFFICES Idle(j)
  BY IdleStep
<1>1. ASSUME NEW first \in Days, NEW last \in Days, Begin(j, first, last) PROVE Idle(j)
  BY <1>1, BeginIdle
<1>2. CASE Look(j)
  BY <1>2, GotoIdle, GatheredJob DEF Look, disk, Idle
<1>3. CASE FetchMonth(j)
  BY <1>3, GotoIdle, Fields DEF FetchMonth, IInv, Shapes, disk, Idle
<1>4. CASE FetchDay(j)
  BY <1>4, Fields DEF FetchDay, IInv, Shapes, disk, Idle
<1>5. CASE FetchFails(j)
  BY <1>5, FailIdle DEF FetchFails
<1>6. CASE Saved(j)
  <2>1. history'.contended = history.contended /\ DOMAIN history' = DOMAIN history
    BY <1>6 DEF Saved
  <2>2. /\ DOMAIN job' = Jobs /\ DOMAIN job'[j] = DOMAIN job[j]
        /\ \A k \in Jobs : k # j => job'[k] = job[k]
        /\ job'[j].at \notin {"write", "replace"}
    BY <1>6, GatheredJob, Fields DEF Saved, Goto, IInv, Shapes
  <2> QED BY <1>6, <2>1, <2>2 DEF Saved, Idle
<1>7. CASE Read(j)
  <2> DEFINE c == file[Today(j)].candles
  <2>1. /\ job[j].at = "read" /\ UNCHANGED <<now, disk, cleaning, history>>
        /\ Fail(j) \/ job' = [job EXCEPT ![j].at = "touch", ![j].amount = c]
    BY <1>7 DEF Read
  <2> HIDE DEF c
  <2>2. CASE Fail(j)
    BY <2>1, <2>2, FailIdle
  <2>3. CASE job' = [job EXCEPT ![j].at = "touch", ![j].amount = c]
    BY <2>1, <2>3, Fields DEF IInv, Shapes, disk, Idle
  <2> QED BY <2>1, <2>2, <2>3
<1>8. CASE Touch(j)
  BY <1>8, GatheredJob DEF Touch, Idle
<1> QED BY <1>1, <1>2, <1>3, <1>4, <1>5, <1>6, <1>7, <1>8

(* A job opens a temporary file that no other job has.                         *)
LEMMA OpenStep == ASSUME IInv, NEW j \in Jobs, Open(j) PROVE IInv'
<1> DEFINE e == Target(j)
<1>1. /\ file' = file /\ tmp' = [tmp EXCEPT ![e] = Writing(j, e)]
      /\ history' = [history EXCEPT !.contended = Contended(e)]
      /\ job' = [job EXCEPT ![j].at = "write"] /\ ~Saving(j)
  BY DEF Open, Goto, Target, Saving
<1>2. /\ job'[j].at = "write" /\ job'[j].saving = job[j].saving /\ DOMAIN job' = Jobs
      /\ \A k \in Jobs : k # j => job'[k] = job[k]
      /\ \A k \in Jobs : DOMAIN job'[k] = DOMAIN NewJob
  BY <1>1, Fields DEF IInv, Shapes
<1>3. Shapes'
  BY <1>1, <1>2, RecordFields DEF IInv, Shapes, Shaped, Writing
<1>4. ASSUME NEW d \in Days, d \notin history'.contended PROVE OneWriter(d)'
  <2>1. d \notin history.contended /\ (d = e => \A k \in Jobs : ~Saves(k, d))
    BY <1>1, <1>4 DEF IInv, Shapes, Contended
  <2>2. OneWriter(d)
    BY <2>1 DEF IInv
  <2>3. \A k \in Jobs : Target(k)' = Target(k) /\ (k # j => (Saving(k)' <=> Saving(k)))
    BY <1>2 DEF Target, Saving
  <2>4. CASE d = e
    <3>1. \A k \in Jobs : ~(Saving(k) /\ Target(k) = d)
      BY <2>1, <2>4 DEF Saves, Saving, Target
    <3>2. tmp[d].writers = {}
      BY <2>2, <3>1 DEF OneWriter, Saving
    <3>3. tmp'[d].there /\ tmp'[d].writers = {j} /\ ~tmp'[d].torn
      BY <1>1, <2>4, <3>2 DEF IInv, Shapes, Shaped, Writing
    <3> QED BY <1>1, <1>2, <2>2, <2>3, <2>4, <3>1, <3>3 DEF OneWriter, Target
  <2>5. CASE d # e
    <3>1. tmp'[d] = tmp[d] /\ file' = file
      BY <1>1, <2>5 DEF IInv, Shapes, Shaped
    <3>2. \A k \in Jobs : job[k].at = "write" => job'[k].at = "write"
      BY <1>2
    <3> QED BY <2>2, <2>3, <2>5, <3>1, <3>2 DEF OneWriter
  <2> QED BY <2>4, <2>5
<1> QED BY <1>3, <1>4 DEF IInv

(* It closes what it has written, wherever that is by now.                     *)
LEMMA WriteStep == ASSUME IInv, NEW j \in Jobs, Write(j) PROVE IInv'
<1> DEFINE e == Target(j)
<1>1. /\ file' = [file EXCEPT ![e] = Closed(@, j)] /\ tmp' = [tmp EXCEPT ![e] = Closed(@, j)]
      /\ history' = history /\ job' = [job EXCEPT ![j].at = "replace"] /\ job[j].at = "write"
  BY DEF Write, Goto, Target
<1>2. /\ job'[j].at = "replace" /\ job'[j].saving = job[j].saving /\ DOMAIN job' = Jobs
      /\ \A k \in Jobs : k # j => job'[k] = job[k]
      /\ \A k \in Jobs : DOMAIN job'[k] = DOMAIN NewJob
  BY <1>1, Fields DEF IInv, Shapes
<1>3. Shapes'
  BY <1>1, <1>2, RecordFields DEF IInv, Shapes, Shaped, Closed
<1>4. ASSUME NEW d \in Days, d \notin history.contended PROVE OneWriter(d)'
  <2>1. OneWriter(d)
    BY <1>4 DEF IInv
  <2>2. \A k \in Jobs : Target(k)' = Target(k) /\ (Saving(k)' <=> Saving(k))
    BY <1>1, <1>2 DEF Target, Saving
  <2>3. /\ tmp'[d].there = tmp[d].there /\ tmp'[d].torn = tmp[d].torn /\ file'[d].torn = file[d].torn
        /\ tmp'[d].writers = IF d = e THEN tmp[d].writers \ {j} ELSE tmp[d].writers
        /\ file'[d].writers = IF d = e THEN file[d].writers \ {j} ELSE file[d].writers
    BY <1>1, RecordFields DEF IInv, Shapes, Shaped, Closed
  <2>4. \A k \in tmp'[d].writers : k \in Jobs /\ k # j /\ job[k].at = "write" /\ Target(k) = d
    BY <2>1, <2>3 DEF OneWriter
  <2> QED BY <1>2, <2>1, <2>2, <2>3, <2>4 DEF OneWriter
<1> QED BY <1>1, <1>3, <1>4 DEF IInv

(* It renames the file it alone has written, and has closed.                   *)
LEMMA ReplaceStep == ASSUME IInv, NEW j \in Jobs, Replace(j) PROVE IInv'
<1> DEFINE e == Target(j)
<1>1. /\ job[j].at = "replace" /\ DOMAIN job' = Jobs
      /\ \A k \in Jobs : k # j => job'[k] = job[k]
      /\ DOMAIN job'[j] = DOMAIN NewJob /\ job'[j].at \notin {"write", "replace"}
      /\ history'.contended = history.contended /\ DOMAIN history' = DOMAIN history
  BY Fields, FailedFields DEF Replace, Fail, IInv, Shapes
<1>2. \/ file' = file /\ tmp' = tmp
      \/ file' = [file EXCEPT ![e] = tmp[e]] /\ tmp' = [tmp EXCEPT ![e] = NoFile]
  BY DEF Replace, Target
<1>3. Shapes'
  BY <1>1, <1>2 DEF IInv, Shapes, Shaped, NoFile
<1>4. ASSUME NEW d \in Days, d \notin history.contended PROVE OneWriter(d)'
  <2>1. OneWriter(d)
    BY <1>4 DEF IInv
  <2>2. \A k \in Jobs : Saving(k)' => k # j /\ Saving(k) /\ Target(k)' = Target(k)
    BY <1>1 DEF Saving, Target
  <2>3. d = e => tmp[d].writers = {}
    <3>1. ASSUME d = e, NEW k \in tmp[d].writers PROVE FALSE
      <4>1. k \in Jobs /\ job[k].at = "write" /\ Target(k) = d
        BY <2>1, <3>1 DEF OneWriter
      <4>2. k = j
        BY <1>1, <2>1, <3>1, <4>1 DEF OneWriter, Saving
      <4> QED BY <1>1, <4>1, <4>2
    <3> QED BY <3>1
  <2>4. d = e => \A k \in Jobs : ~(Saving(k)' /\ Target(k)' = d)
    BY <1>1, <2>1, <2>2 DEF OneWriter, Saving
  <2>5. d # e => tmp'[d] = tmp[d] /\ file'[d] = file[d]
    BY <1>2 DEF IInv, Shapes, Shaped
  <2>6. d = e => tmp'[d].writers = {} /\ file'[d].writers = {} /\ ~file'[d].torn
    <3>1. e \in Days /\ d = e => ~tmp[e].torn
      BY <1>1, <2>1 DEF OneWriter, Saving
    <3> QED BY <1>2, <2>1, <2>3, <3>1 DEF IInv, Shapes, Shaped, OneWriter, NoFile
  <2>7. \A k \in tmp'[d].writers : k \in Jobs /\ k # j /\ job[k].at = "write" /\ Target(k) = d
    BY <1>1, <2>1, <2>5, <2>6 DEF OneWriter
  <2>8. \A k \in tmp'[d].writers : k \in Jobs /\ job'[k].at = "write" /\ Target(k)' = d
    BY <1>1, <2>7 DEF Target
  <2> QED BY <2>1, <2>2, <2>4, <2>5, <2>6, <2>8 DEF OneWriter
<1> QED BY <1>1, <1>3, <1>4 DEF IInv

(* A save that fails tears at most the temporary file of its day, which no      *)
(* other job has.                                                              *)
LEMMA SaveFailsStep == ASSUME IInv, NEW j \in Jobs, SaveFails(j) PROVE IInv'
<1> DEFINE e == Target(j)
<1>1. /\ file' = [file EXCEPT ![e] = Broken(@, j)] /\ tmp' = [tmp EXCEPT ![e] = Broken(@, j)]
      /\ job' = [job EXCEPT ![j] = Failed]
      /\ history'.contended = history.contended /\ DOMAIN history' = DOMAIN history
  BY DEF SaveFails, Fail, Target, IInv, Shapes
<1>2. /\ job'[j].at = "failed" /\ DOMAIN job' = Jobs
      /\ \A k \in Jobs : k # j => job'[k] = job[k]
      /\ \A k \in Jobs : DOMAIN job'[k] = DOMAIN NewJob
  BY <1>1, FailedFields DEF IInv, Shapes
<1>3. Shapes'
  BY <1>1, <1>2, RecordFields DEF IInv, Shapes, Shaped, Broken
<1>4. ASSUME NEW d \in Days, d \notin history.contended PROVE OneWriter(d)'
  <2>1. OneWriter(d)
    BY <1>4 DEF IInv
  <2>2. \A k \in Jobs : Saving(k)' => k # j /\ Saving(k) /\ Target(k)' = Target(k)
    BY <1>2 DEF Saving, Target
  <2>3. file'[d] = file[d]
    BY <1>1, <2>1 DEF IInv, Shapes, Shaped, OneWriter, Broken
  <2>4. j \notin tmp[d].writers => tmp'[d] = tmp[d]
    BY <1>1 DEF IInv, Shapes, Shaped, Broken
  <2>5. CASE j \notin tmp[d].writers
    BY <1>2, <2>1, <2>2, <2>3, <2>4, <2>5 DEF OneWriter, Target
  <2>6. CASE j \in tmp[d].writers
    <3>1. d = e /\ job[j].at = "write"
      BY <2>1, <2>6 DEF OneWriter
    <3>2. \A k \in Jobs : ~(Saving(k)' /\ Target(k)' = d)
      BY <2>1, <2>2, <3>1 DEF OneWriter, Saving
    <3>3. tmp'[d].writers = tmp[d].writers \ {j}
      BY <1>1, <2>6, <3>1, RecordFields DEF IInv, Shapes, Shaped, Broken
    <3>4. \A k \in tmp'[d].writers : k \in Jobs /\ k # j /\ job[k].at = "write" /\ Target(k) = d
      BY <2>1, <3>3 DEF OneWriter
    <3> QED BY <1>2, <2>1, <2>3, <3>2, <3>4 DEF OneWriter, Target
  <2> QED BY <2>5, <2>6
<1> QED BY <1>1, <1>3, <1>4 DEF IInv

(* No job of a killed process saves any more.                                  *)
LEMMA KilledStep == ASSUME IInv, Killed PROVE IInv'
<1>1. /\ tmp' = [d \in Days |-> LeftBehind(tmp[d])] /\ file' = [d \in Days |-> LeftBehind(file[d])]
      /\ job' = [j \in Jobs |-> IF job[j].at \in {"new", "done", "failed"} THEN job[j] ELSE Failed]
      /\ history'.contended = history.contended /\ DOMAIN history' = DOMAIN history
  BY DEF Killed, IInv, Shapes
<1>2. \A j \in Jobs : ~Saving(j)' /\ DOMAIN job'[j] = DOMAIN NewJob
  BY <1>1, FailedFields DEF IInv, Shapes, Saving
<1>3. \A d \in Days : /\ DOMAIN tmp'[d] = DOMAIN NoFile /\ DOMAIN file'[d] = DOMAIN NoFile
                     /\ tmp'[d].writers = {} /\ (file[d].writers = {} => file'[d] = file[d])
  <2> TAKE d \in Days
  <2> DEFINE f == tmp[d]
             g == file[d]
  <2>1. tmp'[d] = LeftBehind(f) /\ file'[d] = LeftBehind(g) /\ DOMAIN f = DOMAIN NoFile /\ DOMAIN g = DOMAIN NoFile
    BY <1>1 DEF IInv, Shapes, Shaped
  <2> HIDE DEF f, g
  <2>2. DOMAIN LeftBehind(f) = DOMAIN f /\ DOMAIN LeftBehind(g) = DOMAIN g
    BY DEF LeftBehind
  <2>3. LeftBehind(f).writers = {} /\ (g.writers = {} => LeftBehind(g) = g)
    BY <2>1, RecordFields DEF LeftBehind
  <2> QED BY <2>1, <2>2, <2>3 DEF g
<1>4. Shapes'
  BY <1>1, <1>2, <1>3 DEF IInv, Shapes, Shaped
<1> QED BY <1>1, <1>2, <1>3, <1>4 DEF IInv, OneWriter

(* Under its own name a file is whole unless two jobs wrote that day at once,  *)
(* whatever saves fail and wherever the process is killed: _save_day_parts, for *)
(* any number of jobs and faults.                                              *)
THEOREM WholeFiles == Spec => []FilesAreWhole
<1>1. IInv /\ [Next]_vars => IInv'
  <2> SUFFICES ASSUME IInv, [Next]_vars PROVE IInv'
    OBVIOUS
  <2>1. ASSUME NEW d \in Days, Unlink(d) PROVE Quiet
    <3>1. history'.contended = history.contended /\ DOMAIN history' = DOMAIN history
      BY <2>1 DEF Unlink
    <3>2. file' = file \/ file' = [file EXCEPT ![d] = NoFile]
      BY <2>1 DEF Unlink
    <3>3. tmp' = tmp /\ job' = job
      BY <2>1 DEF Unlink
    <3>4. Shapes'
      BY <3>1, <3>2, <3>3 DEF IInv, Shapes, Shaped, NoFile
    <3> QED BY <3>1, <3>2, <3>3, <3>4 DEF Quiet, IInv, Shapes, Shaped
  <2>2. ASSUME Select \/ Commit \/ Tick \/ UNCHANGED vars PROVE Quiet
    <3>1. file' = file /\ tmp' = tmp /\ job' = job /\ history' = history
      BY <2>2 DEF Select, Commit, Tick, vars, disk
    <3>2. Shapes'
      BY <3>1 DEF IInv, Shapes, Shaped
    <3> QED BY <3>1, <3>2 DEF Quiet
  <2> QED BY <2>1, <2>2, QuietStep, JobSteps, OpenStep, WriteStep, ReplaceStep,
            SaveFailsStep, KilledStep DEF Next
<1>2. IInv => FilesAreWhole
  BY DEF IInv, FilesAreWhole, OneWriter
<1> QED BY InitIInv, <1>1, <1>2, PTL DEF Spec

-----------------------------------------------------------------------------
(* What a job answers.  A job record is true when what it has gathered, and    *)
(* what it is about to write, is what its days hold.                           *)
Holds(u, d) == IF u.kind = "month" THEN AllCandles(d) ELSE u.amount
JobTrue(u, short) ==
    /\ u.day <= u.last
    /\ \A d \in Days \ (u.early \cup short) : u.got[d] # None => u.got[d] = AllCandles(d)
    /\ u.at \in {"save", "write", "replace"} =>
         /\ u.kind = "day" => /\ u.saving \subseteq {u.day}
                             /\ (u.day \in u.early \/ u.amount = AllCandles(u.day))
         /\ \A d \in u.saving : Holds(u, d) \in 1..AllCandles(d)
    /\ u.at \in {"write", "replace"} => u.saving # {}
    /\ u.at = "touch" => u.day \in u.early \cup short \/ u.amount = AllCandles(u.day)

(* A file holds no more than its day, and all of it unless the day was kept     *)
(* short; a marked day has nothing.                                            *)
DiskTrue ==
    /\ \A d \in Days : tmp[d].there => tmp[d].candles <= AllCandles(d)
    /\ \A d \in Days : file[d].there => /\ file[d].candles <= AllCandles(d)
                                       /\ (d \in history.short \/ file[d].candles = AllCandles(d))
    /\ \A d \in marked : d \in history.short \/ AllCandles(d) = 0

AInv == TypeOK /\ DiskTrue /\ \A j \in Jobs : JobTrue(job[j], history.short)

LEMMA Numbers ==
    /\ LastDay \in Nat \ {0} /\ PerDay \in Nat \ {0} /\ MonthDays \in Nat \ {0} /\ Listed \in Nat
    /\ FirstNow \in Nat /\ LastNow \in Nat /\ FirstNow <= LastNow /\ Days \subseteq Nat \ {0}
    /\ MaxFaults \in Nat
BY CacheAssumption DEF Days

(* A file stays one when a job closes it, breaks off or is killed, and holds    *)
(* what it was to hold: only its writers change, and whether it is torn.        *)
LEMMA FileFields ==
  ASSUME NEW f \in File, NEW j \in Jobs
  PROVE  /\ f.there \in BOOLEAN /\ f.candles \in Nat /\ f.writers \subseteq Jobs
         /\ \A g \in {Closed(f, j), Broken(f, j), LeftBehind(f)} :
              /\ g \in File /\ g.there = f.there /\ g.candles = f.candles
         /\ Closed(f, j).writers = f.writers \ {j} /\ Broken(f, j).writers = f.writers \ {j}
         /\ LeftBehind(f).writers = {}
<1>1. CASE f = NoFile
  <2>1. Closed(f, j) = NoFile /\ Broken(f, j) = NoFile /\ LeftBehind(f) = NoFile
    BY <1>1 DEF Closed, Broken, LeftBehind, NoFile
  <2>2. f \in File /\ f.there = FALSE /\ f.candles = 0 /\ f.writers = {}
    BY <1>1 DEF File, NoFile
  <2>3. \A g \in {Closed(f, j), Broken(f, j), LeftBehind(f)} : g = f
    BY <1>1, <2>1
  <2>4. f.there \in BOOLEAN /\ f.candles \in Nat /\ f.writers \subseteq Jobs
    <3>1. 0 \in Nat /\ {} \subseteq Jobs
      OBVIOUS
    <3> QED BY <2>2, <3>1
  <2>5. /\ Closed(f, j).writers = f.writers \ {j} /\ Broken(f, j).writers = f.writers \ {j}
        /\ LeftBehind(f).writers = {}
    <3>1. {} \ {j} = {}
      OBVIOUS
    <3>2. Closed(f, j) = f /\ Broken(f, j) = f /\ LeftBehind(f) = f
      BY <1>1, <2>1
    <3> QED BY <2>2, <3>1, <3>2, Zenon
  <2>6. \A g \in {Closed(f, j), Broken(f, j), LeftBehind(f)} :
          g \in File /\ g.there = f.there /\ g.candles = f.candles
    BY <2>2, <2>3
  <2> QED BY <2>4, <2>5, <2>6
<1>2. CASE f \in [there : {TRUE}, candles : 1..PerDay, writers : SUBSET Jobs, torn : BOOLEAN]
  <2>1. f.there = TRUE /\ f.candles \in 1..PerDay /\ f.writers \subseteq Jobs
    BY <1>2
  <2>2. f.candles \in Nat
    BY <2>1, Numbers
  <2>3. /\ Closed(f, j) \in [there : {TRUE}, candles : 1..PerDay, writers : SUBSET Jobs, torn : BOOLEAN]
        /\ Closed(f, j).there = f.there /\ Closed(f, j).candles = f.candles
        /\ Closed(f, j).writers = f.writers \ {j}
    BY <1>2 DEF Closed
  <2>4. /\ Broken(f, j) \in [there : {TRUE}, candles : 1..PerDay, writers : SUBSET Jobs, torn : BOOLEAN]
        /\ Broken(f, j).there = f.there /\ Broken(f, j).candles = f.candles
        /\ Broken(f, j).writers = f.writers \ {j}
    BY <1>2 DEF Broken
  <2>5. /\ LeftBehind(f) \in [there : {TRUE}, candles : 1..PerDay, writers : SUBSET Jobs, torn : BOOLEAN]
        /\ LeftBehind(f).there = f.there /\ LeftBehind(f).candles = f.candles
        /\ LeftBehind(f).writers = {}
    BY <1>2 DEF LeftBehind
  <2> QED BY <2>1, <2>2, <2>3, <2>4, <2>5 DEF File
<1> QED BY <1>1, <1>2 DEF File

(* The candles of a day that there are at a time.                              *)
LEMMA Candles ==
    ASSUME NEW d \in Days, NEW t \in Nat
    PROVE  /\ CandlesAt(d, t) \in Nat /\ AllCandles(d) \in Nat
           /\ CandlesAt(d, t) <= AllCandles(d) /\ AllCandles(d) <= PerDay
           /\ d * PerDay <= t => CandlesAt(d, t) = AllCandles(d)
<1> DEFINE I == (d - 1) * PerDay + 1..d * PerDay
           A == {c \in I : Listed <= c /\ c <= t}
           B == {c \in I : Listed <= c /\ c <= d * PerDay}
<1>1. d \in Nat /\ d * PerDay \in Nat /\ (d - 1) * PerDay \in Int /\ (d - 1) * PerDay = d * PerDay - PerDay
      /\ PerDay \in Nat \ {0}
  BY Numbers
<1>2. IsFiniteSet(I) /\ Cardinality(I) = PerDay
  BY <1>1, FS_Interval
<1>3. A \in SUBSET B /\ B \in SUBSET I
  BY <1>1
<1>4. IsFiniteSet(B) /\ Cardinality(B) <= PerDay
  BY <1>2, <1>3, FS_Subset
<1>5. IsFiniteSet(A) /\ Cardinality(A) <= Cardinality(B)
  BY <1>3, <1>4, FS_Subset
<1>6. Cardinality(A) \in Nat /\ Cardinality(B) \in Nat
  BY <1>4, <1>5, FS_CardinalityType
<1>7. CandlesAt(d, t) = Cardinality(A) /\ AllCandles(d) = Cardinality(B)
  BY DEF CandlesAt, AllCandles
<1>8. d * PerDay <= t => A = B
  BY <1>1
<1> HIDE DEF I, A, B
<1> QED BY <1>4, <1>5, <1>6, <1>7, <1>8

(* A day that has ended has all its candles.                                   *)
LEMMA EndedDay ==
    ASSUME TypeOK, NEW d \in Days, Ended(d)
    PROVE  CandlesAt(d, now) = AllCandles(d)
<1>1. now \in Nat /\ d \in Nat /\ PerDay \in Nat \ {0}
  BY Numbers DEF TypeOK
<1>2. now \div PerDay \in Nat /\ (now \div PerDay) * PerDay <= now
  BY <1>1
<1>3. d <= now \div PerDay
  BY <1>1, <1>2 DEF Ended, DayOf
<1>4. d * PerDay <= (now \div PerDay) * PerDay
  <2> DEFINE e == now \div PerDay
  <2>1. e \in Nat /\ d <= e
    BY <1>2, <1>3
  <2> HIDE DEF e
  <2>2. e - d \in Nat /\ (e - d) * PerDay \in Nat /\ (e - d) * PerDay = e * PerDay - d * PerDay
    BY <1>1, <2>1
  <2>3. d * PerDay <= e * PerDay
    BY <1>1, <2>1, <2>2
  <2> QED BY <2>3 DEF e
<1>5. d * PerDay <= now
  <2> DEFINE e == now \div PerDay
             x == d * PerDay
             y == e * PerDay
  <2>1. x <= y /\ y <= now /\ x \in Int /\ y \in Int /\ now \in Int
    BY <1>1, <1>2, <1>4
  <2> HIDE DEF e, x, y
  <2>2. x <= now
    BY <2>1
  <2> QED BY <2>2 DEF x
<1> QED BY <1>1, <1>5, Candles

(* The day a job is saving.                                                    *)
LEMMA TargetIn ==
    ASSUME NEW S \in SUBSET Days, S # {}
    PROVE  Min(S) \in S /\ Min(S) \in Days
<1>1. S \in SUBSET Nat
  BY Numbers
<1> QED BY <1>1, FirstTime

LEMMA MoreShort ==
    ASSUME NEW u, NEW S, NEW T, JobTrue(u, S), S \subseteq T
    PROVE  JobTrue(u, T)
BY DEF JobTrue

(* Who writes a file is a job that has just opened it.                         *)
LEMMA Writers ==
    ASSUME TypeOK, NEW d \in Days, NEW k \in tmp[d].writers \cup file[d].writers
    PROVE  k \in Jobs /\ job[k].at = "write" /\ d = Min(job[k].saving)
<1>1. tmp[d] \in File /\ file[d] \in File
  BY DEF TypeOK
<1>2. \A f \in File : f.writers \subseteq Jobs
  <2> TAKE f \in File
  <2>1. CASE f = NoFile
    BY <2>1 DEF NoFile
  <2>2. CASE f \in [there : {TRUE}, candles : 1..PerDay, writers : SUBSET Jobs, torn : BOOLEAN]
    BY <2>2
  <2> QED BY <2>1, <2>2 DEF File
<1>3. k \in Jobs
  BY <1>1, <1>2
<1> QED BY <1>3 DEF TypeOK

(* One job changes.                                                            *)
Turns(j, u) == /\ u \in Job /\ job' = [job EXCEPT ![j] = u]
               /\ history' \in History
               /\ history.short \subseteq history'.short
               /\ JobTrue(u, history'.short)

LEMMA JobTurns ==
    ASSUME AInv, NEW j \in Jobs, NEW u, Turns(j, u)
    PROVE  /\ job' \in [Jobs -> Job] /\ job'[j] = u
           /\ \A k \in Jobs : k # j => job'[k] = job[k]
           /\ \A k \in Jobs : JobTrue(job'[k], history'.short) /\ job'[k].day <= job'[k].last
<1>1. /\ job' \in [Jobs -> Job] /\ job'[j] = u /\ \A k \in Jobs : k # j => job'[k] = job[k]
  BY DEF Turns, AInv, TypeOK
<1>2. \A k \in Jobs : JobTrue(job'[k], history'.short)
  BY <1>1, MoreShort DEF Turns, AInv
<1> QED BY <1>1, <1>2 DEF JobTrue

(* A job that saves nothing before nor after, and the files stay.              *)
LEMMA TurnStep ==
    ASSUME AInv, NEW j \in Jobs, NEW u, Turns(j, u),
           job[j].at \notin {"write", "replace"}, 
           UNCHANGED <<now, file, tmp, marked, cleaning>>,
           index' \in [Days -> {None} \cup FirstNow..LastNow]
    PROVE  AInv'
<1>1. /\ job' \in [Jobs -> Job] /\ job'[j] = u
      /\ \A k \in Jobs : k # j => job'[k] = job[k]
      /\ \A k \in Jobs : JobTrue(job'[k], history'.short) /\ job'[k].day <= job'[k].last
  BY JobTurns
<1>2. TypeOK'
  <2>1. ASSUME NEW d \in Days, NEW k \in tmp[d].writers \cup file[d].writers
        PROVE  job'[k].at = "write" /\ d = Min(job'[k].saving)
    <3>1. k \in Jobs /\ k # j /\ job[k].at = "write" /\ d = Min(job[k].saving)
      BY <2>1, Writers DEF AInv
    <3> QED BY <1>1, <3>1
  <2>2. /\ now' \in FirstNow..LastNow /\ file' \in [Days -> File] /\ tmp' \in [Days -> File]
        /\ marked' \subseteq Days /\ cleaning' \in Cleanup /\ tmp' = tmp /\ file' = file
    BY DEF AInv, TypeOK
  <2>3. history' \in History
    BY DEF Turns
  <2> QED BY <1>1, <2>1, <2>2, <2>3 DEF TypeOK, Today
<1>3. DiskTrue'
  BY DEF AInv, DiskTrue, Turns
<1> QED BY <1>1, <1>2, <1>3 DEF AInv

LEMMA GotoTurns ==
    ASSUME AInv, NEW j \in Jobs, NEW at \in {"read", "month", "day"}, Goto(j, at),
           history' = history
    PROVE  \E u : Turns(j, u)
<1> DEFINE v == job[j]
           u == [v EXCEPT !.at = at]
<1>1. v \in Job /\ JobTrue(v, history.short) /\ history \in History
  BY DEF AInv, TypeOK
<1>2. job' = [job EXCEPT ![j] = u]
  BY DEF Goto
<1> HIDE DEF v
<1>3. /\ u.at = at /\ u.day = v.day /\ u.last = v.last /\ u.got = v.got /\ u.early = v.early
      /\ u \in Job
  BY <1>1 DEF Job
<1> HIDE DEF u
<1>4. JobTrue(u, history.short)
  BY <1>1, <1>3 DEF JobTrue
<1> QED BY <1>1, <1>2, <1>3, <1>4 DEF Turns

(* A job that fails has answered nothing.                                      *)
LEMMA FailedJob ==
    /\ Failed \in Job /\ Failed.at = "failed" /\ Failed.day <= Failed.last
    /\ \A S : JobTrue(Failed, S)
<1>1. NewJob \in Job /\ NewJob.day = 1 /\ NewJob.last = 1 /\ \A d \in Days : NewJob.got[d] = None
  BY Numbers DEF NewJob, Job, Days
<1>2. /\ Failed \in Job /\ Failed.at = "failed" /\ Failed.day = 1 /\ Failed.last = 1
      /\ Failed.got = NewJob.got
  BY <1>1 DEF Failed, Job
<1> QED BY <1>1, <1>2 DEF JobTrue

LEMMA FailTurns ==
    ASSUME AInv, NEW j \in Jobs, Fail(j), history' \in History, history'.short = history.short
    PROVE  Turns(j, Failed)
BY FailedJob DEF Turns, Fail

(* A day is answered by what it holds.                                         *)
LEMMA GatheredTurns ==
    ASSUME AInv, NEW j \in Jobs, NEW n \in Nat, Gathered(j, n),
           history' \in History,
           history.short \subseteq history'.short,
           Today(j) \in job[j].early \cup history'.short \/ n = AllCandles(Today(j))
    PROVE  \E u : Turns(j, u)
<1> DEFINE v == job[j]
           d == v.day
           got == [v.got EXCEPT ![d] = n]
           at == IF d = v.last THEN "done" ELSE "look"
           day == IF d = v.last THEN d ELSE d + 1
           u == [v EXCEPT !.got = got, !.at = at, !.day = day]
<1>1. v \in Job /\ JobTrue(v, history'.short) /\ d = Today(j)
  BY MoreShort DEF AInv, TypeOK, Today
<1>2. job' = [job EXCEPT ![j] = u]
  BY DEF Gathered, Today
<1>3. d <= v.last /\ d \in Days /\ v.last \in Days /\ v.got \in [Days -> Nat \cup {None}]
  BY <1>1 DEF JobTrue, Job
<1>4. day \in Days /\ day <= v.last /\ at \in {"done", "look"}
  BY <1>3, Numbers DEF Days
<1>5. got \in [Days -> Nat \cup {None}] /\ got[d] = n /\ \A e \in Days : e # d => got[e] = v.got[e]
  BY <1>3
<1>6. d \in v.early \cup history'.short \/ n = AllCandles(d)
  BY DEF Today
<1> HIDE DEF got, at, day, v, d
<1>7. /\ u.at = at /\ u.day = day /\ u.last = v.last /\ u.got = got /\ u.early = v.early
      /\ u \in Job
  BY <1>1, <1>4, <1>5 DEF Job
<1> HIDE DEF u
<1>8. JobTrue(u, history'.short)
  <2>1. \A e \in Days \ (u.early \cup history'.short) : u.got[e] # None => u.got[e] = AllCandles(e)
    BY <1>1, <1>5, <1>6, <1>7 DEF JobTrue
  <2> QED BY <1>4, <1>7, <2>1 DEF JobTrue
<1> QED BY <1>2, <1>7, <1>8 DEF Turns

(* After the saves: a marked day has nothing, or was fetched early, or had a    *)
(* file that has gone.                                                         *)
LEMMA SavedStep == ASSUME AInv, NEW j \in Jobs, Saved(j) PROVE AInv'
<1> DEFINE v == job[j]
<1>1. /\ v \in Job /\ JobTrue(v, history.short) /\ TypeOK /\ Today(j) = v.day /\ v.day \in Days
      /\ history \in History
      /\ v.at = "save" /\ v.amount \in Nat
  BY DEF AInv, TypeOK, Today, Job, Saved
<1>2. CASE v.kind = "month" \/ file[v.day].there
  <2>1. marked' = marked /\ history' = history
    BY <1>1, <1>2 DEF Saved
  <2>2. \E u : Turns(j, u)
    <3> DEFINE u == [v EXCEPT !.at = "touch"]
    <3>1. CASE Goto(j, "read") \/ Goto(j, "day")
      BY <2>1, <3>1, GotoTurns
    <3>2. CASE v.kind # "month" /\ job' = [job EXCEPT ![j] = u]
      <4>1. v.day \in v.early \/ v.amount = AllCandles(v.day)
        BY <1>1, <3>2 DEF JobTrue, Job
      <4> HIDE DEF v
      <4>2. /\ u.at = "touch" /\ u.day = v.day /\ u.last = v.last /\ u.got = v.got
            /\ u.early = v.early /\ u.amount = v.amount /\ u \in Job
        BY <1>1 DEF Job
      <4> HIDE DEF u
      <4>3. JobTrue(u, history.short)
        BY <1>1, <4>1, <4>2 DEF JobTrue
      <4> QED BY <1>1, <2>1, <3>2, <4>2, <4>3 DEF Turns
    <3> QED BY <1>1, <1>2, <3>1, <3>2 DEF Saved
  <2> QED BY <1>1, <2>1, <2>2, TurnStep DEF Saved, TypeOK
<1>3. CASE v.kind # "month" /\ ~file[v.day].there
  <2>1. /\ Gathered(j, v.amount) /\ marked' = IF Ended(v.day) THEN marked \cup {v.day} ELSE marked
        /\ history' = IF marked' # marked /\ (v.day \in v.early \/ v.amount > 0)
                      THEN [history EXCEPT !.short = @ \cup {v.day}] ELSE history
        /\ UNCHANGED <<now, file, tmp, index, cleaning>>
    BY <1>1, <1>3 DEF Saved
  <2>2. v.day \in v.early \/ v.amount = AllCandles(v.day)
    BY <1>1, <1>3 DEF JobTrue, Job
  <2>3. /\ history' \in History
        /\ history.short \subseteq history'.short
    BY <1>1, <2>1 DEF History
  <2>4. PICK u : Turns(j, u)
    BY <1>1, <2>1, <2>2, <2>3, GatheredTurns
  <2>5. \A d \in marked' : d \in history'.short \/ AllCandles(d) = 0
    <3> SUFFICES ASSUME NEW d \in marked' PROVE d \in history'.short \/ AllCandles(d) = 0
      OBVIOUS
    <3>1. CASE d \in marked
      BY <2>3, <3>1 DEF AInv, DiskTrue
    <3>2. CASE d \notin marked
      <4>1. d = v.day /\ marked' # marked
        BY <2>1, <3>2
      <4>2. CASE v.day \in v.early \/ v.amount > 0
        BY <1>1, <2>1, <4>1, <4>2
      <4>3. CASE ~(v.day \in v.early \/ v.amount > 0)
        BY <1>1, <2>2, <4>1, <4>3
      <4> QED BY <4>2, <4>3
    <3> QED BY <3>1, <3>2
  <2>6. /\ job' \in [Jobs -> Job] /\ job'[j] = u /\ \A k \in Jobs : k # j => job'[k] = job[k]
        /\ \A k \in Jobs : JobTrue(job'[k], history'.short) /\ job'[k].day <= job'[k].last
    BY <2>4, JobTurns
  <2>7. TypeOK'
    <3>1. ASSUME NEW d \in Days, NEW k \in tmp[d].writers \cup file[d].writers
          PROVE  job'[k].at = "write" /\ d = Min(job'[k].saving)
      <4>1. k \in Jobs /\ k # j /\ job[k].at = "write" /\ d = Min(job[k].saving)
        BY <1>1, <3>1, Writers
      <4> QED BY <2>6, <4>1
    <3>2. marked' \subseteq Days /\ cleaning' \in Cleanup
      BY <1>1, <2>1 DEF TypeOK
    <3>3. /\ now' \in FirstNow..LastNow /\ file' \in [Days -> File] /\ tmp' \in [Days -> File]
          /\ index' \in [Days -> {None} \cup FirstNow..LastNow] /\ tmp' = tmp /\ file' = file
      BY <1>1, <2>1 DEF TypeOK
    <3> QED BY <2>3, <2>6, <3>1, <3>2, <3>3 DEF TypeOK, Today
  <2>8. DiskTrue'
    BY <2>1, <2>3, <2>5 DEF AInv, DiskTrue
  <2> QED BY <2>6, <2>7, <2>8 DEF AInv
<1> QED BY <1>2, <1>3

LEMMA BeginAnswers ==
    ASSUME AInv, NEW j \in Jobs, NEW first \in Days, NEW last \in Days, Begin(j, first, last)
    PROVE  AInv'
<1> DEFINE v == job[j]
           u == [v EXCEPT !.at = "look", !.day = first, !.last = last]
<1>1. /\ v \in Job /\ JobTrue(v, history.short) /\ TypeOK /\ history \in History
      /\ v.at = "new" /\ job' = [job EXCEPT ![j] = u] /\ first <= last
      /\ UNCHANGED <<now, disk, cleaning, history>>
  BY DEF AInv, TypeOK, Begin
<1>2. v.at \notin {"write", "replace"}
  BY <1>1
<1> HIDE DEF v
<1>3. /\ u.at = "look" /\ u.day = first /\ u.last = last /\ u.got = v.got /\ u.early = v.early
      /\ u \in Job
  BY <1>1 DEF Job
<1> HIDE DEF u
<1>4. JobTrue(u, history.short)
  BY <1>1, <1>3 DEF JobTrue
<1>5. Turns(j, u)
  BY <1>1, <1>3, <1>4 DEF Turns
<1> QED BY <1>1, <1>2, <1>5, TurnStep DEF disk, v, TypeOK

LEMMA AnswerSteps ==
    ASSUME AInv, NEW j \in Jobs,
           \/ \E first, last \in Days : Begin(j, first, last)
           \/ Look(j) \/ FetchMonth(j) \/ FetchDay(j) \/ FetchFails(j) \/ Saved(j)
           \/ Read(j) \/ Touch(j)
    PROVE  AInv'
<1> DEFINE v == job[j]
<1>1. /\ v \in Job /\ JobTrue(v, history.short) /\ TypeOK /\ Today(j) = v.day /\ v.day \in Days
      /\ history \in History
  BY DEF AInv, TypeOK, Today, Job
<1>2. ASSUME NEW first \in Days, NEW last \in Days, Begin(j, first, last) PROVE AInv'
  BY <1>2, BeginAnswers
<1>3. CASE Look(j)
  <2>1. \E u : Turns(j, u)
    <3>1. CASE Goto(j, "read") \/ Goto(j, "month") \/ Goto(j, "day")
      BY <1>3, <3>1, GotoTurns DEF Look
    <3>2. CASE Today(j) \in marked /\ Gathered(j, 0)
      <4>1. Today(j) \in history.short \/ AllCandles(Today(j)) = 0
        BY <3>2 DEF AInv, DiskTrue
      <4>2. history' = history
        BY <1>3 DEF Look
      <4> QED BY <1>1, <3>2, <4>1, <4>2, GatheredTurns
    <3> QED BY <1>3, <3>1, <3>2 DEF Look
  <2>2. v.at = "look"
    BY <1>3 DEF Look
  <2> QED BY <1>1, <1>3, <2>1, <2>2, TurnStep DEF Look, disk, TypeOK
<1>4. CASE FetchMonth(j)
  <2>1. \E u : Turns(j, u)
    <3>1. CASE Goto(j, "read") \/ Goto(j, "day")
      BY <1>4, <3>1, GotoTurns DEF FetchMonth
    <3> DEFINE S == {d \in Days : MonthOf(d) = MonthOf(Today(j)) /\ AllCandles(d) > 0}
               u == [v EXCEPT !.at = "save", !.kind = "month", !.saving = S]
    <3>2. CASE job' = [job EXCEPT ![j] = u]
      <4>1. S \in SUBSET Days /\ \A d \in S : AllCandles(d) \in 1..AllCandles(d)
        <5>1. \A d \in Days : AllCandles(d) \in Nat
          BY Numbers, Candles
        <5> QED BY <5>1
      <4> HIDE DEF v, S
      <4>2. /\ u.at = "save" /\ u.kind = "month" /\ u.saving = S /\ u.day = v.day /\ u.last = v.last
            /\ u.got = v.got /\ u.early = v.early /\ u \in Job
        BY <1>1, <4>1 DEF Job
      <4> HIDE DEF u
      <4>3. JobTrue(u, history.short)
        BY <1>1, <4>1, <4>2 DEF JobTrue, Holds
      <4> QED BY <1>1, <1>4, <3>2, <4>2, <4>3 DEF Turns, FetchMonth
    <3> QED BY <1>4, <3>1, <3>2 DEF FetchMonth
  <2>2. v.at = "month"
    BY <1>4 DEF FetchMonth
  <2> QED BY <1>1, <1>4, <2>1, <2>2, TurnStep DEF FetchMonth, disk, TypeOK
<1>5. CASE FetchDay(j)
  <2>1. \E u : Turns(j, u)
    <3> DEFINE n == CandlesAt(v.day, now)
               S == IF n > 0 THEN {v.day} ELSE {}
               early == IF Ended(v.day) THEN v.early ELSE v.early \cup {v.day}
               u == [v EXCEPT !.at = "save", !.kind = "day", !.amount = n, !.saving = S, !.early = early]
    <3>1. job' = [job EXCEPT ![j] = u]
      BY <1>1, <1>5 DEF FetchDay
    <3>2. n \in Nat /\ n <= AllCandles(v.day) /\ AllCandles(v.day) \in Nat
      <4>1. now \in Nat
        BY <1>1, Numbers DEF TypeOK
      <4> HIDE DEF v
      <4> QED BY <1>1, <4>1, Candles DEF v
    <3>3. v.day \in early \/ n = AllCandles(v.day)
      BY <1>1, EndedDay
    <3>4. S \in SUBSET Days /\ S \subseteq {v.day} /\ early \in SUBSET Days /\ v.early \subseteq early
          /\ \A d \in S : d = v.day /\ n \in 1..AllCandles(v.day)
      BY <1>1, <3>2 DEF Job
    <3> HIDE DEF v, S, n, early
    <3>5. /\ u.at = "save" /\ u.kind = "day" /\ u.saving = S /\ u.day = v.day /\ u.last = v.last
          /\ u.got = v.got /\ u.early = early /\ u.amount = n /\ u \in Job
      BY <1>1, <3>2, <3>4 DEF Job
    <3> HIDE DEF u
    <3>6. JobTrue(u, history.short)
      BY <1>1, <3>3, <3>4, <3>5 DEF JobTrue, Holds
    <3> QED BY <1>1, <1>5, <3>1, <3>5, <3>6 DEF Turns, FetchDay
  <2>2. v.at = "day"
    BY <1>5 DEF FetchDay
  <2> QED BY <1>1, <1>5, <2>1, <2>2, TurnStep DEF FetchDay, disk, TypeOK
<1>6. CASE FetchFails(j)
  <2>1. \E u : Turns(j, u)
    BY <1>1, <1>6, FailTurns DEF FetchFails
  <2>2. v.at \in {"month", "day", "touch"}
    BY <1>6 DEF FetchFails
  <2> QED BY <1>1, <1>6, <2>1, <2>2, TurnStep DEF FetchFails, disk, TypeOK
<1>8. CASE Read(j)
  <2>1. \E u : Turns(j, u)
    <3> DEFINE f == file[v.day]
               u == [v EXCEPT !.at = "touch", !.amount = f.candles]
    <3>1. CASE Fail(j)
      BY <1>1, <1>8, <3>1, FailTurns DEF Read
    <3>2. CASE f.there /\ job' = [job EXCEPT ![j] = u]
      <4>1. f.candles \in Nat
        <5>1. f \in File
          BY <1>1 DEF TypeOK
        <5> HIDE DEF f
        <5> QED BY <5>1, FileFields
      <4>2. v.day \in history.short \/ f.candles = AllCandles(v.day)
        BY <1>1, <3>2 DEF AInv, DiskTrue
      <4> HIDE DEF v, f
      <4>3. /\ u.at = "touch" /\ u.day = v.day /\ u.last = v.last /\ u.got = v.got
            /\ u.early = v.early /\ u.amount = f.candles /\ u \in Job
        BY <1>1, <4>1 DEF Job
      <4> HIDE DEF u
      <4>4. JobTrue(u, history.short)
        BY <1>1, <4>2, <4>3 DEF JobTrue
      <4> QED BY <1>1, <1>8, <3>2, <4>3, <4>4 DEF Turns, Read
    <3> QED BY <1>1, <1>8, <3>1, <3>2 DEF Read
  <2>2. v.at = "read"
    BY <1>8 DEF Read
  <2> QED BY <1>1, <1>8, <2>1, <2>2, TurnStep DEF Read, disk, TypeOK
<1>9. CASE Touch(j)
  <2>1. \E u : Turns(j, u)
    <3>1. v.amount \in Nat /\ (v.day \in v.early \cup history.short \/ v.amount = AllCandles(v.day))
      BY <1>1, <1>9 DEF Touch, JobTrue, Job
    <3>2. history' = history /\ Gathered(j, v.amount)
      BY <1>9 DEF Touch
    <3> QED BY <1>1, <3>1, <3>2, GatheredTurns
  <2>2. v.at = "touch" /\ index' \in [Days -> {None} \cup FirstNow..LastNow]
    BY <1>1, <1>9 DEF Touch, TypeOK
  <2> QED BY <1>9, <2>1, <2>2, TurnStep DEF Touch
<1>7. CASE Saved(j)
  BY <1>7, SavedStep
<1> QED BY <1>2, <1>3, <1>4, <1>5, <1>6, <1>7, <1>8, <1>9

(* The steps of saving, cleaning and of the clock.                             *)
LEMMA OpenAnswers == ASSUME AInv, NEW j \in Jobs, Open(j) PROVE AInv'
<1> DEFINE v == job[j]
           e == Target(j)
           u == [v EXCEPT !.at = "write"]
           w == Writing(j, e)
<1>1. /\ v \in Job /\ JobTrue(v, history.short) /\ TypeOK /\ v.at = "save" /\ v.saving # {}
      /\ v.saving \in SUBSET Days
  BY DEF AInv, TypeOK, Job, Open
<1>2. e \in Days /\ e \in v.saving
  BY <1>1, TargetIn DEF Target
<1>3. /\ file' = file /\ tmp' = [tmp EXCEPT ![e] = w] /\ job' = [job EXCEPT ![j] = u]
      /\ history' = [history EXCEPT !.contended = Contended(e)]
      /\ UNCHANGED <<now, marked, index, cleaning>>
  BY DEF Open, Goto, Target
<1>4. Contended(e) \in SUBSET Days
  <2>1. history.contended \in SUBSET Days
    BY <1>1 DEF TypeOK, History
  <2>2. Contended(e) = history.contended \cup {e} \/ Contended(e) = history.contended
    BY DEF Contended
  <2> QED BY <1>2, <2>1, <2>2
<1>5. /\ history' \in History
      /\ history'.short = history.short
  BY <1>1, <1>3, <1>4 DEF TypeOK, History
<1>6. /\ w.there /\ w.candles \in 1..AllCandles(e) /\ w.writers = tmp[e].writers \cup {j} /\ w \in File
  <2>1. Amount(j, e) \in 1..AllCandles(e)
    BY <1>1, <1>2 DEF JobTrue, Holds, Amount
  <2>2. AllCandles(e) \in Nat /\ AllCandles(e) <= PerDay
    BY <1>2, Numbers, Candles
  <2>3. tmp[e].writers \subseteq Jobs
    <3>1. tmp[e] \in File
      BY <1>1, <1>2 DEF TypeOK
    <3> QED BY <3>1, FileFields
  <2>4. Amount(j, e) \in 1..PerDay
    BY <2>1, <2>2, Numbers
  <2> QED BY <2>1, <2>3, <2>4 DEF Writing, File
<1> HIDE DEF v, e, w
<1>7. /\ u.at = "write" /\ u.day = v.day /\ u.last = v.last /\ u.got = v.got /\ u.kind = v.kind
      /\ u.early = v.early /\ u.amount = v.amount /\ u.saving = v.saving /\ u \in Job
  BY <1>1 DEF Job
<1> HIDE DEF u
<1>8. JobTrue(u, history.short)
  BY <1>1, <1>7 DEF JobTrue, Holds
<1>9. Turns(j, u)
  BY <1>3, <1>5, <1>7, <1>8 DEF Turns
<1>10. /\ job' \in [Jobs -> Job] /\ job'[j] = u /\ \A k \in Jobs : k # j => job'[k] = job[k]
       /\ \A k \in Jobs : JobTrue(job'[k], history'.short) /\ job'[k].day <= job'[k].last
  BY <1>9, JobTurns
<1>11. tmp'[e] = w /\ \A d \in Days : d # e => tmp'[d] = tmp[d]
  BY <1>1, <1>2, <1>3 DEF TypeOK
<1>12. TypeOK'
  <2>1. ASSUME NEW d \in Days, NEW k \in tmp'[d].writers \cup file'[d].writers
        PROVE  job'[k].at = "write" /\ d = Min(job'[k].saving)
    <3>1. CASE k = j /\ d = e
      BY <1>7, <1>10, <3>1 DEF e, v, Target
    <3>2. CASE ~(k = j /\ d = e)
      <4>1. k \in tmp[d].writers \cup file[d].writers
        BY <1>3, <1>6, <1>11, <2>1, <3>2
      <4>2. k \in Jobs /\ k # j /\ job[k].at = "write" /\ d = Min(job[k].saving)
        BY <1>1, <4>1, Writers DEF v
      <4> QED BY <1>10, <4>2
    <3> QED BY <3>1, <3>2
  <2>2. /\ now' \in FirstNow..LastNow /\ file' \in [Days -> File] /\ marked' \subseteq Days /\ cleaning' \in Cleanup
        /\ index' \in [Days -> {None} \cup FirstNow..LastNow]
    BY <1>1, <1>3 DEF TypeOK
  <2>3. tmp' \in [Days -> File]
    BY <1>1, <1>2, <1>3, <1>6 DEF TypeOK
  <2> QED BY <1>5, <1>10, <2>1, <2>2, <2>3 DEF TypeOK, Today
<1>13. DiskTrue'
  <2>1. w.candles <= AllCandles(e)
    BY <1>6
  <2> QED BY <1>3, <1>5, <1>11, <2>1 DEF AInv, DiskTrue
<1> QED BY <1>10, <1>12, <1>13 DEF AInv

LEMMA WriteAnswers == ASSUME AInv, NEW j \in Jobs, Write(j) PROVE AInv'
<1> DEFINE v == job[j]
           e == Target(j)
           u == [v EXCEPT !.at = "replace"]
<1>1. /\ v \in Job /\ JobTrue(v, history.short) /\ TypeOK /\ v.at = "write" /\ v.saving # {}
      /\ v.saving \in SUBSET Days
  BY DEF AInv, TypeOK, Job, Write, JobTrue
<1>2. e \in Days /\ e \in v.saving
  BY <1>1, TargetIn DEF Target
<1>3. /\ tmp' = [tmp EXCEPT ![e] = Closed(tmp[e], j)] /\ file' = [file EXCEPT ![e] = Closed(file[e], j)]
      /\ job' = [job EXCEPT ![j] = u] /\ history' = history
      /\ UNCHANGED <<now, marked, index, cleaning>>
  BY DEF Write, Goto, Target
<1>4. ASSUME NEW f \in File
      PROVE  /\ Closed(f, j) \in File /\ Closed(f, j).there = f.there /\ Closed(f, j).candles = f.candles
             /\ Closed(f, j).writers = f.writers \ {j}
  BY <1>4, FileFields
<1> HIDE DEF v, e
<1>5. /\ u.at = "replace" /\ u.day = v.day /\ u.last = v.last /\ u.got = v.got /\ u.kind = v.kind
      /\ u.early = v.early /\ u.amount = v.amount /\ u.saving = v.saving /\ u \in Job
  BY <1>1 DEF Job
<1> HIDE DEF u
<1>6. JobTrue(u, history.short)
  BY <1>1, <1>5 DEF JobTrue, Holds
<1>7. Turns(j, u)
  BY <1>1, <1>3, <1>5, <1>6 DEF Turns, TypeOK
<1>8. /\ job' \in [Jobs -> Job] /\ job'[j] = u /\ \A k \in Jobs : k # j => job'[k] = job[k]
      /\ \A k \in Jobs : JobTrue(job'[k], history'.short) /\ job'[k].day <= job'[k].last
  BY <1>7, JobTurns
<1>9. /\ tmp' \in [Days -> File] /\ file' \in [Days -> File]
      /\ \A d \in Days : /\ tmp'[d].there = tmp[d].there /\ tmp'[d].candles = tmp[d].candles
                       /\ file'[d].there = file[d].there /\ file'[d].candles = file[d].candles
  <2>1. /\ tmp \in [Days -> File] /\ file \in [Days -> File]
    BY <1>1 DEF TypeOK
  <2> QED BY <1>2, <1>3, <1>4, <2>1
<1>12. \A d \in Days :
          tmp'[d].writers \cup file'[d].writers
              \subseteq IF d = e THEN (tmp[d].writers \cup file[d].writers) \ {j}
                        ELSE tmp[d].writers \cup file[d].writers
  <2>1. /\ tmp \in [Days -> File] /\ file \in [Days -> File]
    BY <1>1 DEF TypeOK
  <2> QED BY <1>2, <1>3, <1>4, <2>1
<1>10. TypeOK'
  <2>1. ASSUME NEW d \in Days, NEW k \in tmp'[d].writers \cup file'[d].writers
        PROVE  job'[k].at = "write" /\ d = Min(job'[k].saving)
    <3>1. k \in tmp[d].writers \cup file[d].writers /\ (d = e => k # j)
      BY <1>12, <2>1
    <3>2. k \in Jobs /\ job[k].at = "write" /\ d = Min(job[k].saving)
      BY <1>1, <3>1, Writers
    <3>3. k # j
      BY <3>1, <3>2 DEF e, Target
    <3> QED BY <1>8, <3>2, <3>3
  <2>2. /\ now' \in FirstNow..LastNow /\ marked' \subseteq Days /\ cleaning' \in Cleanup
        /\ index' \in [Days -> {None} \cup FirstNow..LastNow]
        /\ history' \in History
    BY <1>1, <1>3 DEF TypeOK
  <2> QED BY <1>8, <1>9, <2>1, <2>2 DEF TypeOK, Today
<1>11. DiskTrue'
  BY <1>3, <1>9 DEF AInv, DiskTrue
<1> QED BY <1>8, <1>10, <1>11 DEF AInv

(* A job that has nothing to rename stops.                                     *)
LEMMA StopStep ==
    ASSUME AInv, NEW j \in Jobs, NEW u, Turns(j, u), job[j].at = "replace",
           UNCHANGED <<now, file, tmp, marked, index, cleaning>>
    PROVE  AInv'
<1>1. /\ job' \in [Jobs -> Job] /\ \A k \in Jobs : k # j => job'[k] = job[k]
      /\ \A k \in Jobs : JobTrue(job'[k], history'.short) /\ job'[k].day <= job'[k].last
  BY JobTurns
<1>2. ASSUME NEW d \in Days, NEW k \in tmp[d].writers \cup file[d].writers
      PROVE  job'[k].at = "write" /\ d = Min(job'[k].saving)
  <2>1. k \in Jobs /\ k # j /\ job[k].at = "write" /\ d = Min(job[k].saving)
    BY <1>2, Writers DEF AInv
  <2> QED BY <1>1, <2>1
<1>3. TypeOK'
  BY <1>1, <1>2 DEF AInv, TypeOK, Turns, Today
<1>4. DiskTrue'
  BY DEF AInv, DiskTrue, Turns
<1> QED BY <1>1, <1>3, <1>4 DEF AInv

LEMMA ReplaceAnswers == ASSUME AInv, NEW j \in Jobs, Replace(j) PROVE AInv'
<1> DEFINE v == job[j]
           e == Target(j)
           u == [v EXCEPT !.at = "save", !.saving = @ \ {e}]
<1>1. /\ v \in Job /\ JobTrue(v, history.short) /\ TypeOK /\ v.at = "replace" /\ v.saving # {}
      /\ v.saving \in SUBSET Days
      /\ history \in History
  BY DEF AInv, TypeOK, Job, Replace, JobTrue
<1>2. e \in Days /\ e \in v.saving
  BY <1>1, TargetIn DEF Target
<1>3. CASE ~tmp[e].there
  <2>1. Fail(j) /\ UNCHANGED <<file, tmp, history, now, marked, index, cleaning>>
    BY <1>3 DEF Replace, Target
  <2>2. Turns(j, Failed) /\ job[j].at = "replace"
    BY <1>1, <2>1, FailTurns
  <2> QED BY <1>1, <2>1, <2>2, StopStep DEF TypeOK
<1>4. CASE tmp[e].there
  <2>1. /\ file' = [file EXCEPT ![e] = tmp[e]] /\ tmp' = [tmp EXCEPT ![e] = NoFile]
        /\ history' = IF tmp[e].candles < AllCandles(e)
                      THEN [history EXCEPT !.short = @ \cup {e}] ELSE history
        /\ job' = [job EXCEPT ![j] = u]
        /\ UNCHANGED <<now, marked, index, cleaning>>
    BY <1>4 DEF Replace, Target
  <2>2. /\ history' \in History
        /\ history.short \subseteq history'.short
        /\ e \in history'.short \/ ~(tmp[e].candles < AllCandles(e))
    BY <1>1, <1>2, <2>1 DEF History
  <2> HIDE DEF v, e
  <2>3. /\ u.at = "save" /\ u.day = v.day /\ u.last = v.last /\ u.got = v.got /\ u.kind = v.kind
        /\ u.early = v.early /\ u.amount = v.amount /\ u.saving = v.saving \ {e} /\ u \in Job
    BY <1>1 DEF Job
  <2> HIDE DEF u
  <2>4. JobTrue(u, history'.short)
    <3>1. JobTrue(v, history'.short)
      BY <1>1, <2>2, MoreShort
    <3> QED BY <1>1, <2>3, <3>1 DEF JobTrue, Holds
  <2>5. Turns(j, u)
    BY <2>1, <2>2, <2>3, <2>4 DEF Turns
  <2>6. /\ job' \in [Jobs -> Job] /\ job'[j] = u /\ \A k \in Jobs : k # j => job'[k] = job[k]
        /\ \A k \in Jobs : JobTrue(job'[k], history'.short) /\ job'[k].day <= job'[k].last
    BY <2>5, JobTurns
  <2>7. /\ file'[e] = tmp[e] /\ tmp'[e] = NoFile
        /\ \A d \in Days : d # e => file'[d] = file[d] /\ tmp'[d] = tmp[d]
    BY <1>1, <1>2, <2>1 DEF TypeOK
  <2>8. TypeOK'
    <3>1. ASSUME NEW d \in Days, NEW k \in tmp'[d].writers \cup file'[d].writers
          PROVE  job'[k].at = "write" /\ d = Min(job'[k].saving)
      <4>1. k \in tmp[d].writers \cup file[d].writers
        <5>1. NoFile.writers = {}
          BY DEF NoFile
        <5> QED BY <2>7, <3>1, <5>1
      <4>2. k \in Jobs /\ k # j /\ job[k].at = "write" /\ d = Min(job[k].saving)
        BY <1>1, <4>1, Writers DEF v
      <4> QED BY <2>6, <4>2
    <3>2. /\ now' \in FirstNow..LastNow /\ marked' \subseteq Days /\ cleaning' \in Cleanup
          /\ index' \in [Days -> {None} \cup FirstNow..LastNow]
      BY <1>1, <2>1 DEF TypeOK
    <3>3. file' \in [Days -> File] /\ tmp' \in [Days -> File]
      BY <1>1, <1>2, <2>1 DEF TypeOK, File
    <3> QED BY <2>2, <2>6, <3>1, <3>2, <3>3 DEF TypeOK, Today
  <2>9. DiskTrue'
    <3>1. DiskTrue
      BY DEF AInv
    <3>2. tmp[e].candles <= AllCandles(e) /\ tmp[e].candles \in Int /\ AllCandles(e) \in Int
      <4>1. tmp[e] \in File /\ tmp[e].candles <= AllCandles(e)
        BY <1>1, <1>2, <1>4, <3>1 DEF TypeOK, DiskTrue
      <4>2. tmp[e].candles \in Int
        BY <4>1, FileFields
      <4> QED BY <1>2, <4>1, <4>2, Numbers, Candles
    <3>3. e \in history'.short \/ tmp[e].candles = AllCandles(e)
      BY <2>2, <3>2
    <3>4. ASSUME NEW d \in Days, tmp'[d].there PROVE tmp'[d].candles <= AllCandles(d)
      BY <2>7, <3>1, <3>4 DEF DiskTrue, NoFile
    <3>5. ASSUME NEW d \in Days, file'[d].there
          PROVE  /\ file'[d].candles <= AllCandles(d)
                 /\ (d \in history'.short \/ file'[d].candles = AllCandles(d))
      BY <2>2, <2>7, <3>1, <3>2, <3>3, <3>5 DEF DiskTrue
    <3>6. \A d \in marked' : d \in history'.short \/ AllCandles(d) = 0
      BY <2>1, <2>2, <3>1 DEF DiskTrue
    <3> QED BY <3>4, <3>5, <3>6 DEF DiskTrue
  <2> QED BY <2>6, <2>8, <2>9 DEF AInv
<1> QED BY <1>3, <1>4

(* The files of a save that fails, and of a killed process, hold no more than   *)
(* they were to hold.                                                          *)
LEMMA SaveFailsAnswers == ASSUME AInv, NEW j \in Jobs, SaveFails(j) PROVE AInv'
<1> DEFINE e == Target(j)
<1>1. /\ TypeOK /\ job[j] \in Job /\ job[j].saving # {} /\ job[j].saving \in SUBSET Days
      /\ history \in History
  BY DEF AInv, TypeOK, Job, SaveFails
<1>2. e \in Days /\ e \in job[j].saving
  BY <1>1, TargetIn DEF Target
<1>3. /\ tmp' = [tmp EXCEPT ![e] = Broken(tmp[e], j)] /\ file' = [file EXCEPT ![e] = Broken(file[e], j)]
      /\ Fail(j) /\ history' = [history EXCEPT !.faults = history.faults + 1]
      /\ history.faults < MaxFaults
      /\ UNCHANGED <<now, marked, index, cleaning>>
  BY DEF SaveFails, Target
<1>4. history' \in History /\ history'.short = history.short
  BY <1>1, <1>3, Numbers DEF History
<1>5. /\ job' \in [Jobs -> Job] /\ job'[j] = Failed /\ \A k \in Jobs : k # j => job'[k] = job[k]
      /\ \A k \in Jobs : JobTrue(job'[k], history'.short) /\ job'[k].day <= job'[k].last
  BY <1>3, <1>4, FailTurns, JobTurns
<1> HIDE DEF e
<1>6. ASSUME NEW f \in File
      PROVE  /\ Broken(f, j) \in File /\ Broken(f, j).there = f.there /\ Broken(f, j).candles = f.candles
             /\ Broken(f, j).writers = f.writers \ {j}
  BY <1>6, FileFields
<1>7. /\ tmp' \in [Days -> File] /\ file' \in [Days -> File]
      /\ \A d \in Days : /\ tmp'[d].there = tmp[d].there /\ tmp'[d].candles = tmp[d].candles
                       /\ file'[d].there = file[d].there /\ file'[d].candles = file[d].candles
  <2>1. /\ tmp \in [Days -> File] /\ file \in [Days -> File]
    BY <1>1 DEF TypeOK
  <2> QED BY <1>2, <1>3, <1>6, <2>1
<1>11. \A d \in Days :
          tmp'[d].writers \cup file'[d].writers
              \subseteq IF d = e THEN (tmp[d].writers \cup file[d].writers) \ {j}
                        ELSE tmp[d].writers \cup file[d].writers
  <2>1. /\ tmp \in [Days -> File] /\ file \in [Days -> File]
    BY <1>1 DEF TypeOK
  <2> QED BY <1>2, <1>3, <1>6, <2>1
<1>8. ASSUME NEW d \in Days, NEW k \in tmp'[d].writers \cup file'[d].writers
      PROVE  job'[k].at = "write" /\ d = Min(job'[k].saving)
  <2>1. k \in tmp[d].writers \cup file[d].writers /\ (d = e => k # j)
    BY <1>8, <1>11
  <2>2. k \in Jobs /\ job[k].at = "write" /\ d = Min(job[k].saving)
    BY <1>1, <2>1, Writers
  <2>3. k # j
    BY <2>1, <2>2 DEF e, Target
  <2> QED BY <1>5, <2>2, <2>3
<1>9. TypeOK'
  BY <1>1, <1>3, <1>4, <1>5, <1>7, <1>8 DEF TypeOK, Today
<1>10. DiskTrue'
  BY <1>3, <1>4, <1>7 DEF AInv, DiskTrue
<1> QED BY <1>5, <1>9, <1>10 DEF AInv

LEMMA KilledAnswers == ASSUME AInv, Killed PROVE AInv'
<1>1. /\ TypeOK /\ history \in History /\ history.faults < MaxFaults
      /\ history' = [history EXCEPT !.faults = history.faults + 1]
      /\ tmp' = [d \in Days |-> LeftBehind(tmp[d])] /\ file' = [d \in Days |-> LeftBehind(file[d])]
      /\ job' = [j \in Jobs |-> IF job[j].at \in {"new", "done", "failed"} THEN job[j] ELSE Failed]
      /\ cleaning' = NoCleanup /\ UNCHANGED <<now, marked, index>>
  BY DEF AInv, TypeOK, Killed
<1>2. history' \in History /\ history'.short = history.short
  BY <1>1, Numbers DEF History
<1>3. /\ job' \in [Jobs -> Job]
      /\ \A k \in Jobs : JobTrue(job'[k], history'.short) /\ job'[k].day <= job'[k].last
  BY <1>1, <1>2, FailedJob DEF AInv, TypeOK, Today
<1>4. ASSUME NEW f \in File
      PROVE  /\ LeftBehind(f) \in File /\ LeftBehind(f).there = f.there
             /\ LeftBehind(f).candles = f.candles /\ LeftBehind(f).writers = {}
  <2>1. CASE f = NoFile
    BY <1>4, <2>1 DEF LeftBehind, NoFile
  <2>2. CASE f \in [there : {TRUE}, candles : 1..PerDay, writers : SUBSET Jobs, torn : BOOLEAN]
    <3>1. /\ LeftBehind(f) \in [there : {TRUE}, candles : 1..PerDay, writers : SUBSET Jobs, torn : BOOLEAN]
          /\ LeftBehind(f).there = f.there /\ LeftBehind(f).candles = f.candles
          /\ LeftBehind(f).writers = {}
      BY <2>2 DEF LeftBehind
    <3> QED BY <3>1 DEF File
  <2> QED BY <1>4, <2>1, <2>2 DEF File
<1>5. /\ tmp' \in [Days -> File] /\ file' \in [Days -> File]
      /\ \A d \in Days : /\ tmp'[d].there = tmp[d].there /\ tmp'[d].candles = tmp[d].candles
                       /\ file'[d].there = file[d].there /\ file'[d].candles = file[d].candles
                       /\ tmp'[d].writers = {} /\ file'[d].writers = {}
  BY <1>1, <1>4 DEF TypeOK
<1>6. cleaning' \in Cleanup
  BY <1>1 DEF NoCleanup, Cleanup
<1>7. TypeOK'
  BY <1>1, <1>2, <1>3, <1>5, <1>6 DEF TypeOK, Today
<1>8. DiskTrue'
  BY <1>1, <1>2, <1>5 DEF AInv, DiskTrue
<1> QED BY <1>3, <1>7, <1>8 DEF AInv

(* The jobs are as they were, and a file may go.                               *)
LEMMA RestAnswers ==
    ASSUME AInv, Select \/ Commit \/ Tick \/ UNCHANGED vars \/ (\E d \in Days : Unlink(d))
    PROVE  AInv'
<1>1. job' = job /\ history' = history /\ tmp' = tmp /\ marked' = marked
  BY DEF Select, Commit, Tick, Unlink, vars, disk
<1>2. \A d \in Days : file'[d] = file[d] \/ file'[d] = NoFile
  BY DEF Select, Commit, Tick, Unlink, vars, disk, AInv, TypeOK
<1>3. TypeOK'
  <2>1. NoFile \in File /\ NoFile.writers = {}
    BY DEF File, NoFile
  <2>2. file' \in [Days -> File] /\ now' \in FirstNow..LastNow
    BY <2>1, Numbers DEF Select, Commit, Tick, Unlink, vars, disk, AInv, TypeOK
  <2>3. index' \in [Days -> {None} \cup FirstNow..LastNow] /\ cleaning' \in Cleanup
    <3>1. index \in [Days -> {None} \cup FirstNow..LastNow] /\ cleaning \in Cleanup
      BY DEF AInv, TypeOK
    <3>2. CASE Select \/ Tick \/ UNCHANGED vars
      BY <3>1, <3>2 DEF Select, Tick, vars, disk, NoCleanup, Cleanup
    <3>3. CASE Commit
      BY <3>1, <3>3 DEF Commit, NoCleanup, Cleanup
    <3>4. ASSUME NEW d \in Days, Unlink(d) PROVE index' = index /\ cleaning' \in Cleanup
      BY <3>1, <3>4 DEF Unlink, Cleanup
    <3> QED BY <3>1, <3>2, <3>3, <3>4
  <2>4. ASSUME NEW d \in Days, NEW k \in tmp'[d].writers \cup file'[d].writers
        PROVE  job'[k].at = "write" /\ d = Min(job'[k].saving)
    <3>1. k \in tmp[d].writers \cup file[d].writers
      BY <1>1, <1>2, <2>1, <2>4
    <3> QED BY <1>1, <3>1 DEF AInv, TypeOK
  <2> QED BY <1>1, <2>2, <2>3, <2>4 DEF AInv, TypeOK, Today
<1>4. DiskTrue'
  BY <1>1, <1>2 DEF AInv, DiskTrue, NoFile
<1> QED BY <1>1, <1>3, <1>4 DEF AInv

LEMMA InitAInv == Init => AInv
<1> SUFFICES ASSUME Init PROVE AInv
  OBVIOUS
<1>1. NewJob \in Job /\ NewJob.at = "new" /\ NewJob.day = 1 /\ NewJob.last = 1
      /\ \A d \in Days : NewJob.got[d] = None
  BY Numbers DEF NewJob, Job, Days
<1>2. \A d \in Days : tmp[d] = NoFile /\ file[d] = NoFile
  BY DEF Init
<1>3. \A j \in Jobs : job[j] = NewJob
  BY DEF Init
<1>4. TypeOK
  <2>1. /\ now \in FirstNow..LastNow /\ file \in [Days -> File] /\ tmp \in [Days -> File]
        /\ index \in [Days -> {None} \cup FirstNow..LastNow]
        /\ marked \subseteq Days /\ cleaning \in Cleanup /\ history \in History
    BY Numbers DEF Init, File, NoCleanup, Cleanup, History
  <2>2. job \in [Jobs -> Job]
    BY <1>1 DEF Init
  <2> QED BY <1>1, <1>2, <1>3, <2>1, <2>2 DEF TypeOK, Today, NoFile
<1>5. DiskTrue
  BY <1>2 DEF Init, DiskTrue, NoFile
<1>6. \A j \in Jobs : JobTrue(job[j], history.short)
  BY <1>1, <1>3 DEF JobTrue
<1> QED BY <1>4, <1>5, <1>6 DEF AInv

LEMMA AnswersInvariant == Spec => []AInv
<1>1. AInv /\ [Next]_vars => AInv'
  BY AnswerSteps, OpenAnswers, WriteAnswers, ReplaceAnswers, SaveFailsAnswers, KilledAnswers,
     RestAnswers DEF Next
<1> QED BY InitAInv, <1>1, PTL DEF Spec

(* Every variable keeps its type, and who still writes a file is a job that is *)
(* saving that day: neither a failed save nor a kill leaves it open             *)
(* (_save_day_parts).                                                          *)
THEOREM TypeCorrect == Spec => []TypeOK
BY AnswersInvariant, PTL DEF AInv

(* A job gets every candle of its days from whatever source klines takes them, *)
(* for any number of jobs, days and candles, but of the days that were kept    *)
(* short.                                                                      *)
THEOREM TrueAnswers == Spec => []AnswersAreTrue
<1>1. AInv => AnswersAreTrue
  BY DEF AInv, AnswersAreTrue, JobTrue
<1> QED BY <1>1, AnswersInvariant, PTL
=============================================================================
