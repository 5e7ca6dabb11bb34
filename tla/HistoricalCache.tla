--------------------------- MODULE HistoricalCache ---------------------------
(***************************************************************************)
(* The historical candles of one symbol and interval (data/binance.py): one  *)
(* file per day, a marker for a day without candles, and the index of when   *)
(* each file was last used.  Jobs in threads of their own walk their days,   *)
(* and a cleanup removes files that were not used for two hours.  A save may *)
(* fail at any step, and the process may be killed.                          *)
(*                                                                          *)
(* Time is counted in candles.  A file is the candles it was to hold, the    *)
(* jobs that are still writing it, and whether it is torn for good: left in  *)
(* the middle of a write, or written by two jobs at once.                    *)
(***************************************************************************)
EXTENDS Naturals, FiniteSets, FiniteSetsExt

CONSTANTS
    Jobs,
    LastDay,    \* bound
    PerDay,     \* candles of a day
    MonthDays,  \* days of a month
    FirstNow, LastNow, \* bound: the clock
    Listed,     \* the symbol's first candle
    HotTime,    \* two hours
    MaxFaults,  \* bound: saves that fail and kills
    None

ASSUME CacheAssumption == /\ {LastDay, PerDay, MonthDays, Listed} \subseteq Nat \ {0}
                          /\ {FirstNow, LastNow, HotTime, MaxFaults} \subseteq Nat /\ FirstNow <= LastNow

VARIABLES
    now,
    file, tmp,  \* <day>.csv.gz and <day>.csv.gz.tmp
    marked,     \* <day>.csv.unavailable
    index,      \* last_used of each indexed day
    job,
    cleaning,   \* the days a cleanup has selected, and those it has removed
    history     \* days kept short, days written by two jobs at once, and the faults

vars == <<now, file, tmp, marked, index, job, cleaning, history>>
disk == <<file, tmp, marked, index>>

Days == 1..LastDay
DayOf(t) == t \div PerDay + 1
MonthOf(d) == (d - 1) \div MonthDays
Ended(d) == d < DayOf(now)
CandlesAt(d, t) == Cardinality({c \in (d - 1) * PerDay + 1..d * PerDay : Listed <= c /\ c <= t})
AllCandles(d) == CandlesAt(d, d * PerDay)

NoFile == [there |-> FALSE, candles |-> 0, writers |-> {}, torn |-> FALSE]
NoCleanup == [chosen |-> {}, removed |-> {}]
NewJob == [at |-> "new", day |-> 1, last |-> 1, saving |-> {}, amount |-> 0, kind |-> "day",
           got |-> [d \in Days |-> None], early |-> {}]
Failed == [NewJob EXCEPT !.at = "failed"]

Init == /\ now = FirstNow
        /\ file = [d \in Days |-> NoFile] /\ tmp = [d \in Days |-> NoFile]
        /\ marked = {}
        /\ index = [d \in Days |-> None]
        /\ job = [j \in Jobs |-> NewJob]
        /\ cleaning = NoCleanup
        /\ history = [short |-> {}, contended |-> {}, faults |-> 0]

-----------------------------------------------------------------------------
(* klines *)

Goto(j, at) == job' = [job EXCEPT ![j].at = at]
\* An exception ends the job, and what it had gathered is lost.
Fail(j) == job' = [job EXCEPT ![j] = Failed]
Today(j) == job[j].day

\* The parts are gathered; then the next day.
Gathered(j, n) ==
    job' = [job EXCEPT ![j].got[Today(j)] = n,
                       ![j].at = IF Today(j) = job[j].last THEN "done" ELSE "look",
                       ![j].day = IF Today(j) = job[j].last THEN @ ELSE @ + 1]

Begin(j, first, last) ==
    /\ job[j].at = "new" /\ first <= last /\ last <= DayOf(now)
    /\ job' = [job EXCEPT ![j].at = "look", ![j].day = first, ![j].last = last]
    /\ UNCHANGED <<now, disk, cleaning, history>>

Look(j) ==
    /\ job[j].at = "look"
    /\ IF file[Today(j)].there THEN Goto(j, "read")
       ELSE IF Today(j) \in marked THEN Gathered(j, 0)
       ELSE Goto(j, IF MonthOf(Today(j)) < MonthOf(DayOf(now)) THEN "month" ELSE "day")
    /\ UNCHANGED <<now, disk, cleaning, history>>

\* The monthly archive: all days of the month that have candles, or 404, and
\* then the day unless another job has saved it meanwhile.
FetchMonth(j) ==
    /\ job[j].at = "month"
    /\ \/ Goto(j, IF file[Today(j)].there THEN "read" ELSE "day")
       \/ job' = [job EXCEPT ![j].at = "save", ![j].kind = "month",
                     ![j].saving = {d \in Days : MonthOf(d) = MonthOf(Today(j)) /\ AllCandles(d) > 0}]
    /\ UNCHANGED <<now, disk, cleaning, history>>

\* The daily archive of a day that has ended, or what REST has by now.
FetchDay(j) ==
    LET n == CandlesAt(Today(j), now) IN
    /\ job[j].at = "day"
    /\ job' = [job EXCEPT ![j].at = "save", ![j].kind = "day", ![j].amount = n,
                          ![j].saving = IF n > 0 THEN {Today(j)} ELSE {},
                          ![j].early = IF Ended(Today(j)) THEN @ ELSE @ \cup {Today(j)}]
    /\ UNCHANGED <<now, disk, cleaning, history>>

\* A request raises, or the index does.
FetchFails(j) == /\ job[j].at \in {"month", "day", "touch"}
                 /\ Fail(j)
                 /\ UNCHANGED <<now, disk, cleaning, history>>

Amount(j, d) == IF job[j].kind = "month" THEN AllCandles(d) ELSE job[j].amount
Saves(j, d) == job[j].at \in {"write", "replace"} /\ d = Min(job[j].saving)
\* What is there is cut to nothing; who still writes it goes on where it was.
Writing(j, d) == [there |-> TRUE, candles |-> Amount(j, d), writers |-> tmp[d].writers \cup {j},
                  torn |-> tmp[d].writers # {}]
Contended(d) == IF \E k \in Jobs : Saves(k, d) THEN history.contended \cup {d} ELSE history.contended

\* Slip: the file is written under its own name.
OpenInPlace(j) ==
    /\ job[j].at = "save" /\ job[j].saving # {}
    /\ LET d == Min(job[j].saving) IN
       /\ file' = [file EXCEPT ![d] = Writing(j, d)]
       /\ tmp' = [tmp EXCEPT ![d] = Writing(j, d)]
       /\ history' = [history EXCEPT !.contended = Contended(d)]
    /\ Goto(j, "write")
    /\ UNCHANGED <<now, marked, index, cleaning>>

\* to_csv opens the temporary name: every job's is the same, and a save that
\* failed has left its file there.
Open(j) ==
    /\ job[j].at = "save" /\ job[j].saving # {}
    /\ LET d == Min(job[j].saving) IN
       /\ tmp' = [tmp EXCEPT ![d] = Writing(j, d)]
       /\ history' = [history EXCEPT !.contended = Contended(d)]
    /\ Goto(j, "write")
    /\ UNCHANGED <<now, file, marked, index, cleaning>>

Closed(f, j) == [f EXCEPT !.writers = @ \ {j}]

\* What it writes may have been renamed by another job.
Write(j) ==
    /\ job[j].at = "write"
    /\ LET d == Min(job[j].saving) IN
       /\ tmp' = [tmp EXCEPT ![d] = Closed(@, j)]
       /\ file' = [file EXCEPT ![d] = Closed(@, j)]
    /\ Goto(j, "replace")
    /\ UNCHANGED <<now, marked, index, cleaning, history>>

Replace(j) ==
    /\ job[j].at = "replace"
    /\ LET d == Min(job[j].saving) IN
       IF ~tmp[d].there THEN Fail(j) /\ UNCHANGED <<file, tmp, history>>
       ELSE /\ file' = [file EXCEPT ![d] = tmp[d]]
            /\ tmp' = [tmp EXCEPT ![d] = NoFile]
            /\ history' = IF tmp[d].candles < AllCandles(d)
                          THEN [history EXCEPT !.short = @ \cup {d}] ELSE history
            /\ job' = [job EXCEPT ![j].at = "save", ![j].saving = @ \ {d}]
    /\ UNCHANGED <<now, marked, index, cleaning>>

\* Slip: the file that is given up stays open.
BrokenOpen(f, j) == IF j \in f.writers THEN [f EXCEPT !.torn = TRUE] ELSE f

Broken(f, j) == IF j \in f.writers THEN [f EXCEPT !.writers = @ \ {j}, !.torn = TRUE] ELSE f

\* to_csv or replace raises: what is in the temporary file stays.
SaveFails(j) ==
    /\ job[j].at \in {"save", "write", "replace"} /\ job[j].saving # {}
    /\ history.faults < MaxFaults /\ history' = [history EXCEPT !.faults = @ + 1]
    /\ LET d == Min(job[j].saving) IN
       /\ tmp' = [tmp EXCEPT ![d] = Broken(@, j)]
       /\ file' = [file EXCEPT ![d] = Broken(@, j)]
    /\ Fail(j)
    /\ UNCHANGED <<now, marked, index, cleaning>>

\* Slip: a day that goes on is marked as well.
SavedMarksToday(j) ==
    /\ job[j].at = "save" /\ job[j].saving = {}
    /\ IF job[j].kind = "month"
       THEN Goto(j, IF file[Today(j)].there THEN "read" ELSE "day") /\ UNCHANGED marked
       ELSE IF file[Today(j)].there
       THEN job' = [job EXCEPT ![j].at = "touch"] /\ UNCHANGED marked
       ELSE Gathered(j, job[j].amount) /\ marked' = marked \cup {Today(j)}
    /\ UNCHANGED <<now, file, tmp, index, cleaning, history>>

\* After the month: the day is there, or is fetched alone.  After the day: it is
\* there, or it is marked if it is over by now, even when it had candles and a
\* cleanup has removed their file meanwhile.
Saved(j) ==
    /\ job[j].at = "save" /\ job[j].saving = {}
    /\ IF job[j].kind = "month"
       THEN Goto(j, IF file[Today(j)].there THEN "read" ELSE "day") /\ UNCHANGED marked
       ELSE IF file[Today(j)].there
       THEN job' = [job EXCEPT ![j].at = "touch"] /\ UNCHANGED marked
       ELSE Gathered(j, job[j].amount)
            /\ marked' = IF Ended(Today(j)) THEN marked \cup {Today(j)} ELSE marked
    /\ history' = IF marked' # marked /\ (Today(j) \in job[j].early \/ job[j].amount > 0)
                  THEN [history EXCEPT !.short = @ \cup {Today(j)}] ELSE history
    /\ UNCHANGED <<now, file, tmp, index, cleaning>>

\* read_csv: the file may have gone, be torn, or another job may still write it.
Read(j) ==
    /\ job[j].at = "read"
    /\ LET f == file[Today(j)] IN
       IF ~f.there \/ f.writers # {} \/ f.torn THEN Fail(j)
       ELSE job' = [job EXCEPT ![j].at = "touch", ![j].amount = f.candles]
    /\ UNCHANGED <<now, disk, cleaning, history>>

\* cache.touch: a row even for a file that is no longer there.  A cleanup that
\* has removed rows holds the database until it commits.
Touch(j) ==
    /\ job[j].at = "touch" /\ cleaning.removed = {}
    /\ index' = [index EXCEPT ![Today(j)] = now]
    /\ Gathered(j, job[j].amount)
    /\ UNCHANGED <<now, file, tmp, marked, cleaning, history>>

-----------------------------------------------------------------------------
\* cleanup: what was not used for two hours, ...
Select == /\ cleaning = NoCleanup
          /\ cleaning' = [NoCleanup EXCEPT !.chosen = {d \in Days : index[d] # None
                                                                    /\ index[d] + HotTime < now}]
          /\ UNCHANGED <<now, disk, job, history>>

\* ... one file after the other, ...
Unlink(d) ==
    /\ d \in cleaning.chosen
    /\ cleaning' = [chosen |-> cleaning.chosen \ {d},
                    removed |-> IF file[d].there THEN cleaning.removed \cup {d} ELSE cleaning.removed]
    /\ file' = [file EXCEPT ![d] = NoFile]
    /\ UNCHANGED <<now, tmp, marked, index, job, history>>

\* ... and their rows, in one transaction.
Commit == /\ cleaning.chosen = {} /\ cleaning.removed # {}
          /\ cleaning' = NoCleanup
          /\ index' = [d \in Days |-> IF d \in cleaning.removed THEN None ELSE index[d]]
          /\ UNCHANGED <<now, file, tmp, marked, job, history>>

LeftBehind(f) == IF f.writers # {} THEN [f EXCEPT !.writers = {}, !.torn = TRUE] ELSE f

\* The process is killed: its jobs and its cleanup are over, its files stay as they are.
Killed == /\ history.faults < MaxFaults /\ history' = [history EXCEPT !.faults = @ + 1]
          /\ job' = [j \in Jobs |-> IF job[j].at \in {"new", "done", "failed"} THEN job[j]
                                    ELSE Failed]
          /\ tmp' = [d \in Days |-> LeftBehind(tmp[d])]
          /\ file' = [d \in Days |-> LeftBehind(file[d])]
          /\ cleaning' = NoCleanup
          /\ UNCHANGED <<now, marked, index>>

Tick == now < LastNow /\ now' = now + 1 /\ UNCHANGED <<disk, job, cleaning, history>>

Next == \/ \E j \in Jobs : \/ \E first, last \in Days : Begin(j, first, last)
                           \/ Look(j) \/ FetchMonth(j) \/ FetchDay(j) \/ FetchFails(j)
                           \/ Open(j) \/ Write(j) \/ Replace(j) \/ SaveFails(j) \/ Saved(j)
                           \/ Read(j) \/ Touch(j)
        \/ Select \/ (\E d \in Days : Unlink(d)) \/ Commit \/ Killed \/ Tick

Spec == Init /\ [][Next]_vars

-----------------------------------------------------------------------------
File == {NoFile} \cup [there : {TRUE}, candles : 1..PerDay, writers : SUBSET Jobs, torn : BOOLEAN]
Job == [at : {"new", "look", "month", "day", "save", "write", "replace", "read", "touch", "done",
              "failed"},
        day : Days, last : Days, saving : SUBSET Days, amount : Nat, kind : {"day", "month"},
        got : [Days -> Nat \cup {None}], early : SUBSET Days]
History == [short : SUBSET Days, contended : SUBSET Days, faults : 0..MaxFaults]
Cleanup == [chosen : SUBSET Days, removed : SUBSET Days]

TypeOK == /\ now \in FirstNow..LastNow
          /\ file \in [Days -> File] /\ tmp \in [Days -> File]
          /\ index \in [Days -> {None} \cup FirstNow..LastNow]
          /\ marked \subseteq Days /\ cleaning \in Cleanup
          /\ job \in [Jobs -> Job] /\ \A j \in Jobs : Today(j) <= job[j].last
          /\ history \in History
          /\ \A d \in Days : \A j \in tmp[d].writers \cup file[d].writers :
               job[j].at = "write" /\ d = Min(job[j].saving)

(* Under its own name a file is whole, whatever save failed or was killed and
   left its temporary file, unless two jobs wrote that day at once.          *)
FilesAreWhole == \A d \in Days \ history.contended :
    file[d].there => file[d].writers = {} /\ ~file[d].torn

(* A job gets every candle of the days that were over when it came to them,
   from whatever source, unless the day had been kept short: saved while it
   went on, or marked when it ended between the fetch and the mark, or when
   the file it was saved in was cleaned away before the mark.                *)
AnswersAreTrue == \A j \in Jobs : \A d \in Days \ (job[j].early \cup history.short) :
    job[j].got[d] # None => job[j].got[d] = AllCandles(d)

=============================================================================
