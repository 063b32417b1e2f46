------------------------------ MODULE MCBucket ------------------------------
(***************************************************************************)
(* What the CLI host keeps of a bucket: its files and catalog at kive init, *)
(* the backups on the workers and the source revisions; the semaphore hooks *)
(* of its jobs share, and the schedules. The components share no state and  *)
(* are explored one at a time.                                              *)
(***************************************************************************)
EXTENDS MCHookSemaphore, Backup, Initialize, Revisions, TLC

VARIABLES
  scenario,  \* the component that runs
  sched, now, lastFire, firedHere

(* Schedule: a year of two months of four and five days, weeks of three     *)
(* days, days of four minutes.                                              *)
TwoMonths == <<4, 5>>

Window(rec, days, by, monthdays, week, weekday, months, start, end) ==
  [recurrence |-> rec, days |-> days, by |-> by, monthdays |-> monthdays, week |-> week,
   weekday |-> weekday, months |-> months, start |-> start, end |-> end]

Hours == {<<0, 1>>, <<1, 2>>, <<3, 0>>, <<2, 2>>, <<0, 3>>}

Patterns ==
  {<<"daily", {}, "", {}, "", 0, m>> : m \in {{}, {2}}}
    \cup {<<"weekly", d, "", {}, "", 0, {}>> : d \in {{}, {1}, {0, 2}}}
    \cup {<<"monthly", {}, "day", x, "", 0, {}>> : x \in {{1}, {5}, {0}, {2, 0}}}
    \cup {<<"monthly", {}, "weekday", {}, x, 1, {}>> : x \in {"first", "second", "last"}}
    \cup {<<"yearly", {}, "day", {3}, "", 0, m>> : m \in {{}, {1}}}

MCWindows ==
  {Window(p[1], p[2], p[3], p[4], p[5], p[6], p[7], h[1], h[2]) : p \in Patterns, h \in Hours}

Evening == Window("weekly", {2}, "", {}, "", 0, {}, 2, 0)

MCSettings == {<<>>} \cup {<<w>> : w \in MCWindows} \cup {<<w, Evening>> : w \in MCWindows}

Night == Window("daily", {}, "", {}, "", 0, {}, 0, 1)

Interchangeable == Permutations(Hashes)

schedVars == <<sched, now, lastFire, firedHere>>

-----------------------------------------------------------------------------
S == INSTANCE Schedule WITH
  MonthLengths <- TwoMonths, WeekLength <- 3, DayMinutes <- 4, ScanDays <- 18,
  MaxSteps <- 12, Horizon <- 60, Settings <- MCSettings

-----------------------------------------------------------------------------
(* The components that do not run stay in an initial state. *)
MCInit ==
  /\ scenario \in {"semaphore", "backup", "initialize", "revisions", "schedule"}
  /\ Init
  /\ BkInit /\ (scenario # "backup" => legacy = [w \in Targets |-> FALSE])
  /\ InitInit /\ (scenario # "initialize" => ~dbFile)
  /\ RevInit
  /\ S!SchedInit /\ (scenario # "schedule" => sched = <<Night>>)

MCNext ==
  \/ /\ scenario = "semaphore" /\ Next
     /\ UNCHANGED <<scenario, bkVars, initVars, revVars, schedVars>>
  \/ /\ scenario = "backup" /\ BkNext
     /\ UNCHANGED <<scenario, vars, initVars, revVars, schedVars>>
  \/ /\ scenario = "initialize" /\ InitNext
     /\ UNCHANGED <<scenario, vars, bkVars, revVars, schedVars>>
  \/ /\ scenario = "revisions" /\ RevNext
     /\ UNCHANGED <<scenario, vars, bkVars, initVars, schedVars>>
  \/ /\ scenario = "schedule" /\ S!SchedNext
     /\ UNCHANGED <<scenario, vars, bkVars, initVars, revVars>>

mcVars == <<scenario, vars, bkVars, initVars, revVars, schedVars>>

MCSpec == MCInit /\ [][MCNext]_mcVars

-----------------------------------------------------------------------------
(* Properties, each of the component it is named after. *)

(* A schedule is due exactly once in each opening the walk covers, and the  *)
(* next start it announces is the first instant it allows.                  *)
FiresOncePerOpening ==
  scenario = "schedule" =>
    S!DueExactlyOncePerOpening /\ S!NextStartIsFirstOpening

=============================================================================
