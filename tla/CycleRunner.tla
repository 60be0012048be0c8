----------------------------- MODULE CycleRunner -----------------------------
(***************************************************************************)
(* The scheduler: v2/app/cycle.py (CycleLock, CycleRunner) with its        *)
(* callers, the background thread of the API, POST /api/scheduler/run      *)
(* (trigger_async) and the command line.                                   *)
(*                                                                         *)
(* A caller is a thread that runs cycles. The callers of one process share *)
(* the thread lock of the class CycleLock; processes exclude each other    *)
(* with flock. busy() finds out whether a cycle is running by taking and   *)
(* giving back both locks. A call of run_once is one action per lock       *)
(* operation, commit and work item.                                        *)
(***************************************************************************)
EXTENDS Naturals, Sequences, FiniteSets

CONSTANTS
    Callers,     \* the threads that call run_once
    Loops,       \* those of them that are the background thread of a process
    Requests,    \* those that POST /api/scheduler/run starts, when no cycle is running
    Procs,       \* the processes
    ProcOf,      \* the process of each caller
    CycleIds,    \* bound: the rows ever written to scheduler_cycles
    MaxDryRuns,  \* settings.max_dry_runs_per_day
    CycleMax,    \* settings.cycle_max_prepare and settings.cycle_max_dry_runs
    NoOne, NoProc, NoCycle

ASSUME CallersAssumption ==
    /\ Loops \subseteq Callers
    /\ Requests \subseteq Callers \ Loops
    /\ ProcOf \in [Callers -> Procs]
    /\ NoOne \notin Callers
    /\ NoProc \notin Procs
    /\ NoCycle \notin CycleIds
ASSUME LimitsAssumption == MaxDryRuns \in Nat /\ CycleMax \in Nat

VARIABLES
    threadLock,  \* CycleLock._process_lock of each process: who holds it
    fileLock,    \* the process that holds the flock
    pc,          \* where in run_once (or busy) a caller is
    mode,        \* what the caller is in the lock for: "cycle" or "probe"
    row,         \* the id of the row the caller opened
    step,        \* the index in Steps of the step it is at
    left,        \* the items left in the loop of the step
    errors,      \* whether a step or item has failed
    verdict,     \* the status the cycle will end with; "raised": an exception is on its way
    ledger,      \* SchedulerCycle.status of every row, "none" before it is written
    killed,      \* the flag global_kill_switch
    dryRuns      \* dry_runs_today

locks == <<threadLock, fileLock>>
calls == <<pc, mode, row, step, left, errors, verdict>>
vars  == <<threadLock, fileLock, pc, mode, row, step, left, errors, verdict,
           ledger, killed, dryRuns>>

Steps == <<"discover", "liveness", "score", "prepare", "dry_run">>

Outcomes == {"skipped", "aborted", "completed", "completed_with_errors", "failed"}
Statuses == {"none", "running", "interrupted"} \cup Outcomes

\* In a cycle with an open row; in a cycle; somewhere with the thread lock.
InBody  == {"gate", "step", "items", "close"}
InCycle == {"recover", "open"} \cup InBody
Holding == {"acquire", "unlock", "leave"} \cup InCycle
Places  == {"idle", "ready", "overlap", "dead"} \cup Holding

TypeOK ==
    /\ threadLock \in [Procs -> Callers \cup {NoOne}]
    /\ fileLock \in Procs \cup {NoProc}
    /\ pc \in [Callers -> Places]
    /\ mode \in [Callers -> {"cycle", "probe"}]
    /\ row \in [Callers -> CycleIds \cup {NoCycle}]
    /\ step \in [Callers -> DOMAIN Steps]
    /\ left \in [Callers -> Nat]
    /\ errors \in [Callers -> BOOLEAN]
    /\ verdict \in [Callers -> Outcomes \cup {"none", "raised"}]
    /\ \A c \in Callers : pc[c] = "close" => verdict[c] \in Outcomes
    /\ ledger \in [CycleIds -> Statuses]
    /\ killed \in BOOLEAN
    /\ dryRuns \in Nat

-----------------------------------------------------------------------------
(* Helpers                                                                 *)

Goto(c, place) == pc' = [pc EXCEPT ![c] = place]

Unused == { id \in CycleIds : ledger[id] = "none" }

\* Bound: a call begins only if every call under way can still write its row.
RowLeft == Cardinality(Unused) > Cardinality({ c \in Callers : pc[c] \notin {"idle", "dead"} })

\* A call that is over leaves nothing behind, an exception ends the background thread.
Forget(c, place) ==
    /\ Goto(c, place)
    /\ row' = [row EXCEPT ![c] = NoCycle]
    /\ step' = [step EXCEPT ![c] = 1]
    /\ left' = [left EXCEPT ![c] = 0]
    /\ errors' = [errors EXCEPT ![c] = FALSE]
    /\ verdict' = [verdict EXCEPT ![c] = "none"]
    /\ mode' = [mode EXCEPT ![c] = "cycle"]

AfterException(c) == IF c \in Loops THEN "dead" ELSE "idle"

\* The work is over with this status; the final commit is next.
EndWith(c, status) ==
    /\ Goto(c, "close")
    /\ verdict' = [verdict EXCEPT ![c] = status]
    /\ UNCHANGED <<mode, row, step, left, errors>>

-----------------------------------------------------------------------------
(* CycleLock                                                               *)

\* acquire, first half: the thread lock, taken or not without waiting.
TryThreadLock(c, m, otherwise) ==
    /\ IF threadLock[ProcOf[c]] = NoOne
       THEN /\ threadLock' = [threadLock EXCEPT ![ProcOf[c]] = c]
            /\ mode' = [mode EXCEPT ![c] = m]
            /\ Goto(c, "acquire")
       ELSE /\ Goto(c, otherwise)
            /\ UNCHANGED <<threadLock, mode>>
    /\ UNCHANGED <<fileLock, row, step, left, errors, verdict, ledger, killed, dryRuns>>

\* run_once is called by a tick of the background thread or from the command line.
Start(c) ==
    /\ pc[c] = "idle"
    /\ c \notin Requests
    /\ RowLeft
    /\ TryThreadLock(c, "cycle", "overlap")

\* trigger_async: busy() first. A lock file opened by this process means that its
\* thread lock is taken too.
Trigger(c) ==
    /\ pc[c] = "idle"
    /\ c \in Requests
    /\ RowLeft
    /\ TryThreadLock(c, "probe", "idle")

\* ... and run_once in a thread of its own when busy() said no.
StartManual(c) ==
    /\ pc[c] = "ready"
    /\ TryThreadLock(c, "cycle", "overlap")

\* (mutant) acquire that keeps the thread lock when another process has the file.
TryFileLockKeepsThread(c) ==
    /\ pc[c] = "acquire"
    /\ IF fileLock = NoProc
       THEN /\ fileLock' = ProcOf[c]
            /\ Goto(c, IF mode[c] = "cycle" THEN "recover" ELSE "unlock")
       ELSE /\ Goto(c, IF mode[c] = "cycle" THEN "overlap" ELSE "idle")
            /\ UNCHANGED fileLock
    /\ UNCHANGED <<threadLock, mode, row, step, left, errors, verdict, ledger, killed, dryRuns>>

\* (mutant) acquire where the file system does not lock (fcntl is None).
TryFileLockUnchecked(c) ==
    /\ pc[c] = "acquire"
    /\ fileLock' = ProcOf[c]
    /\ Goto(c, IF mode[c] = "cycle" THEN "recover" ELSE "unlock")
    /\ UNCHANGED <<threadLock, mode, row, step, left, errors, verdict, ledger, killed, dryRuns>>

\* acquire, second half: flock, or the thread lock given back. (Where fcntl cannot be
\* imported it is TryFileLockUnchecked: processes do not exclude each other.)
TryFileLock(c) ==
    /\ pc[c] = "acquire"
    /\ IF fileLock = NoProc
       THEN /\ fileLock' = ProcOf[c]
            /\ Goto(c, IF mode[c] = "cycle" THEN "recover" ELSE "unlock")
            /\ UNCHANGED threadLock
       ELSE /\ threadLock' = [threadLock EXCEPT ![ProcOf[c]] = NoOne]
            /\ Goto(c, IF mode[c] = "cycle" THEN "overlap" ELSE "idle")
            /\ UNCHANGED fileLock
    /\ UNCHANGED <<mode, row, step, left, errors, verdict, ledger, killed, dryRuns>>

\* acquire, second half, when the lock file cannot be made or opened: the thread lock
\* is given back, and the exception leaves run_once or trigger_async.
LockFileFails(c) ==
    /\ pc[c] = "acquire"
    /\ threadLock' = [threadLock EXCEPT ![ProcOf[c]] = NoOne]
    /\ Forget(c, AfterException(c))
    /\ UNCHANGED <<fileLock, ledger, killed, dryRuns>>

\* release, first half.
ReleaseFile(c) ==
    /\ pc[c] = "unlock"
    /\ fileLock' = NoProc
    /\ Goto(c, "leave")
    /\ UNCHANGED <<threadLock, mode, row, step, left, errors, verdict, ledger, killed, dryRuns>>

\* release, second half: the call is over, or the trigger may start its thread.
ReleaseThread(c) ==
    /\ pc[c] = "leave"
    /\ threadLock' = [threadLock EXCEPT ![ProcOf[c]] = NoOne]
    /\ Forget(c, CASE mode[c] = "probe" -> "ready"
                   [] verdict[c] = "raised" -> AfterException(c)
                   [] OTHER -> "idle")
    /\ UNCHANGED <<fileLock, ledger, killed, dryRuns>>

-----------------------------------------------------------------------------
(* run_once and _execute                                                   *)

\* (mutant) _record_overlap that cleans up the ledger too.
RecordOverlapSweeps(c) ==
    /\ pc[c] = "overlap"
    /\ \E id \in Unused :
         ledger' = [ i \in CycleIds |-> IF i = id THEN "skipped"
                                       ELSE IF ledger[i] = "running" THEN "interrupted"
                                       ELSE ledger[i] ]
    /\ Forget(c, "idle")
    /\ UNCHANGED <<threadLock, fileLock, killed, dryRuns>>

\* _record_overlap
RecordOverlap(c) ==
    /\ pc[c] = "overlap"
    /\ \E id \in Unused : ledger' = [ledger EXCEPT ![id] = "skipped"]
    /\ Forget(c, "idle")
    /\ UNCHANGED <<threadLock, fileLock, killed, dryRuns>>

\* (mutant) run_once without the call of _mark_interrupted.
MarkNothing(c) ==
    /\ pc[c] = "recover"
    /\ Goto(c, "open")
    /\ UNCHANGED <<locks, mode, row, step, left, errors, verdict, ledger, killed, dryRuns>>

\* _mark_interrupted
MarkInterrupted(c) ==
    /\ pc[c] = "recover"
    /\ ledger' = [ id \in CycleIds |->
                     IF ledger[id] = "running" THEN "interrupted" ELSE ledger[id] ]
    /\ Goto(c, "open")
    /\ UNCHANGED <<locks, mode, row, step, left, errors, verdict, killed, dryRuns>>

OpenRow(c) ==
    /\ pc[c] = "open"
    /\ \E id \in Unused : /\ ledger' = [ledger EXCEPT ![id] = "running"]
                          /\ row' = [row EXCEPT ![c] = id]
    /\ Goto(c, "gate")
    /\ UNCHANGED <<locks, mode, step, left, errors, verdict, killed, dryRuns>>

\* _gate: the kill switch, then the pause flag and the quiet hours (left open here).
Gate(c) ==
    /\ pc[c] = "gate"
    /\ \/ EndWith(c, "skipped")
       \/ /\ ~killed
          /\ Goto(c, "step")
          /\ UNCHANGED <<mode, row, step, left, errors, verdict>>
    /\ UNCHANGED <<locks, ledger, killed, dryRuns>>

\* (mutant) a loop over STEPS that goes one step too far.
StepDoneLate(c, failed) ==
    IF step[c] <= Len(Steps)
    THEN /\ Goto(c, "step")
         /\ step' = [step EXCEPT ![c] = @ + 1]
         /\ errors' = [errors EXCEPT ![c] = @ \/ failed]
         /\ left' = [left EXCEPT ![c] = 0]
         /\ UNCHANGED <<mode, row, verdict>>
    ELSE EndWith(c, "completed")

\* The next turn of the loop over STEPS, or its end.
StepDone(c, failed) ==
    IF step[c] < Len(Steps)
    THEN /\ Goto(c, "step")
         /\ step' = [step EXCEPT ![c] = @ + 1]
         /\ errors' = [errors EXCEPT ![c] = @ \/ failed]
         /\ left' = [left EXCEPT ![c] = 0]
         /\ UNCHANGED <<mode, row, verdict>>
    ELSE EndWith(c, IF errors[c] \/ failed THEN "completed_with_errors" ELSE "completed")

\* (mutant) _dry_run_budget that does not subtract what was run today.
BudgetWholeDay(c) == CASE Steps[step[c]] = "prepare" -> CycleMax
                       [] Steps[step[c]] = "dry_run" -> MaxDryRuns
                       [] OTHER -> 0

\* How many items the step may take at most: _dry_run_budget, cycle_max_prepare.
Remaining == IF dryRuns < MaxDryRuns THEN MaxDryRuns - dryRuns ELSE 0
Budget(c) == CASE Steps[step[c]] = "prepare" -> CycleMax
               [] Steps[step[c]] = "dry_run" ->
                    (IF Remaining < CycleMax THEN Remaining ELSE CycleMax)
               [] OTHER -> 0

\* The check before each step, then the handler, which works through items, does
\* everything at once, or fails.
BeginStep(c) ==
    /\ pc[c] = "step"
    /\ \/ killed /\ EndWith(c, "aborted")
       \/ ~killed /\ \E failed \in BOOLEAN : StepDone(c, failed)
       \/ /\ ~killed
          /\ \E n \in 1..Budget(c) : left' = [left EXCEPT ![c] = n]
          /\ Goto(c, "items")
          /\ UNCHANGED <<mode, row, step, errors, verdict>>
    /\ UNCHANGED <<locks, ledger, killed, dryRuns>>

\* _prepare and _dry_run between two items: the kill switch, the end of the loop, or
\* an exception that _guarded turns into the error of the step.
ItemsOver(c) ==
    /\ pc[c] = "items"
    /\ \/ killed /\ left[c] > 0 /\ EndWith(c, "aborted")
       \/ left[c] = 0 /\ StepDone(c, FALSE)
       \/ StepDone(c, TRUE)
    /\ UNCHANGED <<locks, ledger, killed, dryRuns>>

\* One item: deferred, refused, prepared; or a dry run that reaches the form.
Item(c) ==
    /\ pc[c] = "items"
    /\ left[c] > 0
    /\ ~killed
    /\ left' = [left EXCEPT ![c] = @ - 1]
    /\ \/ UNCHANGED dryRuns
       \/ Steps[step[c]] = "dry_run" /\ dryRuns' = dryRuns + 1
    /\ UNCHANGED <<locks, pc, mode, row, step, errors, verdict, ledger, killed>>

\* A dry run that claims a submission: the cycle pulls the kill switch and fails.
SubmissionClaimed(c) ==
    /\ pc[c] = "items"
    /\ left[c] > 0
    /\ ~killed
    /\ Steps[step[c]] = "dry_run"
    /\ killed' = TRUE
    /\ dryRuns' = dryRuns + 1
    /\ EndWith(c, "failed")
    /\ UNCHANGED <<locks, ledger>>

\* Anything else that escapes _execute: rollback, and the cycle is "failed".
ExecuteFails(c) ==
    /\ pc[c] \in {"gate", "step"}
    /\ EndWith(c, "failed")
    /\ UNCHANGED <<locks, ledger, killed, dryRuns>>

\* The final commit.
CloseRow(c) ==
    /\ pc[c] = "close"
    /\ ledger' = [ledger EXCEPT ![row[c]] = verdict[c]]
    /\ Goto(c, "unlock")
    /\ UNCHANGED <<locks, mode, row, step, left, errors, verdict, killed, dryRuns>>

\* A commit of run_once itself fails (the database stays locked for longer than the
\* busy timeout): the exception leaves run_once through its finally clause.
CommitFails(c) ==
    /\ \/ /\ pc[c] \in {"recover", "open", "close"}
          /\ Goto(c, "unlock")
          /\ verdict' = [verdict EXCEPT ![c] = "raised"]
          /\ UNCHANGED <<mode, row, step, left, errors>>
       \/ /\ pc[c] = "overlap"
          /\ Forget(c, AfterException(c))
    /\ UNCHANGED <<locks, ledger, killed, dryRuns>>

-----------------------------------------------------------------------------
(* The surroundings                                                        *)

\* The owner, through the API or the command line.
SetKillSwitch ==
    /\ killed' = ~killed
    /\ UNCHANGED <<locks, calls, ledger, dryRuns>>

\* A dry run the owner starts by hand: execute_apply knows no daily cap. (Bound: up
\* to the cap.)
ManualDryRun ==
    /\ dryRuns < MaxDryRuns
    /\ dryRuns' = dryRuns + 1
    /\ UNCHANGED <<locks, calls, ledger, killed>>

\* Midnight: nothing was run today yet.
NewDay ==
    /\ dryRuns' = 0
    /\ UNCHANGED <<locks, calls, ledger, killed>>

\* A process dies and is started again: the kernel gives back its flock.
Crash(p) ==
    /\ threadLock' = [threadLock EXCEPT ![p] = NoOne]
    /\ fileLock' = IF fileLock = p THEN NoProc ELSE fileLock
    /\ pc' = [c \in Callers |-> IF ProcOf[c] = p THEN "idle" ELSE pc[c]]
    /\ mode' = [c \in Callers |-> IF ProcOf[c] = p THEN "cycle" ELSE mode[c]]
    /\ row' = [c \in Callers |-> IF ProcOf[c] = p THEN NoCycle ELSE row[c]]
    /\ step' = [c \in Callers |-> IF ProcOf[c] = p THEN 1 ELSE step[c]]
    /\ left' = [c \in Callers |-> IF ProcOf[c] = p THEN 0 ELSE left[c]]
    /\ errors' = [c \in Callers |-> IF ProcOf[c] = p THEN FALSE ELSE errors[c]]
    /\ verdict' = [c \in Callers |-> IF ProcOf[c] = p THEN "none" ELSE verdict[c]]
    /\ UNCHANGED <<ledger, killed, dryRuns>>

-----------------------------------------------------------------------------
Init ==
    /\ threadLock = [p \in Procs |-> NoOne]
    /\ fileLock = NoProc
    /\ pc = [c \in Callers |-> "idle"]
    /\ mode = [c \in Callers |-> "cycle"]
    /\ row = [c \in Callers |-> NoCycle]
    /\ step = [c \in Callers |-> 1]
    /\ left = [c \in Callers |-> 0]
    /\ errors = [c \in Callers |-> FALSE]
    /\ verdict = [c \in Callers |-> "none"]
    /\ ledger = [id \in CycleIds |-> "none"]
    /\ killed = FALSE
    /\ dryRuns = 0

\* What a thread that is in a call does next.
Run(c) ==
    \/ StartManual(c) \/ TryFileLock(c) \/ ReleaseFile(c) \/ ReleaseThread(c)
    \/ RecordOverlap(c) \/ MarkInterrupted(c) \/ OpenRow(c) \/ Gate(c)
    \/ BeginStep(c) \/ ItemsOver(c) \/ Item(c) \/ SubmissionClaimed(c)
    \/ ExecuteFails(c) \/ CloseRow(c)

Work == \E c \in Callers : Start(c) \/ Trigger(c) \/ Run(c)

Next ==
    \/ Work
    \/ SetKillSwitch
    \/ \E c \in Callers : LockFileFails(c) \/ CommitFails(c)
    \/ NewDay
    \/ \E p \in Procs : Crash(p)

\* With dry runs by hand, and with nothing but calls of the runner.
NextManual == Work \/ ManualDryRun

Fairness == \A c \in Callers : WF_vars(Run(c))

Spec     == Init /\ [][Next]_vars
FairSpec == Spec /\ Fairness
ManualSpec == Init /\ [][NextManual]_vars
CalmSpec == Init /\ [][Work]_vars

-----------------------------------------------------------------------------
(* Properties                                                              *)

RunningRows == { id \in CycleIds : ledger[id] = "running" }

(***************************************************************************)
(* cycle.py:20, "Cycles never overlap": of all threads of all processes at *)
(* most one is between the two halves of the lock.                         *)
(***************************************************************************)
CyclesNeverOverlap ==
    \A c, d \in Callers : pc[c] \in InCycle /\ pc[d] \in InCycle => c = d

(***************************************************************************)
(* status() takes the first row it finds "running" for the current cycle:  *)
(* there is never a second one, whatever crashed or failed before.         *)
(***************************************************************************)
AtMostOneRunning == \A a, b \in RunningRows : a = b

(***************************************************************************)
(* cycle.py:221, "any cycle still marked running died with its process":   *)
(* no cycle is written off as interrupted while a thread is still in it.   *)
(***************************************************************************)
LiveCycleNotInterrupted ==
    [][\A c \in Callers :
         pc[c] \in InBody => ledger'[row[c]] # "interrupted"]_vars

(***************************************************************************)
(* cycle.py:14: cycles respect the daily dry-run cap, although each        *)
(* computes its budget once, before its first dry run.                     *)
(***************************************************************************)
DailyCapHolds == dryRuns <= MaxDryRuns

(***************************************************************************)
(* Every thread gives back the lock, on every path through run_once and    *)
(* busy: one that does not would turn all later cycles of its process into *)
(* overlaps.                                                               *)
(***************************************************************************)
LockIsGivenBack ==
    \A p \in Procs : threadLock[p] # NoOne ~> threadLock[p] = NoOne

(***************************************************************************)
(* cycle.py:213: the reason recorded for an overlap is "previous cycle     *)
(* still running". Some other call is in a cycle when a caller gives up.   *)
(***************************************************************************)
OverlapMeansRunning ==
    [][\A c \in Callers :
         pc[c] # "overlap" /\ pc'[c] = "overlap"
           => \E d \in Callers \ {c} : pc[d] \in Holding /\ mode[d] = "cycle"]_vars

(***************************************************************************)
(* cycle.py:405: trigger_async "Start[s] a manual cycle in the background. *)
(* False if one is already running": when it says True, the cycle it       *)
(* promised does run.                                                      *)
(***************************************************************************)
AcceptedTriggerRuns ==
    [][\A c \in Callers : pc[c] = "ready" => pc'[c] # "overlap"]_vars

(***************************************************************************)
(* cycle.py:190: "The ledger must record any failure, and the scheduler    *)
(* thread must survive it."                                                *)
(***************************************************************************)
SchedulerSurvives == \A c \in Loops : pc[c] # "dead"

(***************************************************************************)
(* CycleRunner implements CycleLedger: the turn belongs to the thread that *)
(* took both locks in order to run a cycle, until it releases the file.    *)
(***************************************************************************)
HasTurn(c) == mode[c] = "cycle" /\ pc[c] \in InCycle \cup {"unlock"}

Turn == IF \E c \in Callers : HasTurn(c)
        THEN CHOOSE c \in Callers : HasTurn(c)
        ELSE NoOne

Promise == INSTANCE CycleLedger WITH turn <- Turn

ImplementsLedger == Promise!Spec
=============================================================================
