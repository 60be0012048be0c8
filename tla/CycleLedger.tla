----------------------------- MODULE CycleLedger -----------------------------
(***************************************************************************)
(* What the cycle runner promises (v2/app/cycle.py:20-22): cycles never    *)
(* overlap, and the table scheduler_cycles tells what became of each.      *)
(* There is one turn; whoever has it writes off the cycles that died with  *)
(* their process, opens a row of its own and closes it. CycleRunner        *)
(* implements this with a thread lock and a file lock.                     *)
(***************************************************************************)
CONSTANTS
    Callers,   \* the threads that run cycles
    CycleIds,  \* the identities of the rows of scheduler_cycles
    NoOne      \* nobody has the turn, not one of Callers

VARIABLES
    turn,      \* who may run a cycle
    ledger     \* SchedulerCycle.status of every row, "none" before it is written

vars == <<turn, ledger>>

Outcomes == {"skipped", "aborted", "completed", "completed_with_errors", "failed"}
Statuses == {"none", "running", "interrupted"} \cup Outcomes

RunningRows == { id \in CycleIds : ledger[id] = "running" }

Init ==
    /\ turn = NoOne
    /\ ledger = [id \in CycleIds |-> "none"]

Enter(c) ==
    /\ turn = NoOne
    /\ turn' = c
    /\ UNCHANGED ledger

Sweep ==
    /\ turn # NoOne
    /\ ledger' = [ id \in CycleIds |->
                     IF ledger[id] = "running" THEN "interrupted" ELSE ledger[id] ]
    /\ UNCHANGED turn

Open(id) ==
    /\ turn # NoOne
    /\ RunningRows = {}
    /\ ledger[id] = "none"
    /\ ledger' = [ledger EXCEPT ![id] = "running"]
    /\ UNCHANGED turn

Close(id) ==
    /\ turn # NoOne
    /\ ledger[id] = "running"
    /\ \E outcome \in Outcomes : ledger' = [ledger EXCEPT ![id] = outcome]
    /\ UNCHANGED turn

\* The turn ends, in good order or with the process.
Leave ==
    /\ turn # NoOne
    /\ turn' = NoOne
    /\ UNCHANGED ledger

\* Somebody without the turn notes that the cycle was not run.
Skip(id) ==
    /\ ledger[id] = "none"
    /\ ledger' = [ledger EXCEPT ![id] = "skipped"]
    /\ UNCHANGED turn

Next ==
    \/ \E c \in Callers : Enter(c)
    \/ Sweep
    \/ Leave
    \/ \E id \in CycleIds : Open(id) \/ Close(id) \/ Skip(id)

Spec == Init /\ [][Next]_vars
=============================================================================
