------------------------- MODULE CycleRunnerProofs -------------------------
(***************************************************************************)
(* Theorems about CycleRunner, for any number of processes and threads.    *)
(*                                                                         *)
(* Two invariants carry everything. LockInv: who is past an acquire holds  *)
(* the thread lock of its process, and who is in a cycle also the file     *)
(* lock; so two threads in a cycle are in one process and then the same.   *)
(* LedgerInv: a row that says "running" belongs to the cycle under way or  *)
(* is the single one a dead or failed cycle left, which _mark_interrupted  *)
(* writes off before the next is opened.                                   *)
(***************************************************************************)
EXTENDS CycleRunner, TLAPS

-----------------------------------------------------------------------------
(* Type correctness                                                        *)

LEMMA StepsFacts == Len(Steps) = 5 /\ DOMAIN Steps = 1..5
BY DEF Steps

LEMMA BudgetIsNat ==
    ASSUME TypeOK, NEW c \in Callers
    PROVE  Budget(c) \in Nat
BY LimitsAssumption DEF TypeOK, Budget, Remaining

LEMMA StepDoneTypes ==
    ASSUME TypeOK, NEW c \in Callers, NEW failed \in BOOLEAN, StepDone(c, failed)
    PROVE  /\ pc' \in [Callers -> Places]
           /\ mode' = mode
           /\ row' = row
           /\ step' \in [Callers -> DOMAIN Steps]
           /\ left' \in [Callers -> Nat]
           /\ errors' \in [Callers -> BOOLEAN]
           /\ verdict' \in [Callers -> Outcomes \cup {"none", "raised"}]
           /\ \A d \in Callers : pc'[d] = "close" => verdict'[d] \in Outcomes
<1>1. CASE step[c] < Len(Steps)
  BY <1>1, StepsFacts DEF TypeOK, StepDone, Goto, Places, Holding, InCycle, InBody
<1>2. CASE ~(step[c] < Len(Steps))
  BY <1>2, StepsFacts DEF TypeOK, StepDone, EndWith, Goto, Places, Holding, InCycle, InBody, Outcomes
<1>. QED BY <1>1, <1>2

LEMMA TypeStep == TypeOK /\ [Next]_vars => TypeOK'
<1>. SUFFICES ASSUME TypeOK, [Next]_vars PROVE TypeOK'
  OBVIOUS
<1>. USE CallersAssumption
<1>1. ASSUME NEW c \in Callers, Start(c) PROVE TypeOK'
  BY <1>1 DEF TypeOK, Start, TryThreadLock, Goto, Places, Holding
<1>2. ASSUME NEW c \in Callers, Trigger(c) PROVE TypeOK'
  BY <1>2 DEF TypeOK, Trigger, TryThreadLock, Goto, Places, Holding
<1>3. ASSUME NEW c \in Callers, StartManual(c) PROVE TypeOK'
  BY <1>3 DEF TypeOK, StartManual, TryThreadLock, Goto, Places, Holding
<1>4. ASSUME NEW c \in Callers, TryFileLock(c) PROVE TypeOK'
  BY <1>4 DEF TypeOK, TryFileLock, Goto, Places, Holding, InCycle, InBody
<1>5. ASSUME NEW c \in Callers, ReleaseFile(c) PROVE TypeOK'
  BY <1>5 DEF TypeOK, ReleaseFile, Goto, Places, Holding
<1>6. ASSUME NEW c \in Callers, ReleaseThread(c) PROVE TypeOK'
  BY <1>6, StepsFacts DEF TypeOK, ReleaseThread, Forget, AfterException, Goto, Places
<1>7. ASSUME NEW c \in Callers, RecordOverlap(c) PROVE TypeOK'
  BY <1>7, StepsFacts DEF TypeOK, RecordOverlap, Forget, Unused, Goto, Places, Statuses, Outcomes
<1>8. ASSUME NEW c \in Callers, MarkInterrupted(c) PROVE TypeOK'
  BY <1>8 DEF TypeOK, MarkInterrupted, Goto, Places, Holding, InCycle, InBody, Statuses, locks
<1>9. ASSUME NEW c \in Callers, OpenRow(c) PROVE TypeOK'
  BY <1>9 DEF TypeOK, OpenRow, Unused, Goto, Places, Holding, InCycle, InBody, Statuses, locks
<1>10. ASSUME NEW c \in Callers, Gate(c) PROVE TypeOK'
  BY <1>10 DEF TypeOK, Gate, EndWith, Goto, Places, Holding, InCycle, InBody, Outcomes, locks
<1>11. ASSUME NEW c \in Callers, BeginStep(c) PROVE TypeOK'
  <2>1. CASE killed /\ EndWith(c, "aborted")
    BY <1>11, <2>1 DEF TypeOK, BeginStep, EndWith, Goto, Places, Holding, InCycle, InBody, Outcomes, locks
  <2>2. ASSUME NEW failed \in BOOLEAN, StepDone(c, failed) PROVE TypeOK'
    BY <1>11, <2>2, StepDoneTypes DEF TypeOK, BeginStep, locks
  <2>3. ASSUME NEW n \in 1..Budget(c), left' = [left EXCEPT ![c] = n], Goto(c, "items"),
               UNCHANGED <<mode, row, step, errors, verdict>>
        PROVE  TypeOK'
    BY <1>11, <2>3, BudgetIsNat DEF TypeOK, BeginStep, Goto, Places, Holding, InCycle, InBody, locks
  <2>. QED BY <1>11, <2>1, <2>2, <2>3 DEF BeginStep
<1>12. ASSUME NEW c \in Callers, ItemsOver(c) PROVE TypeOK'
  <2>1. CASE EndWith(c, "aborted")
    BY <1>12, <2>1 DEF TypeOK, ItemsOver, EndWith, Goto, Places, Holding, InCycle, InBody, Outcomes, locks
  <2>2. ASSUME NEW failed \in BOOLEAN, StepDone(c, failed) PROVE TypeOK'
    BY <1>12, <2>2, StepDoneTypes DEF TypeOK, ItemsOver, locks
  <2>. QED BY <1>12, <2>1, <2>2 DEF ItemsOver
<1>13. ASSUME NEW c \in Callers, Item(c) PROVE TypeOK'
  BY <1>13 DEF TypeOK, Item, locks
<1>14. ASSUME NEW c \in Callers, SubmissionClaimed(c) PROVE TypeOK'
  BY <1>14 DEF TypeOK, SubmissionClaimed, EndWith, Goto, Places, Holding, InCycle, InBody, Outcomes, locks
<1>15. ASSUME NEW c \in Callers, ExecuteFails(c) PROVE TypeOK'
  BY <1>15 DEF TypeOK, ExecuteFails, EndWith, Goto, Places, Holding, InCycle, InBody, Outcomes, locks
<1>16. ASSUME NEW c \in Callers, CloseRow(c) PROVE TypeOK'
  BY <1>16 DEF TypeOK, CloseRow, Goto, Places, Holding, Statuses, locks
<1>17. ASSUME NEW c \in Callers, CommitFails(c) PROVE TypeOK'
  <2>1. CASE pc[c] # "overlap"
    BY <1>17, <2>1 DEF TypeOK, CommitFails, Goto, Places, Holding, locks
  <2>2. CASE pc[c] = "overlap"
    <3>1. Forget(c, AfterException(c)) /\ UNCHANGED <<locks, ledger, killed, dryRuns>>
      BY <1>17, <2>2 DEF CommitFails
    <3>2. AfterException(c) \in {"idle", "dead"}
      BY DEF AfterException
    <3>. QED
      BY <3>1, <3>2, StepsFacts DEF TypeOK, Forget, Goto, Places, locks
  <2>. QED BY <2>1, <2>2
<1>18. CASE SetKillSwitch
  BY <1>18 DEF TypeOK, SetKillSwitch, locks, calls
<1>19. ASSUME NEW p \in Procs, Crash(p) PROVE TypeOK'
  <2>1. pc' \in [Callers -> Places] /\ mode' \in [Callers -> {"cycle", "probe"}]
    BY <1>19 DEF TypeOK, Crash, Places
  <2>2. step' \in [Callers -> DOMAIN Steps] /\ left' \in [Callers -> Nat]
    BY <1>19, StepsFacts DEF TypeOK, Crash
  <2>3. /\ row' \in [Callers -> CycleIds \cup {NoCycle}]
        /\ errors' \in [Callers -> BOOLEAN]
        /\ verdict' \in [Callers -> Outcomes \cup {"none", "raised"}]
    BY <1>19 DEF TypeOK, Crash
  <2>4. \A d \in Callers : pc'[d] = "close" => verdict'[d] \in Outcomes
    BY <1>19 DEF TypeOK, Crash
  <2>5. threadLock' \in [Procs -> Callers \cup {NoOne}] /\ fileLock' \in Procs \cup {NoProc}
    BY <1>19 DEF TypeOK, Crash
  <2>. QED BY <1>19, <2>1, <2>2, <2>3, <2>4, <2>5 DEF TypeOK, Crash
<1>20. CASE NewDay
  BY <1>20 DEF TypeOK, NewDay, locks, calls
<1>21. CASE UNCHANGED vars
  BY <1>21 DEF TypeOK, vars
<1>22. ASSUME NEW c \in Callers, LockFileFails(c) PROVE TypeOK'
  <2>1. AfterException(c) \in {"idle", "dead"}
    BY DEF AfterException
  <2>. QED BY <1>22, <2>1, StepsFacts DEF TypeOK, LockFileFails, Forget, Goto, Places
<1>. QED
  BY <1>1, <1>2, <1>3, <1>4, <1>5, <1>6, <1>7, <1>8, <1>9, <1>10, <1>11, <1>12, <1>13, <1>14,
     <1>15, <1>16, <1>17, <1>18, <1>19, <1>20, <1>21, <1>22 DEF Next, Work, Run

-----------------------------------------------------------------------------
(* Between OpenRow and CloseRow a cycle keeps its locks, its row and the    *)
(* ledger as they are.                                                      *)

Body(c) ==
    Gate(c) \/ BeginStep(c) \/ ItemsOver(c) \/ Item(c) \/ SubmissionClaimed(c) \/ ExecuteFails(c)

LEMMA BodyStaysInside ==
    ASSUME TypeOK, NEW c \in Callers, Body(c)
    PROVE  /\ pc[c] \in InBody
           /\ pc'[c] \in InBody
           /\ \A d \in Callers : d # c => pc'[d] = pc[d]
           /\ UNCHANGED <<threadLock, fileLock, mode, row, ledger>>
<1>1. CASE Gate(c)
  BY <1>1 DEF TypeOK, Gate, EndWith, Goto, InBody, locks
<1>2. CASE BeginStep(c)
  BY <1>2 DEF TypeOK, BeginStep, StepDone, EndWith, Goto, InBody, locks
<1>3. CASE ItemsOver(c)
  BY <1>3 DEF TypeOK, ItemsOver, StepDone, EndWith, Goto, InBody, locks
<1>4. CASE Item(c)
  BY <1>4 DEF TypeOK, Item, InBody, locks
<1>5. CASE SubmissionClaimed(c)
  BY <1>5 DEF TypeOK, SubmissionClaimed, EndWith, Goto, InBody, locks
<1>6. CASE ExecuteFails(c)
  BY <1>6 DEF TypeOK, ExecuteFails, EndWith, Goto, InBody, locks
<1>. QED BY <1>1, <1>2, <1>3, <1>4, <1>5, <1>6 DEF Body

-----------------------------------------------------------------------------
(* Mutual exclusion                                                        *)

LockInv ==
    \A c \in Callers :
      /\ pc[c] \in Holding => threadLock[ProcOf[c]] = c
      /\ pc[c] \in InCycle \cup {"unlock"} => fileLock = ProcOf[c]
      /\ pc[c] \in InCycle => mode[c] = "cycle"

LEMMA LockInvExcludes ==
    ASSUME LockInv, NEW c \in Callers, NEW d \in Callers,
           pc[c] \in InCycle \cup {"unlock"}, pc[d] \in InCycle \cup {"unlock"}
    PROVE  c = d
BY DEF LockInv, Holding

LEMMA LockStep == TypeOK /\ LockInv /\ [Next]_vars => LockInv'
<1>. SUFFICES ASSUME TypeOK, LockInv, [Next]_vars PROVE LockInv'
  OBVIOUS
<1>. USE CallersAssumption
<1>1. ASSUME NEW c \in Callers, NEW m \in {"cycle", "probe"}, NEW otherwise \in {"idle", "overlap"},
             pc[c] \in {"idle", "ready"}, TryThreadLock(c, m, otherwise)
      PROVE  LockInv'
  BY <1>1 DEF TypeOK, LockInv, TryThreadLock, Goto, Holding, InCycle, InBody
<1>2. ASSUME NEW c \in Callers, TryFileLock(c) PROVE LockInv'
  <2>1. CASE fileLock = NoProc
    BY <1>2, <2>1 DEF TypeOK, LockInv, TryFileLock, Goto, Holding, InCycle, InBody
  <2>2. CASE fileLock # NoProc
    BY <1>2, <2>2 DEF TypeOK, LockInv, TryFileLock, Goto, Holding, InCycle, InBody
  <2>. QED BY <2>1, <2>2
<1>3. ASSUME NEW c \in Callers, ReleaseFile(c) PROVE LockInv'
  <2>1. \A d \in Callers : pc[d] \in InCycle \cup {"unlock"} => d = c
    BY <1>3, LockInvExcludes DEF ReleaseFile
  <2>. QED BY <1>3, <2>1 DEF TypeOK, LockInv, ReleaseFile, Goto, Holding, InCycle, InBody
<1>4. ASSUME NEW c \in Callers, ReleaseThread(c) \/ LockFileFails(c) PROVE LockInv'
  <2>1. threadLock[ProcOf[c]] = c
    BY <1>4 DEF LockInv, ReleaseThread, LockFileFails, Holding
  <2>2. pc'[c] \in {"idle", "ready", "dead"} /\ \A d \in Callers \ {c} : pc'[d] = pc[d] /\ mode'[d] = mode[d]
    BY <1>4 DEF TypeOK, ReleaseThread, LockFileFails, Forget, AfterException, Goto
  <2>3. \A d \in Callers \ {c} : pc[d] \in Holding => ProcOf[d] # ProcOf[c]
    BY <2>1 DEF LockInv
  <2>4. threadLock' = [threadLock EXCEPT ![ProcOf[c]] = NoOne] /\ UNCHANGED fileLock
    BY <1>4 DEF ReleaseThread, LockFileFails
  <2>. QED BY <2>2, <2>3, <2>4 DEF TypeOK, LockInv, Holding, InCycle, InBody
<1>5. ASSUME NEW c \in Callers, RecordOverlap(c) \/ (CommitFails(c) /\ pc[c] = "overlap")
      PROVE  LockInv'
  <2>1. pc'[c] \in {"idle", "dead"} /\ \A d \in Callers \ {c} : pc'[d] = pc[d] /\ mode'[d] = mode[d]
    BY <1>5 DEF TypeOK, RecordOverlap, CommitFails, Forget, AfterException, Goto
  <2>2. UNCHANGED <<threadLock, fileLock>>
    BY <1>5 DEF RecordOverlap, CommitFails, locks
  <2>. QED BY <2>1, <2>2 DEF LockInv, Holding, InCycle, InBody
<1>6. ASSUME NEW c \in Callers, CommitFails(c), pc[c] # "overlap" PROVE LockInv'
  BY <1>6 DEF TypeOK, LockInv, CommitFails, Goto, Holding, InCycle, InBody, locks
<1>7. ASSUME NEW c \in Callers, MarkInterrupted(c) \/ OpenRow(c) \/ CloseRow(c) PROVE LockInv'
  BY <1>7 DEF TypeOK, LockInv, MarkInterrupted, OpenRow, CloseRow, Goto, Holding, InCycle, InBody, locks
<1>8. ASSUME NEW c \in Callers, Body(c) PROVE LockInv'
  BY <1>8, BodyStaysInside DEF LockInv, Holding, InCycle, InBody
<1>9. ASSUME NEW p \in Procs, Crash(p) PROVE LockInv'
  BY <1>9 DEF TypeOK, LockInv, Crash, Holding, InCycle, InBody
<1>10. CASE SetKillSwitch \/ NewDay \/ UNCHANGED vars
  BY <1>10 DEF LockInv, SetKillSwitch, NewDay, locks, calls, vars
<1>. QED
  BY <1>1, <1>2, <1>3, <1>4, <1>5, <1>6, <1>7, <1>8, <1>9, <1>10
     DEF Next, Work, Run, Body, Start, Trigger, StartManual

-----------------------------------------------------------------------------
(* The ledger                                                              *)

LedgerInv ==
    /\ \A a, b \in RunningRows : a = b
    /\ \A c \in Callers : pc[c] = "open" => RunningRows = {}
    /\ \A c \in Callers : pc[c] \in InBody => row[c] \in CycleIds /\ RunningRows = {row[c]}

\* A step that leaves the ledger alone and moves nobody into "open" or the body.
LEMMA LedgerUntouched ==
    ASSUME LedgerInv, UNCHANGED ledger,
           \A d \in Callers : /\ pc'[d] = "open" => pc[d] = "open"
                              /\ pc'[d] \in InBody => pc[d] \in InBody /\ row'[d] = row[d]
    PROVE  LedgerInv'
BY DEF LedgerInv, RunningRows

LEMMA LedgerStep == TypeOK /\ LockInv /\ LedgerInv /\ [Next]_vars => LedgerInv'
<1>. SUFFICES ASSUME TypeOK, LockInv, LedgerInv, [Next]_vars PROVE LedgerInv'
  OBVIOUS
<1>. USE CallersAssumption
<1>1. ASSUME NEW c \in Callers, NEW m \in {"cycle", "probe"}, NEW otherwise \in {"idle", "overlap"},
             TryThreadLock(c, m, otherwise)
      PROVE  LedgerInv'
  BY <1>1, LedgerUntouched DEF TypeOK, TryThreadLock, Goto, InBody
<1>2. ASSUME NEW c \in Callers, TryFileLock(c) \/ ReleaseFile(c) PROVE LedgerInv'
  BY <1>2, LedgerUntouched DEF TypeOK, TryFileLock, ReleaseFile, Goto, InBody
<1>3. ASSUME NEW c \in Callers, ReleaseThread(c) \/ LockFileFails(c) PROVE LedgerInv'
  <2>1. pc'[c] \in {"idle", "ready", "dead"}
    BY <1>3 DEF TypeOK, ReleaseThread, LockFileFails, Forget, AfterException, Goto
  <2>2. \A d \in Callers \ {c} : pc'[d] = pc[d] /\ row'[d] = row[d]
    BY <1>3 DEF TypeOK, ReleaseThread, LockFileFails, Forget, Goto
  <2>3. UNCHANGED ledger
    BY <1>3 DEF ReleaseThread, LockFileFails
  <2>. QED BY <2>1, <2>2, <2>3, LedgerUntouched DEF InBody
<1>4. ASSUME NEW c \in Callers, RecordOverlap(c) PROVE LedgerInv'
  <2>1. pc'[c] = "idle" /\ \A d \in Callers \ {c} : pc'[d] = pc[d] /\ row'[d] = row[d]
    BY <1>4 DEF TypeOK, RecordOverlap, Forget, Goto
  <2>2. RunningRows' = RunningRows
    BY <1>4 DEF TypeOK, RecordOverlap, Unused, RunningRows
  <2>. QED BY <2>1, <2>2 DEF LedgerInv, InBody
<1>5. ASSUME NEW c \in Callers, MarkInterrupted(c) PROVE LedgerInv'
  <2>1. RunningRows' = {}
    BY <1>5 DEF TypeOK, MarkInterrupted, RunningRows
  <2>2. \A d \in Callers : pc'[d] \notin InBody
    <3>1. \A d \in Callers : pc[d] \in InCycle => d = c
      BY <1>5, LockInvExcludes DEF MarkInterrupted, InCycle, InBody
    <3>. QED BY <1>5, <3>1 DEF TypeOK, MarkInterrupted, Goto, InCycle, InBody
  <2>. QED BY <2>1, <2>2 DEF LedgerInv
<1>6. ASSUME NEW c \in Callers, OpenRow(c) PROVE LedgerInv'
  <2>1. \A d \in Callers : pc[d] \in InCycle => d = c
    BY <1>6, LockInvExcludes DEF OpenRow, InCycle
  <2>2. RunningRows = {}
    BY <1>6 DEF LedgerInv, OpenRow
  <2>3. PICK id \in Unused : ledger' = [ledger EXCEPT ![id] = "running"] /\ row' = [row EXCEPT ![c] = id]
    BY <1>6 DEF OpenRow
  <2>4. RunningRows' = {id} /\ row'[c] = id /\ id \in CycleIds
    BY <2>2, <2>3 DEF TypeOK, RunningRows, Unused
  <2>5. pc'[c] = "gate" /\ \A d \in Callers \ {c} : pc'[d] = pc[d]
    BY <1>6 DEF TypeOK, OpenRow, Goto
  <2>. QED BY <2>1, <2>4, <2>5 DEF LedgerInv, InCycle, InBody
<1>7. ASSUME NEW c \in Callers, CloseRow(c) PROVE LedgerInv'
  <2>1. \A d \in Callers : pc[d] \in InCycle => d = c
    BY <1>7, LockInvExcludes DEF CloseRow, InCycle, InBody
  <2>2. RunningRows = {row[c]} /\ row[c] \in CycleIds /\ verdict[c] # "running"
    BY <1>7 DEF TypeOK, LedgerInv, CloseRow, InBody, Outcomes
  <2>3. RunningRows' = {}
    BY <1>7, <2>2 DEF TypeOK, CloseRow, RunningRows
  <2>4. \A d \in Callers : pc'[d] \notin InBody
    BY <1>7, <2>1 DEF TypeOK, CloseRow, Goto, InCycle, InBody
  <2>. QED BY <2>3, <2>4 DEF LedgerInv
<1>8. ASSUME NEW c \in Callers, Body(c) PROVE LedgerInv'
  BY <1>8, BodyStaysInside, LedgerUntouched DEF InBody
<1>9. ASSUME NEW c \in Callers, CommitFails(c) PROVE LedgerInv'
  <2>1. pc'[c] \in {"unlock", "idle", "dead"}
    BY <1>9 DEF TypeOK, CommitFails, Forget, AfterException, Goto
  <2>2. \A d \in Callers \ {c} : pc'[d] = pc[d] /\ row'[d] = row[d]
    BY <1>9 DEF TypeOK, CommitFails, Forget, Goto
  <2>3. UNCHANGED ledger
    BY <1>9 DEF CommitFails
  <2>. QED BY <2>1, <2>2, <2>3, LedgerUntouched DEF InBody
<1>10. ASSUME NEW p \in Procs, Crash(p) PROVE LedgerInv'
  <2>1. \A d \in Callers : pc'[d] = "idle" \/ (pc'[d] = pc[d] /\ row'[d] = row[d])
    BY <1>10 DEF TypeOK, Crash
  <2>2. UNCHANGED ledger
    BY <1>10 DEF Crash
  <2>. QED BY <2>1, <2>2, LedgerUntouched DEF InBody
<1>11. CASE SetKillSwitch \/ NewDay \/ UNCHANGED vars
  BY <1>11, LedgerUntouched DEF SetKillSwitch, NewDay, calls, vars
<1>. QED
  BY <1>1, <1>2, <1>3, <1>4, <1>5, <1>6, <1>7, <1>8, <1>9, <1>10, <1>11
     DEF Next, Work, Run, Body, Start, Trigger, StartManual

-----------------------------------------------------------------------------
(* Theorems                                                                *)

Inv == TypeOK /\ LockInv /\ LedgerInv

LEMMA InitInv == Init => Inv
<1>. SUFFICES ASSUME Init PROVE Inv
  OBVIOUS
<1>1. TypeOK
  <2>1. 1 \in DOMAIN Steps
    BY StepsFacts
  <2>2. "none" \in Statuses /\ "idle" \in Places
    BY DEF Statuses, Places
  <2>3. pc \in [Callers -> Places] /\ step \in [Callers -> DOMAIN Steps]
    BY <2>1, <2>2 DEF Init
  <2>4. /\ mode \in [Callers -> {"cycle", "probe"}]
        /\ row \in [Callers -> CycleIds \cup {NoCycle}]
        /\ left \in [Callers -> Nat]
        /\ errors \in [Callers -> BOOLEAN]
        /\ verdict \in [Callers -> Outcomes \cup {"none", "raised"}]
        /\ \A c \in Callers : pc[c] = "close" => verdict[c] \in Outcomes
    BY DEF Init
  <2>5. /\ threadLock \in [Procs -> Callers \cup {NoOne}]
        /\ fileLock \in Procs \cup {NoProc}
        /\ ledger \in [CycleIds -> Statuses]
        /\ killed \in BOOLEAN /\ dryRuns \in Nat
    BY <2>2 DEF Init
  <2>. QED BY <2>3, <2>4, <2>5 DEF TypeOK
<1>2. LockInv
  BY DEF Init, LockInv, Holding, InCycle, InBody
<1>3. LedgerInv
  BY DEF Init, LedgerInv, RunningRows, InBody
<1>. QED BY <1>1, <1>2, <1>3 DEF Inv

LEMMA InvStep == Inv /\ [Next]_vars => Inv'
BY TypeStep, LockStep, LedgerStep DEF Inv

LEMMA Invariance == Spec => []Inv
BY InitInv, InvStep, PTL DEF Spec

(***************************************************************************)
(* The variables of the scheduler have their types, for any processes,     *)
(* threads and limits.                                                     *)
(***************************************************************************)
THEOREM TypeCorrect == Spec => []TypeOK
BY Invariance, PTL DEF Inv

(***************************************************************************)
(* cycle.py:20: cycles never overlap, whatever crashes, commits that fail  *)
(* and probes of busy() come in between.                                   *)
(***************************************************************************)
THEOREM NoOverlap == Spec => []CyclesNeverOverlap
<1>1. Inv => CyclesNeverOverlap
  BY LockInvExcludes DEF Inv, CyclesNeverOverlap
<1>. QED BY <1>1, Invariance, PTL

(***************************************************************************)
(* At most one row of scheduler_cycles says "running".                     *)
(***************************************************************************)
THEOREM OneRunningRow == Spec => []AtMostOneRunning
<1>1. Inv => AtMostOneRunning
  BY DEF Inv, LedgerInv, AtMostOneRunning
<1>. QED BY <1>1, Invariance, PTL

(***************************************************************************)
(* cycle.py:221: _mark_interrupted never writes off the row of a cycle     *)
(* that is still running.                                                  *)
(***************************************************************************)
THEOREM LiveRowsAreKept == Spec => LiveCycleNotInterrupted
<1>1. ASSUME Inv, [Next]_vars, NEW c \in Callers, pc[c] \in InBody
      PROVE  ledger'[row[c]] # "interrupted"
  <2>1. row[c] \in CycleIds /\ ledger[row[c]] = "running"
    BY <1>1 DEF Inv, LedgerInv, RunningRows
  <2>2. ASSUME NEW d \in Callers, RecordOverlap(d) PROVE ledger'[row[c]] = "running"
    BY <2>1, <2>2 DEF RecordOverlap, Unused, Inv, TypeOK
  <2>3. ASSUME NEW d \in Callers, MarkInterrupted(d) \/ OpenRow(d) PROVE FALSE
    BY <1>1, <2>3, LockInvExcludes DEF MarkInterrupted, OpenRow, Inv, InCycle, InBody
  <2>4. ASSUME NEW d \in Callers, CloseRow(d) PROVE ledger'[row[c]] # "interrupted"
    <3>1. pc[d] = "close" /\ ledger' = [ledger EXCEPT ![row[d]] = verdict[d]]
      BY <2>4 DEF CloseRow
    <3>2. c = d
      BY <1>1, <3>1, LockInvExcludes DEF Inv, InCycle, InBody
    <3>3. verdict[d] \in Outcomes
      BY <1>1, <3>1 DEF Inv, TypeOK
    <3>4. ledger'[row[c]] = verdict[d]
      BY <1>1, <2>1, <3>1, <3>2 DEF Inv, TypeOK
    <3>. QED BY <3>3, <3>4 DEF Outcomes
  <2>5. ASSUME NEW d \in Callers, Body(d) PROVE UNCHANGED ledger
    BY <1>1, <2>5, BodyStaysInside DEF Inv
  <2>6. ASSUME NEW d \in Callers,
               Start(d) \/ Trigger(d) \/ StartManual(d) \/ TryFileLock(d) \/ ReleaseFile(d)
                 \/ ReleaseThread(d) \/ LockFileFails(d) \/ CommitFails(d)
        PROVE  UNCHANGED ledger
    BY <2>6 DEF Start, Trigger, StartManual, TryThreadLock, TryFileLock, ReleaseFile,
                ReleaseThread, LockFileFails, CommitFails
  <2>7. SetKillSwitch \/ NewDay \/ (\E p \in Procs : Crash(p)) \/ UNCHANGED vars => UNCHANGED ledger
    BY DEF SetKillSwitch, NewDay, Crash, vars
  <2>. QED
    BY <1>1, <2>1, <2>2, <2>3, <2>4, <2>5, <2>6, <2>7 DEF Next, Work, Run, Body
<1>2. Inv /\ [Next]_vars
        => [\A c \in Callers : pc[c] \in InBody => ledger'[row[c]] # "interrupted"]_vars
  BY <1>1
<1>. QED
  BY <1>2, Invariance, PTL DEF Spec, LiveCycleNotInterrupted

-----------------------------------------------------------------------------
(* The daily cap                                                           *)

\* What a cycle has left to dry-run still fits under the cap.
CapInv ==
    /\ DailyCapHolds
    /\ \A c \in Callers :
         pc[c] = "items" /\ Steps[step[c]] = "dry_run" => dryRuns + left[c] <= MaxDryRuns

LEMMA CapStep == Inv /\ CapInv /\ [Next]_vars => CapInv'
<1>. SUFFICES ASSUME Inv, CapInv, [Next]_vars PROVE CapInv'
  OBVIOUS
<1>. USE LimitsAssumption DEF CapInv, DailyCapHolds
<1>0. TypeOK
  BY DEF Inv
\* Whoever is not in its items before a step that leaves dryRuns alone has no claim.
<1>1. ASSUME UNCHANGED dryRuns,
             \A d \in Callers : pc'[d] = "items" =>
               pc[d] = "items" /\ step'[d] = step[d] /\ left'[d] = left[d]
      PROVE  CapInv'
  BY <1>1
<1>2. ASSUME NEW c \in Callers,
             Start(c) \/ Trigger(c) \/ StartManual(c) \/ TryFileLock(c) \/ ReleaseFile(c)
               \/ MarkInterrupted(c) \/ OpenRow(c) \/ CloseRow(c)
      PROVE  CapInv'
  BY <1>0, <1>1, <1>2 DEF TypeOK, Start, Trigger, StartManual, TryThreadLock, TryFileLock,
     ReleaseFile, MarkInterrupted, OpenRow, CloseRow, Goto
<1>3. ASSUME NEW c \in Callers,
             ReleaseThread(c) \/ LockFileFails(c) \/ RecordOverlap(c) \/ CommitFails(c)
      PROVE  CapInv'
  <2>1. pc'[c] # "items" /\ \A d \in Callers \ {c} : /\ pc'[d] = pc[d]
                                                     /\ step'[d] = step[d]
                                                     /\ left'[d] = left[d]
    BY <1>0, <1>3 DEF TypeOK, ReleaseThread, LockFileFails, RecordOverlap, CommitFails, Forget,
                      AfterException, Goto
  <2>2. UNCHANGED dryRuns
    BY <1>3 DEF ReleaseThread, LockFileFails, RecordOverlap, CommitFails
  <2>. QED BY <1>1, <2>1, <2>2
<1>4. ASSUME NEW c \in Callers, Gate(c) \/ ExecuteFails(c) PROVE CapInv'
  BY <1>0, <1>1, <1>4 DEF TypeOK, Gate, ExecuteFails, EndWith, Goto
<1>5. ASSUME NEW c \in Callers, NEW failed \in BOOLEAN, StepDone(c, failed), UNCHANGED dryRuns
      PROVE  CapInv'
  BY <1>0, <1>1, <1>5 DEF TypeOK, StepDone, EndWith, Goto
<1>6. ASSUME NEW c \in Callers, BeginStep(c) PROVE CapInv'
  <2>1. CASE EndWith(c, "aborted")
    BY <1>0, <1>1, <1>6, <2>1 DEF TypeOK, BeginStep, EndWith, Goto
  <2>2. ASSUME NEW n \in 1..Budget(c), left' = [left EXCEPT ![c] = n], Goto(c, "items"),
               UNCHANGED <<mode, row, step, errors, verdict>>
        PROVE  CapInv'
    <3>1. UNCHANGED dryRuns
      BY <1>6 DEF BeginStep
    <3>2. Steps[step[c]] = "dry_run" => dryRuns + n <= MaxDryRuns
      <4>1. Budget(c) \in Nat
        BY <1>0, BudgetIsNat
      <4>2. Steps[step[c]] = "dry_run" => Budget(c) <= Remaining
        BY <1>0 DEF Budget, Remaining, TypeOK
      <4>3. Remaining = MaxDryRuns - dryRuns
        BY <1>0 DEF Remaining, TypeOK
      <4>. QED BY <1>0, <4>1, <4>2, <4>3 DEF TypeOK
    <3>3. left'[c] = n /\ step'[c] = step[c]
      BY <1>0, <2>2 DEF TypeOK
    <3>4. \A d \in Callers \ {c} : pc'[d] = pc[d] /\ left'[d] = left[d] /\ step'[d] = step[d]
      BY <1>0, <2>2 DEF TypeOK, Goto
    <3>. QED BY <3>1, <3>2, <3>3, <3>4
  <2>. QED BY <1>5, <1>6, <2>1, <2>2 DEF BeginStep
<1>7. ASSUME NEW c \in Callers, ItemsOver(c) PROVE CapInv'
  <2>1. CASE EndWith(c, "aborted")
    BY <1>0, <1>1, <1>7, <2>1 DEF TypeOK, ItemsOver, EndWith, Goto
  <2>. QED BY <1>5, <1>7, <2>1 DEF ItemsOver
<1>8. ASSUME NEW c \in Callers, Item(c) \/ SubmissionClaimed(c) PROVE CapInv'
  <2>1. \A d \in Callers : pc[d] = "items" => d = c
    BY <1>8, LockInvExcludes DEF Item, SubmissionClaimed, Inv, InCycle, InBody
  <2>2. CASE Item(c)
    BY <1>0, <2>1, <2>2 DEF TypeOK, Item
  <2>3. CASE SubmissionClaimed(c)
    BY <1>0, <2>1, <2>3 DEF TypeOK, SubmissionClaimed, EndWith, Goto
  <2>. QED BY <1>8, <2>2, <2>3
<1>9. ASSUME NEW p \in Procs, Crash(p) PROVE CapInv'
  BY <1>0, <1>1, <1>9 DEF TypeOK, Crash
<1>10. CASE SetKillSwitch \/ UNCHANGED vars
  BY <1>1, <1>10 DEF SetKillSwitch, calls, vars
<1>11. CASE NewDay
  BY <1>0, <1>11 DEF TypeOK, NewDay, calls
<1>. QED
  BY <1>2, <1>3, <1>4, <1>6, <1>7, <1>8, <1>9, <1>10, <1>11 DEF Next, Work, Run

(***************************************************************************)
(* cycle.py:14: as long as only cycles dry-run, the number of dry runs of  *)
(* a day stays within the cap, over midnight too.                          *)
(***************************************************************************)
THEOREM CapIsRespected == Spec => []DailyCapHolds
<1>1. Init => CapInv
  BY LimitsAssumption DEF Init, CapInv, DailyCapHolds
<1>. QED
  BY <1>1, CapStep, Invariance, PTL DEF Spec, CapInv

-----------------------------------------------------------------------------
(* The implementation of CycleLedger                                       *)

\* Who is in a cycle has the turn, and nobody has it when nobody is.
TurnMeaning ==
    /\ \A c \in Callers : LockInv /\ HasTurn(c) => Turn = c
    /\ (\A c \in Callers : ~HasTurn(c)) => Turn = NoOne

LEMMA TurnNow == TurnMeaning
<1>1. ASSUME NEW c \in Callers, LockInv, HasTurn(c) PROVE Turn = c
  <2>1. \A d \in Callers : HasTurn(d) => d = c
    BY <1>1, LockInvExcludes DEF HasTurn
  <2>. QED BY <1>1, <2>1 DEF Turn
<1>2. ASSUME \A c \in Callers : ~HasTurn(c) PROVE Turn = NoOne
  BY <1>2 DEF Turn
<1>. QED BY <1>1, <1>2 DEF TurnMeaning

LEMMA TurnAfter == TurnMeaning'
BY TurnNow, PTL

LEMMA TurnKept ==
    ASSUME LockInv, LockInv', \A c \in Callers : HasTurn(c)' <=> HasTurn(c)
    PROVE  Turn' = Turn
<1>1. CASE \E c \in Callers : HasTurn(c)
  BY <1>1, TurnNow, TurnAfter DEF TurnMeaning
<1>2. CASE \A c \in Callers : ~HasTurn(c)
  BY <1>2, TurnNow, TurnAfter DEF TurnMeaning
<1>. QED BY <1>1, <1>2

LEMMA LedgerImplemented == Inv /\ Inv' /\ [Next]_vars => [Promise!Next]_(Promise!vars)
<1>. SUFFICES ASSUME Inv, Inv', [Next]_vars PROVE [Promise!Next]_(Promise!vars)
  OBVIOUS
<1>. USE CallersAssumption
<1>0. TypeOK /\ LockInv /\ LedgerInv /\ LockInv'
  BY DEF Inv
\* The steps that change neither the ledger nor who has the turn.
<1>1. ASSUME UNCHANGED ledger, \A d \in Callers : HasTurn(d)' <=> HasTurn(d)
      PROVE  UNCHANGED Promise!vars
  BY <1>0, <1>1, TurnKept DEF Promise!vars
<1>2. ASSUME NEW c \in Callers, Start(c) \/ Trigger(c) \/ StartManual(c) PROVE UNCHANGED Promise!vars
  BY <1>0, <1>1, <1>2 DEF TypeOK, Start, Trigger, StartManual, TryThreadLock, Goto, HasTurn, InCycle, InBody
<1>3. ASSUME NEW c \in Callers, TryFileLock(c) PROVE [Promise!Next]_(Promise!vars)
  <2>1. CASE fileLock = NoProc /\ mode[c] = "cycle"
    <3>1. \A d \in Callers : ~HasTurn(d)
      BY <1>0, <2>1 DEF LockInv, HasTurn
    <3>2. HasTurn(c)'
      BY <1>0, <1>3, <2>1 DEF TypeOK, TryFileLock, Goto, HasTurn, InCycle
    <3>3. Turn = NoOne /\ Turn' = c
      BY <1>0, <3>1, <3>2, TurnNow, TurnAfter DEF TurnMeaning
    <3>. QED BY <1>3, <3>3 DEF TryFileLock, Promise!Next, Promise!Enter
  <2>2. CASE ~(fileLock = NoProc /\ mode[c] = "cycle")
    BY <1>0, <1>1, <1>3, <2>2 DEF TypeOK, TryFileLock, Goto, HasTurn, InCycle, InBody
  <2>. QED BY <2>1, <2>2
<1>4. ASSUME NEW c \in Callers, ReleaseFile(c) PROVE [Promise!Next]_(Promise!vars)
  <2>1. \A d \in Callers : HasTurn(d) => d = c
    BY <1>0, <1>4, LockInvExcludes DEF ReleaseFile, HasTurn
  <2>2. \A d \in Callers : ~HasTurn(d)'
    BY <1>0, <1>4, <2>1 DEF TypeOK, ReleaseFile, Goto, HasTurn, InCycle, InBody
  <2>3. CASE HasTurn(c)
    <3>1. Turn = c /\ Turn' = NoOne
      BY <1>0, <2>2, <2>3, TurnNow, TurnAfter DEF TurnMeaning
    <3>. QED BY <1>4, <3>1 DEF ReleaseFile, Promise!Next, Promise!Leave
  <2>4. CASE ~HasTurn(c)
    BY <1>1, <1>4, <2>1, <2>2, <2>4 DEF ReleaseFile
  <2>. QED BY <2>3, <2>4
<1>5. ASSUME NEW c \in Callers,
             ReleaseThread(c) \/ LockFileFails(c) \/ (CommitFails(c) /\ pc[c] = "overlap")
      PROVE  UNCHANGED Promise!vars
  <2>1. ~HasTurn(c) /\ ~HasTurn(c)' /\ UNCHANGED ledger
    BY <1>0, <1>5 DEF TypeOK, ReleaseThread, LockFileFails, CommitFails, Forget, AfterException, Goto,
                      HasTurn, InCycle, InBody
  <2>2. \A d \in Callers \ {c} : HasTurn(d)' <=> HasTurn(d)
    BY <1>0, <1>5 DEF TypeOK, ReleaseThread, LockFileFails, CommitFails, Forget, Goto, HasTurn
  <2>. QED BY <1>1, <2>1, <2>2
<1>6. ASSUME NEW c \in Callers, CommitFails(c), pc[c] # "overlap" PROVE UNCHANGED Promise!vars
  BY <1>0, <1>1, <1>6 DEF TypeOK, LockInv, CommitFails, Goto, HasTurn, InCycle, InBody
<1>7. ASSUME NEW c \in Callers, RecordOverlap(c) PROVE Promise!Next
  <2>1. ~HasTurn(c) /\ ~HasTurn(c)' /\ \A d \in Callers \ {c} : HasTurn(d)' <=> HasTurn(d)
    BY <1>0, <1>7 DEF TypeOK, RecordOverlap, Forget, Goto, HasTurn, InCycle, InBody
  <2>2. Turn' = Turn
    BY <1>0, <2>1, TurnKept
  <2>. QED BY <1>7, <2>2 DEF RecordOverlap, Unused, Promise!Next, Promise!Skip
<1>8. ASSUME NEW c \in Callers, pc[c] \in InCycle,
             UNCHANGED mode, pc'[c] \in InCycle \cup {"unlock"}, \A d \in Callers \ {c} : pc'[d] = pc[d]
      PROVE  Turn = c /\ Turn' = c
  <2>1. HasTurn(c) /\ HasTurn(c)'
    BY <1>0, <1>8 DEF LockInv, HasTurn
  <2>. QED BY <1>0, <2>1, TurnNow, TurnAfter DEF TurnMeaning
<1>9. ASSUME NEW c \in Callers, MarkInterrupted(c) PROVE Promise!Next
  <2>1. Turn = c /\ Turn' = c
    BY <1>0, <1>8, <1>9 DEF TypeOK, MarkInterrupted, Goto, InCycle
  <2>. QED BY <1>9, <2>1 DEF MarkInterrupted, Promise!Next, Promise!Sweep
<1>10. ASSUME NEW c \in Callers, OpenRow(c) PROVE Promise!Next
  <2>1. Turn = c /\ Turn' = c
    BY <1>0, <1>8, <1>10 DEF TypeOK, OpenRow, Goto, InCycle, InBody
  <2>2. Promise!RunningRows = {}
    BY <1>0, <1>10 DEF OpenRow, LedgerInv, RunningRows, Promise!RunningRows
  <2>. QED BY <1>10, <2>1, <2>2 DEF OpenRow, Unused, Promise!Next, Promise!Open
<1>11. ASSUME NEW c \in Callers, CloseRow(c) PROVE Promise!Next
  <2>1. Turn = c /\ Turn' = c
    BY <1>0, <1>8, <1>11 DEF TypeOK, CloseRow, Goto, InCycle, InBody
  <2>2. row[c] \in CycleIds /\ ledger[row[c]] = "running" /\ verdict[c] \in Promise!Outcomes
    BY <1>0, <1>11 DEF TypeOK, LedgerInv, CloseRow, InBody, RunningRows, Outcomes, Promise!Outcomes
  <2>3. Promise!Close(row[c])
    BY <1>11, <2>1, <2>2 DEF CloseRow, Promise!Close
  <2>. QED BY <2>2, <2>3 DEF Promise!Next
<1>12. ASSUME NEW c \in Callers, Body(c) PROVE UNCHANGED Promise!vars
  <2>1. Turn = c /\ Turn' = c
    BY <1>0, <1>8, <1>12, BodyStaysInside DEF InCycle
  <2>. QED BY <1>0, <1>12, <2>1, BodyStaysInside DEF Promise!vars
<1>13. ASSUME NEW p \in Procs, Crash(p) PROVE [Promise!Next]_(Promise!vars)
  <2>1. \A d \in Callers : IF ProcOf[d] = p THEN ~HasTurn(d)' ELSE HasTurn(d)' <=> HasTurn(d)
    BY <1>0, <1>13 DEF TypeOK, Crash, HasTurn, InCycle, InBody
  <2>2. UNCHANGED ledger
    BY <1>13 DEF Crash
  <2>3. CASE \E c \in Callers : HasTurn(c) /\ ProcOf[c] = p
    <3>1. PICK c \in Callers : HasTurn(c) /\ ProcOf[c] = p
      BY <2>3
    <3>2. \A d \in Callers : HasTurn(d) => d = c
      BY <1>0, <3>1, LockInvExcludes DEF HasTurn
    <3>3. Turn = c /\ Turn' = NoOne
      BY <1>0, <2>1, <3>1, <3>2, TurnNow, TurnAfter DEF TurnMeaning
    <3>. QED BY <2>2, <3>3 DEF Promise!Next, Promise!Leave
  <2>4. CASE ~ \E c \in Callers : HasTurn(c) /\ ProcOf[c] = p
    BY <1>1, <2>1, <2>2, <2>4
  <2>. QED BY <2>3, <2>4
<1>14. CASE SetKillSwitch \/ NewDay \/ UNCHANGED vars
  BY <1>1, <1>14 DEF SetKillSwitch, NewDay, calls, vars, HasTurn
<1>. QED
  BY <1>2, <1>3, <1>4, <1>5, <1>6, <1>7, <1>9, <1>10, <1>11, <1>12, <1>13, <1>14
     DEF Next, Work, Run, Body

(***************************************************************************)
(* The two locks and the ledger kept under them implement CycleLedger: one *)
(* cycle at a time, every row opened, closed or written off in its turn.   *)
(***************************************************************************)
THEOREM RunnerImplementsLedger == Spec => ImplementsLedger
<1>1. Init => Promise!Init
  <2>1. Init => Turn = NoOne
    BY TurnNow DEF Init, TurnMeaning, HasTurn, InCycle, InBody
  <2>. QED BY <2>1 DEF Init, Promise!Init
<1>. QED
  BY <1>1, LedgerImplemented, Invariance, PTL
     DEF Spec, ImplementsLedger, Promise!Spec
=============================================================================
