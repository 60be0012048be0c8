------------------------- MODULE AutonomousRunProofs -------------------------
(***************************************************************************)
(* Theorems about AutonomousRun, for any postings, bounds and runners.     *)
(***************************************************************************)
EXTENDS AutonomousRun, TLAPS

-----------------------------------------------------------------------------
(* Type correctness                                                        *)

LEMMA StagesUsed ==
    {"discovered", "scored", "shortlisted", "ready_to_apply", "review", "needs_review",
     "rejected", "closed", "submitted"} \subseteq Stages
<1>. DEFINE here == {1, 4, 5, 6, 11, 15, 17, 19, 23}
<1>1. DOMAIN StageOrder = 1..23
  BY DEF StageOrder
<1>2. \A i \in here : StageOrder[i] \in Stages
  BY <1>1 DEF Stages
<1>3. /\ StageOrder[1] = "discovered" /\ StageOrder[4] = "review" /\ StageOrder[5] = "scored"
      /\ StageOrder[6] = "shortlisted" /\ StageOrder[11] = "ready_to_apply"
      /\ StageOrder[15] = "needs_review" /\ StageOrder[17] = "submitted"
      /\ StageOrder[19] = "rejected" /\ StageOrder[23] = "closed"
  BY DEF StageOrder
<1>. QED BY <1>2, <1>3

LEMMA AsleepIsRun == Asleep \in Run
BY StagesUsed, AutonomousAssumption DEF Asleep, Run, Places, Pages, Results

LEMMA InitType == Init => TypeOK
<1>. SUFFICES ASSUME Init PROVE TypeOK
  OBVIOUS
<1>1. Asleep.cur = NoJob /\ Asleep.pc = "idle"
  BY DEF Asleep
<1>2. /\ run \in [Runners -> Run]
      /\ \A r \in Runners : (run[r].cur = NoJob) <=> (run[r].pc \in {"idle", "loop"})
  BY <1>1, AsleepIsRun DEF Init
<1>3. stage \in [Jobs -> Stages] /\ received \in [Jobs -> Nat] /\ won \in [Runners -> SUBSET Jobs]
  BY AutonomousAssumption DEF Init
<1>. QED BY <1>2, <1>3 DEF Init, TypeOK

\* A step that changes the run of one runner, to a run.
LEMMA OneRun ==
    ASSUME TypeOK, NEW r \in Runners, NEW rec \in Run,
           run' = [run EXCEPT ![r] = rec],
           (rec.cur = NoJob) <=> (rec.pc \in {"idle", "loop"})
    PROVE  /\ run' \in [Runners -> Run]
           /\ \A q \in Runners : (run'[q].cur = NoJob) <=> (run'[q].pc \in {"idle", "loop"})
BY DEF TypeOK

LEMMA ReleasedIsRun ==
    ASSUME NEW rec \in Run, NEW failed \in BOOLEAN
    PROVE  /\ Released(rec, failed) \in Run
           /\ Released(rec, failed).cur = NoJob /\ Released(rec, failed).pc \in {"idle", "loop"}
<1>1. rec.done \in Nat /\ rec.errors \in Nat /\ rec.armed \in BOOLEAN
      /\ rec.held \in [Jobs -> Stages] /\ rec.todo \in SUBSET Jobs
  BY DEF Run
<1>2. CASE rec.single
  BY <1>2, AsleepIsRun DEF Released, Asleep
<1>3. CASE ~rec.single
  <2>. DEFINE done == IF failed THEN rec.done ELSE rec.done + 1
              errors == IF failed THEN rec.errors + 1 ELSE rec.errors
              new == [Asleep EXCEPT !.pc = "loop", !.armed = rec.armed, !.held = rec.held,
                                    !.todo = rec.todo, !.done = done, !.errors = errors]
  <2>1. done \in Nat /\ errors \in Nat
    BY <1>1
  <2>2. Released(rec, failed) = new
    BY <1>3 DEF Released
  <2>. HIDE DEF done, errors
  <2>3. new \in Run /\ new.cur = NoJob /\ new.pc = "loop"
    BY <1>1, <2>1, AsleepIsRun DEF Run, Places, Asleep
  <2>. QED BY <2>2, <2>3
<1>. QED BY <1>2, <1>3

LEMMA FreshIsRun ==
    ASSUME NEW rec \in Run, NEW j \in Jobs, NEW agreed \in BOOLEAN
    PROVE  /\ Fresh(rec, j, agreed) \in Run
           /\ Fresh(rec, j, agreed).cur = j /\ Fresh(rec, j, agreed).pc = "tailor"
BY DEF Fresh, Run, Places

LEMMA StartType == ASSUME TypeOK, NEW r \in Runners, Start(r) PROVE TypeOK'
<1>1. stage' \in [Jobs -> Stages] /\ task' \subseteq Jobs
  BY StagesUsed DEF Start, TypeOK
<1>. DEFINE rec == [Asleep EXCEPT !.pc = "loop", !.armed = live, !.held = stage',
                                  !.todo = {j \in Jobs : stage'[j] \in Queue}]
<1>2. rec \in Run /\ rec.cur = NoJob /\ rec.pc = "loop"
  BY <1>1, AsleepIsRun DEF TypeOK, Run, Places, Asleep
<1>3. run' = [run EXCEPT ![r] = rec]
  BY DEF Start
<1>. HIDE DEF rec
<1>4. run' \in [Runners -> Run] /\ \A q \in Runners : (run'[q].cur = NoJob) <=> (run'[q].pc \in {"idle", "loop"})
  BY <1>2, <1>3, OneRun
<1>. QED BY <1>1, <1>4 DEF Start, TypeOK, switches

LEMMA LoopType ==
    ASSUME TypeOK, NEW r \in Runners, NEW j \in Jobs, Stop(r) \/ Skip(r, j) \/ Take(r, j) \/ RunJob(r, j)
    PROVE  TypeOK'
<1>0. run[r] \in Run
  BY DEF TypeOK
<1>1. CASE Stop(r)
  <2>1. run' \in [Runners -> Run] /\ \A q \in Runners : (run'[q].cur = NoJob) <=> (run'[q].pc \in {"idle", "loop"})
    BY <1>1, AsleepIsRun DEF Stop, TypeOK, Asleep
  <2>. QED BY <1>1, <2>1 DEF Stop, TypeOK, switches
<1>2. CASE Skip(r, j)
  <2>1. run' \in [Runners -> Run] /\ \A q \in Runners : (run'[q].cur = NoJob) <=> (run'[q].pc \in {"idle", "loop"})
    BY <1>2, <1>0 DEF Skip, TypeOK, Run
  <2>2. stage' \in [Jobs -> Stages] /\ task' \subseteq Jobs
    BY <1>2, StagesUsed DEF Skip, TypeOK
  <2>. QED BY <1>2, <2>1, <2>2 DEF Skip, TypeOK, switches
<1>3. CASE Take(r, j)
  <2>. DEFINE rec == Fresh(run[r], j, run[r].armed /\ live)
  <2>1. rec \in Run /\ rec.cur = j /\ rec.pc = "tailor"
    BY <1>0, FreshIsRun
  <2>2. run' = [run EXCEPT ![r] = rec]
    BY <1>3 DEF Take
  <2>. HIDE DEF rec
  <2>3. j # NoJob
    BY AutonomousAssumption
  <2>4. run' \in [Runners -> Run] /\ \A q \in Runners : (run'[q].cur = NoJob) <=> (run'[q].pc \in {"idle", "loop"})
    BY <2>1, <2>2, <2>3, OneRun
  <2>. QED BY <1>3, <2>4 DEF Take, TypeOK, switches
<1>4. CASE RunJob(r, j)
  <2>. DEFINE base == [Asleep EXCEPT !.held = stage, !.single = TRUE]
              rec == Fresh(base, j, FALSE)
  <2>0. base \in Run
    BY AsleepIsRun DEF Run, TypeOK
  <2>1. rec \in Run /\ rec.cur = j /\ rec.pc = "tailor"
    BY <2>0, FreshIsRun
  <2>2. run' = [run EXCEPT ![r] = rec]
    BY <1>4 DEF RunJob
  <2>. HIDE DEF rec
  <2>3. j # NoJob
    BY AutonomousAssumption
  <2>4. run' \in [Runners -> Run] /\ \A q \in Runners : (run'[q].cur = NoJob) <=> (run'[q].pc \in {"idle", "loop"})
    BY <2>1, <2>2, <2>3, OneRun
  <2>5. won' \in [Runners -> SUBSET Jobs]
    BY <1>4 DEF RunJob, TypeOK
  <2>. QED BY <1>4, <2>4, <2>5 DEF RunJob, TypeOK, switches
<1>. QED BY <1>1, <1>2, <1>3, <1>4

\* Steps of a browser session change one run alone, and leave the rest.
LEMMA SessionType ==
    ASSUME TypeOK, NEW r \in Runners, NEW rec \in Run, run' = [run EXCEPT ![r] = rec],
           (rec.cur = NoJob) <=> (rec.pc \in {"idle", "loop"}),
           UNCHANGED <<stage, task, switches, won>>,
           received' \in [Jobs -> Nat], reopened' \subseteq Jobs
    PROVE  TypeOK'
<1>1. run' \in [Runners -> Run] /\ \A q \in Runners : (run'[q].cur = NoJob) <=> (run'[q].pc \in {"idle", "loop"})
  BY OneRun
<1>. QED BY <1>1 DEF TypeOK, switches

LEMMA PreparingType ==
    ASSUME TypeOK, NEW r \in Runners, Tailor(r) \/ FetchForm(r) \/ Fill(r) \/ Click(r) \/ Shot(r)
    PROVE  TypeOK'
<1>. DEFINE old == run[r]
<1>0. old \in Run /\ ((old.cur = NoJob) <=> (old.pc \in {"idle", "loop"})) /\ reopened \subseteq Jobs
      /\ received \in [Jobs -> Nat]
  BY DEF TypeOK
<1>1. Released(old, TRUE) \in Run /\ Released(old, TRUE).cur = NoJob
      /\ Released(old, TRUE).pc \in {"idle", "loop"}
  BY <1>0, ReleasedIsRun
<1>2. UNCHANGED <<stage, task, received, switches, won, reopened>>
  BY DEF Tailor, FetchForm, Fill, Click, Shot
<1>3. \E rec \in Run : /\ run' = [run EXCEPT ![r] = rec]
                       /\ (rec.cur = NoJob) <=> (rec.pc \in {"idle", "loop"})
  <2>1. CASE Tailor(r)
    <3>1. CASE run' = [run EXCEPT ![r].pc = "fetch"]
      <4>1. [old EXCEPT !.pc = "fetch"] \in Run
        BY <1>0 DEF Run, Places
      <4>. QED BY <2>1, <3>1, <4>1, <1>0 DEF Tailor, Run
    <3>2. CASE run' = [run EXCEPT ![r] = Released(@, TRUE)]
      BY <3>2, <1>1
    <3>. QED BY <2>1, <3>1, <3>2 DEF Tailor
  <2>2. CASE FetchForm(r)
    <3>1. CASE run' = [run EXCEPT ![r].pc = "fill"]
      <4>1. [old EXCEPT !.pc = "fill"] \in Run
        BY <1>0 DEF Run, Places
      <4>. QED BY <2>2, <3>1, <4>1, <1>0 DEF FetchForm, Run
    <3>2. CASE run' = [run EXCEPT ![r] = Released(@, TRUE)]
      BY <3>2, <1>1
    <3>. QED BY <2>2, <3>1, <3>2 DEF FetchForm
  <2>3. CASE Fill(r)
    <3>1. PICK where \in {"submit", "settle"}, res \in {"unmatched", "failed", "filled"} :
            run' = [run EXCEPT ![r].pc = where, ![r].result = res]
      BY <2>3 DEF Fill
    <3>2. [old EXCEPT !.pc = where, !.result = res] \in Run
      BY <1>0 DEF Run, Places, Results
    <3>3. run' = [run EXCEPT ![r] = [old EXCEPT !.pc = where, !.result = res]]
      BY <3>1 DEF TypeOK
    <3>. QED BY <2>3, <3>2, <3>3, <1>0 DEF Fill, Run
  <2>4. CASE Click(r)
    <3>1. CASE run' = [run EXCEPT ![r].pc = "settle", ![r].result = "uncertain"]
      <4>1. [old EXCEPT !.pc = "settle", !.result = "uncertain"] \in Run
        BY <1>0 DEF Run, Places, Results
      <4>2. run' = [run EXCEPT ![r] = [old EXCEPT !.pc = "settle", !.result = "uncertain"]]
        BY <3>1 DEF TypeOK
      <4>. QED BY <2>4, <4>1, <4>2, <1>0 DEF Click, Run
    <3>2. CASE run' = [run EXCEPT ![r].pc = "poll", ![r].page = "pending", ![r].ticks = BaseTicks]
      <4>1. [old EXCEPT !.pc = "poll", !.page = "pending", !.ticks = BaseTicks] \in Run
        BY <1>0, AutonomousAssumption DEF Run, Places, Pages
      <4>2. run' = [run EXCEPT ![r] = [old EXCEPT !.pc = "poll", !.page = "pending", !.ticks = BaseTicks]]
        BY <3>2 DEF TypeOK
      <4>. QED BY <2>4, <4>1, <4>2, <1>0 DEF Click, Run
    <3>. QED BY <2>4, <3>1, <3>2 DEF Click
  <2>5. CASE Shot(r)
    <3>1. PICK res \in {"submitted", "uncertain"} : run' = [run EXCEPT ![r].pc = "settle", ![r].result = res]
      BY <2>5 DEF Shot
    <3>2. [old EXCEPT !.pc = "settle", !.result = res] \in Run
      BY <1>0 DEF Run, Places, Results
    <3>3. run' = [run EXCEPT ![r] = [old EXCEPT !.pc = "settle", !.result = res]]
      BY <3>1 DEF TypeOK
    <3>. QED BY <2>5, <3>2, <3>3, <1>0 DEF Shot, Run
  <2>. QED BY <2>1, <2>2, <2>3, <2>4, <2>5
<1>. QED BY <1>0, <1>2, <1>3, SessionType

\* While the page is polled there is a tick left.
Patient == \A r \in Runners : run[r].pc = "poll" => run[r].ticks > 0

LEMMA PollType ==
    ASSUME TypeOK, Patient, NEW r \in Runners, Poll(r)
    PROVE  TypeOK' /\ Patient'
<1>. DEFINE old == run[r]
            left == TicksLeft(run[r])
<1>0. old \in Run /\ old.cur # NoJob /\ reopened \subseteq Jobs /\ received \in [Jobs -> Nat]
  BY DEF TypeOK, Poll
<1>1. old.ticks \in Nat /\ old.retries \in Nat /\ old.ticks > 0
  BY <1>0 DEF Run, Patient, Poll
<1>2. left \in Nat
  BY <1>1 DEF TicksLeft
<1>. HIDE DEF left
<1>3. \A n \in Nat \ {0} : Larger(left, n) \in Nat /\ Larger(left, n) > 0
  BY <1>2 DEF Larger
<1>4. Larger(SolveTicks, NoticeTicks) \in Nat \ {0}
  BY AutonomousAssumption DEF Larger
<1>5. \E rec \in Run : /\ run' = [run EXCEPT ![r] = rec] /\ rec.cur = old.cur
                       /\ rec.pc \in {"poll", "shot"} /\ (rec.pc = "poll" => rec.ticks > 0)
  <2>1. CASE Sufficient(r) /\ run' = [run EXCEPT ![r].pc = "shot"]
    <3>1. [old EXCEPT !.pc = "shot"] \in Run
      BY <1>0 DEF Run, Places
    <3>. QED BY <1>0, <2>1, <3>1 DEF Run
  <2>2. ASSUME NEW n \in Nat, n > 0,
               run' = [run EXCEPT ![r].notified = TRUE, ![r].ticks = n]
        PROVE  \E rec \in Run : /\ run' = [run EXCEPT ![r] = rec] /\ rec.cur = old.cur
                                /\ rec.pc \in {"poll", "shot"} /\ (rec.pc = "poll" => rec.ticks > 0)
    <3>1. [old EXCEPT !.notified = TRUE, !.ticks = n] \in Run
      BY <1>0 DEF Run
    <3>2. run' = [run EXCEPT ![r] = [old EXCEPT !.notified = TRUE, !.ticks = n]]
      BY <2>2 DEF TypeOK
    <3>. QED BY <1>0, <2>2, <3>1, <3>2 DEF Run, Poll
  <2>3. ASSUME NEW n \in Nat, n > 0, NEW k \in Nat,
               run' = [run EXCEPT ![r].page = "pending", ![r].notified = FALSE,
                                  ![r].retries = k, ![r].ticks = n]
        PROVE  \E rec \in Run : /\ run' = [run EXCEPT ![r] = rec] /\ rec.cur = old.cur
                                /\ rec.pc \in {"poll", "shot"} /\ (rec.pc = "poll" => rec.ticks > 0)
    <3>. DEFINE new == [old EXCEPT !.page = "pending", !.notified = FALSE, !.retries = k, !.ticks = n]
    <3>1. new \in Run
      BY <1>0 DEF Run, Pages
    <3>2. run' = [run EXCEPT ![r] = new]
      BY <2>3 DEF TypeOK
    <3>3. new.cur = old.cur /\ new.pc = "poll" /\ new.ticks > 0
      BY <1>0, <2>3 DEF Run, Poll
    <3>. HIDE DEF new
    <3>. QED BY <3>1, <3>2, <3>3
  <2>4. ASSUME run' = [run EXCEPT ![r].ticks = left, ![r].pc = IF left > 0 THEN "poll" ELSE "shot"]
        PROVE  \E rec \in Run : /\ run' = [run EXCEPT ![r] = rec] /\ rec.cur = old.cur
                                /\ rec.pc \in {"poll", "shot"} /\ (rec.pc = "poll" => rec.ticks > 0)
    <3>. DEFINE new == [old EXCEPT !.ticks = left, !.pc = IF left > 0 THEN "poll" ELSE "shot"]
    <3>1. new \in Run
      BY <1>0, <1>2 DEF Run, Places
    <3>2. run' = [run EXCEPT ![r] = new]
      BY <2>4 DEF TypeOK
    <3>3. new.cur = old.cur /\ new.pc \in {"poll", "shot"} /\ (new.pc = "poll" => new.ticks > 0)
      BY <1>0 DEF Run
    <3>. HIDE DEF new
    <3>. QED BY <3>1, <3>2, <3>3
  <2>5. CASE ~Sufficient(r) /\ old.page = "challenge"
    BY <1>3, <1>4, <2>5, <2>2, AutonomousAssumption DEF Poll, left
  <2>6. CASE ~Sufficient(r) /\ old.page # "challenge"
    <3>. DEFINE retry == old.page = "spam" /\ old.retries < SpamRetries
                k == IF retry THEN old.retries + 1 ELSE old.retries
    <3>1. k \in Nat
      BY <1>1
    <3>2. CASE old.notified \/ retry
      <4>1. run' = [run EXCEPT ![r].page = "pending", ![r].notified = FALSE,
                               ![r].retries = k, ![r].ticks = Larger(left, BaseTicks)]
        BY <2>6, <3>2 DEF Poll, left
      <4>2. Larger(left, BaseTicks) \in Nat /\ Larger(left, BaseTicks) > 0
        BY <1>3, AutonomousAssumption
      <4>. HIDE DEF k, retry
      <4>. QED BY <3>1, <4>1, <4>2, <2>3
    <3>3. CASE ~(old.notified \/ retry)
      BY <2>6, <3>3, <2>4 DEF Poll, left
    <3>. QED BY <3>2, <3>3
  <2>. QED BY <2>1, <2>5, <2>6 DEF Poll
<1>6. PICK rec \in Run : /\ run' = [run EXCEPT ![r] = rec] /\ rec.cur = old.cur
                        /\ rec.pc \in {"poll", "shot"} /\ (rec.pc = "poll" => rec.ticks > 0)
  BY <1>5
<1>7. UNCHANGED <<stage, task, received, switches, won, reopened>>
  BY DEF Poll
<1>8. TypeOK'
  BY <1>0, <1>6, <1>7, SessionType
<1>. QED BY <1>6, <1>8 DEF Patient, TypeOK

LEMMA StageAfterIsStage ==
    ASSUME NEW rec \in Run, rec.cur \in Jobs
    PROVE  StageAfter(rec) \in Stages
<1>1. rec.held[rec.cur] \in Stages /\ rec.result \in Results /\ rec.consent \in BOOLEAN
  BY DEF Run
<1>. QED BY <1>1, StagesUsed DEF StageAfter, Results

LEMMA SettleType == ASSUME TypeOK, NEW r \in Runners, Settle(r) PROVE TypeOK'
<1>. DEFINE j == run[r].cur
            s == StageAfter(run[r])
            rec == [run[r] EXCEPT !.held[j] = s]
            failed == run[r].result \notin {"submitted", "filled"}
<1>1. run[r] \in Run /\ j \in Jobs
  BY DEF TypeOK, Settle, Run
<1>2. s \in Stages
  BY <1>1, StageAfterIsStage
<1>. HIDE DEF s
<1>3. rec \in Run
  BY <1>1, <1>2 DEF Run
<1>4. run' = [run EXCEPT ![r] = Released(rec, failed)]
  BY DEF Settle, s
<1>. HIDE DEF rec, failed
<1>5. failed \in BOOLEAN
  BY DEF failed
<1>6. Released(rec, failed) \in Run /\ Released(rec, failed).cur = NoJob
      /\ Released(rec, failed).pc \in {"idle", "loop"}
  BY <1>3, <1>5, ReleasedIsRun
<1>7. run' \in [Runners -> Run] /\ \A q \in Runners : (run'[q].cur = NoJob) <=> (run'[q].pc \in {"idle", "loop"})
  BY <1>4, <1>6, OneRun
<1>8. stage' \in [Jobs -> Stages]
  BY <1>1, <1>2 DEF Settle, WriteStage, TypeOK, s
<1>9. won' \in [Runners -> SUBSET Jobs]
  BY <1>1 DEF Settle, TypeOK
<1>. QED BY <1>7, <1>8, <1>9 DEF Settle, TypeOK, switches

LEMMA PageType ==
    ASSUME TypeOK, NEW r \in Runners, Answer(r) \/ Solve(r) \/ Interrupt(r)
    PROVE  TypeOK'
<1>. DEFINE old == run[r]
<1>0. old \in Run /\ ((old.cur = NoJob) <=> (old.pc \in {"idle", "loop"})) /\ old.asked \in Nat
      /\ reopened \subseteq Jobs /\ received \in [Jobs -> Nat]
  BY DEF TypeOK, Run
<1>1. CASE Interrupt(r)
  <2>1. Asleep \in Run /\ Asleep.cur = NoJob /\ Asleep.pc = "idle" /\ old.cur \in Jobs
    BY <1>0, <1>1, AsleepIsRun DEF Asleep, Interrupt, Run
  <2>. QED BY <1>0, <1>1, <2>1, SessionType DEF Interrupt
<1>2. ASSUME NEW p \in Pages, run' = [run EXCEPT ![r].page = p], Answer(r) \/ Solve(r)
      PROVE  TypeOK'
  <2>1. [old EXCEPT !.page = p] \in Run /\ [old EXCEPT !.page = p].cur = old.cur
        /\ [old EXCEPT !.page = p].pc = old.pc
    BY <1>0 DEF Run
  <2>2. received' \in [Jobs -> Nat]
    BY <1>0, <1>2 DEF Answer, Solve, Run
  <2>. QED BY <1>0, <1>2, <2>1, <2>2, SessionType DEF Answer, Solve
<1>3. ASSUME run' = [run EXCEPT ![r].page = "challenge", ![r].asked = @ + 1], Answer(r)
      PROVE  TypeOK'
  <2>. DEFINE n == old.asked + 1
              new == [old EXCEPT !.page = "challenge", !.asked = n]
  <2>0. n \in Nat
    BY <1>0
  <2>3. run' = [run EXCEPT ![r] = new]
    BY <1>3 DEF TypeOK
  <2>. HIDE DEF n
  <2>1. new \in Run /\ new.cur = old.cur /\ new.pc = old.pc
    BY <1>0, <2>0 DEF Run, Pages
  <2>2. received' \in [Jobs -> Nat]
    BY <1>0, <1>3 DEF Answer, Run
  <2>. HIDE DEF new
  <2>. QED BY <1>0, <1>3, <2>1, <2>2, <2>3, SessionType DEF Answer
<1>4. CASE Answer(r)
  <2>1. \/ \E p \in Pages : run' = [run EXCEPT ![r].page = p]
        \/ run' = [run EXCEPT ![r].page = "challenge", ![r].asked = @ + 1]
    BY <1>4 DEF Answer, Pages
  <2>. QED BY <1>4, <2>1, <1>2, <1>3
<1>5. CASE Solve(r)
  <2>1. \E p \in Pages : run' = [run EXCEPT ![r].page = p]
    BY <1>5 DEF Solve, Pages
  <2>. QED BY <1>5, <2>1, <1>2
<1>. QED BY <1>1, <1>4, <1>5

LEMMA OthersType ==
    ASSUME TypeOK, NEW j \in Jobs,
           Approve(j) \/ Reject(j) \/ Revalidate(j) \/ Elsewhere(j) \/ Mail(j) \/ Switch
    PROVE  TypeOK' /\ run' = run
<1>1. CASE Approve(j)
  BY <1>1, StagesUsed DEF TypeOK, Approve, switches
<1>2. CASE Reject(j)
  BY <1>2, StagesUsed DEF TypeOK, Reject, switches
<1>3. CASE Revalidate(j)
  BY <1>3, StagesUsed DEF TypeOK, Revalidate, switches
<1>4. CASE Elsewhere(j)
  BY <1>4, StagesUsed DEF TypeOK, Elsewhere, switches
<1>5. CASE Mail(j)
  BY <1>5, StagesUsed DEF TypeOK, Mail, switches
<1>6. CASE Switch
  BY <1>6 DEF TypeOK, Switch, switches
<1>. QED BY <1>1, <1>2, <1>3, <1>4, <1>5, <1>6

-----------------------------------------------------------------------------
(* What is told apart: who takes the step                                  *)

\* A step is one of these, whoever takes it.
LEMMA StepIsOne ==
    ASSUME Next, AutonomousAssumption
    PROVE  \/ \E r \in Runners : Start(r) \/ Stop(r) \/ Poll(r) \/ Settle(r)
           \/ \E r \in Runners : Tailor(r) \/ FetchForm(r) \/ Fill(r) \/ Click(r) \/ Shot(r)
           \/ \E r \in Runners : Answer(r) \/ Solve(r) \/ Interrupt(r)
           \/ \E r \in Runners, j \in Jobs : Skip(r, j) \/ Take(r, j) \/ RunJob(r, j)
           \/ \E j \in Jobs : Approve(j) \/ Reject(j) \/ Revalidate(j) \/ Elsewhere(j) \/ Mail(j)
           \/ Switch
BY DEF Next, Work, AutonomousAssumption

\* Inside a browser session only the place, the page and the result change.
LEMMA InSession ==
    ASSUME TypeOK, NEW r \in Runners,
           \/ Poll(r) \/ FetchForm(r) \/ Tailor(r) \/ Fill(r) \/ Click(r) \/ Shot(r)
           \/ Answer(r) \/ Solve(r),
           run'[r].cur # NoJob
    PROVE  /\ \A q \in Runners : q # r => run'[q] = run[q]
           /\ run'[r].cur = run[r].cur /\ run'[r].done = run[r].done /\ run'[r].errors = run[r].errors
           /\ run'[r].single = run[r].single /\ run'[r].consent = run[r].consent
           /\ run'[r].held = run[r].held /\ run'[r].todo = run[r].todo
           /\ UNCHANGED <<stage, task, won, reopened>>
<1>0. run[r] \in Run /\ \A failed \in BOOLEAN : Released(run[r], failed).cur = NoJob
  BY ReleasedIsRun DEF TypeOK
<1>1. CASE Poll(r)
  BY <1>1 DEF TypeOK, Poll, Run
<1>2. CASE FetchForm(r)
  <2>1. CASE run' = [run EXCEPT ![r].pc = "fill"]
    BY <1>2, <2>1 DEF TypeOK, FetchForm, Run
  <2>2. CASE run' = [run EXCEPT ![r] = Released(@, TRUE)]
    BY <1>0, <2>2 DEF TypeOK
  <2>. QED BY <1>2, <2>1, <2>2 DEF FetchForm
<1>3. CASE Tailor(r)
  <2>1. CASE run' = [run EXCEPT ![r].pc = "fetch"]
    BY <1>3, <2>1 DEF TypeOK, Tailor, Run
  <2>2. CASE run' = [run EXCEPT ![r] = Released(@, TRUE)]
    BY <1>0, <2>2 DEF TypeOK
  <2>. QED BY <1>3, <2>1, <2>2 DEF Tailor
<1>4. CASE Fill(r)
  BY <1>4 DEF TypeOK, Fill, Run
<1>5. CASE Click(r)
  BY <1>5 DEF TypeOK, Click, Run
<1>6. CASE Shot(r)
  <2>1. PICK res \in {"submitted", "uncertain"} : run' = [run EXCEPT ![r].pc = "settle", ![r].result = res]
    BY <1>6 DEF Shot
  <2>2. UNCHANGED <<stage, task, won, reopened>>
    BY <1>6 DEF Shot
  <2>. QED BY <2>1, <2>2 DEF TypeOK, Run
<1>7. CASE Answer(r)
  BY <1>7 DEF TypeOK, Answer, Run
<1>8. CASE Solve(r)
  BY <1>8 DEF TypeOK, Solve, Run
<1>. QED BY <1>1, <1>2, <1>3, <1>4, <1>5, <1>6, <1>7, <1>8

\* Tailoring and fetching may end the session, which then counts as an error.
LEMMA GivenUp ==
    ASSUME TypeOK, NEW r \in Runners,
           \/ Poll(r) \/ FetchForm(r) \/ Tailor(r) \/ Fill(r) \/ Click(r) \/ Shot(r)
           \/ Answer(r) \/ Solve(r),
           run'[r].cur = NoJob
    PROVE  /\ run' = [run EXCEPT ![r] = Released(run[r], TRUE)]
           /\ UNCHANGED <<stage, task, received, won, reopened>>
           /\ run[r].pc \in {"tailor", "fetch"} /\ run[r].cur # NoJob
<1>0. run[r] \in Run /\ ((run[r].cur = NoJob) <=> (run[r].pc \in {"idle", "loop"}))
  BY DEF TypeOK
<1>1. ~Poll(r)
  BY <1>0 DEF TypeOK, Poll, Run
<1>2. ~Fill(r) /\ ~Click(r)
  BY <1>0 DEF TypeOK, Fill, Click, Run
<1>3. ~Shot(r) /\ ~Answer(r) /\ ~Solve(r)
  BY <1>0 DEF TypeOK, Shot, Answer, Solve, Run
<1>4. CASE Tailor(r)
  <2>1. ~(run' = [run EXCEPT ![r].pc = "fetch"])
    BY <1>0, <1>4 DEF Tailor, TypeOK, Run
  <2>2. run[r].pc \in {"tailor", "fetch"}
    BY <1>4 DEF Tailor
  <2>. QED BY <1>0, <1>4, <2>1, <2>2 DEF Tailor
<1>5. CASE FetchForm(r)
  <2>1. ~(run' = [run EXCEPT ![r].pc = "fill"])
    BY <1>0, <1>5 DEF FetchForm, TypeOK, Run
  <2>2. run[r].pc \in {"tailor", "fetch"}
    BY <1>5 DEF FetchForm
  <2>. QED BY <1>0, <1>5, <2>1, <2>2 DEF FetchForm
<1>. QED BY <1>1, <1>2, <1>3, <1>4, <1>5

-----------------------------------------------------------------------------
(* The inductive invariant                                                 *)

\* A run is within its limits, strictly while it has a posting in hand, and that
\* posting is of a company with no submission yet.
Within(rec, submitted) ==
    /\ rec.done <= MaxApplications /\ rec.errors <= MaxErrors
    /\ rec.cur # NoJob /\ ~rec.single => rec.done < MaxApplications /\ rec.errors < MaxErrors
    /\ rec.cur # NoJob => \A k \in submitted : CompanyOf[k] # CompanyOf[rec.cur]
    /\ \A j, k \in submitted : CompanyOf[j] = CompanyOf[k] => j = k

Limited == \A r \in Runners : Within(run[r], won[r])

\* A page that says thanks, and a result that says submitted, stand for an
\* application that was taken, where no word misleads.
Vouched(rec) ==
    /\ rec.pc \in {"poll", "shot"} /\ rec.page = "thanks" => received[rec.cur] > 0
    /\ rec.pc \in {"poll", "shot"} /\ rec.page = "regrets" => rec.cur \in Polite
    /\ rec.pc = "settle" /\ rec.result = "submitted" /\ rec.cur \notin Marked \cup Polite
          => received[rec.cur] > 0

Taken == SubmittedWasTaken /\ \A r \in Runners : Vouched(run[r])

RunInv == TypeOK /\ Patient /\ Limited /\ Taken

LEMMA InitRunInv == Init => RunInv
<1>. SUFFICES ASSUME Init PROVE RunInv
  OBVIOUS
<1>1. TypeOK
  BY InitType
<1>2. \A r \in Runners : run[r] = Asleep /\ won[r] = {}
  BY DEF Init
<1>3. Asleep.pc = "idle" /\ Asleep.cur = NoJob /\ Asleep.done = 0 /\ Asleep.errors = 0
  BY DEF Asleep
<1>. QED BY <1>1, <1>2, <1>3, AutonomousAssumption DEF RunInv, Patient, Limited, Within, Taken, Vouched, SubmittedWasTaken

LEMMA TypeStep ==
    ASSUME TypeOK, Patient, [Next]_vars
    PROVE  TypeOK'
<1>1. CASE UNCHANGED vars
  BY <1>1 DEF vars, switches, TypeOK
<1>2. CASE Next
  <2>1. ASSUME NEW r \in Runners, Start(r) \/ Poll(r) \/ Settle(r)
        PROVE  TypeOK'
    BY <2>1, StartType, PollType, SettleType
  <2>2. ASSUME NEW r \in Runners, Stop(r)
        PROVE  TypeOK'
    <3>1. run' \in [Runners -> Run] /\ \A q \in Runners : (run'[q].cur = NoJob) <=> (run'[q].pc \in {"idle", "loop"})
      BY <2>2, AsleepIsRun DEF Stop, TypeOK, Asleep
    <3>. QED BY <2>2, <3>1 DEF Stop, TypeOK, switches
  <2>3. ASSUME NEW r \in Runners, Tailor(r) \/ FetchForm(r) \/ Fill(r) \/ Click(r) \/ Shot(r)
        PROVE  TypeOK'
    BY <2>3, PreparingType
  <2>4. ASSUME NEW r \in Runners, Answer(r) \/ Solve(r) \/ Interrupt(r)
        PROVE  TypeOK'
    BY <2>4, PageType
  <2>5. ASSUME NEW r \in Runners, NEW j \in Jobs, Skip(r, j) \/ Take(r, j) \/ RunJob(r, j)
        PROVE  TypeOK'
    BY <2>5, LoopType
  <2>6. ASSUME NEW j \in Jobs, Approve(j) \/ Reject(j) \/ Revalidate(j) \/ Elsewhere(j) \/ Mail(j)
        PROVE  TypeOK'
    BY <2>6, OthersType
  <2>7. CASE Switch
    BY <2>7 DEF TypeOK, Switch, switches
  <2>. QED BY <1>2, <2>1, <2>2, <2>3, <2>4, <2>5, <2>6, <2>7, StepIsOne, AutonomousAssumption
<1>. QED BY <1>1, <1>2

LEMMA PatientStep ==
    ASSUME TypeOK, Patient, [Next]_vars
    PROVE  Patient'
<1>0. Asleep.pc = "idle" /\ (\A rec \in Run, failed \in BOOLEAN : Released(rec, failed).pc \in {"idle", "loop"})
  BY ReleasedIsRun DEF Asleep
<1>1. CASE run' = run
  BY <1>1 DEF Patient
<1>2. ASSUME NEW r \in Runners, run'[r].pc = "poll" => run'[r].ticks > 0,
             \A q \in Runners : q # r => run'[q] = run[q]
      PROVE  Patient'
  BY <1>2 DEF Patient
<1>3. ASSUME NEW r \in Runners, Start(r) \/ Stop(r) \/ Interrupt(r)
      PROVE  Patient'
  <2>1. run'[r].pc \in {"idle", "loop"} /\ \A q \in Runners : q # r => run'[q] = run[q]
    <3>1. CASE run' = [run EXCEPT ![r] = Asleep]
      BY <1>0, <3>1 DEF TypeOK
    <3>2. CASE Start(r)
      BY <3>2 DEF Start, TypeOK, Asleep
    <3>. QED BY <1>3, <3>1, <3>2 DEF Stop, Interrupt
  <2>. QED BY <1>2, <2>1
<1>4. ASSUME NEW r \in Runners, Settle(r)
      PROVE  Patient'
  <2>. DEFINE rec == [run[r] EXCEPT !.held[run[r].cur] = StageAfter(run[r])]
              failed == run[r].result \notin {"submitted", "filled"}
  <2>1. run' = [run EXCEPT ![r] = Released(rec, failed)]
    BY <1>4 DEF Settle
  <2>. HIDE DEF rec, failed
  <2>2. Released(rec, failed).pc \in {"idle", "loop"}
    BY DEF Released, Asleep
  <2>. QED BY <2>1, <2>2, <1>2 DEF TypeOK
<1>5. ASSUME NEW r \in Runners, NEW j \in Jobs, Skip(r, j)
      PROVE  Patient'
  BY <1>5 DEF Skip, TypeOK, Patient, Run
<1>6. ASSUME NEW r \in Runners, NEW j \in Jobs, Take(r, j) \/ RunJob(r, j)
      PROVE  Patient'
  <2>1. CASE Take(r, j)
    <3>1. run' = [run EXCEPT ![r] = Fresh(run[r], j, run[r].armed /\ live)] /\ run[r] \in Run
      BY <2>1 DEF Take, TypeOK
    <3>2. Fresh(run[r], j, run[r].armed /\ live).pc = "tailor"
      BY <3>1, FreshIsRun DEF TypeOK, Fresh, Run
    <3>. QED BY <3>1, <3>2, <1>2 DEF TypeOK
  <2>2. CASE RunJob(r, j)
    <3>. DEFINE base == [Asleep EXCEPT !.held = stage, !.single = TRUE]
    <3>1. run' = [run EXCEPT ![r] = Fresh(base, j, FALSE)]
      BY <2>2 DEF RunJob
    <3>2. base \in Run
      BY AsleepIsRun DEF Run, TypeOK
    <3>. HIDE DEF base
    <3>3. Fresh(base, j, FALSE).pc = "tailor"
      BY <3>2, FreshIsRun
    <3>. QED BY <3>1, <3>3, <1>2 DEF TypeOK
  <2>. QED BY <1>6, <2>1, <2>2
<1>7. ASSUME NEW r \in Runners, Tailor(r) \/ FetchForm(r)
      PROVE  Patient'
  <2>1. run'[r].pc \in {"fetch", "fill", "idle", "loop"} /\ \A q \in Runners : q # r => run'[q] = run[q]
    <3>1. CASE run' = [run EXCEPT ![r] = Released(@, TRUE)]
      BY <3>1, <1>0 DEF TypeOK
    <3>2. CASE run' = [run EXCEPT ![r].pc = "fetch"] \/ run' = [run EXCEPT ![r].pc = "fill"]
      BY <3>2 DEF TypeOK, Run
    <3>. QED BY <1>7, <3>1, <3>2 DEF Tailor, FetchForm
  <2>. QED BY <2>1, <1>2
<1>8. ASSUME NEW r \in Runners, Fill(r)
      PROVE  Patient'
  <2>1. run'[r].pc \in {"submit", "settle"} /\ \A q \in Runners : q # r => run'[q] = run[q]
    BY <1>8 DEF Fill, TypeOK, Run
  <2>. QED BY <2>1, <1>2
<1>9. ASSUME NEW r \in Runners, Click(r)
      PROVE  Patient'
  <2>1. (run'[r].pc = "settle" \/ run'[r].ticks = BaseTicks) /\ \A q \in Runners : q # r => run'[q] = run[q]
    BY <1>9 DEF Click, TypeOK, Run
  <2>. QED BY <2>1, <1>2, AutonomousAssumption
<1>10. ASSUME NEW r \in Runners, Shot(r)
      PROVE  Patient'
  <2>1. PICK res \in {"submitted", "uncertain"} : run' = [run EXCEPT ![r].pc = "settle", ![r].result = res]
    BY <1>10 DEF Shot
  <2>2. run'[r].pc = "settle" /\ \A q \in Runners : q # r => run'[q] = run[q]
    BY <2>1 DEF TypeOK, Run
  <2>. QED BY <2>2, <1>2
<1>11. ASSUME NEW r \in Runners, Answer(r) \/ Solve(r)
      PROVE  Patient'
  <2>1. run'[r].pc = run[r].pc /\ run'[r].ticks = run[r].ticks /\ \A q \in Runners : q # r => run'[q] = run[q]
    BY <1>11 DEF Answer, Solve, TypeOK, Run
  <2>. QED BY <2>1, <1>2 DEF Patient
<1>12. ASSUME NEW j \in Jobs, Approve(j) \/ Reject(j) \/ Revalidate(j) \/ Elsewhere(j) \/ Mail(j)
      PROVE  Patient'
  BY <1>1, <1>12 DEF Approve, Reject, Revalidate, Elsewhere, Mail
<1>13. CASE Switch \/ UNCHANGED vars
  BY <1>1, <1>13 DEF Switch, vars
<1>. QED BY <1>3, <1>4, <1>5, <1>6, <1>7, <1>8, <1>9, <1>10, <1>11, <1>12, <1>13, PollType, StepIsOne, AutonomousAssumption

LEMMA ReleasedFields ==
    ASSUME NEW rec \in Run, NEW failed \in BOOLEAN
    PROVE  LET new == Released(rec, failed) IN
           /\ new.cur = NoJob /\ new.page = "form" /\ new.pc \in {"idle", "loop"}
           /\ new.done = (IF rec.single THEN 0 ELSE IF failed THEN rec.done ELSE rec.done + 1)
           /\ new.errors = (IF rec.single THEN 0 ELSE IF failed THEN rec.errors + 1 ELSE rec.errors)
           /\ new.todo = (IF rec.single THEN {} ELSE rec.todo)
           /\ rec.single \/ new.held = rec.held
BY DEF Released, Asleep

\* The two places where a run takes up a posting, and the fields it then has.
LEMMA TakenUp ==
    ASSUME TypeOK, NEW r \in Runners, NEW j \in Jobs, Take(r, j) \/ RunJob(r, j)
    PROVE  /\ \A q \in Runners : q # r => run'[q] = run[q]
           /\ run'[r].cur = j /\ run'[r].pc = "tailor"
           /\ Take(r, j) => /\ run'[r].done = run[r].done /\ run'[r].errors = run[r].errors
                            /\ run'[r].held = run[r].held /\ run'[r].todo = run[r].todo \ {j}
                            /\ run'[r].single = run[r].single
           /\ RunJob(r, j) => /\ run'[r].done = 0 /\ run'[r].errors = 0 /\ run'[r].held = stage
                              /\ run'[r].todo = {} /\ ~run'[r].consent /\ run'[r].single
<1>1. CASE Take(r, j)
  BY <1>1 DEF Take, Fresh, TypeOK, Run, RunJob
<1>2. CASE RunJob(r, j)
  BY <1>2 DEF RunJob, Fresh, TypeOK, Asleep, Take
<1>. QED BY <1>1, <1>2

LEMMA LimitedStep ==
    ASSUME TypeOK, Limited, [Next]_vars
    PROVE  Limited'
<1>0. ASSUME NEW r \in Runners PROVE run[r] \in Run /\ run[r].done \in Nat /\ run[r].errors \in Nat
  BY DEF TypeOK, Run
<1>1. CASE run' = run /\ won' = won
  BY <1>1 DEF Limited
<1>2. ASSUME NEW r \in Runners, Within(run'[r], won'[r]),
             \A q \in Runners : q # r => run'[q] = run[q] /\ won'[q] = won[q]
      PROVE  Limited'
  BY <1>2 DEF Limited
<1>3. ASSUME NEW r \in Runners, Stop(r) \/ Interrupt(r) \/ Start(r)
      PROVE  Limited'
  <2>1. Asleep.done = 0 /\ Asleep.errors = 0 /\ Asleep.cur = NoJob
    BY DEF Asleep
  <2>2. run'[r].done = 0 /\ run'[r].errors = 0 /\ run'[r].cur = NoJob
    <3>1. CASE run' = [run EXCEPT ![r] = Asleep]
      BY <2>1, <3>1 DEF TypeOK
    <3>2. CASE Start(r)
      BY <2>1, <3>2 DEF Start, TypeOK, Asleep
    <3>. QED BY <1>3, <3>1, <3>2 DEF Stop, Interrupt
  <2>3. won'[r] = won[r] \/ won'[r] = {}
    BY <1>3 DEF Stop, Interrupt, Start, TypeOK
  <2>4. \A q \in Runners : q # r => run'[q] = run[q] /\ won'[q] = won[q]
    <3>1. \A q \in Runners : q # r => run'[q] = run[q]
      BY <1>3 DEF Stop, Interrupt, Start, TypeOK
    <3>2. \A q \in Runners : q # r => won'[q] = won[q]
      BY <1>3 DEF Stop, Interrupt, Start, TypeOK
    <3>. QED BY <3>1, <3>2
  <2>5. Within(run'[r], won'[r])
    BY <2>2, <2>3, AutonomousAssumption DEF Within, Limited
  <2>. QED BY <1>2, <2>4, <2>5
<1>4. ASSUME NEW r \in Runners, NEW j \in Jobs, Skip(r, j)
      PROVE  Limited'
  <2>1. /\ run'[r].done = run[r].done /\ run'[r].errors = run[r].errors /\ run'[r].cur = run[r].cur
        /\ run'[r].single = run[r].single /\ won' = won
        /\ \A q \in Runners : q # r => run'[q] = run[q]
    BY <1>4, <1>0 DEF Skip, TypeOK
  <2>2. Within(run'[r], won'[r])
    BY <2>1 DEF Within, Limited
  <2>. QED BY <1>2, <2>1, <2>2
<1>5. ASSUME NEW r \in Runners, NEW j \in Jobs, Take(r, j)
      PROVE  Limited'
  <2>1. run[r].done < MaxApplications /\ run[r].errors < MaxErrors /\ won' = won
    BY <1>5 DEF Take, MayGoOn
  <2>2. \A k \in won[r] : CompanyOf[k] # CompanyOf[j]
    BY <1>5 DEF Take, CoolingDown
  <2>3. Within(run'[r], won'[r])
    BY <1>0, <1>5, <2>1, <2>2, TakenUp, AutonomousAssumption DEF Within, Limited
  <2>. QED BY <1>2, <1>5, <2>1, <2>3, TakenUp
<1>6. ASSUME NEW r \in Runners, NEW j \in Jobs, RunJob(r, j)
      PROVE  Limited'
  <2>1. won'[r] = {} /\ \A q \in Runners : q # r => won'[q] = won[q]
    BY <1>6 DEF RunJob, TypeOK
  <2>2. Within(run'[r], won'[r])
    BY <1>6, <2>1, TakenUp, AutonomousAssumption DEF Within
  <2>. QED BY <1>2, <1>6, <2>1, <2>2, TakenUp
<1>7. ASSUME NEW r \in Runners,
             \/ Poll(r) \/ FetchForm(r) \/ Tailor(r) \/ Fill(r) \/ Click(r) \/ Shot(r)
             \/ Answer(r) \/ Solve(r)
      PROVE  Limited'
  <2>1. CASE run'[r].cur # NoJob
    <3>1. Within(run'[r], won'[r])
      BY <1>7, <2>1, InSession DEF Within, Limited
    <3>. QED BY <1>2, <1>7, <2>1, <3>1, InSession
  <2>2. CASE run'[r].cur = NoJob
    <3>1. /\ run' = [run EXCEPT ![r] = Released(run[r], TRUE)] /\ won' = won /\ run[r].cur # NoJob
      BY <1>7, <2>2, GivenUp
    <3>2. run'[r] = Released(run[r], TRUE) /\ \A q \in Runners : q # r => run'[q] = run[q]
      BY <3>1 DEF TypeOK
    <3>3. Within(run'[r], won'[r])
      <4>1. Within(run[r], won[r])
        BY DEF Limited
      <4>2. run'[r].cur = NoJob
            /\ run'[r].done = (IF run[r].single THEN 0 ELSE run[r].done)
            /\ run'[r].errors = (IF run[r].single THEN 0 ELSE run[r].errors + 1)
        BY <3>2 DEF Released, Asleep
      <4>3. CASE run[r].single
        <5>1. run'[r].done = 0 /\ run'[r].errors = 0
          BY <4>2, <4>3
        <5>2. won'[r] = won[r] /\ run'[r].cur = NoJob
          BY <3>1, <4>2
        <5>3. \A j, k \in won[r] : CompanyOf[j] = CompanyOf[k] => j = k
          BY <4>1 DEF Within
        <5>4. 0 <= MaxApplications /\ 0 <= MaxErrors
          BY AutonomousAssumption
        <5>. QED BY <5>1, <5>2, <5>3, <5>4 DEF Within
      <4>4. CASE ~run[r].single
        <5>1. run'[r].done = run[r].done /\ run'[r].errors = run[r].errors + 1
          BY <4>2, <4>4
        <5>2. won'[r] = won[r] /\ run'[r].cur = NoJob
          BY <3>1, <4>2
        <5>3. \A j, k \in won[r] : CompanyOf[j] = CompanyOf[k] => j = k
          BY <4>1 DEF Within
        <5>4. run[r].done <= MaxApplications /\ run[r].errors < MaxErrors
          BY <3>1, <4>1, <4>4 DEF Within
        <5>5. run[r].errors + 1 <= MaxErrors
          BY <1>0, <5>4, AutonomousAssumption
        <5>. QED BY <5>1, <5>2, <5>3, <5>4, <5>5 DEF Within
      <4>. QED BY <4>3, <4>4
    <3>. QED BY <1>2, <3>1, <3>2, <3>3
  <2>. QED BY <2>1, <2>2
<1>8. ASSUME NEW r \in Runners, Settle(r)
      PROVE  Limited'
  <2>. DEFINE j == run[r].cur
              s == StageAfter(run[r])
              rec == [run[r] EXCEPT !.held[j] = s]
              failed == run[r].result \notin {"submitted", "filled"}
  <2>1. j \in Jobs /\ j # NoJob
    BY <1>0, <1>8 DEF TypeOK, Settle, Run
  <2>2. s \in Stages
    BY <1>0, <2>1, StageAfterIsStage
  <2>3. run' = [run EXCEPT ![r] = Released(rec, failed)]
    BY <1>8 DEF Settle
  <2>. HIDE DEF s
  <2>4. rec \in Run /\ rec.single = run[r].single /\ rec.done = run[r].done /\ rec.errors = run[r].errors
    BY <1>0, <2>1, <2>2 DEF Run
  <2>. HIDE DEF rec, failed
  <2>5. failed \in BOOLEAN
    BY DEF failed
  <2>6. run'[r] = Released(rec, failed) /\ \A q \in Runners : q # r => run'[q] = run[q]
    BY <2>3 DEF TypeOK
  <2>7. won'[r] \subseteq won[r] \cup {j} /\ \A q \in Runners : q # r => won'[q] = won[q]
    BY <1>8 DEF Settle, TypeOK
  <2>8. Within(run'[r], won'[r])
    <3>1. Within(run[r], won[r])
      BY DEF Limited
    <3>2. \A a, b \in won'[r] : CompanyOf[a] = CompanyOf[b] => a = b
      BY <2>1, <2>7, <3>1 DEF Within
    <3>3. run'[r].cur = NoJob
      BY <2>4, <2>5, <2>6, ReleasedFields
    <3>4. run'[r].done <= MaxApplications /\ run'[r].errors <= MaxErrors
      BY <1>0, <2>1, <2>4, <2>5, <2>6, <3>1, ReleasedFields, AutonomousAssumption DEF Within
    <3>. QED BY <3>2, <3>3, <3>4 DEF Within
  <2>. QED BY <1>2, <2>6, <2>7, <2>8
<1>9. ASSUME NEW j \in Jobs, Approve(j) \/ Reject(j) \/ Revalidate(j) \/ Elsewhere(j) \/ Mail(j)
      PROVE  Limited'
  BY <1>1, <1>9 DEF Approve, Reject, Revalidate, Elsewhere, Mail
<1>10. CASE Switch \/ UNCHANGED vars
  BY <1>1, <1>10 DEF Switch, vars
<1>. QED BY <1>3, <1>4, <1>5, <1>6, <1>7, <1>8, <1>9, <1>10, StepIsOne, AutonomousAssumption

LEMMA ReceivedGrows ==
    ASSUME TypeOK, [Next]_vars
    PROVE  received' \in [Jobs -> Nat] /\ \A j \in Jobs : received[j] <= received'[j]
<1>. DEFINE Grows == received' \in [Jobs -> Nat] /\ \A j \in Jobs : received[j] <= received'[j]
<1>. SUFFICES Grows
  OBVIOUS
<1>1. CASE received' = received
  BY <1>1 DEF TypeOK
<1>2. ASSUME NEW r \in Runners, Answer(r)
      PROVE  Grows
  <2>1. received' = received \/ received' = [received EXCEPT ![run[r].cur] = @ + 1]
    BY <1>2 DEF Answer
  <2>2. \A j \in Jobs : received[j] \in Nat /\ received[j] + 1 \in Nat /\ received[j] <= received[j] + 1
    BY DEF TypeOK
  <2>3. received \in [Jobs -> Nat]
    BY DEF TypeOK
  <2>4. CASE received' = [received EXCEPT ![run[r].cur] = @ + 1]
    <3>1. \A j \in Jobs : received'[j] = received[j] \/ received'[j] = received[j] + 1
      BY <2>3, <2>4
    <3>2. DOMAIN received' = Jobs /\ received' = [j \in Jobs |-> received'[j]]
      BY <2>3, <2>4
    <3>3. \A j \in Jobs : received'[j] \in Nat /\ received[j] <= received'[j]
      BY <2>2, <3>1
    <3>. QED BY <3>2, <3>3
  <2>. HIDE DEF Grows
  <2>. QED BY <1>1, <2>1, <2>4
<1>4. ASSUME NEW r \in Runners,
             \/ Start(r) \/ Stop(r) \/ Poll(r) \/ Settle(r) \/ Tailor(r) \/ FetchForm(r) \/ Fill(r)
             \/ Click(r) \/ Shot(r) \/ Solve(r) \/ Interrupt(r)
      PROVE  received' = received
  BY <1>4 DEF Start, Stop, Poll, Settle, Tailor, FetchForm, Fill, Click, Shot, Solve, Interrupt
<1>5. ASSUME NEW r \in Runners, NEW j \in Jobs, Skip(r, j) \/ Take(r, j) \/ RunJob(r, j)
      PROVE  received' = received
  BY <1>5 DEF Skip, Take, RunJob
<1>6. ASSUME NEW j \in Jobs, Approve(j) \/ Reject(j) \/ Revalidate(j) \/ Elsewhere(j) \/ Mail(j)
      PROVE  received' = received
  BY <1>6 DEF Approve, Reject, Revalidate, Elsewhere, Mail
<1>7. ASSUME Switch \/ UNCHANGED vars PROVE received' = received
  BY <1>7 DEF Switch, vars
<1>8. (\E r \in Runners : Answer(r)) \/ received' = received
  BY <1>4, <1>5, <1>6, <1>7, StepIsOne, AutonomousAssumption
<1>. HIDE DEF Grows
<1>. QED BY <1>1, <1>2, <1>8

LEMMA TakenStep ==
    ASSUME TypeOK, Taken, [Next]_vars
    PROVE  Taken'
<1>0. ASSUME NEW r \in Runners PROVE run[r] \in Run /\ (run[r].cur \in Jobs <=> run[r].cur # NoJob)
                                    /\ ((run[r].cur = NoJob) <=> (run[r].pc \in {"idle", "loop"}))
                                    /\ won[r] \subseteq Jobs /\ Vouched(run[r])
  BY AutonomousAssumption DEF TypeOK, Run, Taken
<1>1. \A j \in Jobs : received[j] > 0 => received'[j] > 0
  <2>1. \A j \in Jobs : received[j] \in Nat /\ received'[j] \in Nat /\ received[j] <= received'[j]
    BY ReceivedGrows DEF TypeOK
  <2>. QED BY <2>1
<1>2. ASSUME NEW r \in Runners, run'[r] = run[r] PROVE Vouched(run[r])'
  BY <1>0, <1>1, <1>2 DEF Vouched
<1>3. ASSUME \A r \in Runners : won'[r] \subseteq won[r] PROVE SubmittedWasTaken'
  BY <1>0, <1>1, <1>3 DEF SubmittedWasTaken, Taken
<1>4. ASSUME NEW r \in Runners, run'[r].pc \notin {"poll", "shot", "settle"} PROVE Vouched(run[r])'
  BY <1>4 DEF Vouched
<1>5. ASSUME run' = run, won' = won PROVE Taken'
  BY <1>2, <1>3, <1>5 DEF Taken
<1>6. ASSUME NEW r \in Runners, Vouched(run[r])', \A q \in Runners : q # r => run'[q] = run[q],
             \A q \in Runners : won'[q] \subseteq won[q]
      PROVE  Taken'
  <2>1. \A q \in Runners : Vouched(run[q])'
    BY <1>2, <1>6
  <2>. QED BY <1>3, <1>6, <2>1 DEF Taken
<1>7. ASSUME NEW r \in Runners, Stop(r) \/ Interrupt(r) \/ Start(r) PROVE Taken'
  <2>1. run'[r].pc \in {"idle", "loop"} /\ \A q \in Runners : q # r => run'[q] = run[q]
    <3>1. Asleep.pc = "idle"
      BY DEF Asleep
    <3>2. CASE run' = [run EXCEPT ![r] = Asleep]
      BY <3>1, <3>2 DEF TypeOK
    <3>3. CASE Start(r)
      BY <3>3 DEF Start, TypeOK, Asleep
    <3>. QED BY <1>7, <3>2, <3>3 DEF Stop, Interrupt
  <2>2. \A q \in Runners : won'[q] \subseteq won[q]
    BY <1>7 DEF Stop, Interrupt, Start, TypeOK
  <2>. QED BY <1>4, <1>6, <2>1, <2>2
<1>8. ASSUME NEW r \in Runners, NEW j \in Jobs, Skip(r, j) PROVE Taken'
  <2>1. /\ run'[r].pc = run[r].pc /\ run[r].pc = "loop" /\ won' = won
        /\ \A q \in Runners : q # r => run'[q] = run[q]
    BY <1>0, <1>8 DEF Skip, TypeOK
  <2>. QED BY <1>4, <1>6, <2>1
<1>9. ASSUME NEW r \in Runners, NEW j \in Jobs, Take(r, j) \/ RunJob(r, j) PROVE Taken'
  <2>1. \A q \in Runners : won'[q] \subseteq won[q]
    BY <1>9 DEF Take, RunJob, TypeOK
  <2>. QED BY <1>4, <1>6, <1>9, <2>1, TakenUp
<1>10. ASSUME NEW r \in Runners,
              \/ Poll(r) \/ FetchForm(r) \/ Tailor(r) \/ Fill(r) \/ Click(r) \/ Shot(r)
              \/ Answer(r) \/ Solve(r)
       PROVE  Taken'
  <2>1. won' = won /\ \A q \in Runners : q # r => run'[q] = run[q]
    <3>1. CASE run'[r].cur # NoJob
      BY <1>10, <3>1, InSession
    <3>2. CASE run'[r].cur = NoJob
      <4>1. run' = [run EXCEPT ![r] = Released(run[r], TRUE)] /\ won' = won
        BY <1>10, <3>2, GivenUp
      <4>. QED BY <4>1 DEF TypeOK
    <3>. QED BY <3>1, <3>2
  <2>2. Vouched(run[r])'
    <3>1. CASE Tailor(r) \/ FetchForm(r)
      <4>1. run'[r].pc \in {"fetch", "fill", "idle", "loop"}
        <5>1. CASE run' = [run EXCEPT ![r] = Released(@, TRUE)]
          BY <1>0, <5>1, ReleasedIsRun DEF TypeOK
        <5>2. CASE run' = [run EXCEPT ![r].pc = "fetch"] \/ run' = [run EXCEPT ![r].pc = "fill"]
          BY <1>0, <5>2 DEF TypeOK, Run
        <5>. QED BY <3>1, <5>1, <5>2 DEF Tailor, FetchForm
      <4>. QED BY <1>4, <4>1
    <3>2. CASE Fill(r)
      <4>1. run'[r].pc \in {"submit", "settle"} /\ run'[r].result # "submitted"
        BY <1>0, <3>2 DEF Fill, TypeOK, Run
      <4>. QED BY <4>1 DEF Vouched
    <3>3. CASE Click(r)
      <4>1. \/ run'[r].pc = "settle" /\ run'[r].result = "uncertain"
            \/ run'[r].pc = "poll" /\ run'[r].page = "pending"
        BY <1>0, <3>3 DEF Click, TypeOK, Run
      <4>. QED BY <4>1 DEF Vouched
    <3>4. CASE Poll(r)
      <4>1. /\ run[r].pc = "poll" /\ run'[r].cur = run[r].cur /\ run'[r].pc \in {"poll", "shot"}
            /\ run'[r].page \in {run[r].page, "pending"} /\ received' = received
        BY <1>0, <3>4 DEF Poll, TypeOK, Run
      <4>. QED BY <1>0, <4>1 DEF Vouched
    <3>5. CASE Shot(r)
      <4>1. PICK taken \in BOOLEAN :
              run' = [run EXCEPT ![r].pc = "settle",
                                 ![r].result = IF taken /\ Sufficient(r) THEN "submitted" ELSE "uncertain"]
        BY <3>5 DEF Shot
      <4>2. /\ run'[r].pc = "settle" /\ run'[r].cur = run[r].cur
            /\ run'[r].result = "submitted" => Sufficient(r)
        BY <1>0, <4>1 DEF TypeOK, Run
      <4>3. run[r].pc = "shot" /\ received' = received
        BY <3>5 DEF Shot
      <4>. QED BY <1>0, <4>2, <4>3 DEF Vouched, Sufficient
    <3>6. CASE Solve(r)
      <4>1. run'[r].pc = "poll" /\ run'[r].page \in {"form", "pending"}
        BY <1>0, <3>6 DEF Solve, TypeOK, Run
      <4>. QED BY <4>1 DEF Vouched
    <3>7. CASE Answer(r)
      <4>1. run[r].pc = "poll" /\ run[r].page = "pending" /\ run[r].cur \in Jobs
        BY <1>0, <3>7 DEF Answer
      <4>2. run'[r].pc = "poll" /\ run'[r].cur = run[r].cur
        BY <1>0, <3>7, <4>1 DEF Answer, TypeOK, Run
      <4>3. run'[r].page = "thanks" => received' = [received EXCEPT ![run[r].cur] = @ + 1]
        BY <1>0, <3>7, <4>1 DEF Answer, TypeOK, Run
      <4>4. run'[r].page = "regrets" => run[r].cur \in Polite
        BY <1>0, <3>7, <4>1 DEF Answer, TypeOK, Run
      <4>5. received' = [received EXCEPT ![run[r].cur] = @ + 1] => received'[run[r].cur] > 0
        <5>1. received[run[r].cur] \in Nat /\ received[run[r].cur] + 1 > 0
          BY <4>1 DEF TypeOK
        <5>. QED BY <4>1, <5>1 DEF TypeOK
      <4>. QED BY <4>2, <4>3, <4>4, <4>5 DEF Vouched
    <3>. QED BY <1>10, <3>1, <3>2, <3>3, <3>4, <3>5, <3>6, <3>7
  <2>. QED BY <1>6, <2>1, <2>2
<1>11. ASSUME NEW r \in Runners, Settle(r) PROVE Taken'
  <2>. DEFINE j == run[r].cur
              rec == [run[r] EXCEPT !.held[j] = StageAfter(run[r])]
              failed == run[r].result \notin {"submitted", "filled"}
  <2>1. run' = [run EXCEPT ![r] = Released(rec, failed)]
    BY <1>11 DEF Settle
  <2>2. Released(rec, failed).pc \in {"idle", "loop"}
    BY DEF Released, Asleep
  <2>. HIDE DEF rec, failed
  <2>3. \A q \in Runners : Vouched(run[q])'
    <3>1. run'[r].pc \in {"idle", "loop"} /\ \A q \in Runners : q # r => run'[q] = run[q]
      BY <2>1, <2>2 DEF TypeOK
    <3>. QED BY <1>2, <1>4, <3>1
  <2>4. run[r].pc = "settle" /\ j \in Jobs
    BY <1>0, <1>11 DEF Settle
  <2>5. won' = won \/ (run[r].result = "submitted" /\ won' = [won EXCEPT ![r] = @ \cup {j}])
    BY <1>11 DEF Settle
  <2>6. CASE won' = won
    BY <1>3, <2>3, <2>6 DEF Taken
  <2>7. CASE run[r].result = "submitted" /\ won' = [won EXCEPT ![r] = @ \cup {j}]
    <3>1. j \notin Marked \cup Polite => received'[j] > 0
      BY <1>0, <1>1, <2>4, <2>7 DEF Vouched
    <3>2. \A q \in Runners : won'[q] \subseteq won[q] \cup {j}
      BY <2>7 DEF TypeOK
    <3>3. SubmittedWasTaken
      BY DEF Taken
    <3>. HIDE DEF j
    <3>4. SubmittedWasTaken'
      BY <1>0, <1>1, <3>1, <3>2, <3>3 DEF SubmittedWasTaken
    <3>. QED BY <2>3, <3>4 DEF Taken
  <2>. QED BY <2>5, <2>6, <2>7
<1>12. ASSUME NEW j \in Jobs, Approve(j) \/ Reject(j) \/ Revalidate(j) \/ Elsewhere(j) \/ Mail(j)
       PROVE  Taken'
  BY <1>5, <1>12 DEF Approve, Reject, Revalidate, Elsewhere, Mail
<1>13. CASE Switch \/ UNCHANGED vars
  BY <1>5, <1>13 DEF Switch, vars
<1>. QED BY <1>7, <1>8, <1>9, <1>10, <1>11, <1>12, <1>13, StepIsOne, AutonomousAssumption

-----------------------------------------------------------------------------
(* Theorems for any number of runners                                      *)

\* The four parts together are inductive.
THEOREM RunInvHolds == Spec => []RunInv
<1>1. Init => RunInv
  BY InitRunInv
<1>2. RunInv /\ [Next]_vars => RunInv'
  <2>. SUFFICES ASSUME RunInv, [Next]_vars PROVE RunInv'
    OBVIOUS
  <2>. QED BY TypeStep, PatientStep, LimitedStep, TakenStep DEF RunInv
<1>. QED BY <1>1, <1>2, PTL DEF Spec

\* Types, for any postings and any number of runners (_process_job and the session).
THEOREM TypesHold == Spec => []TypeOK
<1>1. RunInv => TypeOK
  BY DEF RunInv
<1>. QED BY <1>1, RunInvHolds, PTL

\* Budget, patience and cooldown of every run (run_async).
THEOREM RunsStayLimited == Spec => []RunsAreLimited
<1>1. RunInv => RunsAreLimited
  BY DEF RunInv, Limited, Within, RunsAreLimited
<1>. QED BY <1>1, RunInvHolds, PTL

\* Nothing is reported as submitted that was not taken (execute_live_submission).
THEOREM ReportedWasTaken == Spec => []SubmittedWasTaken
<1>1. RunInv => SubmittedWasTaken
  BY DEF RunInv, Taken
<1>. QED BY <1>1, RunInvHolds, PTL

-----------------------------------------------------------------------------
(* One runner: what may have been sent stays out of the queue              *)

OneRunner == \A r, q \in Runners : r = q

\* A single run is started by hand only on postings of the queue.
QueuedByHand == ByHandFrom \subseteq Queue

Untouched(j) == received[j] = 0 \/ j \in reopened

\* The candidates of a run are untouched, and so is the posting in hand until it is
\* submitted, which takes the consent.
Careful(rec) ==
    /\ \A j \in rec.todo : Untouched(j) /\ rec.held[j] \in Queue
    /\ rec.cur # NoJob =>
          /\ rec.cur \notin rec.todo /\ rec.held[rec.cur] \in Queue
          /\ rec.pc \in {"submit", "poll", "shot"} => rec.consent
          /\ Untouched(rec.cur) \/ (rec.consent /\ rec.pc \in {"poll", "shot", "settle"})

SentInv == SentStaysOut /\ \A r \in Runners : Careful(run[r])

LEMMA InitSentInv == Init => SentInv
<1>. SUFFICES ASSUME Init PROVE SentInv
  OBVIOUS
<1>1. \A j \in Jobs : ~(received[j] > 0)
  BY DEF Init
<1>2. Asleep.todo = {} /\ Asleep.cur = NoJob /\ \A r \in Runners : run[r] = Asleep
  BY DEF Init, Asleep
<1>. QED BY <1>1, <1>2 DEF SentInv, SentStaysOut, Careful

LEMMA SentStart ==
    ASSUME TypeOK, SentInv, OneRunner, NEW r \in Runners, Start(r)
    PROVE  SentInv'
<1>1. \A q \in Runners : q = r
  BY DEF OneRunner
<1>2. run[r].cur = NoJob /\ run[r].pc = "idle"
  BY DEF TypeOK, Start
<1>3. \A j \in Jobs : ~InHand(j)
  BY <1>1, <1>2, AutonomousAssumption DEF InHand
<1>4. \A j \in Jobs : stage'[j] = stage[j] \/ stage[j] = "discovered"
  BY DEF Start, TypeOK
<1>5. received' = received /\ reopened' = reopened
  BY DEF Start
<1>6. run'[r].cur = NoJob /\ run'[r].held = stage' /\ run'[r].todo = {j \in Jobs : stage'[j] \in Queue}
  BY DEF Start, TypeOK, Asleep
<1>7. \A j \in Jobs : stage'[j] \in Queue => stage[j] \in Queue
  BY <1>4 DEF Queue
<1>8. \A j \in Jobs : received[j] \in Nat
  BY DEF TypeOK
<1>9. \A j \in Jobs : stage[j] \in Queue => Untouched(j)
  BY <1>3, <1>8 DEF SentInv, SentStaysOut, Untouched
<1>10. SentStaysOut'
  BY <1>3, <1>5, <1>7 DEF SentInv, SentStaysOut
<1>11. Careful(run[r])'
  BY <1>5, <1>6, <1>7, <1>9 DEF Careful, Untouched
<1>. QED BY <1>1, <1>10, <1>11 DEF SentInv

LEMMA SentLoop ==
    ASSUME TypeOK, SentInv, OneRunner, QueuedByHand, NEW r \in Runners, NEW j \in Jobs,
           Skip(r, j) \/ Take(r, j) \/ RunJob(r, j)
    PROVE  SentInv'
<1>0. (\A q \in Runners : q = r) /\ Careful(run[r]) /\ received' = received /\ reopened' = reopened
  BY DEF OneRunner, SentInv, Skip, Take, RunJob
<1>1. run[r].cur = NoJob /\ run[r] \in Run
  BY DEF TypeOK, Skip, Take, RunJob
<1>2. \A k \in Jobs : ~InHand(k)
  BY <1>0, <1>1, AutonomousAssumption DEF InHand
<1>3. \A k \in Jobs : stage[k] \in Queue => Untouched(k)
  <2>1. \A k \in Jobs : received[k] \in Nat
    BY DEF TypeOK
  <2>. QED BY <1>2, <2>1 DEF SentInv, SentStaysOut, Untouched
<1>4. \A k \in Jobs : stage'[k] = stage[k] \/ stage'[k] = "closed"
  BY DEF Skip, Take, RunJob, TypeOK
<1>5. SentStaysOut'
  BY <1>0, <1>2, <1>4 DEF SentInv, SentStaysOut, Queue
<1>6. Careful(run[r])'
  <2>1. CASE Skip(r, j)
    <3>1. run'[r].todo \subseteq run[r].todo /\ run'[r].held = run[r].held /\ run'[r].cur = NoJob
      BY <1>1, <2>1 DEF Skip, TypeOK
    <3>. QED BY <1>0, <3>1 DEF Careful, Untouched
  <2>2. CASE Take(r, j)
    <3>1. j \in run[r].todo
      BY <2>2 DEF Take
    <3>. QED BY <1>0, <2>2, <3>1, TakenUp DEF Careful, Untouched
  <2>3. CASE RunJob(r, j)
    <3>1. stage[j] \in Queue /\ stage' = stage
      BY <2>3 DEF RunJob, QueuedByHand
    <3>2. Untouched(j)
      BY <1>3, <3>1
    <3>. QED BY <1>0, <2>3, <3>1, <3>2, TakenUp DEF Careful, Untouched
  <2>. QED BY <2>1, <2>2, <2>3
<1>. QED BY <1>0, <1>5, <1>6 DEF SentInv

LEMMA SentEnds ==
    ASSUME TypeOK, SentInv, OneRunner, NEW r \in Runners, Stop(r) \/ Interrupt(r)
    PROVE  SentInv'
<1>0. (\A q \in Runners : q = r) /\ Careful(run[r]) /\ received' = received /\ stage' = stage
  BY DEF OneRunner, SentInv, Stop, Interrupt
<1>1. run'[r] = Asleep /\ Asleep.cur = NoJob /\ Asleep.todo = {}
  BY DEF Stop, Interrupt, TypeOK, Asleep
<1>2. Careful(run[r])'
  BY <1>1 DEF Careful
<1>3. reopened \subseteq reopened' /\ (run[r].cur # NoJob => run[r].cur \in reopened')
  BY DEF Stop, Interrupt, TypeOK
<1>4. \A j \in Jobs : InHand(j) => j \in reopened'
  BY <1>0, <1>3, AutonomousAssumption DEF InHand
<1>5. SentStaysOut'
  BY <1>0, <1>3, <1>4 DEF SentInv, SentStaysOut
<1>. QED BY <1>0, <1>2, <1>5 DEF SentInv

\* Only the page takes an application, of the posting in hand.
LEMMA SessionReceives ==
    ASSUME TypeOK, NEW r \in Runners,
           \/ Poll(r) \/ FetchForm(r) \/ Tailor(r) \/ Fill(r) \/ Click(r) \/ Shot(r)
           \/ Answer(r) \/ Solve(r)
    PROVE  /\ received' = received \/ run[r].pc = "poll"
           /\ \A j \in Jobs : j # run[r].cur => received'[j] = received[j]
<1>1. CASE Answer(r)
  BY <1>1 DEF Answer, TypeOK
<1>2. CASE ~Answer(r)
  <2>1. received' = received
    BY <1>2 DEF Poll, FetchForm, Tailor, Fill, Click, Shot, Solve
  <2>. QED BY <2>1
<1>. QED BY <1>1, <1>2

\* Where a session goes on to, and that a submission takes the consent.
LEMMA SessionGoesOn ==
    ASSUME TypeOK, NEW r \in Runners,
           \/ Poll(r) \/ FetchForm(r) \/ Tailor(r) \/ Fill(r) \/ Click(r) \/ Shot(r)
           \/ Answer(r) \/ Solve(r),
           run'[r].cur # NoJob
    PROVE  \/ run'[r].pc \in {"fetch", "fill", "settle"} /\ run[r].pc \in {"tailor", "fetch", "fill"}
           \/ run'[r].pc = "submit" /\ run[r].consent /\ run[r].pc = "fill"
           \/ run'[r].pc \in {"poll", "shot", "settle"} /\ run[r].pc \in {"submit", "poll", "shot"}
<1>0. run[r] \in Run /\ Released(run[r], TRUE).cur = NoJob
  BY ReleasedIsRun DEF TypeOK
<1>1. CASE Tailor(r)
  <2>1. CASE run' = [run EXCEPT ![r].pc = "fetch"]
    BY <1>1, <2>1 DEF TypeOK, Tailor, Run
  <2>2. CASE run' = [run EXCEPT ![r] = Released(@, TRUE)]
    BY <1>0, <2>2 DEF TypeOK
  <2>. QED BY <1>1, <2>1, <2>2 DEF Tailor
<1>2. CASE FetchForm(r)
  <2>1. CASE run' = [run EXCEPT ![r].pc = "fill"]
    BY <1>2, <2>1 DEF TypeOK, FetchForm, Run
  <2>2. CASE run' = [run EXCEPT ![r] = Released(@, TRUE)]
    BY <1>0, <2>2 DEF TypeOK
  <2>. QED BY <1>2, <2>1, <2>2 DEF FetchForm
<1>3. CASE Fill(r)
  <2>1. run[r].pc = "fill"
    BY <1>3 DEF Fill
  <2>2. run'[r].pc = "settle" \/ (run'[r].pc = "submit" /\ run[r].consent)
    <3>1. CASE \E res \in {"unmatched", "failed"} :
                 run' = [run EXCEPT ![r].pc = "settle", ![r].result = res]
      BY <1>0, <3>1 DEF TypeOK, Run
    <3>2. CASE run' = [run EXCEPT ![r].pc = IF run[r].consent THEN "submit" ELSE "settle",
                                  ![r].result = "filled"]
      BY <1>0, <3>2 DEF TypeOK, Run
    <3>. QED BY <1>3, <3>1, <3>2 DEF Fill
  <2>. QED BY <2>1, <2>2
<1>4. CASE Click(r)
  BY <1>0, <1>4 DEF Click, TypeOK, Run
<1>5. CASE Poll(r)
  BY <1>0, <1>5 DEF Poll, TypeOK, Run
<1>6. CASE Shot(r)
  <2>1. PICK res \in {"submitted", "uncertain"} : run' = [run EXCEPT ![r].pc = "settle", ![r].result = res]
    BY <1>6 DEF Shot
  <2>2. run[r].pc = "shot"
    BY <1>6 DEF Shot
  <2>. QED BY <1>0, <2>1, <2>2 DEF TypeOK, Run
<1>7. CASE Answer(r) \/ Solve(r)
  BY <1>0, <1>7 DEF Answer, Solve, TypeOK, Run
<1>. QED BY <1>1, <1>2, <1>3, <1>4, <1>5, <1>6, <1>7

LEMMA SentSession ==
    ASSUME TypeOK, SentInv, OneRunner, NEW r \in Runners,
           \/ Poll(r) \/ FetchForm(r) \/ Tailor(r) \/ Fill(r) \/ Click(r) \/ Shot(r)
           \/ Answer(r) \/ Solve(r)
    PROVE  SentInv'
<1>. DEFINE old == run[r]
<1>0. (\A q \in Runners : q = r) /\ Careful(old) /\ old \in Run
      /\ ((old.cur = NoJob) <=> (old.pc \in {"idle", "loop"}))
  BY DEF OneRunner, SentInv, TypeOK
<1>1. CASE run'[r].cur # NoJob
  <2>1. /\ run'[r].cur = old.cur /\ run'[r].todo = old.todo /\ run'[r].held = old.held
        /\ run'[r].consent = old.consent /\ stage' = stage /\ reopened' = reopened
    BY <1>1, InSession
  <2>2. \A j \in Jobs : j # old.cur => received'[j] = received[j]
    BY SessionReceives
  <2>3. old.todo \subseteq Jobs /\ old.cur # NoJob /\ old.cur \notin old.todo
    BY <1>0, <1>1, <2>1 DEF Careful, Run
  <2>4. \A j \in old.todo : Untouched(j)'
    BY <1>0, <2>1, <2>2, <2>3 DEF Careful, Untouched
  <2>5. Untouched(old.cur)' \/ (old.consent /\ run'[r].pc \in {"poll", "shot", "settle"})
    <3>1. CASE old.pc = "poll" \/ old.pc = "shot" \/ old.pc = "submit"
      BY <1>0, <1>1, <2>3, <3>1, SessionGoesOn DEF Careful
    <3>2. CASE old.pc \notin {"poll", "shot", "submit"}
      <4>1. received' = received
        BY <3>2, SessionReceives
      <4>2. Untouched(old.cur) \/ old.pc = "settle"
        BY <1>0, <2>3, <3>2 DEF Careful
      <4>3. old.pc # "settle"
        BY <1>1, <3>2, SessionGoesOn
      <4>. QED BY <2>1, <4>1, <4>2, <4>3 DEF Untouched
    <3>. QED BY <3>1, <3>2
  <2>6. run'[r].pc \in {"submit", "poll", "shot"} => old.consent
    BY <1>0, <1>1, <2>3, SessionGoesOn DEF Careful
  <2>7. Careful(run[r])'
    BY <1>0, <2>1, <2>3, <2>4, <2>5, <2>6 DEF Careful, Untouched
  <2>8. InHand(old.cur)'
    BY <2>1 DEF InHand
  <2>9. SentStaysOut'
    <3>1. \A j \in Jobs : j # old.cur => (InHand(j)' <=> InHand(j))
      BY <1>0, <2>1 DEF InHand
    <3>. QED BY <2>1, <2>2, <2>8, <3>1 DEF SentInv, SentStaysOut
  <2>. QED BY <1>0, <2>7, <2>9 DEF SentInv
<1>2. CASE run'[r].cur = NoJob
  <2>1. /\ run' = [run EXCEPT ![r] = Released(old, TRUE)]
        /\ UNCHANGED <<stage, task, received, won, reopened>>
        /\ old.pc \in {"tailor", "fetch"} /\ old.cur # NoJob
    BY <1>2, GivenUp
  <2>2. Untouched(old.cur)
    BY <1>0, <2>1 DEF Careful
  <2>3. run'[r] = Released(old, TRUE)
    BY <2>1 DEF TypeOK
  <2>4. run'[r].todo = {} \/ (run'[r].todo = old.todo /\ run'[r].held = old.held)
    BY <2>3 DEF Released, Asleep
  <2>5. Careful(run[r])'
    BY <1>0, <1>2, <2>1, <2>4 DEF Careful, Untouched
  <2>6. \A j \in Jobs : InHand(j) => Untouched(j)
    BY <1>0, <2>2 DEF InHand
  <2>7. \A j \in Jobs : Untouched(j) /\ received[j] > 0 => j \in reopened
    BY DEF Untouched
  <2>8. SentStaysOut'
    BY <2>1, <2>6, <2>7 DEF SentInv, SentStaysOut
  <2>. QED BY <1>0, <2>5, <2>8 DEF SentInv
<1>. QED BY <1>1, <1>2

LEMMA SentSettle ==
    ASSUME TypeOK, SentInv, OneRunner, NEW r \in Runners, Settle(r)
    PROVE  SentInv'
<1>. DEFINE old == run[r]
            j == run[r].cur
            s == StageAfter(run[r])
            rec == [run[r] EXCEPT !.held[j] = s]
            failed == run[r].result \notin {"submitted", "filled"}
<1>0. (\A q \in Runners : q = r) /\ Careful(old) /\ old \in Run /\ old.pc = "settle" /\ j \in Jobs /\ j # NoJob
  BY AutonomousAssumption DEF OneRunner, SentInv, TypeOK, Settle, Run
<1>1. s \in Stages
  BY <1>0, StageAfterIsStage
<1>2. run'[r] = Released(rec, failed) /\ received' = received /\ reopened' = reopened
  BY DEF Settle, TypeOK
<1>3. stage' = IF old.held[j] # s THEN [stage EXCEPT ![j] = s] ELSE stage
  BY DEF Settle, WriteStage
<1>4. old.consent => s \in {"submitted", "review"}
  BY <1>0 DEF StageAfter, Run
<1>. HIDE DEF s
<1>5. rec.todo = old.todo /\ \A k \in Jobs : k # j => rec.held[k] = old.held[k]
  BY <1>0, <1>1 DEF Run
<1>. HIDE DEF rec, failed
<1>6. run'[r].cur = NoJob
      /\ (run'[r].todo = {} \/ (run'[r].todo = rec.todo /\ run'[r].held = rec.held))
  BY <1>2 DEF Released, Asleep
<1>7. Careful(run[r])'
  <2>1. old.todo \subseteq Jobs /\ j \notin old.todo
    BY <1>0 DEF Careful, Run
  <2>. QED BY <1>0, <1>2, <1>5, <1>6, <2>1 DEF Careful, Untouched
<1>8. \A k \in Jobs : k # j => stage'[k] = stage[k] /\ ~InHand(k)
  BY <1>0, <1>3 DEF TypeOK, InHand
<1>9. received[j] > 0 => stage'[j] \notin Queue \/ j \in reopened
  <2>1. CASE Untouched(j)
    BY <2>1 DEF Untouched
  <2>2. CASE old.consent
    <3>1. old.held[j] \in Queue
      BY <1>0 DEF Careful
    <3>2. old.held[j] # s /\ s \notin Queue
      BY <1>4, <2>2, <3>1 DEF Queue
    <3>. QED BY <1>0, <1>3, <3>2 DEF TypeOK
  <2>. QED BY <1>0, <2>1, <2>2 DEF Careful
<1>10. SentStaysOut'
  <2>. HIDE DEF j
  <2>. QED BY <1>2, <1>8, <1>9 DEF SentInv, SentStaysOut
<1>. QED BY <1>0, <1>7, <1>10 DEF SentInv

LEMMA SentOthers ==
    ASSUME TypeOK, SentInv, NEW j \in Jobs,
           Approve(j) \/ Reject(j) \/ Revalidate(j) \/ Elsewhere(j) \/ Mail(j)
    PROVE  SentInv'
<1>1. received' = received /\ run' = run /\ reopened \subseteq reopened'
  BY DEF Approve, Reject, Revalidate, Elsewhere, Mail
<1>2. \A k \in Jobs : stage'[k] \in Queue => stage[k] \in Queue \/ k \in reopened'
  <2>1. CASE Approve(j)
    BY <2>1 DEF Approve, TypeOK
  <2>2. CASE Reject(j) \/ Mail(j)
    BY <2>2 DEF Reject, Mail, TypeOK, Queue
  <2>3. CASE Revalidate(j)
    BY <2>3 DEF Revalidate, TypeOK
  <2>4. CASE Elsewhere(j)
    BY <2>4 DEF Elsewhere, TypeOK, Queue
  <2>. QED BY <2>1, <2>2, <2>3, <2>4
<1>3. SentStaysOut'
  BY <1>1, <1>2 DEF SentInv, SentStaysOut, InHand
<1>4. \A r \in Runners : Careful(run[r])'
  BY <1>1 DEF SentInv, Careful, Untouched
<1>. QED BY <1>3, <1>4 DEF SentInv

\* With one runner, what an employer may have is out of the queue of later runs
\* (_process_job), for any postings and bounds.
THEOREM SentKeepsOut == ASSUME OneRunner, QueuedByHand PROVE Spec => []SentStaysOut
<1>1. Init => RunInv /\ SentInv
  BY InitRunInv, InitSentInv
<1>2. RunInv /\ SentInv /\ [Next]_vars => RunInv' /\ SentInv'
  <2>. SUFFICES ASSUME RunInv, SentInv, [Next]_vars PROVE RunInv' /\ SentInv'
    OBVIOUS
  <2>1. RunInv' /\ TypeOK
    BY TypeStep, PatientStep, LimitedStep, TakenStep DEF RunInv
  <2>2. CASE Switch \/ UNCHANGED vars
    <3>1. UNCHANGED <<received, run, reopened, stage>>
      BY <2>2 DEF Switch, vars
    <3>. QED BY <2>1, <3>1 DEF SentInv, SentStaysOut, InHand, Careful, Untouched
  <2>3. ASSUME NEW r \in Runners, Start(r) \/ Stop(r) \/ Interrupt(r) \/ Settle(r)
        PROVE  SentInv'
    BY <2>1, <2>3, OneRunner, SentStart, SentEnds, SentSettle
  <2>4. ASSUME NEW r \in Runners,
               \/ Poll(r) \/ FetchForm(r) \/ Tailor(r) \/ Fill(r) \/ Click(r) \/ Shot(r)
               \/ Answer(r) \/ Solve(r)
        PROVE  SentInv'
    BY <2>1, <2>4, OneRunner, SentSession
  <2>5. ASSUME NEW r \in Runners, NEW j \in Jobs, Skip(r, j) \/ Take(r, j) \/ RunJob(r, j)
        PROVE  SentInv'
    BY <2>1, <2>5, OneRunner, QueuedByHand, SentLoop
  <2>6. ASSUME NEW j \in Jobs, Approve(j) \/ Reject(j) \/ Revalidate(j) \/ Elsewhere(j) \/ Mail(j)
        PROVE  SentInv'
    BY <2>1, <2>6, SentOthers
  <2>. QED BY <2>1, <2>2, <2>3, <2>4, <2>5, <2>6, StepIsOne, AutonomousAssumption
<1>3. SentInv => SentStaysOut
  BY DEF SentInv
<1>. QED BY <1>1, <1>2, <1>3, PTL DEF Spec
=============================================================================
