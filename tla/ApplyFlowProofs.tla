-------------------------- MODULE ApplyFlowProofs --------------------------
(***************************************************************************)
(* Theorems about ApplyFlow. For any number of sessions and of tasks: the  *)
(* types, and that a posting held for the owner has an open task. For one  *)
(* session: the moves stay in ALLOWED, the stages of job and application   *)
(* agree, and no posting gets lost.                                        *)
(*                                                                         *)
(* HeldHasTask is not inductive: a session may be about to close the task. *)
(* HoldInv adds that nobody is deciding on it, which holds because whoever *)
(* decides on a task moves the posting off needs_review in the same commit.*)
(* The other three come from FlowInv, which says for every place in a      *)
(* handler which stages the posting may be in.                             *)
(***************************************************************************)
EXTENDS ApplyFlow, TLAPS

-----------------------------------------------------------------------------
(***************************************************************************)
(* The stages by name.                                                     *)
(***************************************************************************)
LEMMA StageNames ==
    /\ {"discovered", "eligible", "review", "scored", "shortlisted", "approved",
        "preparing", "materials_generated", "materials_reviewed", "ready_to_apply",
        "applying", "form_filled", "validated", "needs_review"} \subseteq Stages
    /\ {"submission_uncertain", "submitted", "confirmed", "rejected",
        "withdrawn"} \subseteq Stages
    /\ NoStage \notin Stages
<1>1. /\ DOMAIN StageOrder = 1..23
      /\ StageOrder[1] = "discovered" /\ StageOrder[3] = "eligible"
      /\ StageOrder[4] = "review" /\ StageOrder[5] = "scored"
      /\ StageOrder[6] = "shortlisted" /\ StageOrder[7] = "approved"
      /\ StageOrder[8] = "preparing" /\ StageOrder[9] = "materials_generated"
      /\ StageOrder[10] = "materials_reviewed" /\ StageOrder[11] = "ready_to_apply"
      /\ StageOrder[12] = "applying" /\ StageOrder[13] = "form_filled"
      /\ StageOrder[14] = "validated" /\ StageOrder[15] = "needs_review"
      /\ StageOrder[16] = "submission_uncertain" /\ StageOrder[17] = "submitted"
      /\ StageOrder[18] = "confirmed" /\ StageOrder[19] = "rejected"
      /\ StageOrder[20] = "withdrawn"
  BY DEF StageOrder
<1>2. \A i \in 1..23 : StageOrder[i] \in Stages
  BY <1>1 DEF Stages
<1>3. \A i \in 1..23 : StageOrder[i] # NoStage
  BY DEF StageOrder, NoStage
<1> QED
  BY <1>1, <1>2, <1>3 DEF Stages

-----------------------------------------------------------------------------
(* Types. The half of TypeOK about the sessions, and the half about the    *)
(* data they work on.                                                      *)

WorkTyped ==
    /\ stage \in Stages
    /\ app \in Stages \cup {NoStage}
    /\ pc \in [Sessions -> Places]
    /\ held \in [Sessions -> Row]
    /\ doing \in [Sessions -> TaskIds \cup {NoTask}]
    /\ \A s \in Sessions : doing[s] # NoTask => task[doing[s]] # "none"

DataTyped ==
    /\ drafts \subseteq Kinds
    /\ resume \in {"none", "ready", "problem"}
    /\ generated \in BOOLEAN
    /\ task \in [TaskIds -> {"none", "open", "closed"}]
    /\ killed \in BOOLEAN
    /\ aside \in BOOLEAN
    /\ broken \in BOOLEAN

\* What most handlers leave alone: tasks are closed, never deleted.
TasksStay == \A t \in TaskIds : task[t] # "none" => task'[t] # "none"

(***************************************************************************)
(* A commit keeps the types when the rows it writes are typed and it does  *)
(* not empty Job.stage.                                                    *)
(***************************************************************************)
LEMMA CommitTyped ==
    ASSUME TypeOK, DataTyped', TasksStay,
           NEW s \in Sessions, NEW old \in Row, NEW new \in Row,
           NEW place \in Places, NEW t \in TaskIds \cup {NoTask},
           new.job \in Stages \/ new.job = old.job,
           t # NoTask => task[t] # "none",
           Commit(s, old, new, place, t)
    PROVE  TypeOK'
<1>1. stage' \in Stages /\ app' \in Stages \cup {NoStage}
  BY DEF TypeOK, Commit, Row
<1>2. Nothing \in Row
  BY DEF Nothing, Row
<1>3. /\ pc' \in [Sessions -> Places]
      /\ held' \in [Sessions -> Row]
      /\ doing' \in [Sessions -> TaskIds \cup {NoTask}]
  BY <1>2 DEF TypeOK, Commit
<1>4. \A x \in Sessions : doing'[x] \in {doing[x], t, NoTask}
  BY DEF TypeOK, Commit
<1>5. ASSUME NEW x \in Sessions, doing'[x] # NoTask
      PROVE  task'[doing'[x]] # "none"
  <2>1. doing'[x] \in TaskIds
    BY <1>3, <1>5
  <2>2. task[doing'[x]] # "none"
    BY <1>4, <1>5 DEF TypeOK
  <2> QED
    BY <2>1, <2>2 DEF TasksStay
<1>6. WorkTyped'
  BY <1>1, <1>3, <1>5 DEF WorkTyped
<1> QED
  BY <1>6 DEF TypeOK, WorkTyped, DataTyped

LEMMA BeginTyped ==
    ASSUME TypeOK, DataTyped', TasksStay,
           NEW s \in Sessions, NEW new \in Row, new.job \in Stages,
           NEW place \in Places, NEW t \in TaskIds \cup {NoTask},
           t # NoTask => task[t] # "none",
           Begin(s, new, place, t)
    PROVE  TypeOK'
<1>1. Rows \in Row
  BY DEF TypeOK, Rows, Row
<1> QED
  BY <1>1, CommitTyped DEF Begin

LEMMA ContinueTyped ==
    ASSUME TypeOK, DataTyped', TasksStay,
           NEW s \in Sessions, NEW new \in Row,
           new.job \in Stages \/ new.job = held[s].job,
           NEW place \in Places, Continue(s, new, place)
    PROVE  TypeOK'
<1>1. /\ held[s] \in Row
      /\ doing[s] \in TaskIds \cup {NoTask}
      /\ doing[s] # NoTask => task[doing[s]] # "none"
  BY DEF TypeOK
<1> QED
  BY <1>1, CommitTyped DEF Continue

LEMMA RowFacts ==
    ASSUME TypeOK
    PROVE  /\ Rows \in Row /\ Rows.job = stage /\ Rows.app = app /\ Rows.job \in Stages
           /\ \A s \in Sessions : held[s] \in Row
           /\ \A r \in Row, to \in Stages : To(r, to) \in Row /\ To(r, to).job = to
BY DEF TypeOK, Rows, Row, To

(***************************************************************************)
(* Steps that leave the data alone.                                        *)
(***************************************************************************)
Quiet == UNCHANGED <<drafts, resume, generated, task, killed, aside, broken>>

LEMMA QuietData == ASSUME TypeOK, Quiet PROVE DataTyped' /\ TasksStay
BY DEF Quiet, TypeOK, DataTyped, TasksStay
(***************************************************************************)
(* open_task: a task comes into being with the stages.                     *)
(***************************************************************************)
LEMMA HoldTyped ==
    ASSUME TypeOK, NEW s \in Sessions, NEW old \in Row, Hold(s, old)
    PROVE  TypeOK'
<1>1. DataTyped' /\ TasksStay
  BY DEF Hold, TypeOK, DataTyped, TasksStay, TaskIds
<1>2. PICK new \in Row : /\ new.job \in Stages \/ new.job = old.job
                         /\ Commit(s, old, new, "idle", NoTask)
  <2> DEFINE to == IF old.job \in {"submitted", "confirmed", "rejected", "review"}
                   THEN old.job ELSE "needs_review"
             new == To([old EXCEPT !.app = "needs_review"], to)
  <2>1. new \in Row /\ new.job = to
    BY StageNames DEF To, Row
  <2>2. Commit(s, old, new, "idle", NoTask)
    BY DEF Hold
  <2> QED
    BY <2>1, <2>2, StageNames
<1> QED
  BY <1>1, <1>2, CommitTyped DEF Places

LEMMA TypeStep == TypeOK /\ [Next]_vars => TypeOK'
<1> SUFFICES ASSUME TypeOK, [Next]_vars PROVE TypeOK'
  OBVIOUS
<1>1. ASSUME NEW s \in Sessions, StartScoring(s) PROVE TypeOK'
  <2>1. Quiet
    BY <1>1 DEF StartScoring, Quiet
  <2>2. Begin(s, Rows, "batch", NoTask)
    BY <1>1 DEF StartScoring
  <2> QED
    BY <2>1, <2>2, QuietData, RowFacts, BeginTyped DEF Places
<1>2. ASSUME NEW s \in Sessions, GateJob(s) PROVE TypeOK'
  <2>1. Quiet
    BY <1>2 DEF GateJob, Quiet
  <2>2. PICK to \in {"rejected", "review", "eligible"}, place \in Places :
          Continue(s, To(held[s], to), place)
    BY <1>2 DEF GateJob, Places
  <2>3. to \in Stages
    BY StageNames
  <2>4. To(held[s], to) \in Row /\ To(held[s], to).job = to
    BY <2>3, RowFacts
  <2> QED
    BY <2>1, <2>2, <2>3, <2>4, QuietData, ContinueTyped
<1>3. ASSUME NEW s \in Sessions, AskOwner(s) PROVE TypeOK'
  <2>1. DataTyped' /\ TasksStay
    BY <1>3 DEF AskOwner, TypeOK, DataTyped, TasksStay
  <2>2. Continue(s, held[s], "idle")
    BY <1>3 DEF AskOwner
  <2> QED
    BY <2>1, <2>2, RowFacts, StageNames, ContinueTyped DEF Places
<1>4. ASSUME NEW s \in Sessions, ScoreJob(s) PROVE TypeOK'
  <2>1. Quiet
    BY <1>4 DEF ScoreJob, Quiet
  <2>2. Continue(s, To(held[s], "scored"), "select")
    BY <1>4 DEF ScoreJob
  <2> QED
    BY <2>1, <2>2, QuietData, RowFacts, StageNames, ContinueTyped DEF Places
<1>5. ASSUME NEW s \in Sessions, SelectJob(s) PROVE TypeOK'
  <2>1. Quiet
    BY <1>5 DEF SelectJob, Quiet
  <2>2. \/ Continue(s, To(held[s], "shortlisted"), "create")
        \/ Continue(s, To(held[s], "rejected"), "idle")
    BY <1>5 DEF SelectJob
  <2> QED
    BY <2>1, <2>2, QuietData, RowFacts, StageNames, ContinueTyped DEF Places
<1>6. ASSUME NEW s \in Sessions, CreateApplication(s) PROVE TypeOK'
  <2>1. app' \in Stages \cup {NoStage}
    BY <1>6, StageNames DEF CreateApplication, TypeOK
  <2>2. pc' \in [Sessions -> Places] /\ held' \in [Sessions -> Row]
    BY <1>6 DEF CreateApplication, TypeOK, Places, Nothing, Row
  <2>3. UNCHANGED <<stage, doing, drafts, resume, generated, task, killed, aside, broken>>
    BY <1>6 DEF CreateApplication
  <2> QED
    BY <2>1, <2>2, <2>3 DEF TypeOK
<1>7. ASSUME NEW s \in Sessions, StartGenerating(s) PROVE TypeOK'
  <2>1. Quiet
    BY <1>7 DEF StartGenerating, Quiet
  <2>2. Begin(s, Rows, "build", NoTask)
    BY <1>7 DEF StartGenerating
  <2> QED
    BY <2>1, <2>2, QuietData, RowFacts, BeginTyped DEF Places
<1>8. ASSUME NEW s \in Sessions, BeginPreparing(s) PROVE TypeOK'
  <2>1. DataTyped' /\ TasksStay
    BY <1>8 DEF BeginPreparing, TypeOK, DataTyped, TasksStay
  <2>2. Continue(s, To(held[s], "preparing"), "draft")
    BY <1>8 DEF BeginPreparing
  <2> QED
    BY <2>1, <2>2, RowFacts, StageNames, ContinueTyped DEF Places
<1>9. ASSUME NEW s \in Sessions, DraftResume(s) PROVE TypeOK'
  <2>1. DataTyped' /\ TasksStay
    BY <1>9 DEF DraftResume, TypeOK, DataTyped, TasksStay, Kinds
  <2>2. Continue(s, held[s], "letter")
    BY <1>9 DEF DraftResume
  <2> QED
    BY <2>1, <2>2, RowFacts, StageNames, ContinueTyped DEF Places
<1>10. ASSUME NEW s \in Sessions, DraftLetter(s) PROVE TypeOK'
  <2>1. DataTyped' /\ TasksStay
    BY <1>10 DEF DraftLetter, TypeOK, DataTyped, TasksStay, Kinds
  <2>2. Continue(s, held[s], "drafted")
    BY <1>10 DEF DraftLetter
  <2> QED
    BY <2>1, <2>2, RowFacts, StageNames, ContinueTyped DEF Places
<1>11. ASSUME NEW s \in Sessions, FinishGenerating(s) PROVE TypeOK'
  <2>1. Quiet
    BY <1>11 DEF FinishGenerating, Quiet
  <2>2. PICK new \in Row : /\ new.job \in Stages \/ new.job = held[s].job
                           /\ Continue(s, new, "prompt")
    BY <1>11, RowFacts, StageNames DEF FinishGenerating, Row
  <2> QED
    BY <2>1, <2>2, QuietData, ContinueTyped DEF Places
<1>12. ASSUME NEW s \in Sessions, OpenReview(s) PROVE TypeOK'
  <2>1. DataTyped' /\ TasksStay
    BY <1>12 DEF OpenReview, TypeOK, DataTyped, TasksStay
  <2>2. Continue(s, held[s], "idle")
    BY <1>12 DEF OpenReview
  <2> QED
    BY <2>1, <2>2, RowFacts, StageNames, ContinueTyped DEF Places
<1>13. ASSUME NEW s \in Sessions, NEW kind \in Kinds,
              ApproveMaterial(s, kind) PROVE TypeOK'
  <2>1. DataTyped' /\ TasksStay
    BY <1>13 DEF ApproveMaterial, TypeOK, DataTyped, TasksStay, Kinds
  <2>2. Begin(s, Rows, "decided", NoTask)
    BY <1>13 DEF ApproveMaterial
  <2> QED
    BY <2>1, <2>2, RowFacts, BeginTyped DEF Places
<1>14. ASSUME NEW s \in Sessions, NEW kind \in Kinds,
              RejectMaterial(s, kind) PROVE TypeOK'
  <2>1. DataTyped' /\ TasksStay
    BY <1>14 DEF RejectMaterial, TypeOK, DataTyped, TasksStay, Kinds
  <2>2. Begin(s, Rows, "decided", NoTask)
    BY <1>14 DEF RejectMaterial
  <2> QED
    BY <2>1, <2>2, RowFacts, BeginTyped DEF Places
<1>15. ASSUME NEW s \in Sessions, AfterDecision(s) PROVE TypeOK'
  <2>1. DataTyped' /\ TasksStay
    BY <1>15 DEF AfterDecision, TypeOK, DataTyped, TasksStay
  <2>2. PICK place \in {"approve", "idle"} : Commit(s, Rows, Rows, place, NoTask)
    BY <1>15 DEF AfterDecision
  <2> QED
    BY <2>1, <2>2, RowFacts, CommitTyped DEF Places
<1>16. ASSUME NEW s \in Sessions, StartApproval(s) PROVE TypeOK'
  <2>1. Quiet
    BY <1>16 DEF StartApproval, Quiet
  <2>2. Begin(s, Rows, "approve", NoTask)
    BY <1>16 DEF StartApproval
  <2> QED
    BY <2>1, <2>2, QuietData, RowFacts, BeginTyped DEF Places
<1>17. ASSUME NEW s \in Sessions, ApproveShortlisted(s) PROVE TypeOK'
  <2>1. Quiet
    BY <1>17 DEF ApproveShortlisted, Quiet
  <2>2. \/ Continue(s, To(held[s], "approved"), "check")
        \/ Continue(s, held[s], "check")
    BY <1>17 DEF ApproveShortlisted
  <2> QED
    BY <2>1, <2>2, QuietData, RowFacts, StageNames, ContinueTyped DEF Places
<1>18. ASSUME NEW s \in Sessions, CheckMaterials(s) PROVE TypeOK'
  <2>1. Quiet
    BY <1>18 DEF CheckMaterials, Quiet
  <2>2. PICK place \in Places, new \in {To(held[s], "materials_reviewed"), held[s]} :
          Continue(s, new, place)
    BY <1>18 DEF CheckMaterials, Done, Places
  <2>3. new \in Row /\ (new.job \in Stages \/ new.job = held[s].job)
    <3>1. "materials_reviewed" \in Stages
      BY StageNames
    <3> QED
      BY <3>1, RowFacts
  <2> QED
    BY <2>1, <2>2, <2>3, QuietData, ContinueTyped
<1>19. ASSUME NEW s \in Sessions, BecomeReady(s) PROVE TypeOK'
  <2>1. Quiet
    BY <1>19 DEF BecomeReady, Quiet
  <2>2. \E place \in {"idle", "close"} :
          Continue(s, [job |-> "ready_to_apply", app |-> "ready_to_apply"], place)
    BY <1>19 DEF BecomeReady, Done
  <2>3. [job |-> "ready_to_apply", app |-> "ready_to_apply"] \in Row
    BY StageNames DEF Row
  <2> QED
    BY <2>1, <2>2, <2>3, QuietData, StageNames, ContinueTyped DEF Places
<1>20. ASSUME NEW s \in Sessions, NEW t \in TaskIds, ApproveTask(s, t) PROVE TypeOK'
  <2>1. Quiet /\ task[t] # "none"
    BY <1>20 DEF ApproveTask, Quiet, Open
  <2>2. \E place \in Places : \/ Begin(s, To(Rows, "shortlisted"), place, t)
                              \/ Begin(s, To(Rows, "ready_to_apply"), place, t)
                              \/ Begin(s, Rows, place, t)
    BY <1>20 DEF ApproveTask, Places
  <2> QED
    BY <2>1, <2>2, QuietData, RowFacts, StageNames, BeginTyped
<1>21. ASSUME NEW s \in Sessions, ApprovePending(s) PROVE TypeOK'
  <2>1. DataTyped' /\ TasksStay
    BY <1>21 DEF ApprovePending, TypeOK, DataTyped, TasksStay, Kinds
  <2>2. Continue(s, held[s], "approve") \/ Continue(s, held[s], "pending")
    BY <1>21 DEF ApprovePending
  <2> QED
    BY <2>1, <2>2, RowFacts, ContinueTyped DEF Places
<1>22. ASSUME NEW s \in Sessions, Requeue(s) PROVE TypeOK'
  <2>1. Quiet
    BY <1>22 DEF Requeue, Quiet
  <2>2. PICK new \in Row : new.job = held[s].job /\ Continue(s, new, "close")
    BY <1>22, RowFacts, StageNames DEF Requeue, Row
  <2> QED
    BY <2>1, <2>2, QuietData, ContinueTyped DEF Places
<1>23. ASSUME NEW s \in Sessions, NEW t \in TaskIds, RejectTask(s, t) PROVE TypeOK'
  <2>1. Quiet /\ task[t] # "none" /\ RejectTarget \in Stages
    BY <1>23, StageNames DEF RejectTask, Quiet, Open, RejectTarget
  <2>2. Begin(s, To(Rows, RejectTarget), "drop", t)
    BY <1>23 DEF RejectTask
  <2> QED
    BY <2>1, <2>2, QuietData, RowFacts, BeginTyped DEF Places
<1>24. ASSUME NEW s \in Sessions, DropApplication(s) PROVE TypeOK'
  <2>1. Quiet
    BY <1>24 DEF DropApplication, Quiet
  <2>2. PICK new \in Row : new.job = held[s].job /\ Continue(s, new, "close")
    BY <1>24, RowFacts DEF DropApplication, Row
  <2> QED
    BY <2>1, <2>2, QuietData, ContinueTyped DEF Places
<1>25. ASSUME NEW s \in Sessions, CloseTask(s) PROVE TypeOK'
  <2>1. DataTyped' /\ TasksStay
    BY <1>25 DEF CloseTask, TypeOK, DataTyped, TasksStay
  <2>2. Continue(s, held[s], "idle")
    BY <1>25 DEF CloseTask
  <2> QED
    BY <2>1, <2>2, RowFacts, StageNames, ContinueTyped DEF Places
<1>26. ASSUME NEW s \in Sessions, NEW t \in TaskIds, ResolveTask(s, t) PROVE TypeOK'
  <2>1. DataTyped' /\ TasksStay
    BY <1>26 DEF ResolveTask, TypeOK, DataTyped, TasksStay
  <2>2. Begin(s, Rows, "idle", NoTask)
    BY <1>26 DEF ResolveTask
  <2> QED
    BY <2>1, <2>2, RowFacts, BeginTyped DEF Places
<1>27. ASSUME NEW s \in Sessions, StartApply(s) PROVE TypeOK'
  <2>1. Quiet
    BY <1>27 DEF StartApply, Quiet
  <2>2. Begin(s, Rows, "form", NoTask)
    BY <1>27 DEF StartApply
  <2> QED
    BY <2>1, <2>2, QuietData, RowFacts, BeginTyped DEF Places
<1>28. ASSUME NEW s \in Sessions, FormUnavailable(s) PROVE TypeOK'
  <2>1. Hold(s, held[s])
    BY <1>28 DEF FormUnavailable
  <2> QED
    BY <2>1, RowFacts, HoldTyped
<1>29. ASSUME NEW s \in Sessions, HoldStopped(s) PROVE TypeOK'
  <2>1. Hold(s, held[s])
    BY <1>29 DEF HoldStopped
  <2> QED
    BY <2>1, RowFacts, HoldTyped
<1>30. ASSUME NEW s \in Sessions, StartFilling(s) PROVE TypeOK'
  <2>1. Quiet
    BY <1>30 DEF StartFilling, Quiet
  <2>2. Continue(s, To(held[s], "applying"), "applying") \/ Continue(s, held[s], "idle")
    BY <1>30 DEF StartFilling
  <2> QED
    BY <2>1, <2>2, QuietData, RowFacts, StageNames, ContinueTyped DEF Places
<1>31. ASSUME NEW s \in Sessions, StopForReview(s) PROVE TypeOK'
  <2>1. Quiet
    BY <1>31 DEF StopForReview, Quiet
  <2>2. PICK new \in Row : new.job = held[s].job /\ Continue(s, new, "stopped")
    BY <1>31, RowFacts, StageNames DEF StopForReview, Row
  <2> QED
    BY <2>1, <2>2, QuietData, ContinueTyped DEF Places
<1>32. ASSUME NEW s \in Sessions, FillForm(s) PROVE TypeOK'
  <2>1. Quiet
    BY <1>32 DEF FillForm, Quiet
  <2>2. Continue(s, [job |-> "form_filled", app |-> "form_filled"], "filled")
    BY <1>32 DEF FillForm
  <2>3. [job |-> "form_filled", app |-> "form_filled"] \in Row
    BY StageNames DEF Row
  <2> QED
    BY <2>1, <2>2, <2>3, QuietData, StageNames, ContinueTyped DEF Places
<1>33. ASSUME NEW s \in Sessions, Validate(s) PROVE TypeOK'
  <2>1. Quiet
    BY <1>33 DEF Validate, Quiet
  <2>2. Continue(s, [job |-> "validated", app |-> "validated"], "evidence")
    BY <1>33 DEF Validate
  <2>3. [job |-> "validated", app |-> "validated"] \in Row
    BY StageNames DEF Row
  <2> QED
    BY <2>1, <2>2, <2>3, QuietData, StageNames, ContinueTyped DEF Places
<1>34. ASSUME NEW s \in Sessions, RecordEvidence(s) PROVE TypeOK'
  <2>1. Quiet
    BY <1>34 DEF RecordEvidence, Quiet
  <2>2. Continue(s, held[s], "idle")
    BY <1>34 DEF RecordEvidence
  <2> QED
    BY <2>1, <2>2, QuietData, RowFacts, StageNames, ContinueTyped DEF Places
<1>35. ASSUME NEW s \in Sessions, Interrupt(s) PROVE TypeOK'
  BY <1>35 DEF Interrupt, TypeOK, rows, Places, Nothing, Row
<1>36. CASE SetKillSwitch
  BY <1>36 DEF SetKillSwitch, TypeOK, rows, work
<1>37. CASE ResumeChanges
  BY <1>37 DEF ResumeChanges, TypeOK, rows, work
<1>38. CASE UNCHANGED vars
  BY <1>38 DEF vars, TypeOK
<1> QED
  BY <1>1, <1>2, <1>3, <1>4, <1>5, <1>6, <1>7, <1>8, <1>9, <1>10,
     <1>11, <1>12, <1>13, <1>14, <1>15, <1>16, <1>17, <1>18, <1>19, <1>20,
     <1>21, <1>22, <1>23, <1>24, <1>25, <1>26, <1>27, <1>28, <1>29, <1>30,
     <1>31, <1>32, <1>33, <1>34, <1>35, <1>36, <1>37, <1>38
     DEF Next, Handle, Step

(***************************************************************************)
(* Every stage a commit writes is one of the state machine's, from rows    *)
(* however old, and a session decides on a task that exists.               *)
(***************************************************************************)
THEOREM ApplyTypes == Spec => []TypeOK
<1>1. Init => TypeOK
  <2> SUFFICES ASSUME Init PROVE TypeOK
    OBVIOUS
  <2>1. stage \in Stages /\ app \in Stages \cup {NoStage}
    BY StageNames DEF Init
  <2>2. Nothing \in Row
    BY DEF Nothing, Row
  <2>3. /\ pc \in [Sessions -> Places] /\ held \in [Sessions -> Row]
        /\ doing = [s \in Sessions |-> NoTask]
    BY <2>2 DEF Init, Places
  <2>4. DataTyped
    BY DEF Init, DataTyped
  <2> QED
    BY <2>1, <2>3, <2>4 DEF TypeOK, DataTyped
<1> QED
  BY <1>1, TypeStep, PTL DEF Spec

-----------------------------------------------------------------------------
(* What is held for the owner is in front of the owner                     *)

Asked(t) == Open(t) /\ \A s \in Sessions : doing[s] # t

\* The invariant: the open task is one no session is about to close.
HoldInv == stage = "needs_review" /\ ~aside => \E t \in HoldTasks : Asked(t)

TasksAsTheyAre == aside' = aside /\ \A t \in HoldTasks : task'[t] = task[t]

LEMMA StillAsked ==
    ASSUME HoldInv, TasksAsTheyAre,
           stage' = stage \/ stage' # "needs_review",
           \A s \in Sessions : doing'[s] \in {doing[s], NoTask}
    PROVE  HoldInv'
BY HoldTasksAssumption DEF HoldInv, Asked, Open, TasksAsTheyAre

LEMMA BeginKeeps ==
    ASSUME TypeOK, HoldInv, TasksAsTheyAre, NEW s \in Sessions, NEW place,
           Begin(s, Rows, place, NoTask)
    PROVE  HoldInv'
<1>1. stage' = stage /\ \A x \in Sessions : doing'[x] \in {doing[x], NoTask}
  BY DEF Begin, Commit, TypeOK
<1> QED
  BY <1>1, StillAsked

(***************************************************************************)
(* open_task: nobody decides yet on the task that comes into being.        *)
(***************************************************************************)
LEMMA HoldAsks ==
    ASSUME TypeOK, NEW s \in Sessions, NEW old, Hold(s, old)
    PROVE  HoldInv'
<1>1. PICK t \in HoldTasks : task[t] = "none" /\ task' = [task EXCEPT ![t] = "open"]
  BY DEF Hold
<1>2. task'[t] = "open"
  BY <1>1 DEF TypeOK, TaskIds
<1>3. \A x \in Sessions : doing'[x] \in {doing[x], NoTask}
  BY DEF Hold, Commit, TypeOK
<1>4. \A x \in Sessions : doing[x] # t
  BY <1>1, HoldTasksAssumption DEF TypeOK
<1>5. \A x \in Sessions : doing'[x] # t
  BY <1>3, <1>4, HoldTasksAssumption
<1> QED
  BY <1>2, <1>5 DEF HoldInv, Asked, Open

LEMMA HoldStep == TypeOK /\ HoldInv /\ [Next]_vars => HoldInv'
<1> SUFFICES ASSUME TypeOK, HoldInv, [Next]_vars PROVE HoldInv'
  OBVIOUS
<1>1. ASSUME NEW s \in Sessions, StartScoring(s) PROVE HoldInv'
  BY <1>1, BeginKeeps DEF StartScoring, TasksAsTheyAre
<1>2. ASSUME NEW s \in Sessions, StartGenerating(s) PROVE HoldInv'
  BY <1>2, BeginKeeps DEF StartGenerating, TasksAsTheyAre
<1>3. ASSUME NEW s \in Sessions, StartApproval(s) PROVE HoldInv'
  BY <1>3, BeginKeeps DEF StartApproval, TasksAsTheyAre
<1>4. ASSUME NEW s \in Sessions, StartApply(s) PROVE HoldInv'
  BY <1>4, BeginKeeps DEF StartApply, TasksAsTheyAre
<1>5. ASSUME NEW s \in Sessions, NEW kind \in Kinds,
              ApproveMaterial(s, kind) PROVE HoldInv'
  BY <1>5, BeginKeeps DEF ApproveMaterial, TasksAsTheyAre
<1>6. ASSUME NEW s \in Sessions, NEW kind \in Kinds,
              RejectMaterial(s, kind) PROVE HoldInv'
  BY <1>6, BeginKeeps DEF RejectMaterial, TasksAsTheyAre
<1>7. ASSUME NEW s \in Sessions, GateJob(s) PROVE HoldInv'
  <2>1. TasksAsTheyAre
    BY <1>7 DEF GateJob, TasksAsTheyAre
  <2>2. held[s] \in Row
    BY RowFacts
  <2>3. stage' = stage \/ stage' # "needs_review"
    BY <1>7, <2>2 DEF GateJob, Continue, Commit, To, Row
  <2>4. \A x \in Sessions : doing'[x] \in {doing[x], NoTask}
    BY <1>7 DEF GateJob, Continue, Commit, TypeOK
  <2> QED
    BY <2>1, <2>3, <2>4, StillAsked
<1>8. ASSUME NEW s \in Sessions, ScoreJob(s) PROVE HoldInv'
  <2>1. TasksAsTheyAre
    BY <1>8 DEF ScoreJob, TasksAsTheyAre
  <2>2. held[s] \in Row
    BY RowFacts
  <2>3. stage' = stage \/ stage' # "needs_review"
    BY <1>8, <2>2 DEF ScoreJob, Continue, Commit, To, Row
  <2>4. \A x \in Sessions : doing'[x] \in {doing[x], NoTask}
    BY <1>8 DEF ScoreJob, Continue, Commit, TypeOK
  <2> QED
    BY <2>1, <2>3, <2>4, StillAsked
<1>9. ASSUME NEW s \in Sessions, SelectJob(s) PROVE HoldInv'
  <2>1. TasksAsTheyAre
    BY <1>9 DEF SelectJob, TasksAsTheyAre
  <2>2. held[s] \in Row
    BY RowFacts
  <2>3. stage' = stage \/ stage' # "needs_review"
    BY <1>9, <2>2 DEF SelectJob, Continue, Commit, To, Row
  <2>4. \A x \in Sessions : doing'[x] \in {doing[x], NoTask}
    BY <1>9 DEF SelectJob, Continue, Commit, TypeOK
  <2> QED
    BY <2>1, <2>3, <2>4, StillAsked
<1>10. ASSUME NEW s \in Sessions, BeginPreparing(s) PROVE HoldInv'
  <2>1. TasksAsTheyAre
    BY <1>10 DEF BeginPreparing, TasksAsTheyAre
  <2>2. held[s] \in Row
    BY RowFacts
  <2>3. stage' = stage \/ stage' # "needs_review"
    BY <1>10, <2>2 DEF BeginPreparing, Continue, Commit, To, Row
  <2>4. \A x \in Sessions : doing'[x] \in {doing[x], NoTask}
    BY <1>10 DEF BeginPreparing, Continue, Commit, TypeOK
  <2> QED
    BY <2>1, <2>3, <2>4, StillAsked
<1>11. ASSUME NEW s \in Sessions, DraftResume(s) PROVE HoldInv'
  <2>1. TasksAsTheyAre
    BY <1>11 DEF DraftResume, TasksAsTheyAre
  <2>2. held[s] \in Row
    BY RowFacts
  <2>3. stage' = stage \/ stage' # "needs_review"
    BY <1>11, <2>2 DEF DraftResume, Continue, Commit, To, Row
  <2>4. \A x \in Sessions : doing'[x] \in {doing[x], NoTask}
    BY <1>11 DEF DraftResume, Continue, Commit, TypeOK
  <2> QED
    BY <2>1, <2>3, <2>4, StillAsked
<1>12. ASSUME NEW s \in Sessions, DraftLetter(s) PROVE HoldInv'
  <2>1. TasksAsTheyAre
    BY <1>12 DEF DraftLetter, TasksAsTheyAre
  <2>2. held[s] \in Row
    BY RowFacts
  <2>3. stage' = stage \/ stage' # "needs_review"
    BY <1>12, <2>2 DEF DraftLetter, Continue, Commit, To, Row
  <2>4. \A x \in Sessions : doing'[x] \in {doing[x], NoTask}
    BY <1>12 DEF DraftLetter, Continue, Commit, TypeOK
  <2> QED
    BY <2>1, <2>3, <2>4, StillAsked
<1>13. ASSUME NEW s \in Sessions, FinishGenerating(s) PROVE HoldInv'
  <2>1. TasksAsTheyAre
    BY <1>13 DEF FinishGenerating, TasksAsTheyAre
  <2>2. held[s] \in Row
    BY RowFacts
  <2>3. stage' = stage \/ stage' # "needs_review"
    BY <1>13, <2>2 DEF FinishGenerating, Continue, Commit, To, Row
  <2>4. \A x \in Sessions : doing'[x] \in {doing[x], NoTask}
    BY <1>13 DEF FinishGenerating, Continue, Commit, TypeOK
  <2> QED
    BY <2>1, <2>3, <2>4, StillAsked
<1>14. ASSUME NEW s \in Sessions, ApproveShortlisted(s) PROVE HoldInv'
  <2>1. TasksAsTheyAre
    BY <1>14 DEF ApproveShortlisted, TasksAsTheyAre
  <2>2. held[s] \in Row
    BY RowFacts
  <2>3. stage' = stage \/ stage' # "needs_review"
    BY <1>14, <2>2 DEF ApproveShortlisted, Continue, Commit, To, Row
  <2>4. \A x \in Sessions : doing'[x] \in {doing[x], NoTask}
    BY <1>14 DEF ApproveShortlisted, Continue, Commit, TypeOK
  <2> QED
    BY <2>1, <2>3, <2>4, StillAsked
<1>15. ASSUME NEW s \in Sessions, CheckMaterials(s) PROVE HoldInv'
  <2>1. TasksAsTheyAre
    BY <1>15 DEF CheckMaterials, TasksAsTheyAre
  <2>2. held[s] \in Row
    BY RowFacts
  <2>3. stage' = stage \/ stage' # "needs_review"
    BY <1>15, <2>2 DEF CheckMaterials, Continue, Commit, To, Row
  <2>4. \A x \in Sessions : doing'[x] \in {doing[x], NoTask}
    BY <1>15 DEF CheckMaterials, Continue, Commit, TypeOK
  <2> QED
    BY <2>1, <2>3, <2>4, StillAsked
<1>16. ASSUME NEW s \in Sessions, BecomeReady(s) PROVE HoldInv'
  <2>1. TasksAsTheyAre
    BY <1>16 DEF BecomeReady, TasksAsTheyAre
  <2>2. held[s] \in Row
    BY RowFacts
  <2>3. stage' = stage \/ stage' # "needs_review"
    BY <1>16, <2>2 DEF BecomeReady, Continue, Commit, To, Row
  <2>4. \A x \in Sessions : doing'[x] \in {doing[x], NoTask}
    BY <1>16 DEF BecomeReady, Continue, Commit, TypeOK
  <2> QED
    BY <2>1, <2>3, <2>4, StillAsked
<1>17. ASSUME NEW s \in Sessions, ApprovePending(s) PROVE HoldInv'
  <2>1. TasksAsTheyAre
    BY <1>17 DEF ApprovePending, TasksAsTheyAre
  <2>2. held[s] \in Row
    BY RowFacts
  <2>3. stage' = stage \/ stage' # "needs_review"
    BY <1>17, <2>2 DEF ApprovePending, Continue, Commit, To, Row
  <2>4. \A x \in Sessions : doing'[x] \in {doing[x], NoTask}
    BY <1>17 DEF ApprovePending, Continue, Commit, TypeOK
  <2> QED
    BY <2>1, <2>3, <2>4, StillAsked
<1>18. ASSUME NEW s \in Sessions, Requeue(s) PROVE HoldInv'
  <2>1. TasksAsTheyAre
    BY <1>18 DEF Requeue, TasksAsTheyAre
  <2>2. held[s] \in Row
    BY RowFacts
  <2>3. stage' = stage \/ stage' # "needs_review"
    BY <1>18, <2>2 DEF Requeue, Continue, Commit, To, Row
  <2>4. \A x \in Sessions : doing'[x] \in {doing[x], NoTask}
    BY <1>18 DEF Requeue, Continue, Commit, TypeOK
  <2> QED
    BY <2>1, <2>3, <2>4, StillAsked
<1>19. ASSUME NEW s \in Sessions, DropApplication(s) PROVE HoldInv'
  <2>1. TasksAsTheyAre
    BY <1>19 DEF DropApplication, TasksAsTheyAre
  <2>2. held[s] \in Row
    BY RowFacts
  <2>3. stage' = stage \/ stage' # "needs_review"
    BY <1>19, <2>2 DEF DropApplication, Continue, Commit, To, Row
  <2>4. \A x \in Sessions : doing'[x] \in {doing[x], NoTask}
    BY <1>19 DEF DropApplication, Continue, Commit, TypeOK
  <2> QED
    BY <2>1, <2>3, <2>4, StillAsked
<1>20. ASSUME NEW s \in Sessions, StartFilling(s) PROVE HoldInv'
  <2>1. TasksAsTheyAre
    BY <1>20 DEF StartFilling, TasksAsTheyAre
  <2>2. held[s] \in Row
    BY RowFacts
  <2>3. stage' = stage \/ stage' # "needs_review"
    BY <1>20, <2>2 DEF StartFilling, Continue, Commit, To, Row
  <2>4. \A x \in Sessions : doing'[x] \in {doing[x], NoTask}
    BY <1>20 DEF StartFilling, Continue, Commit, TypeOK
  <2> QED
    BY <2>1, <2>3, <2>4, StillAsked
<1>21. ASSUME NEW s \in Sessions, StopForReview(s) PROVE HoldInv'
  <2>1. TasksAsTheyAre
    BY <1>21 DEF StopForReview, TasksAsTheyAre
  <2>2. held[s] \in Row
    BY RowFacts
  <2>3. stage' = stage \/ stage' # "needs_review"
    BY <1>21, <2>2 DEF StopForReview, Continue, Commit, To, Row
  <2>4. \A x \in Sessions : doing'[x] \in {doing[x], NoTask}
    BY <1>21 DEF StopForReview, Continue, Commit, TypeOK
  <2> QED
    BY <2>1, <2>3, <2>4, StillAsked
<1>22. ASSUME NEW s \in Sessions, FillForm(s) PROVE HoldInv'
  <2>1. TasksAsTheyAre
    BY <1>22 DEF FillForm, TasksAsTheyAre
  <2>2. held[s] \in Row
    BY RowFacts
  <2>3. stage' = stage \/ stage' # "needs_review"
    BY <1>22, <2>2 DEF FillForm, Continue, Commit, To, Row
  <2>4. \A x \in Sessions : doing'[x] \in {doing[x], NoTask}
    BY <1>22 DEF FillForm, Continue, Commit, TypeOK
  <2> QED
    BY <2>1, <2>3, <2>4, StillAsked
<1>23. ASSUME NEW s \in Sessions, Validate(s) PROVE HoldInv'
  <2>1. TasksAsTheyAre
    BY <1>23 DEF Validate, TasksAsTheyAre
  <2>2. held[s] \in Row
    BY RowFacts
  <2>3. stage' = stage \/ stage' # "needs_review"
    BY <1>23, <2>2 DEF Validate, Continue, Commit, To, Row
  <2>4. \A x \in Sessions : doing'[x] \in {doing[x], NoTask}
    BY <1>23 DEF Validate, Continue, Commit, TypeOK
  <2> QED
    BY <2>1, <2>3, <2>4, StillAsked
<1>24. ASSUME NEW s \in Sessions, RecordEvidence(s) PROVE HoldInv'
  <2>1. TasksAsTheyAre
    BY <1>24 DEF RecordEvidence, TasksAsTheyAre
  <2>2. held[s] \in Row
    BY RowFacts
  <2>3. stage' = stage \/ stage' # "needs_review"
    BY <1>24, <2>2 DEF RecordEvidence, Continue, Commit, To, Row
  <2>4. \A x \in Sessions : doing'[x] \in {doing[x], NoTask}
    BY <1>24 DEF RecordEvidence, Continue, Commit, TypeOK
  <2> QED
    BY <2>1, <2>3, <2>4, StillAsked
<1>25. ASSUME NEW s \in Sessions, AskOwner(s) PROVE HoldInv'
  <2>1. TasksAsTheyAre
    BY <1>25, HoldTasksAssumption DEF AskOwner, TasksAsTheyAre, TypeOK, TaskIds
  <2>2. stage' = stage /\ \A x \in Sessions : doing'[x] \in {doing[x], NoTask}
    BY <1>25 DEF AskOwner, Continue, Commit, TypeOK
  <2> QED
    BY <2>1, <2>2, StillAsked
<1>26. ASSUME NEW s \in Sessions, OpenReview(s) PROVE HoldInv'
  <2>1. TasksAsTheyAre
    BY <1>26, HoldTasksAssumption DEF OpenReview, TasksAsTheyAre, TypeOK, TaskIds
  <2>2. stage' = stage /\ \A x \in Sessions : doing'[x] \in {doing[x], NoTask}
    BY <1>26 DEF OpenReview, Continue, Commit, TypeOK
  <2> QED
    BY <2>1, <2>2, StillAsked
<1>27. ASSUME NEW s \in Sessions, AfterDecision(s) PROVE HoldInv'
  <2>1. TasksAsTheyAre
    BY <1>27, HoldTasksAssumption DEF AfterDecision, TasksAsTheyAre, TypeOK, TaskIds
  <2>2. stage' = stage /\ \A x \in Sessions : doing'[x] \in {doing[x], NoTask}
    BY <1>27 DEF AfterDecision, Commit, TypeOK
  <2> QED
    BY <2>1, <2>2, StillAsked
<1>28. ASSUME NEW s \in Sessions, CreateApplication(s) PROVE HoldInv'
  BY <1>28, StillAsked DEF CreateApplication, TasksAsTheyAre
<1>29. ASSUME NEW s \in Sessions, NEW t \in TaskIds, ApproveTask(s, t) PROVE HoldInv'
  <2>1. stage' # "needs_review"
    BY <1>29 DEF ApproveTask, Begin, Commit, Rows, To, PreparationStages
  <2> QED
    BY <2>1 DEF HoldInv
<1>30. ASSUME NEW s \in Sessions, NEW t \in TaskIds, RejectTask(s, t) PROVE HoldInv'
  <2>1. RejectTarget \in {"rejected", "withdrawn"}
    BY <1>30 DEF RejectTask, RejectTarget
  <2>2. stage' # "needs_review"
    BY <1>30, <2>1 DEF RejectTask, Begin, Commit, Rows, To
  <2> QED
    BY <2>2 DEF HoldInv
<1>31. ASSUME NEW s \in Sessions, CloseTask(s) PROVE HoldInv'
  <2>1. SUFFICES ASSUME stage' = "needs_review", ~aside'
                 PROVE  \E t \in HoldTasks : Asked(t)'
    BY DEF HoldInv
  <2>2. stage' = stage /\ aside' = aside
    BY <1>31 DEF CloseTask, Continue, Commit
  <2>3. PICK t \in HoldTasks : Asked(t)
    BY <2>1, <2>2 DEF HoldInv
  <2>4. task'[t] = task[t]
    BY <1>31, <2>3 DEF CloseTask, Asked, TypeOK, TaskIds
  <2>5. \A x \in Sessions : doing'[x] \in {doing[x], NoTask}
    BY <1>31 DEF CloseTask, Continue, Commit, TypeOK
  <2> QED
    BY <2>3, <2>4, <2>5, HoldTasksAssumption DEF Asked, Open
<1>32. ASSUME NEW s \in Sessions, NEW t \in TaskIds, ResolveTask(s, t) PROVE HoldInv'
  <2>1. stage' = stage /\ \A x \in Sessions : doing'[x] \in {doing[x], NoTask}
    BY <1>32 DEF ResolveTask, Begin, Commit, Rows, TypeOK
  <2>2. CASE t = "materials_review"
    <3>1. TasksAsTheyAre
      BY <1>32, <2>2, HoldTasksAssumption DEF ResolveTask, TasksAsTheyAre, TypeOK, TaskIds
    <3> QED
      BY <2>1, <3>1, StillAsked
  <2>3. CASE t # "materials_review"
    BY <1>32, <2>3 DEF ResolveTask, HoldInv
  <2> QED
    BY <2>2, <2>3
<1>33. ASSUME NEW s \in Sessions, FormUnavailable(s) PROVE HoldInv'
  BY <1>33, HoldAsks DEF FormUnavailable
<1>34. ASSUME NEW s \in Sessions, HoldStopped(s) PROVE HoldInv'
  BY <1>34, HoldAsks DEF HoldStopped
<1>35. ASSUME NEW s \in Sessions, Interrupt(s) PROVE HoldInv'
  <2>1. \A x \in Sessions : doing'[x] \in {doing[x], NoTask}
    BY <1>35 DEF Interrupt, TypeOK
  <2> QED
    BY <1>35, <2>1, StillAsked DEF Interrupt, TasksAsTheyAre, rows
<1>36. CASE SetKillSwitch
  BY <1>36, StillAsked DEF SetKillSwitch, TasksAsTheyAre, rows, work
<1>37. CASE ResumeChanges
  BY <1>37, StillAsked DEF ResumeChanges, TasksAsTheyAre, rows, work
<1>38. CASE UNCHANGED vars
  BY <1>38, StillAsked DEF vars, TasksAsTheyAre
<1> QED
  BY <1>1, <1>2, <1>3, <1>4, <1>5, <1>6, <1>7, <1>8, <1>9, <1>10,
     <1>11, <1>12, <1>13, <1>14, <1>15, <1>16, <1>17, <1>18, <1>19, <1>20,
     <1>21, <1>22, <1>23, <1>24, <1>25, <1>26, <1>27, <1>28, <1>29, <1>30,
     <1>31, <1>32, <1>33, <1>34, <1>35, <1>36, <1>37, <1>38
     DEF Next, Handle, Step

(***************************************************************************)
(* review_queue.open_task: a posting that waits in needs_review has an     *)
(* open task, with any number of sessions that work from rows they read    *)
(* earlier and end anywhere, until the owner sets a task aside.            *)
(***************************************************************************)
THEOREM HeldIsAsked == Spec => []HeldHasTask
<1>1. Init => HoldInv
  BY DEF Init, HoldInv
<1>2. HoldInv => HeldHasTask
  BY DEF HoldInv, HeldHasTask, Asked
<1> QED
  BY <1>1, <1>2, HoldStep, ApplyTypes, PTL DEF Spec
-----------------------------------------------------------------------------
(***************************************************************************)
(* One session. Only with one do the moves stay in ALLOWED and the two     *)
(* stages agree: rows a second session read earlier break both. With one,  *)
(* what the session holds is what is stored, except at the close of a      *)
(* task, where CreateApplication leaves it one application behind.         *)
(***************************************************************************)
OneSession == \E s \in Sessions : Sessions = {s}

\* AppFollowsJob, with the stages a posting rests in between two handlers.
Settled(st, ap) ==
    \/ st \in {"shortlisted", "approved"} /\ ap = "shortlisted"
    \/ st \in {"discovered", "review"} /\ ap = NoStage
    \/ st = "rejected" /\ ap \in {NoStage, "rejected"}
    \/ /\ st \in {"materials_generated", "ready_to_apply", "needs_review", "validated",
                  "withdrawn"}
       /\ ap = st

\* The stage a posting is in where a handler goes on, wherever others ended.
Fits(place, st) ==
    /\ place = "batch" => st = "discovered"
    /\ place = "ask" => st = "review"
    /\ place = "score" => st = "eligible"
    /\ place = "select" => st = "scored"
    /\ place = "create" => st = "shortlisted"
    /\ place = "build" => st \in GeneratableStages
    /\ place = "draft" => st = "preparing"
    /\ place \in {"letter", "drafted"} => st \in GeneratableStages \ {"shortlisted", "approved"}
    /\ place = "ready" => st \in {"approved", "materials_reviewed"}
    /\ place = "requeue" => st = "ready_to_apply"
    /\ place = "drop" => st \in {"rejected", "withdrawn"}
    /\ place = "form" => st \in ApplyReadyStages
    /\ place \in {"applying", "stopped"} => st = "applying"
    /\ place = "filled" => st = "form_filled"

\* Where the stages of job and application agree if no handler ended early.
Agrees(place, st, ap) ==
    /\ place \in {"idle", "build", "prompt", "decided", "pending", "approve", "check",
                  "close", "form", "evidence"} => Settled(st, ap)
    /\ place \in {"build", "pending", "approve", "check", "form"} => ap # NoStage
    /\ place \in {"batch", "ask", "score", "select", "create"} => ap = NoStage
    /\ place \in {"letter", "drafted"} => st = "preparing" \/ Settled(st, ap)
    /\ place = "drop" => /\ ap \notin SubmissionStages
                         /\ st = "withdrawn" => ap # NoStage
    /\ place = "close" => st # "review"

BeforeDrafts == {"discovered", "eligible", "review", "scored", "shortlisted", "approved"}

FlowInv ==
    /\ stage \in BeforeDrafts => ~generated
    /\ \A s \in Sessions : pc[s] \notin {"idle", "close"} => held[s] = Rows
    /\ \A s \in Sessions : Fits(pc[s], stage)
    /\ ~broken => \A s \in Sessions : Agrees(pc[s], stage, app)
    /\ stage = "review" /\ ~broken /\ ~aside =>
         Open("decision_review") \/ \E s \in Sessions : pc[s] = "ask"

(***************************************************************************)
(* The moves of the pipeline that ALLOWED has.                             *)
(***************************************************************************)
LEMMA PipelineMoves ==
    /\ \A st \in Stages : CanTransition(st, st)
    /\ \A to \in {"rejected", "review", "eligible"} : CanTransition("discovered", to)
    /\ CanTransition("eligible", "scored")
    /\ \A to \in {"rejected", "shortlisted"} : CanTransition("scored", to)
    /\ \A to \in {"rejected", "shortlisted"} : CanTransition("review", to)
    /\ \A to \in {"approved", "preparing"} : CanTransition("shortlisted", to)
    /\ \A to \in {"preparing", "ready_to_apply"} : CanTransition("approved", to)
    /\ CanTransition("preparing", "materials_generated")
    /\ CanTransition("materials_generated", "materials_reviewed")
    /\ CanTransition("materials_reviewed", "ready_to_apply")
    /\ CanTransition("needs_review", "ready_to_apply")
    /\ \A from \in {"ready_to_apply", "validated", "needs_review", "applying"} :
         CanTransition(from, "needs_review")
    /\ CanTransition("applying", "form_filled")
    /\ CanTransition("form_filled", "validated")
<1>1. \A st \in Stages : BaseAllowed[st] \subseteq Allowed[st]
  BY DEF Allowed
<1>2. \A from, to : from \in Stages /\ to \in BaseAllowed[from] => CanTransition(from, to)
  BY <1>1 DEF CanTransition
<1>3. \A to \in {"rejected", "review", "eligible"} : to \in BaseAllowed["discovered"]
  BY DEF BaseAllowed
<1>4. /\ "scored" \in BaseAllowed["eligible"]
      /\ {"rejected", "shortlisted"} \subseteq BaseAllowed["scored"]
      /\ {"rejected", "shortlisted"} \subseteq BaseAllowed["review"]
  BY DEF BaseAllowed
<1>5. /\ {"approved", "preparing"} \subseteq BaseAllowed["shortlisted"]
      /\ {"preparing", "ready_to_apply"} \subseteq BaseAllowed["approved"]
      /\ "materials_generated" \in BaseAllowed["preparing"]
  BY DEF BaseAllowed
<1>6. /\ "materials_reviewed" \in BaseAllowed["materials_generated"]
      /\ "ready_to_apply" \in BaseAllowed["materials_reviewed"]
      /\ "ready_to_apply" \in BaseAllowed["needs_review"]
  BY DEF BaseAllowed
<1>7. /\ "needs_review" \in BaseAllowed["ready_to_apply"]
      /\ "needs_review" \in BaseAllowed["validated"]
      /\ {"needs_review", "form_filled"} \subseteq BaseAllowed["applying"]
      /\ "validated" \in BaseAllowed["form_filled"]
  BY DEF BaseAllowed
<1>8. \A st \in Stages : CanTransition(st, st)
  BY DEF CanTransition
<1>9. /\ \A from \in {"ready_to_apply", "validated", "applying"} :
           CanTransition(from, "needs_review")
      /\ CanTransition("needs_review", "needs_review")
  BY <1>2, <1>7, <1>8, StageNames
<1> QED
  BY <1>2, <1>3, <1>4, <1>5, <1>6, <1>7, <1>8, <1>9, StageNames

(***************************************************************************)
(* The one session commits new: FlowInv holds again when the stages of new *)
(* are those of the place the session goes on to.                          *)
(***************************************************************************)
LEMMA Lands ==
    ASSUME OneSession, TypeOK,
           NEW s \in Sessions, NEW new \in Row, NEW place \in Places, NEW t,
           Commit(s, Rows, new, place, t),
           CanTransition(stage, new.job),
           new.job \in BeforeDrafts => ~generated',
           Fits(place, new.job),
           ~broken' => Agrees(place, new.job, new.app),
           new.job = "review" /\ ~broken' /\ ~aside' => Open("decision_review")' \/ place = "ask"
    PROVE  FlowInv' /\ CanTransition(stage, stage')
<1>1. Sessions = {s}
  BY DEF OneSession
<1>2. /\ Rows.job = stage /\ Rows.app = app
      /\ new = [job |-> new.job, app |-> new.app]
  BY DEF Rows, Row
<1>3. stage' = new.job /\ app' = new.app
  BY <1>2 DEF Commit
<1>4. pc'[s] = place /\ (place # "idle" => held'[s] = new)
  BY DEF Commit, TypeOK
<1>5. Rows' = new
  BY <1>2, <1>3 DEF Rows
<1> QED
  BY <1>1, <1>3, <1>4, <1>5 DEF FlowInv

(***************************************************************************)
(* A handler begins and moves nothing.                                     *)
(***************************************************************************)
LEMMA BeginsFlow ==
    ASSUME OneSession, TypeOK, FlowInv,
           NEW s \in Sessions, NEW place \in Places, Begin(s, Rows, place, NoTask),
           UNCHANGED <<generated, aside, broken>>,
           Open("decision_review") => Open("decision_review")',
           Fits(place, stage),
           ~broken => Agrees(place, stage, app)
    PROVE  FlowInv' /\ CanTransition(stage, stage')
<1>1. Rows \in Row /\ Rows.job = stage /\ Rows.app = app /\ CanTransition(stage, stage)
  BY RowFacts, PipelineMoves
<1>2. Commit(s, Rows, Rows, place, NoTask) /\ Sessions = {s} /\ pc[s] = "idle"
  BY DEF Begin, OneSession
<1>3. /\ stage \in BeforeDrafts => ~generated'
      /\ stage = "review" /\ ~broken' /\ ~aside' => Open("decision_review")'
  BY <1>2 DEF FlowInv
<1> QED
  BY <1>1, <1>2, <1>3, Lands

(***************************************************************************)
(* A handler goes on, from rows that are what is stored. In review it only *)
(* goes on from "ask".                                                     *)
(***************************************************************************)
LEMMA GoesOnFlow ==
    ASSUME OneSession, TypeOK, FlowInv,
           NEW s \in Sessions, pc[s] \notin {"idle", "close"},
           NEW new \in Row, NEW place \in Places, Continue(s, new, place),
           UNCHANGED <<aside, broken>>,
           Open("decision_review") => Open("decision_review")',
           CanTransition(stage, new.job),
           new.job \in BeforeDrafts => ~generated',
           Fits(place, new.job),
           ~broken => Agrees(place, new.job, new.app),
           new.job = "review" => place = "ask" \/ Open("decision_review")'
                                 \/ (stage = "review" /\ pc[s] # "ask")
    PROVE  FlowInv' /\ CanTransition(stage, stage')
<1>1. held[s] = Rows /\ Sessions = {s}
  BY DEF FlowInv, OneSession
<1>2. Commit(s, Rows, new, place, doing[s])
  BY <1>1 DEF Continue
<1>3. new.job = "review" /\ ~broken' /\ ~aside' => Open("decision_review")' \/ place = "ask"
  BY <1>1 DEF FlowInv
<1> QED
  BY <1>2, <1>3, Lands

LEMMA FlowStep ==
    ASSUME OneSession, TypeOK, FlowInv, Next
    PROVE  FlowInv' /\ CanTransition(stage, stage')
<1> DEFINE Good == FlowInv' /\ CanTransition(stage, stage')
<1>a. \A s \in Sessions :
        /\ Fits(pc[s], stage)
        /\ ~broken => Agrees(pc[s], stage, app)
        /\ pc[s] \notin {"idle", "close"} => held[s] = Rows
  BY DEF FlowInv
<1>b. /\ Rows \in Row /\ Rows.job = stage /\ Rows.app = app /\ stage \in Stages
      /\ Rows = [job |-> stage, app |-> app]
  BY RowFacts DEF Rows
<1>1. ASSUME NEW s \in Sessions, StartScoring(s) PROVE Good
  <2>1. Begin(s, Rows, "batch", NoTask) /\ UNCHANGED <<generated, task, aside, broken>>
    BY <1>1 DEF StartScoring
  <2>2. Fits("batch", stage)
    BY <1>1 DEF StartScoring, Fits
  <2>3. ~broken => Agrees("batch", stage, app)
    BY <1>1, <1>a DEF StartScoring, Begin, Agrees, Settled
  <2> QED
    BY <2>1, <2>2, <2>3, BeginsFlow DEF Places, Open
<1>2. ASSUME NEW s \in Sessions, StartGenerating(s) PROVE Good
  <2>1. Begin(s, Rows, "build", NoTask) /\ UNCHANGED <<generated, task, aside, broken>>
    BY <1>2 DEF StartGenerating
  <2>2. Fits("build", stage)
    BY <1>2 DEF StartGenerating, Fits
  <2>3. ~broken => Agrees("build", stage, app)
    BY <1>2, <1>a DEF StartGenerating, Begin, Agrees, Settled
  <2> QED
    BY <2>1, <2>2, <2>3, BeginsFlow DEF Places, Open
<1>3. ASSUME NEW s \in Sessions, StartApproval(s) PROVE Good
  <2>1. Begin(s, Rows, "approve", NoTask) /\ UNCHANGED <<generated, task, aside, broken>>
    BY <1>3 DEF StartApproval
  <2>2. Fits("approve", stage)
    BY <1>3 DEF StartApproval, Fits
  <2>3. ~broken => Agrees("approve", stage, app)
    BY <1>3, <1>a DEF StartApproval, Begin, Agrees, Settled
  <2> QED
    BY <2>1, <2>2, <2>3, BeginsFlow DEF Places, Open
<1>4. ASSUME NEW s \in Sessions, StartApply(s) PROVE Good
  <2>1. Begin(s, Rows, "form", NoTask) /\ UNCHANGED <<generated, task, aside, broken>>
    BY <1>4 DEF StartApply
  <2>2. Fits("form", stage)
    BY <1>4 DEF StartApply, Fits
  <2>3. ~broken => Agrees("form", stage, app)
    BY <1>4, <1>a DEF StartApply, Begin, Agrees, Settled
  <2> QED
    BY <2>1, <2>2, <2>3, BeginsFlow DEF Places, Open
<1>5. ASSUME NEW s \in Sessions, NEW kind \in Kinds, ApproveMaterial(s, kind) PROVE Good
  <2>1. Begin(s, Rows, "decided", NoTask) /\ UNCHANGED <<generated, task, aside, broken>>
    BY <1>5 DEF ApproveMaterial
  <2>2. Fits("decided", stage) /\ (~broken => Agrees("decided", stage, app))
    BY <2>1, <1>a DEF Begin, Fits, Agrees
  <2> QED
    BY <2>1, <2>2, BeginsFlow DEF Places, Open
<1>6. ASSUME NEW s \in Sessions, NEW kind \in Kinds, RejectMaterial(s, kind) PROVE Good
  <2>1. Begin(s, Rows, "decided", NoTask) /\ UNCHANGED <<generated, task, aside, broken>>
    BY <1>6 DEF RejectMaterial
  <2>2. Fits("decided", stage) /\ (~broken => Agrees("decided", stage, app))
    BY <2>1, <1>a DEF Begin, Fits, Agrees
  <2> QED
    BY <2>1, <2>2, BeginsFlow DEF Places, Open
<1>7. ASSUME NEW s \in Sessions, GateJob(s) PROVE Good
  <2>1. /\ pc[s] = "batch" /\ held[s] = Rows /\ Fits("batch", stage)
        /\ ~broken => Agrees("batch", stage, app)
    BY <1>7, <1>a DEF GateJob
  <2>2. UNCHANGED <<generated, task, aside, broken>>
    BY <1>7 DEF GateJob
  <2>3. ASSUME Continue(s, To(held[s], "rejected"), "idle")
        PROVE  Good
    <3> DEFINE new == To(held[s], "rejected")
    <3>1. /\ new \in Row /\ CanTransition(stage, new.job)
          /\ new.job \in BeforeDrafts => stage \in BeforeDrafts
          /\ Fits("idle", new.job)
          /\ ~broken => Agrees("idle", new.job, new.app)
          /\ new.job = "review" => "idle" = "ask" \/ (stage = "review" /\ pc[s] # "ask")
      BY <2>1, <2>3, <1>b, PipelineMoves, StageNames
         DEF Fits, Agrees, Settled, To, Row, BeforeDrafts
    <3> HIDE DEF new
    <3> QED
      BY <2>1, <2>2, <2>3, <3>1, GoesOnFlow DEF FlowInv, Open, Places, new
  <2>4. ASSUME Continue(s, To(held[s], "review"), "ask")
        PROVE  Good
    <3> DEFINE new == To(held[s], "review")
    <3>1. /\ new \in Row /\ CanTransition(stage, new.job)
          /\ new.job \in BeforeDrafts => stage \in BeforeDrafts
          /\ Fits("ask", new.job)
          /\ ~broken => Agrees("ask", new.job, new.app)
          /\ new.job = "review" => "ask" = "ask" \/ (stage = "review" /\ pc[s] # "ask")
      BY <2>1, <2>4, <1>b, PipelineMoves, StageNames
         DEF Fits, Agrees, Settled, To, Row, BeforeDrafts
    <3> HIDE DEF new
    <3> QED
      BY <2>1, <2>2, <2>4, <3>1, GoesOnFlow DEF FlowInv, Open, Places, new
  <2>5. ASSUME Continue(s, To(held[s], "eligible"), "score")
        PROVE  Good
    <3> DEFINE new == To(held[s], "eligible")
    <3>1. /\ new \in Row /\ CanTransition(stage, new.job)
          /\ new.job \in BeforeDrafts => stage \in BeforeDrafts
          /\ Fits("score", new.job)
          /\ ~broken => Agrees("score", new.job, new.app)
          /\ new.job = "review" => "score" = "ask" \/ (stage = "review" /\ pc[s] # "ask")
      BY <2>1, <2>5, <1>b, PipelineMoves, StageNames
         DEF Fits, Agrees, Settled, To, Row, BeforeDrafts
    <3> HIDE DEF new
    <3> QED
      BY <2>1, <2>2, <2>5, <3>1, GoesOnFlow DEF FlowInv, Open, Places, new
  <2> QED
    BY <1>7, <2>1, <2>3, <2>4, <2>5 DEF GateJob
<1>8. ASSUME NEW s \in Sessions, ScoreJob(s) PROVE Good
  <2>1. /\ pc[s] = "score" /\ held[s] = Rows /\ Fits("score", stage)
        /\ ~broken => Agrees("score", stage, app)
    BY <1>8, <1>a DEF ScoreJob
  <2>2. UNCHANGED <<generated, task, aside, broken>>
    BY <1>8 DEF ScoreJob
  <2>3. ASSUME Continue(s, To(held[s], "scored"), "select")
        PROVE  Good
    <3> DEFINE new == To(held[s], "scored")
    <3>1. /\ new \in Row /\ CanTransition(stage, new.job)
          /\ new.job \in BeforeDrafts => stage \in BeforeDrafts
          /\ Fits("select", new.job)
          /\ ~broken => Agrees("select", new.job, new.app)
          /\ new.job = "review" => "select" = "ask" \/ (stage = "review" /\ pc[s] # "ask")
      BY <2>1, <2>3, <1>b, PipelineMoves, StageNames
         DEF Fits, Agrees, Settled, To, Row, BeforeDrafts
    <3> HIDE DEF new
    <3> QED
      BY <2>1, <2>2, <2>3, <3>1, GoesOnFlow DEF FlowInv, Open, Places, new
  <2> QED
    BY <1>8, <2>1, <2>3 DEF ScoreJob
<1>9. ASSUME NEW s \in Sessions, SelectJob(s) PROVE Good
  <2>1. /\ pc[s] = "select" /\ held[s] = Rows /\ Fits("select", stage)
        /\ ~broken => Agrees("select", stage, app)
    BY <1>9, <1>a DEF SelectJob
  <2>2. UNCHANGED <<generated, task, aside, broken>>
    BY <1>9 DEF SelectJob
  <2>3. ASSUME Continue(s, To(held[s], "shortlisted"), "create")
        PROVE  Good
    <3> DEFINE new == To(held[s], "shortlisted")
    <3>1. /\ new \in Row /\ CanTransition(stage, new.job)
          /\ new.job \in BeforeDrafts => stage \in BeforeDrafts
          /\ Fits("create", new.job)
          /\ ~broken => Agrees("create", new.job, new.app)
          /\ new.job = "review" => "create" = "ask" \/ (stage = "review" /\ pc[s] # "ask")
      BY <2>1, <2>3, <1>b, PipelineMoves, StageNames
         DEF Fits, Agrees, Settled, To, Row, BeforeDrafts
    <3> HIDE DEF new
    <3> QED
      BY <2>1, <2>2, <2>3, <3>1, GoesOnFlow DEF FlowInv, Open, Places, new
  <2>4. ASSUME Continue(s, To(held[s], "rejected"), "idle")
        PROVE  Good
    <3> DEFINE new == To(held[s], "rejected")
    <3>1. /\ new \in Row /\ CanTransition(stage, new.job)
          /\ new.job \in BeforeDrafts => stage \in BeforeDrafts
          /\ Fits("idle", new.job)
          /\ ~broken => Agrees("idle", new.job, new.app)
          /\ new.job = "review" => "idle" = "ask" \/ (stage = "review" /\ pc[s] # "ask")
      BY <2>1, <2>4, <1>b, PipelineMoves, StageNames
         DEF Fits, Agrees, Settled, To, Row, BeforeDrafts
    <3> HIDE DEF new
    <3> QED
      BY <2>1, <2>2, <2>4, <3>1, GoesOnFlow DEF FlowInv, Open, Places, new
  <2> QED
    BY <1>9, <2>1, <2>3, <2>4 DEF SelectJob
<1>10. ASSUME NEW s \in Sessions, BeginPreparing(s) PROVE Good
  <2>1. /\ pc[s] = "build" /\ held[s] = Rows /\ Fits("build", stage)
        /\ ~broken => Agrees("build", stage, app)
    BY <1>10, <1>a DEF BeginPreparing
  <2>2. UNCHANGED <<generated, task, aside, broken>>
    BY <1>10 DEF BeginPreparing
  <2>3. ASSUME Continue(s, To(held[s], "preparing"), "draft") /\ held[s].job \in {"shortlisted", "approved"}
        PROVE  Good
    <3> DEFINE new == To(held[s], "preparing")
    <3>1. /\ new \in Row /\ CanTransition(stage, new.job)
          /\ new.job \in BeforeDrafts => stage \in BeforeDrafts
          /\ Fits("draft", new.job)
          /\ ~broken => Agrees("draft", new.job, new.app)
          /\ new.job = "review" => "draft" = "ask" \/ (stage = "review" /\ pc[s] # "ask")
      BY <2>1, <2>3, <1>b, PipelineMoves, StageNames
         DEF Fits, Agrees, Settled, To, Row, BeforeDrafts
    <3> HIDE DEF new
    <3> QED
      BY <2>1, <2>2, <2>3, <3>1, GoesOnFlow DEF FlowInv, Open, Places, new
  <2> QED
    BY <1>10, <2>1, <2>3 DEF BeginPreparing
<1>11. ASSUME NEW s \in Sessions, DraftLetter(s) PROVE Good
  <2>1. /\ pc[s] = "letter" /\ held[s] = Rows /\ Fits("letter", stage)
        /\ ~broken => Agrees("letter", stage, app)
    BY <1>11, <1>a DEF DraftLetter
  <2>2. UNCHANGED <<generated, task, aside, broken>>
    BY <1>11 DEF DraftLetter
  <2>3. ASSUME Continue(s, held[s], "drafted")
        PROVE  Good
    <3> DEFINE new == held[s]
    <3>1. /\ new \in Row /\ CanTransition(stage, new.job)
          /\ new.job \in BeforeDrafts => stage \in BeforeDrafts
          /\ Fits("drafted", new.job)
          /\ ~broken => Agrees("drafted", new.job, new.app)
          /\ new.job = "review" => "drafted" = "ask" \/ (stage = "review" /\ pc[s] # "ask")
      BY <2>1, <2>3, <1>b, PipelineMoves, StageNames
         DEF Fits, Agrees, Settled, To, Row, BeforeDrafts
    <3> HIDE DEF new
    <3> QED
      BY <2>1, <2>2, <2>3, <3>1, GoesOnFlow DEF FlowInv, Open, Places, new
  <2> QED
    BY <1>11, <2>1, <2>3 DEF DraftLetter
<1>12. ASSUME NEW s \in Sessions, FinishGenerating(s) PROVE Good
  <2>1. /\ pc[s] = "drafted" /\ held[s] = Rows /\ Fits("drafted", stage)
        /\ ~broken => Agrees("drafted", stage, app)
    BY <1>12, <1>a DEF FinishGenerating
  <2>2. UNCHANGED <<generated, task, aside, broken>>
    BY <1>12 DEF FinishGenerating
  <2>3. ASSUME Continue(s, [job |-> "materials_generated", app |-> "materials_generated"], "prompt") /\ held[s].job = "preparing"
        PROVE  Good
    <3> DEFINE new == [job |-> "materials_generated", app |-> "materials_generated"]
    <3>1. /\ new \in Row /\ CanTransition(stage, new.job)
          /\ new.job \in BeforeDrafts => stage \in BeforeDrafts
          /\ Fits("prompt", new.job)
          /\ ~broken => Agrees("prompt", new.job, new.app)
          /\ new.job = "review" => "prompt" = "ask" \/ (stage = "review" /\ pc[s] # "ask")
      BY <2>1, <2>3, <1>b, PipelineMoves, StageNames
         DEF Fits, Agrees, Settled, To, Row, BeforeDrafts
    <3> HIDE DEF new
    <3> QED
      BY <2>1, <2>2, <2>3, <3>1, GoesOnFlow DEF FlowInv, Open, Places, new
  <2>4. ASSUME Continue(s, held[s], "prompt") /\ held[s].job # "preparing"
        PROVE  Good
    <3> DEFINE new == held[s]
    <3>1. /\ new \in Row /\ CanTransition(stage, new.job)
          /\ new.job \in BeforeDrafts => stage \in BeforeDrafts
          /\ Fits("prompt", new.job)
          /\ ~broken => Agrees("prompt", new.job, new.app)
          /\ new.job = "review" => "prompt" = "ask" \/ (stage = "review" /\ pc[s] # "ask")
      BY <2>1, <2>4, <1>b, PipelineMoves, StageNames
         DEF Fits, Agrees, Settled, To, Row, BeforeDrafts
    <3> HIDE DEF new
    <3> QED
      BY <2>1, <2>2, <2>4, <3>1, GoesOnFlow DEF FlowInv, Open, Places, new
  <2> QED
    BY <1>12, <2>1, <2>3, <2>4 DEF FinishGenerating
<1>13. ASSUME NEW s \in Sessions, ApproveShortlisted(s) PROVE Good
  <2>1. /\ pc[s] = "approve" /\ held[s] = Rows /\ Fits("approve", stage)
        /\ ~broken => Agrees("approve", stage, app)
    BY <1>13, <1>a DEF ApproveShortlisted
  <2>2. UNCHANGED <<generated, task, aside, broken>>
    BY <1>13 DEF ApproveShortlisted
  <2>3. ASSUME Continue(s, To(held[s], "approved"), "check") /\ held[s].job = "shortlisted"
        PROVE  Good
    <3> DEFINE new == To(held[s], "approved")
    <3>1. /\ new \in Row /\ CanTransition(stage, new.job)
          /\ new.job \in BeforeDrafts => stage \in BeforeDrafts
          /\ Fits("check", new.job)
          /\ ~broken => Agrees("check", new.job, new.app)
          /\ new.job = "review" => "check" = "ask" \/ (stage = "review" /\ pc[s] # "ask")
      BY <2>1, <2>3, <1>b, PipelineMoves, StageNames
         DEF Fits, Agrees, Settled, To, Row, BeforeDrafts
    <3> HIDE DEF new
    <3> QED
      BY <2>1, <2>2, <2>3, <3>1, GoesOnFlow DEF FlowInv, Open, Places, new
  <2>4. ASSUME Continue(s, held[s], "check") /\ held[s].job # "shortlisted"
        PROVE  Good
    <3> DEFINE new == held[s]
    <3>1. /\ new \in Row /\ CanTransition(stage, new.job)
          /\ new.job \in BeforeDrafts => stage \in BeforeDrafts
          /\ Fits("check", new.job)
          /\ ~broken => Agrees("check", new.job, new.app)
          /\ new.job = "review" => "check" = "ask" \/ (stage = "review" /\ pc[s] # "ask")
      BY <2>1, <2>4, <1>b, PipelineMoves, StageNames
         DEF Fits, Agrees, Settled, To, Row, BeforeDrafts
    <3> HIDE DEF new
    <3> QED
      BY <2>1, <2>2, <2>4, <3>1, GoesOnFlow DEF FlowInv, Open, Places, new
  <2> QED
    BY <1>13, <2>1, <2>3, <2>4 DEF ApproveShortlisted
<1>14. ASSUME NEW s \in Sessions, CheckMaterials(s) PROVE Good
  <2>1. /\ pc[s] = "check" /\ held[s] = Rows /\ Fits("check", stage)
        /\ ~broken => Agrees("check", stage, app)
    BY <1>14, <1>a DEF CheckMaterials
  <2>2. UNCHANGED <<generated, task, aside, broken>>
    BY <1>14 DEF CheckMaterials
  <2>3. ASSUME Continue(s, To(held[s], "materials_reviewed"), "ready") /\ held[s].job = "materials_generated"
        PROVE  Good
    <3> DEFINE new == To(held[s], "materials_reviewed")
    <3>1. /\ new \in Row /\ CanTransition(stage, new.job)
          /\ new.job \in BeforeDrafts => stage \in BeforeDrafts
          /\ Fits("ready", new.job)
          /\ ~broken => Agrees("ready", new.job, new.app)
          /\ new.job = "review" => "ready" = "ask" \/ (stage = "review" /\ pc[s] # "ask")
      BY <2>1, <2>3, <1>b, PipelineMoves, StageNames
         DEF Fits, Agrees, Settled, To, Row, BeforeDrafts
    <3> HIDE DEF new
    <3> QED
      BY <2>1, <2>2, <2>3, <3>1, GoesOnFlow DEF FlowInv, Open, Places, new
  <2>4. ASSUME Continue(s, held[s], "ready") /\ held[s].job \in {"approved", "materials_reviewed"}
        PROVE  Good
    <3> DEFINE new == held[s]
    <3>1. /\ new \in Row /\ CanTransition(stage, new.job)
          /\ new.job \in BeforeDrafts => stage \in BeforeDrafts
          /\ Fits("ready", new.job)
          /\ ~broken => Agrees("ready", new.job, new.app)
          /\ new.job = "review" => "ready" = "ask" \/ (stage = "review" /\ pc[s] # "ask")
      BY <2>1, <2>4, <1>b, PipelineMoves, StageNames
         DEF Fits, Agrees, Settled, To, Row, BeforeDrafts
    <3> HIDE DEF new
    <3> QED
      BY <2>1, <2>2, <2>4, <3>1, GoesOnFlow DEF FlowInv, Open, Places, new
  <2>5. ASSUME Continue(s, held[s], "idle")
        PROVE  Good
    <3> DEFINE new == held[s]
    <3>1. /\ new \in Row /\ CanTransition(stage, new.job)
          /\ new.job \in BeforeDrafts => stage \in BeforeDrafts
          /\ Fits("idle", new.job)
          /\ ~broken => Agrees("idle", new.job, new.app)
          /\ new.job = "review" => "idle" = "ask" \/ (stage = "review" /\ pc[s] # "ask")
      BY <2>1, <2>5, <1>b, PipelineMoves, StageNames
         DEF Fits, Agrees, Settled, To, Row, BeforeDrafts
    <3> HIDE DEF new
    <3> QED
      BY <2>1, <2>2, <2>5, <3>1, GoesOnFlow DEF FlowInv, Open, Places, new
  <2>6. ASSUME Continue(s, held[s], "close")
        PROVE  Good
    <3> DEFINE new == held[s]
    <3>1. /\ new \in Row /\ CanTransition(stage, new.job)
          /\ new.job \in BeforeDrafts => stage \in BeforeDrafts
          /\ Fits("close", new.job)
          /\ ~broken => Agrees("close", new.job, new.app)
          /\ new.job = "review" => "close" = "ask" \/ (stage = "review" /\ pc[s] # "ask")
      BY <2>1, <2>6, <1>b, PipelineMoves, StageNames
         DEF Fits, Agrees, Settled, To, Row, BeforeDrafts
    <3> HIDE DEF new
    <3> QED
      BY <2>1, <2>2, <2>6, <3>1, GoesOnFlow DEF FlowInv, Open, Places, new
  <2> QED
    BY <1>14, <2>1, <2>3, <2>4, <2>5, <2>6 DEF CheckMaterials, Done
<1>15. ASSUME NEW s \in Sessions, BecomeReady(s) PROVE Good
  <2>1. /\ pc[s] = "ready" /\ held[s] = Rows /\ Fits("ready", stage)
        /\ ~broken => Agrees("ready", stage, app)
    BY <1>15, <1>a DEF BecomeReady
  <2>2. UNCHANGED <<generated, task, aside, broken>>
    BY <1>15 DEF BecomeReady
  <2>3. ASSUME Continue(s, [job |-> "ready_to_apply", app |-> "ready_to_apply"], "idle")
        PROVE  Good
    <3> DEFINE new == [job |-> "ready_to_apply", app |-> "ready_to_apply"]
    <3>1. /\ new \in Row /\ CanTransition(stage, new.job)
          /\ new.job \in BeforeDrafts => stage \in BeforeDrafts
          /\ Fits("idle", new.job)
          /\ ~broken => Agrees("idle", new.job, new.app)
          /\ new.job = "review" => "idle" = "ask" \/ (stage = "review" /\ pc[s] # "ask")
      BY <2>1, <2>3, <1>b, PipelineMoves, StageNames
         DEF Fits, Agrees, Settled, To, Row, BeforeDrafts
    <3> HIDE DEF new
    <3> QED
      BY <2>1, <2>2, <2>3, <3>1, GoesOnFlow DEF FlowInv, Open, Places, new
  <2>4. ASSUME Continue(s, [job |-> "ready_to_apply", app |-> "ready_to_apply"], "close")
        PROVE  Good
    <3> DEFINE new == [job |-> "ready_to_apply", app |-> "ready_to_apply"]
    <3>1. /\ new \in Row /\ CanTransition(stage, new.job)
          /\ new.job \in BeforeDrafts => stage \in BeforeDrafts
          /\ Fits("close", new.job)
          /\ ~broken => Agrees("close", new.job, new.app)
          /\ new.job = "review" => "close" = "ask" \/ (stage = "review" /\ pc[s] # "ask")
      BY <2>1, <2>4, <1>b, PipelineMoves, StageNames
         DEF Fits, Agrees, Settled, To, Row, BeforeDrafts
    <3> HIDE DEF new
    <3> QED
      BY <2>1, <2>2, <2>4, <3>1, GoesOnFlow DEF FlowInv, Open, Places, new
  <2> QED
    BY <1>15, <2>1, <2>3, <2>4 DEF BecomeReady, Done
<1>16. ASSUME NEW s \in Sessions, ApprovePending(s) PROVE Good
  <2>1. /\ pc[s] = "pending" /\ held[s] = Rows /\ Fits("pending", stage)
        /\ ~broken => Agrees("pending", stage, app)
    BY <1>16, <1>a DEF ApprovePending
  <2>2. UNCHANGED <<generated, task, aside, broken>>
    BY <1>16 DEF ApprovePending
  <2>3. ASSUME Continue(s, held[s], "approve")
        PROVE  Good
    <3> DEFINE new == held[s]
    <3>1. /\ new \in Row /\ CanTransition(stage, new.job)
          /\ new.job \in BeforeDrafts => stage \in BeforeDrafts
          /\ Fits("approve", new.job)
          /\ ~broken => Agrees("approve", new.job, new.app)
          /\ new.job = "review" => "approve" = "ask" \/ (stage = "review" /\ pc[s] # "ask")
      BY <2>1, <2>3, <1>b, PipelineMoves, StageNames
         DEF Fits, Agrees, Settled, To, Row, BeforeDrafts
    <3> HIDE DEF new
    <3> QED
      BY <2>1, <2>2, <2>3, <3>1, GoesOnFlow DEF FlowInv, Open, Places, new
  <2>4. ASSUME Continue(s, held[s], "pending")
        PROVE  Good
    <3> DEFINE new == held[s]
    <3>1. /\ new \in Row /\ CanTransition(stage, new.job)
          /\ new.job \in BeforeDrafts => stage \in BeforeDrafts
          /\ Fits("pending", new.job)
          /\ ~broken => Agrees("pending", new.job, new.app)
          /\ new.job = "review" => "pending" = "ask" \/ (stage = "review" /\ pc[s] # "ask")
      BY <2>1, <2>4, <1>b, PipelineMoves, StageNames
         DEF Fits, Agrees, Settled, To, Row, BeforeDrafts
    <3> HIDE DEF new
    <3> QED
      BY <2>1, <2>2, <2>4, <3>1, GoesOnFlow DEF FlowInv, Open, Places, new
  <2> QED
    BY <1>16, <2>1, <2>3, <2>4 DEF ApprovePending
<1>17. ASSUME NEW s \in Sessions, Requeue(s) PROVE Good
  <2>1. /\ pc[s] = "requeue" /\ held[s] = Rows /\ Fits("requeue", stage)
        /\ ~broken => Agrees("requeue", stage, app)
    BY <1>17, <1>a DEF Requeue
  <2>2. UNCHANGED <<generated, task, aside, broken>>
    BY <1>17 DEF Requeue
  <2>3. ASSUME Continue(s, [held[s] EXCEPT !.app = "ready_to_apply"], "close")
        PROVE  Good
    <3> DEFINE new == [held[s] EXCEPT !.app = "ready_to_apply"]
    <3>1. /\ new \in Row /\ CanTransition(stage, new.job)
          /\ new.job \in BeforeDrafts => stage \in BeforeDrafts
          /\ Fits("close", new.job)
          /\ ~broken => Agrees("close", new.job, new.app)
          /\ new.job = "review" => "close" = "ask" \/ (stage = "review" /\ pc[s] # "ask")
      BY <2>1, <2>3, <1>b, PipelineMoves, StageNames
         DEF Fits, Agrees, Settled, To, Row, BeforeDrafts
    <3> HIDE DEF new
    <3> QED
      BY <2>1, <2>2, <2>3, <3>1, GoesOnFlow DEF FlowInv, Open, Places, new
  <2> QED
    BY <1>17, <2>1, <2>3 DEF Requeue
<1>18. ASSUME NEW s \in Sessions, DropApplication(s) PROVE Good
  <2>1. /\ pc[s] = "drop" /\ held[s] = Rows /\ Fits("drop", stage)
        /\ ~broken => Agrees("drop", stage, app)
    BY <1>18, <1>a DEF DropApplication
  <2>2. UNCHANGED <<generated, task, aside, broken>>
    BY <1>18 DEF DropApplication
  <2>3. ASSUME Continue(s, held[s], "close") /\ held[s].app \in SubmissionStages \cup {NoStage}
        PROVE  Good
    <3> DEFINE new == held[s]
    <3>1. /\ new \in Row /\ CanTransition(stage, new.job)
          /\ new.job \in BeforeDrafts => stage \in BeforeDrafts
          /\ Fits("close", new.job)
          /\ ~broken => Agrees("close", new.job, new.app)
          /\ new.job = "review" => "close" = "ask" \/ (stage = "review" /\ pc[s] # "ask")
      BY <2>1, <2>3, <1>b, PipelineMoves, StageNames
         DEF Fits, Agrees, Settled, To, Row, BeforeDrafts
    <3> HIDE DEF new
    <3> QED
      BY <2>1, <2>2, <2>3, <3>1, GoesOnFlow DEF FlowInv, Open, Places, new
  <2>4. ASSUME Continue(s, [held[s] EXCEPT !.app = held[s].job], "close") /\ held[s].app \notin SubmissionStages \cup {NoStage}
        PROVE  Good
    <3> DEFINE new == [held[s] EXCEPT !.app = held[s].job]
    <3>1. /\ new \in Row /\ CanTransition(stage, new.job)
          /\ new.job \in BeforeDrafts => stage \in BeforeDrafts
          /\ Fits("close", new.job)
          /\ ~broken => Agrees("close", new.job, new.app)
          /\ new.job = "review" => "close" = "ask" \/ (stage = "review" /\ pc[s] # "ask")
      BY <2>1, <2>4, <1>b, PipelineMoves, StageNames
         DEF Fits, Agrees, Settled, To, Row, BeforeDrafts
    <3> HIDE DEF new
    <3> QED
      BY <2>1, <2>2, <2>4, <3>1, GoesOnFlow DEF FlowInv, Open, Places, new
  <2> QED
    BY <1>18, <2>1, <2>3, <2>4 DEF DropApplication
<1>19. ASSUME NEW s \in Sessions, StartFilling(s) PROVE Good
  <2>1. /\ pc[s] = "form" /\ held[s] = Rows /\ Fits("form", stage)
        /\ ~broken => Agrees("form", stage, app)
    BY <1>19, <1>a DEF StartFilling
  <2>2. UNCHANGED <<generated, task, aside, broken>>
    BY <1>19 DEF StartFilling
  <2>3. ASSUME Continue(s, To(held[s], "applying"), "applying") /\ CanTransition(held[s].job, "applying")
        PROVE  Good
    <3> DEFINE new == To(held[s], "applying")
    <3>1. /\ new \in Row /\ CanTransition(stage, new.job)
          /\ new.job \in BeforeDrafts => stage \in BeforeDrafts
          /\ Fits("applying", new.job)
          /\ ~broken => Agrees("applying", new.job, new.app)
          /\ new.job = "review" => "applying" = "ask" \/ (stage = "review" /\ pc[s] # "ask")
      BY <2>1, <2>3, <1>b, PipelineMoves, StageNames
         DEF Fits, Agrees, Settled, To, Row, BeforeDrafts
    <3> HIDE DEF new
    <3> QED
      BY <2>1, <2>2, <2>3, <3>1, GoesOnFlow DEF FlowInv, Open, Places, new
  <2>4. ASSUME Continue(s, held[s], "idle")
        PROVE  Good
    <3> DEFINE new == held[s]
    <3>1. /\ new \in Row /\ CanTransition(stage, new.job)
          /\ new.job \in BeforeDrafts => stage \in BeforeDrafts
          /\ Fits("idle", new.job)
          /\ ~broken => Agrees("idle", new.job, new.app)
          /\ new.job = "review" => "idle" = "ask" \/ (stage = "review" /\ pc[s] # "ask")
      BY <2>1, <2>4, <1>b, PipelineMoves, StageNames
         DEF Fits, Agrees, Settled, To, Row, BeforeDrafts
    <3> HIDE DEF new
    <3> QED
      BY <2>1, <2>2, <2>4, <3>1, GoesOnFlow DEF FlowInv, Open, Places, new
  <2> QED
    BY <1>19, <2>1, <2>3, <2>4 DEF StartFilling
<1>20. ASSUME NEW s \in Sessions, StopForReview(s) PROVE Good
  <2>1. /\ pc[s] = "applying" /\ held[s] = Rows /\ Fits("applying", stage)
        /\ ~broken => Agrees("applying", stage, app)
    BY <1>20, <1>a DEF StopForReview
  <2>2. UNCHANGED <<generated, task, aside, broken>>
    BY <1>20 DEF StopForReview
  <2>3. ASSUME Continue(s, [held[s] EXCEPT !.app = "applying"], "stopped")
        PROVE  Good
    <3> DEFINE new == [held[s] EXCEPT !.app = "applying"]
    <3>1. /\ new \in Row /\ CanTransition(stage, new.job)
          /\ new.job \in BeforeDrafts => stage \in BeforeDrafts
          /\ Fits("stopped", new.job)
          /\ ~broken => Agrees("stopped", new.job, new.app)
          /\ new.job = "review" => "stopped" = "ask" \/ (stage = "review" /\ pc[s] # "ask")
      BY <2>1, <2>3, <1>b, PipelineMoves, StageNames
         DEF Fits, Agrees, Settled, To, Row, BeforeDrafts
    <3> HIDE DEF new
    <3> QED
      BY <2>1, <2>2, <2>3, <3>1, GoesOnFlow DEF FlowInv, Open, Places, new
  <2> QED
    BY <1>20, <2>1, <2>3 DEF StopForReview
<1>21. ASSUME NEW s \in Sessions, FillForm(s) PROVE Good
  <2>1. /\ pc[s] = "applying" /\ held[s] = Rows /\ Fits("applying", stage)
        /\ ~broken => Agrees("applying", stage, app)
    BY <1>21, <1>a DEF FillForm
  <2>2. UNCHANGED <<generated, task, aside, broken>>
    BY <1>21 DEF FillForm
  <2>3. ASSUME Continue(s, [job |-> "form_filled", app |-> "form_filled"], "filled")
        PROVE  Good
    <3> DEFINE new == [job |-> "form_filled", app |-> "form_filled"]
    <3>1. /\ new \in Row /\ CanTransition(stage, new.job)
          /\ new.job \in BeforeDrafts => stage \in BeforeDrafts
          /\ Fits("filled", new.job)
          /\ ~broken => Agrees("filled", new.job, new.app)
          /\ new.job = "review" => "filled" = "ask" \/ (stage = "review" /\ pc[s] # "ask")
      BY <2>1, <2>3, <1>b, PipelineMoves, StageNames
         DEF Fits, Agrees, Settled, To, Row, BeforeDrafts
    <3> HIDE DEF new
    <3> QED
      BY <2>1, <2>2, <2>3, <3>1, GoesOnFlow DEF FlowInv, Open, Places, new
  <2> QED
    BY <1>21, <2>1, <2>3 DEF FillForm
<1>22. ASSUME NEW s \in Sessions, Validate(s) PROVE Good
  <2>1. /\ pc[s] = "filled" /\ held[s] = Rows /\ Fits("filled", stage)
        /\ ~broken => Agrees("filled", stage, app)
    BY <1>22, <1>a DEF Validate
  <2>2. UNCHANGED <<generated, task, aside, broken>>
    BY <1>22 DEF Validate
  <2>3. ASSUME Continue(s, [job |-> "validated", app |-> "validated"], "evidence")
        PROVE  Good
    <3> DEFINE new == [job |-> "validated", app |-> "validated"]
    <3>1. /\ new \in Row /\ CanTransition(stage, new.job)
          /\ new.job \in BeforeDrafts => stage \in BeforeDrafts
          /\ Fits("evidence", new.job)
          /\ ~broken => Agrees("evidence", new.job, new.app)
          /\ new.job = "review" => "evidence" = "ask" \/ (stage = "review" /\ pc[s] # "ask")
      BY <2>1, <2>3, <1>b, PipelineMoves, StageNames
         DEF Fits, Agrees, Settled, To, Row, BeforeDrafts
    <3> HIDE DEF new
    <3> QED
      BY <2>1, <2>2, <2>3, <3>1, GoesOnFlow DEF FlowInv, Open, Places, new
  <2> QED
    BY <1>22, <2>1, <2>3 DEF Validate
<1>23. ASSUME NEW s \in Sessions, RecordEvidence(s) PROVE Good
  <2>1. /\ pc[s] = "evidence" /\ held[s] = Rows /\ Fits("evidence", stage)
        /\ ~broken => Agrees("evidence", stage, app)
    BY <1>23, <1>a DEF RecordEvidence
  <2>2. UNCHANGED <<generated, task, aside, broken>>
    BY <1>23 DEF RecordEvidence
  <2>3. ASSUME Continue(s, held[s], "idle")
        PROVE  Good
    <3> DEFINE new == held[s]
    <3>1. /\ new \in Row /\ CanTransition(stage, new.job)
          /\ new.job \in BeforeDrafts => stage \in BeforeDrafts
          /\ Fits("idle", new.job)
          /\ ~broken => Agrees("idle", new.job, new.app)
          /\ new.job = "review" => "idle" = "ask" \/ (stage = "review" /\ pc[s] # "ask")
      BY <2>1, <2>3, <1>b, PipelineMoves, StageNames
         DEF Fits, Agrees, Settled, To, Row, BeforeDrafts
    <3> HIDE DEF new
    <3> QED
      BY <2>1, <2>2, <2>3, <3>1, GoesOnFlow DEF FlowInv, Open, Places, new
  <2> QED
    BY <1>23, <2>1, <2>3 DEF RecordEvidence
<1>24. ASSUME NEW s \in Sessions, AskOwner(s) PROVE Good
  <2>1. /\ pc[s] = "ask" /\ Continue(s, Rows, "idle") /\ UNCHANGED <<generated, aside, broken>>
        /\ Open("decision_review")'
    BY <1>24, <1>a DEF AskOwner, Open, TypeOK, TaskIds
  <2>2. /\ CanTransition(stage, stage) /\ stage = "review"
        /\ Fits("idle", stage)
        /\ ~broken => Agrees("idle", stage, app)
    BY <2>1, <1>a, <1>b, PipelineMoves DEF Fits, Agrees, Settled
  <2> QED
    BY <2>1, <2>2, <1>b, GoesOnFlow DEF FlowInv, Places
<1>25. ASSUME NEW s \in Sessions, DraftResume(s) PROVE Good
  <2>1. /\ pc[s] \in {"draft", "build"} /\ held[s] = Rows
        /\ pc[s] = "build" => stage \notin {"shortlisted", "approved"}
        /\ Continue(s, Rows, "letter") /\ UNCHANGED <<task, aside, broken>>
    BY <1>25, <1>a, <1>b DEF DraftResume
  <2>2. /\ CanTransition(stage, stage) /\ stage \notin BeforeDrafts
        /\ Fits("letter", stage)
        /\ ~broken => Agrees("letter", stage, app)
    BY <2>1, <1>a, <1>b, PipelineMoves
       DEF Fits, Agrees, Settled, GeneratableStages, BeforeDrafts
  <2> QED
    BY <2>1, <2>2, <1>b, GoesOnFlow DEF Open, Places, BeforeDrafts
<1>26. ASSUME NEW s \in Sessions, OpenReview(s) PROVE Good
  <2>1. /\ pc[s] = "prompt" /\ Continue(s, Rows, "idle")
        /\ UNCHANGED <<generated, aside, broken>>
        /\ Open("decision_review") => Open("decision_review")'
    BY <1>26, <1>a DEF OpenReview, Open, TypeOK, TaskIds
  <2>2. /\ CanTransition(stage, stage)
        /\ Fits("idle", stage)
        /\ ~broken => Agrees("idle", stage, app)
    BY <2>1, <1>a, <1>b, PipelineMoves DEF Fits, Agrees
  <2> QED
    BY <2>1, <2>2, <1>b, GoesOnFlow DEF FlowInv, Places
<1>27. ASSUME NEW s \in Sessions, AfterDecision(s) PROVE Good
  <2>1. PICK place \in {"approve", "idle"} :
          /\ Commit(s, Rows, Rows, place, NoTask)
          /\ place = "approve" => stage = "materials_generated"
    BY <1>27 DEF AfterDecision
  <2>2. /\ pc[s] = "decided" /\ UNCHANGED <<generated, aside, broken>>
        /\ Open("decision_review") => Open("decision_review")'
    BY <1>27 DEF AfterDecision, Open, TypeOK, TaskIds
  <2>3. /\ CanTransition(stage, stage)
        /\ Fits(place, stage)
        /\ ~broken => Agrees(place, stage, app)
    BY <2>1, <2>2, <1>a, <1>b, PipelineMoves DEF Fits, Agrees, Settled, NoStage
  <2>4. Sessions = {s}
    BY DEF OneSession
  <2>5. /\ stage \in BeforeDrafts => ~generated'
        /\ stage = "review" /\ ~broken' /\ ~aside' => Open("decision_review")'
    BY <2>2, <2>4 DEF FlowInv
  <2>6. place \in Places
    BY <2>1 DEF Places
  <2> QED
    BY <2>1, <2>2, <2>3, <2>5, <2>6, <1>b, Lands
<1>28. ASSUME NEW s \in Sessions, CreateApplication(s) PROVE Good
  <2>1. Sessions = {s}
    BY DEF OneSession
  <2>2. PICK place \in {"idle", "close"} : pc'[s] = place
    BY <1>28 DEF CreateApplication, TypeOK
  <2>3. /\ pc[s] = "create" /\ stage = "shortlisted"
        /\ UNCHANGED <<stage, generated, aside, broken>>
        /\ app' = IF app = NoStage THEN "shortlisted" ELSE app
    BY <1>28, <1>a DEF CreateApplication, Fits
  <2>4. Fits(place, "shortlisted") /\ (~broken => Agrees(place, "shortlisted", app'))
    BY <2>2, <2>3, <1>a DEF Fits, Agrees, Settled
  <2>5. CanTransition(stage, stage')
    BY <2>3, <1>b, PipelineMoves
  <2> QED
    BY <2>1, <2>2, <2>3, <2>4, <2>5 DEF FlowInv
<1>29. ASSUME NEW s \in Sessions, NEW t \in TaskIds, ApproveTask(s, t) PROVE Good
  <2>1. pc[s] = "idle" /\ UNCHANGED <<generated, task, aside, broken>>
    BY <1>29 DEF ApproveTask, Begin
  <2>2. Sessions = {s}
    BY DEF OneSession
  <2>3. ~broken => Settled(stage, app)
    BY <2>1, <1>a DEF Agrees
  <2>4. stage = "review" /\ ~broken' /\ ~aside' => Open("decision_review")'
    BY <2>1, <2>2 DEF FlowInv, Open
  <2>5. ASSUME stage = "review", Begin(s, To(Rows, "shortlisted"), "create", t)
        PROVE  Good
    <3> DEFINE new == To(Rows, "shortlisted")
    <3>1. /\ new \in Row /\ CanTransition(stage, new.job) /\ new.job # "review"
          /\ new.job \in BeforeDrafts => ~generated
          /\ Fits("create", new.job)
          /\ ~broken => Agrees("create", new.job, new.app)
      BY <2>3, <2>5, <1>b, PipelineMoves, StageNames
         DEF Fits, Agrees, Settled, To, Row, BeforeDrafts, FlowInv
    <3> HIDE DEF new
    <3> QED
      BY <2>1, <2>5, <3>1, Lands DEF Begin, Places, new
  <2>6. ASSUME stage = "needs_review", Begin(s, To(Rows, "ready_to_apply"), "requeue", t)
        PROVE  Good
    <3> DEFINE new == To(Rows, "ready_to_apply")
    <3>1. /\ new \in Row /\ CanTransition(stage, new.job) /\ new.job # "review"
          /\ new.job \notin BeforeDrafts
          /\ Fits("requeue", new.job)
          /\ ~broken => Agrees("requeue", new.job, new.app)
      BY <2>3, <2>6, <1>b, PipelineMoves, StageNames
         DEF Fits, Agrees, Settled, To, Row, BeforeDrafts
    <3> HIDE DEF new
    <3> QED
      BY <2>1, <2>6, <3>1, Lands DEF Begin, Places, new
  <2>7. ASSUME NEW place \in {"pending", "approve"}, app # NoStage, Begin(s, Rows, place, t)
        PROVE  Good
    <3>1. /\ CanTransition(stage, stage)
          /\ stage \in BeforeDrafts => ~generated
          /\ Fits(place, stage)
          /\ ~broken => Agrees(place, stage, app)
      BY <2>3, <2>7, <1>b, PipelineMoves DEF Fits, Agrees, FlowInv
    <3> QED
      BY <2>1, <2>4, <2>7, <3>1, <1>b, Lands DEF Begin, Places
  <2> QED
    BY <1>29, <2>5, <2>6, <2>7 DEF ApproveTask
<1>30. ASSUME NEW s \in Sessions, NEW t \in TaskIds, RejectTask(s, t) PROVE Good
  <2> DEFINE new == To(Rows, RejectTarget)
  <2>1. pc[s] = "idle" /\ UNCHANGED <<generated, aside, broken>>
    BY <1>30 DEF RejectTask, Begin
  <2>2. ~broken => Settled(stage, app)
    BY <2>1, <1>a DEF Agrees
  <2>3. /\ RejectTarget \in {"rejected", "withdrawn"}
        /\ CanTransition(stage, RejectTarget)
    BY <1>30 DEF RejectTask, RejectTarget
  <2>4. RejectTarget = "withdrawn" => stage \notin {"discovered", "review", "rejected"}
    <3>1. \A st \in {"discovered", "review", "rejected"} : CanTransition(st, "rejected")
      BY PipelineMoves, StageNames
    <3> QED
      BY <3>1 DEF RejectTarget
  <2>5. new \in Row /\ new.job = RejectTarget /\ new.app = app
    BY <2>3, <1>b, StageNames DEF To, Row
  <2>6. /\ new.job \notin BeforeDrafts /\ new.job # "review"
        /\ Fits("drop", new.job)
    BY <2>3, <2>5 DEF Fits, BeforeDrafts
  <2>7. ~broken => Agrees("drop", new.job, new.app)
    BY <2>2, <2>3, <2>4, <2>5 DEF Agrees, Settled, SubmissionStages, NoStage
  <2> HIDE DEF new
  <2> QED
    BY <1>30, <2>1, <2>3, <2>5, <2>6, <2>7, Lands DEF RejectTask, Begin, Places, new
<1>31. ASSUME NEW s \in Sessions, CloseTask(s) PROVE Good
  <2>1. /\ Sessions = {s} /\ pc[s] = "close" /\ pc'[s] = "idle"
        /\ UNCHANGED <<stage, app, generated, aside, broken>>
    BY <1>31 DEF CloseTask, Continue, Commit, TypeOK, OneSession
  <2>2. /\ Fits("idle", stage)
        /\ ~broken => Agrees("idle", stage, app) /\ stage # "review"
        /\ CanTransition(stage, stage)
    BY <2>1, <1>a, <1>b, PipelineMoves DEF Fits, Agrees
  <2> QED
    BY <2>1, <2>2 DEF FlowInv
<1>32. ASSUME NEW s \in Sessions, NEW t \in TaskIds, ResolveTask(s, t) PROVE Good
  <2>1. /\ Begin(s, Rows, "idle", NoTask) /\ pc[s] = "idle"
        /\ UNCHANGED <<generated, broken>>
        /\ ~aside' => ~aside /\ (Open("decision_review") => Open("decision_review")')
    BY <1>32 DEF ResolveTask, Begin, Open, TypeOK, TaskIds
  <2>2. Sessions = {s}
    BY DEF OneSession
  <2>3. /\ CanTransition(stage, stage) /\ Fits("idle", stage)
        /\ ~broken => Agrees("idle", stage, app)
        /\ stage \in BeforeDrafts => ~generated'
        /\ stage = "review" /\ ~broken' /\ ~aside' => Open("decision_review")'
    BY <2>1, <2>2, <1>a, <1>b, PipelineMoves DEF FlowInv
  <2> QED
    BY <2>1, <2>3, <1>b, Lands DEF Begin, Places
<1>33. ASSUME NEW s \in Sessions, pc[s] \in {"form", "stopped"}, Hold(s, held[s]) PROVE Good
  <2> DEFINE new == To([held[s] EXCEPT !.app = "needs_review"], "needs_review")
  <2>1. /\ held[s] = Rows /\ stage \in {"ready_to_apply", "validated", "needs_review", "applying"}
        /\ UNCHANGED <<generated, broken>>
    BY <1>33, <1>a DEF Fits, ApplyReadyStages, Hold
  <2>2. Commit(s, Rows, new, "idle", NoTask)
    BY <1>33, <2>1, <1>b DEF Hold
  <2>3. new \in Row /\ new.job = "needs_review" /\ new.app = "needs_review"
    BY <2>1, <1>b, StageNames DEF To, Row
  <2>4. CanTransition(stage, "needs_review")
    BY <2>1, PipelineMoves
  <2>5. /\ "needs_review" \notin BeforeDrafts
        /\ Fits("idle", "needs_review") /\ Agrees("idle", "needs_review", "needs_review")
    BY DEF BeforeDrafts, Fits, Agrees, Settled
  <2> HIDE DEF new
  <2> QED
    BY <2>1, <2>2, <2>3, <2>4, <2>5, Lands DEF Places
<1>34. ASSUME NEW s \in Sessions, Interrupt(s) PROVE Good
  <2>1. Sessions = {s} /\ pc'[s] = "idle" /\ broken' /\ UNCHANGED <<stage, app, generated>>
    BY <1>34 DEF Interrupt, rows, TypeOK, OneSession
  <2>2. Fits("idle", stage) /\ CanTransition(stage, stage)
    BY <1>b, PipelineMoves DEF Fits
  <2> QED
    BY <2>1, <2>2 DEF FlowInv
<1>35. ASSUME SetKillSwitch \/ ResumeChanges PROVE Good
  <2>1. UNCHANGED <<stage, app, generated, task, pc, held, aside, broken>>
    BY <1>35 DEF SetKillSwitch, ResumeChanges, rows, work
  <2>2. CanTransition(stage, stage)
    BY <1>b, PipelineMoves
  <2> QED
    BY <2>1, <2>2 DEF FlowInv, Rows, Open
<1> QED
  BY <1>1, <1>2, <1>3, <1>4, <1>5, <1>6, <1>7, <1>8, <1>9, <1>10, <1>11, <1>12,
     <1>13, <1>14, <1>15, <1>16, <1>17, <1>18, <1>19, <1>20, <1>21, <1>22, <1>23,
     <1>24, <1>25, <1>26, <1>27, <1>28, <1>29, <1>30, <1>31, <1>32, <1>33, <1>34,
     <1>35 DEF Next, Handle, Step, FormUnavailable, HoldStopped

-----------------------------------------------------------------------------
LEMMA FlowStart == Init => FlowInv
BY DEF Init, FlowInv, Fits, Agrees, Settled, BeforeDrafts

LEMMA FlowHolds == OneSession => (Spec => []FlowInv)
<1> SUFFICES ASSUME OneSession PROVE Spec => []FlowInv
  OBVIOUS
<1>1. TypeOK /\ FlowInv /\ [Next]_vars => FlowInv'
  <2>1. UNCHANGED vars /\ FlowInv => FlowInv'
    BY DEF vars, FlowInv, Rows, Open
  <2> QED
    BY <2>1, FlowStep
<1> QED
  BY <1>1, FlowStart, ApplyTypes, PTL DEF Spec

(***************************************************************************)
(* state_machine.ALLOWED: with one session, whatever the owner and the     *)
(* cycle do and wherever a handler ends, every change of Job.stage is a    *)
(* transition of the table, also those open_task and the queues write      *)
(* without asking it.                                                      *)
(***************************************************************************)
THEOREM MovesStayLegal == OneSession => (Spec => MovesAreLegal)
<1> SUFFICES ASSUME OneSession PROVE Spec => MovesAreLegal
  OBVIOUS
<1>1. TypeOK /\ FlowInv /\ [Next]_vars => [CanTransition(stage, stage')]_vars
  BY FlowStep
<1> QED
  BY <1>1, FlowHolds, ApplyTypes, PTL DEF Spec, MovesAreLegal

(***************************************************************************)
(* Job.stage and Application.stage, written in different commits, agree    *)
(* whenever the handlers of the one session are through, if none ended     *)
(* early.                                                                  *)
(***************************************************************************)
THEOREM StagesAgree == OneSession => (Spec => []AppFollowsJob)
<1> SUFFICES ASSUME OneSession PROVE Spec => []AppFollowsJob
  OBVIOUS
<1>1. FlowInv => AppFollowsJob
  BY DEF FlowInv, Agrees, Settled, AppFollowsJob, Idle, OneSession
<1> QED
  BY <1>1, FlowHolds, PTL

(***************************************************************************)
(* Nothing gets lost between the queues of the cycle and the list of the   *)
(* owner: with one session, a posting whose handlers are through is final, *)
(* in a queue or has a task. It rests on HeldIsAsked.                      *)
(***************************************************************************)
THEOREM NothingGetsLost == OneSession => (Spec => []NextStepKnown)
<1> SUFFICES ASSUME OneSession PROVE Spec => []NextStepKnown
  OBVIOUS
<1>1. FlowInv /\ HeldHasTask => NextStepKnown
  <2> SUFFICES ASSUME FlowInv, HeldHasTask, Idle, ~broken, ~aside
               PROVE  \/ stage \in {"discovered", "validated", "rejected", "withdrawn"}
                      \/ ToPrepare
                      \/ ToDryRun
                      \/ \E t \in TaskIds : Open(t)
                      \/ stage \in {"approved", "materials_generated"}
    BY DEF NextStepKnown
  <2>1. Settled(stage, app)
    BY DEF FlowInv, Agrees, Idle, OneSession
  <2>2. CASE stage = "shortlisted"
    BY <2>1, <2>2 DEF Settled, ToPrepare, FlowInv, BeforeDrafts, NoStage
  <2>3. CASE stage = "review"
    BY <2>3 DEF FlowInv, Idle, TaskIds
  <2>4. CASE stage = "needs_review"
    BY <2>4 DEF HeldHasTask, TaskIds
  <2>5. CASE stage = "ready_to_apply"
    BY <2>1, <2>5 DEF Settled, ToDryRun, NoStage
  <2> QED
    BY <2>1, <2>2, <2>3, <2>4, <2>5 DEF Settled
<1> QED
  BY <1>1, FlowHolds, HeldIsAsked, PTL
=============================================================================
