------------------------------ MODULE ApplyFlow ------------------------------
(***************************************************************************)
(* The way of one posting from discovery to a dry run: v2/app/pipeline.py  *)
(* (scoring, approval, execute_apply), review_queue.py, review_actions.py, *)
(* material_workflow.py, with their callers, the cycle and the owner's API *)
(* requests.                                                               *)
(*                                                                         *)
(* Every handler runs in a database session of its own and commits several *)
(* times; it is one action per commit, and pc says which commit is next.   *)
(* A session goes on with the rows it has read (expire_on_commit=False)    *)
(* and writes the columns that differ from them. The handlers that do slow *)
(* work between reading and writing (the scoring batch, the writing of     *)
(* materials, the loading of a form) read in a step of its own.            *)
(***************************************************************************)
EXTENDS StateMachine, FiniteSets

CONSTANTS
    Sessions,   \* the database sessions in use at the same time
    HoldTasks,  \* bound: the ids of the tasks that hold the application, each used once
    NoTask      \* the session decides on no task

ASSUME HoldTasksAssumption ==
    /\ HoldTasks \cap {"decision_review", "materials_review"} = {}
    /\ NoTask \notin HoldTasks \cup {"decision_review", "materials_review"}

VARIABLES
    stage,      \* Job.stage
    app,        \* Application.stage, NoStage without an application
    drafts,     \* the kinds of material with a version that awaits a decision
    resume,     \* the approved resume: none, ready, or with a problem (a fact no
                \* longer verified, a file changed)
    generated,  \* the application has rows in application_materials
    task,       \* ReviewTask.status of every task that may be opened
    killed,     \* the flag global_kill_switch
    pc,         \* the commit a session comes to next
    held,       \* the rows a session has read
    doing,      \* the task a session decides on
    aside,      \* history: the owner resolved a task and left the posting where it was
    broken      \* history: a handler ended before its last commit

rows == <<stage, app>>
work == <<pc, held, doing>>
vars == <<stage, app, drafts, resume, generated, task, killed, pc, held, doing,
          aside, broken>>

Kinds   == {"resume", "cover_letter"}
TaskIds == {"decision_review", "materials_review"} \cup HoldTasks
Places  == { "idle", "batch", "ask", "score", "select", "create",
             "build", "draft", "letter", "drafted", "prompt",
             "decided", "pending", "approve", "check", "ready", "requeue", "drop", "close",
             "form", "applying", "stopped", "filled", "evidence" }

Row     == [job : Stages \cup {NoStage}, app : Stages \cup {NoStage}]
Rows    == [job |-> stage, app |-> app]
Nothing == [job |-> NoStage, app |-> NoStage]

Open(t) == task[t] = "open"
Idle    == \A s \in Sessions : pc[s] = "idle"

\* A session decides on a task that exists; rows are held while something is to do.
TypeOK ==
    /\ stage \in Stages
    /\ app \in Stages \cup {NoStage}
    /\ drafts \subseteq Kinds
    /\ resume \in {"none", "ready", "problem"}
    /\ generated \in BOOLEAN
    /\ task \in [TaskIds -> {"none", "open", "closed"}]
    /\ killed \in BOOLEAN
    /\ pc \in [Sessions -> Places]
    /\ held \in [Sessions -> Row]
    /\ doing \in [Sessions -> TaskIds \cup {NoTask}]
    /\ \A s \in Sessions : doing[s] # NoTask => task[doing[s]] # "none"
    /\ aside \in BOOLEAN
    /\ broken \in BOOLEAN

-----------------------------------------------------------------------------
(* Commits                                                                 *)

\* The session, which read the rows old, commits new and goes on to place with task t.
Commit(s, old, new, place, t) ==
    /\ stage' = IF new.job # old.job THEN new.job ELSE stage
    /\ app' = IF new.app # old.app THEN new.app ELSE app
    /\ pc' = [pc EXCEPT ![s] = place]
    /\ held' = [held EXCEPT ![s] = IF place = "idle" THEN Nothing ELSE new]
    /\ doing' = [doing EXCEPT ![s] = IF place = "idle" THEN NoTask ELSE t]

\* A handler begins: it reads the rows.
Begin(s, new, place, t) ==
    /\ pc[s] = "idle"
    /\ Commit(s, Rows, new, place, t)

\* ... and goes on from the rows it holds.
Continue(s, new, place) == Commit(s, held[s], new, place, doing[s])

To(r, to) == [r EXCEPT !.job = to]

-----------------------------------------------------------------------------
(* pipeline.score_pending_jobs, pipeline.shortlist_job                     *)

\* The batch is loaded; each of its postings waits for those before it.
StartScoring(s) ==
    /\ stage = "discovered"
    /\ Begin(s, Rows, "batch", NoTask)
    /\ UNCHANGED <<drafts, resume, generated, task, killed, aside, broken>>

\* deterministic_gate: reject, review or go on.
GateJob(s) ==
    /\ pc[s] = "batch"
    /\ \/ Continue(s, To(held[s], "rejected"), "idle")
       \/ Continue(s, To(held[s], "review"), "ask")
       \/ Continue(s, To(held[s], "eligible"), "score")
    /\ UNCHANGED <<drafts, resume, generated, task, killed, aside, broken>>

\* (mutant) a review without its task.
AskNobody(s) ==
    /\ pc[s] = "ask"
    /\ Continue(s, held[s], "idle")
    /\ UNCHANGED <<drafts, resume, generated, task, killed, aside, broken>>

AskOwner(s) ==
    /\ pc[s] = "ask"
    /\ task' = [task EXCEPT !["decision_review"] = "open"]
    /\ Continue(s, held[s], "idle")
    /\ UNCHANGED <<drafts, resume, generated, killed, aside, broken>>

ScoreJob(s) ==
    /\ pc[s] = "score"
    /\ Continue(s, To(held[s], "scored"), "select")
    /\ UNCHANGED <<drafts, resume, generated, task, killed, aside, broken>>

SelectJob(s) ==
    /\ pc[s] = "select"
    /\ \/ Continue(s, To(held[s], "shortlisted"), "create")
       \/ Continue(s, To(held[s], "rejected"), "idle")
    /\ UNCHANGED <<drafts, resume, generated, task, killed, aside, broken>>

\* shortlist_job after its transition; an owner's approval goes on to close its task.
CreateApplication(s) ==
    /\ pc[s] = "create"
    /\ app' = IF app = NoStage THEN "shortlisted" ELSE app
    /\ LET place == IF doing[s] = NoTask THEN "idle" ELSE "close"
       IN /\ pc' = [pc EXCEPT ![s] = place]
          /\ held' = [held EXCEPT ![s] = IF place = "idle" THEN Nothing ELSE @]
    /\ UNCHANGED <<stage, doing, drafts, resume, generated, task, killed, aside, broken>>

-----------------------------------------------------------------------------
(* material_workflow.generate_for_application                              *)

GeneratableStages == { "shortlisted", "approved", "preparing", "materials_generated",
                       "materials_reviewed", "ready_to_apply", "needs_review", "validated" }
LockedStages      == {"submitted", "confirmed", "submission_uncertain", "applying"}

\* cycle._prepare takes a shortlisted posting whose application has no materials yet.
ToPrepare == stage = "shortlisted" /\ app # NoStage /\ ~generated

\* The cycle (only what is ToPrepare) or the owner; the drafts are composed from the
\* rows read here.
StartGenerating(s) ==
    /\ app # NoStage
    /\ stage \in GeneratableStages
    /\ app \notin LockedStages
    /\ Begin(s, Rows, "build", NoTask)
    /\ UNCHANGED <<drafts, resume, generated, task, killed, aside, broken>>

BeginPreparing(s) ==
    /\ pc[s] = "build"
    /\ held[s].job \in {"shortlisted", "approved"}
    /\ drafts' = {}
    /\ Continue(s, To(held[s], "preparing"), "draft")
    /\ UNCHANGED <<resume, generated, task, killed, aside, broken>>

\* The first draft is committed, with the older drafts superseded.
DraftResume(s) ==
    /\ \/ pc[s] = "draft" /\ drafts' = drafts \cup {"resume"}
       \/ /\ pc[s] = "build"
          /\ held[s].job \notin {"shortlisted", "approved"}
          /\ drafts' = {"resume"}
    /\ generated' = TRUE
    /\ Continue(s, held[s], "letter")
    /\ UNCHANGED <<resume, task, killed, aside, broken>>

DraftLetter(s) ==
    /\ pc[s] = "letter"
    /\ drafts' = drafts \cup {"cover_letter"}
    /\ Continue(s, held[s], "drafted")
    /\ UNCHANGED <<resume, generated, task, killed, aside, broken>>

FinishGenerating(s) ==
    /\ pc[s] = "drafted"
    /\ Continue(s, IF held[s].job = "preparing"
                   THEN [job |-> "materials_generated", app |-> "materials_generated"]
                   ELSE held[s],
                "prompt")
    /\ UNCHANGED <<drafts, resume, generated, task, killed, aside, broken>>

\* _open_review: one open task per application.
OpenReview(s) ==
    /\ pc[s] = "prompt"
    /\ task' = [task EXCEPT !["materials_review"] = "open"]
    /\ Continue(s, held[s], "idle")
    /\ UNCHANGED <<drafts, resume, generated, killed, aside, broken>>

-----------------------------------------------------------------------------
(* The owner decides on one version: approve_material, reject_material     *)

ApproveMaterial(s, kind) ==
    /\ app # NoStage /\ app \notin LockedStages
    /\ kind \in drafts
    /\ drafts' = drafts \ {kind}
    /\ resume' = IF kind = "resume" THEN "ready" ELSE resume
    /\ Begin(s, Rows, "decided", NoTask)
    /\ UNCHANGED <<generated, task, killed, aside, broken>>

\* Of a version that awaits a decision, or of the approved resume.
RejectMaterial(s, kind) ==
    /\ app # NoStage /\ app \notin LockedStages
    /\ \/ kind \in drafts /\ drafts' = drafts \ {kind} /\ UNCHANGED resume
       \/ /\ kind = "resume" /\ resume # "none" /\ resume' = "none"
          /\ UNCHANGED drafts
    /\ Begin(s, Rows, "decided", NoTask)
    /\ UNCHANGED <<generated, task, killed, aside, broken>>

\* _after_decision: close the tasks once nothing is pending, and go on when the resume
\* is ready. The job is first read here.
AfterDecision(s) ==
    /\ pc[s] = "decided"
    /\ LET settled == drafts = {}
           onward  == settled /\ resume = "ready" /\ stage = "materials_generated" /\ ~killed
       IN /\ task' = IF settled /\ Open("materials_review")
                     THEN [task EXCEPT !["materials_review"] = "closed"] ELSE task
          /\ Commit(s, Rows, Rows, IF onward THEN "approve" ELSE "idle", NoTask)
    /\ UNCHANGED <<drafts, resume, generated, killed, aside, broken>>

-----------------------------------------------------------------------------
(* pipeline.approve_application                                            *)

Done(s) == IF doing[s] = NoTask THEN "idle" ELSE "close"

\* POST /api/applications/{id}/approve
StartApproval(s) ==
    /\ app # NoStage
    /\ Begin(s, Rows, "approve", NoTask)
    /\ UNCHANGED <<drafts, resume, generated, task, killed, aside, broken>>

ApproveShortlisted(s) ==
    /\ pc[s] = "approve"
    /\ Continue(s, IF held[s].job = "shortlisted" THEN To(held[s], "approved") ELSE held[s],
                "check")
    /\ UNCHANGED <<drafts, resume, generated, task, killed, aside, broken>>

\* has_materials, and the first transition when it holds.
CheckMaterials(s) ==
    /\ pc[s] = "check"
    /\ IF /\ resume = "ready"
          /\ held[s].job \in {"approved", "materials_generated", "materials_reviewed"}
       THEN Continue(s, IF held[s].job = "materials_generated"
                        THEN To(held[s], "materials_reviewed") ELSE held[s],
                     "ready")
       ELSE Continue(s, held[s], Done(s))
    /\ UNCHANGED <<drafts, resume, generated, task, killed, aside, broken>>

BecomeReady(s) ==
    /\ pc[s] = "ready"
    /\ Continue(s, [job |-> "ready_to_apply", app |-> "ready_to_apply"], Done(s))
    /\ UNCHANGED <<drafts, resume, generated, task, killed, aside, broken>>

-----------------------------------------------------------------------------
(* review_actions                                                          *)

SubmissionStages  == {"submitted", "confirmed", "submission_uncertain"}
PreparationStages == {"shortlisted", "approved", "materials_generated", "materials_reviewed"}

\* approve_task, with _approve_plan: shortlist, requeue or approve_application.
ApproveTask(s, t) ==
    /\ Open(t)
    /\ ~killed
    /\ \/ /\ stage = "review"
          /\ Begin(s, To(Rows, "shortlisted"), "create", t)
       \/ /\ app \notin SubmissionStages \cup {NoStage}
          /\ stage = "needs_review" /\ resume = "ready"
          /\ Begin(s, To(Rows, "ready_to_apply"), "requeue", t)
       \/ /\ app \notin SubmissionStages \cup {NoStage}
          /\ stage \in PreparationStages
          /\ Begin(s, Rows, IF t = "materials_review" THEN "pending" ELSE "approve", t)
    /\ UNCHANGED <<drafts, resume, generated, task, killed, aside, broken>>

\* approve_pending: one commit per draft.
ApprovePending(s) ==
    /\ pc[s] = "pending"
    /\ IF drafts = {}
       THEN Continue(s, held[s], "approve") /\ UNCHANGED <<drafts, resume>>
       ELSE /\ \E kind \in drafts : /\ drafts' = drafts \ {kind}
                                    /\ resume' = IF kind = "resume" THEN "ready" ELSE resume
            /\ Continue(s, held[s], "pending")
    /\ UNCHANGED <<generated, task, killed, aside, broken>>

Requeue(s) ==
    /\ pc[s] = "requeue"
    /\ Continue(s, [held[s] EXCEPT !.app = "ready_to_apply"], "close")
    /\ UNCHANGED <<drafts, resume, generated, task, killed, aside, broken>>

\* (mutant) reject_task that rejects whatever the stage is.
RejectAlways == "rejected"

\* reject_task: rejected where the state machine allows it, else withdrawn.
RejectTarget ==
    IF CanTransition(stage, "rejected") THEN "rejected"
    ELSE IF CanTransition(stage, "withdrawn") THEN "withdrawn"
    ELSE NoStage

\* (mutant) reject_task that goes on when there is no target.
RejectUnchecked(s, t) ==
    /\ Open(t)
    /\ Begin(s, To(Rows, RejectTarget), "drop", t)
    /\ UNCHANGED <<drafts, resume, generated, task, killed, aside, broken>>

RejectTask(s, t) ==
    /\ Open(t)
    /\ RejectTarget # NoStage
    /\ Begin(s, To(Rows, RejectTarget), "drop", t)
    /\ UNCHANGED <<drafts, resume, generated, task, killed, aside, broken>>

\* (mutant) reject_task that leaves the application alone.
DropNothing(s) ==
    /\ pc[s] = "drop"
    /\ Continue(s, held[s], "close")
    /\ UNCHANGED <<drafts, resume, generated, task, killed, aside, broken>>

DropApplication(s) ==
    /\ pc[s] = "drop"
    /\ Continue(s, IF held[s].app \in SubmissionStages \cup {NoStage} THEN held[s]
                   ELSE [held[s] EXCEPT !.app = held[s].job],
                "close")
    /\ UNCHANGED <<drafts, resume, generated, task, killed, aside, broken>>

CloseTask(s) ==
    /\ pc[s] = "close"
    /\ task' = [task EXCEPT ![doing[s]] = "closed"]
    /\ Continue(s, held[s], "idle")
    /\ UNCHANGED <<drafts, resume, generated, killed, aside, broken>>

\* resolve_task: the task is closed, the posting stays where it is.
ResolveTask(s, t) ==
    /\ Open(t)
    /\ task' = [task EXCEPT ![t] = "closed"]
    /\ aside' = (aside \/ t # "materials_review")
    /\ Begin(s, Rows, "idle", NoTask)
    /\ UNCHANGED <<drafts, resume, generated, killed, broken>>

-----------------------------------------------------------------------------
(* pipeline.execute_apply                                                  *)

ApplyReadyStages == {"ready_to_apply", "validated", "needs_review"}

\* cycle._dry_run takes what is ready to apply.
ToDryRun == stage = "ready_to_apply" /\ app # NoStage

\* Bound: a dry run begins only if every one under way can still open its task.
TaskLeft == Cardinality({ t \in HoldTasks : task[t] = "none" })
              > Cardinality({ s \in Sessions : pc[s] \in {"form", "applying", "stopped"} })

\* _apply_adapter; the posting is live and not a duplicate. The form is loaded next.
StartApply(s) ==
    /\ ~killed
    /\ app # NoStage
    /\ stage \in ApplyReadyStages
    /\ TaskLeft
    /\ Begin(s, Rows, "form", NoTask)
    /\ UNCHANGED <<drafts, resume, generated, task, killed, aside, broken>>

CycleApply(s) == ToDryRun /\ StartApply(s)

\* (mutant) open_task that holds the posting in a commit before that of the task.
HoldFirst(s, old) ==
    /\ Commit(s, old, To([old EXCEPT !.app = "needs_review"],
                         IF old.job \in {"submitted", "confirmed", "rejected", "review"}
                         THEN old.job ELSE "needs_review"),
              IF pc[s] = "stopped" THEN "idle" ELSE "stopped", NoTask)
    /\ IF pc[s] = "stopped"
       THEN \E t \in HoldTasks : task[t] = "none" /\ task' = [task EXCEPT ![t] = "open"]
       ELSE UNCHANGED task
    /\ aside' = FALSE
    /\ UNCHANGED <<drafts, resume, generated, killed, broken>>

\* review_queue.open_task with hold: the task and the stages in one commit.
Hold(s, old) ==
    /\ Commit(s, old, To([old EXCEPT !.app = "needs_review"],
                         IF old.job \in {"submitted", "confirmed", "rejected", "review"}
                         THEN old.job ELSE "needs_review"),
              "idle", NoTask)
    /\ \E t \in HoldTasks : task[t] = "none" /\ task' = [task EXCEPT ![t] = "open"]
    /\ aside' = FALSE
    /\ UNCHANGED <<drafts, resume, generated, killed, broken>>

FormUnavailable(s) == pc[s] = "form" /\ Hold(s, held[s])

\* The plan is made; the transition to applying is refused for a validated posting.
StartFilling(s) ==
    /\ pc[s] = "form"
    /\ Continue(s, IF CanTransition(held[s].job, "applying")
                   THEN To(held[s], "applying") ELSE held[s],
                IF CanTransition(held[s].job, "applying") THEN "applying" ELSE "idle")
    /\ UNCHANGED <<drafts, resume, generated, task, killed, aside, broken>>

\* _stop_for_review: the evidence, which commits the application's stage, then the task.
StopForReview(s) ==
    /\ pc[s] = "applying"
    /\ Continue(s, [held[s] EXCEPT !.app = "applying"], "stopped")
    /\ UNCHANGED <<drafts, resume, generated, task, killed, aside, broken>>

HoldStopped(s) == pc[s] = "stopped" /\ Hold(s, held[s])

\* _complete_dry_run
FillForm(s) ==
    /\ pc[s] = "applying"
    /\ Continue(s, [job |-> "form_filled", app |-> "form_filled"], "filled")
    /\ UNCHANGED <<drafts, resume, generated, task, killed, aside, broken>>

\* (mutant) a dry run that waits for the kill switch.
ValidateUnlessKilled(s) ==
    /\ pc[s] = "filled"
    /\ ~killed
    /\ Continue(s, [job |-> "validated", app |-> "validated"], "evidence")
    /\ UNCHANGED <<drafts, resume, generated, task, killed, aside, broken>>

Validate(s) ==
    /\ pc[s] = "filled"
    /\ Continue(s, [job |-> "validated", app |-> "validated"], "evidence")
    /\ UNCHANGED <<drafts, resume, generated, task, killed, aside, broken>>

RecordEvidence(s) ==
    /\ pc[s] = "evidence"
    /\ Continue(s, held[s], "idle")
    /\ UNCHANGED <<drafts, resume, generated, task, killed, aside, broken>>

-----------------------------------------------------------------------------
(* Around the sessions                                                     *)

SetKillSwitch ==
    /\ killed' = ~killed
    /\ UNCHANGED <<rows, work, drafts, resume, generated, task, aside, broken>>

\* The owner un-verifies or verifies a fact the approved resume uses.
ResumeChanges ==
    /\ resume # "none"
    /\ resume' = IF resume = "ready" THEN "problem" ELSE "ready"
    /\ UNCHANGED <<rows, work, drafts, generated, task, killed, aside, broken>>

\* A handler ends early, with an exception or with its process.
Interrupt(s) ==
    /\ pc[s] # "idle"
    /\ pc' = [pc EXCEPT ![s] = "idle"]
    /\ held' = [held EXCEPT ![s] = Nothing]
    /\ doing' = [doing EXCEPT ![s] = NoTask]
    /\ broken' = TRUE
    /\ UNCHANGED <<rows, drafts, resume, generated, task, killed, aside>>

-----------------------------------------------------------------------------
Init ==
    /\ stage = "discovered"
    /\ app = NoStage
    /\ drafts = {}
    /\ resume = "none"
    /\ generated = FALSE
    /\ task = [t \in TaskIds |-> "none"]
    /\ killed = FALSE
    /\ pc = [s \in Sessions |-> "idle"]
    /\ held = [s \in Sessions |-> Nothing]
    /\ doing = [s \in Sessions |-> NoTask]
    /\ aside = FALSE
    /\ broken = FALSE

\* The next commit of a handler under way.
Step(s) ==
    \/ GateJob(s) \/ AskOwner(s) \/ ScoreJob(s) \/ SelectJob(s) \/ CreateApplication(s)
    \/ BeginPreparing(s) \/ DraftResume(s) \/ DraftLetter(s) \/ FinishGenerating(s)
    \/ OpenReview(s)
    \/ AfterDecision(s)
    \/ ApproveShortlisted(s) \/ CheckMaterials(s) \/ BecomeReady(s)
    \/ ApprovePending(s) \/ Requeue(s) \/ DropApplication(s) \/ CloseTask(s)
    \/ FormUnavailable(s) \/ StartFilling(s) \/ StopForReview(s) \/ HoldStopped(s)
    \/ FillForm(s) \/ Validate(s) \/ RecordEvidence(s)

Handle(s) ==
    \/ StartScoring(s) \/ StartGenerating(s) \/ StartApproval(s) \/ StartApply(s)
    \/ \E kind \in Kinds : ApproveMaterial(s, kind) \/ RejectMaterial(s, kind)
    \/ \E t \in TaskIds : ApproveTask(s, t) \/ RejectTask(s, t) \/ ResolveTask(s, t)

Next ==
    \/ \E s \in Sessions : Handle(s) \/ Step(s) \/ Interrupt(s)
    \/ SetKillSwitch
    \/ ResumeChanges

Fairness == \A s \in Sessions : WF_vars(Step(s))

Spec     == Init /\ [][Next]_vars
FairSpec == Spec /\ Fairness

-----------------------------------------------------------------------------
(* Properties                                                              *)

(***************************************************************************)
(* review_queue.open_task: what is held for the owner is in front of the   *)
(* owner. A posting in needs_review has an open task, however the handlers *)
(* of several sessions interleave and wherever they end, until the owner   *)
(* resolves a task without a decision.                                     *)
(***************************************************************************)
HeldHasTask ==
    stage = "needs_review" /\ ~aside => \E t \in HoldTasks : Open(t)

(***************************************************************************)
(* Nothing gets lost between the queues of the cycle and the owner's list: *)
(* once the handlers are through, a posting is final, in a queue of the    *)
(* cycle, or has a task. The two stages in which the owner's approval can  *)
(* come to nothing are left out here, see ApprovedGoesOn.                  *)
(***************************************************************************)
NextStepKnown ==
    Idle /\ ~broken /\ ~aside =>
      \/ stage \in {"discovered", "validated", "rejected", "withdrawn"}
      \/ ToPrepare
      \/ ToDryRun
      \/ \E t \in TaskIds : Open(t)
      \/ stage \in {"approved", "materials_generated"}

(***************************************************************************)
(* Job.stage and Application.stage are written by different statements and *)
(* in different commits, and _approve_plan and the lock on the materials   *)
(* read the one, the queues of the cycle the other: once the handlers of a *)
(* session are through, they agree.                                        *)
(***************************************************************************)
AppFollowsJob ==
    Idle /\ ~broken =>
      CASE stage \in {"shortlisted", "approved"} -> app = "shortlisted"
        [] stage \in {"discovered", "review"} -> app = NoStage
        [] stage = "rejected" -> app \in {NoStage, "rejected"}
        [] OTHER -> app = stage

(***************************************************************************)
(* state_machine.assert_transition guards the moves made with transition() *)
(* only; open_task writes Job.stage itself. With one session every move is *)
(* one of ALLOWED, wherever a handler ends.                                *)
(***************************************************************************)
MovesAreLegal == [][CanTransition(stage, stage')]_vars

(***************************************************************************)
(* A dry run comes to an end: the posting does not stay in applying or     *)
(* form_filled, which no queue and no task takes up, unless its handler    *)
(* was interrupted.                                                        *)
(***************************************************************************)
InFlight == stage \in {"applying", "form_filled"}

DryRunEnds == InFlight ~> (~InFlight \/ broken)

(***************************************************************************)
(* material_workflow.py:7: "Once nothing is pending and the resume is      *)
(* approved, a job waiting in materials_generated moves on to              *)
(* ready_to_apply". It does not wait for nothing.                          *)
(***************************************************************************)
ApprovedGoesOn ==
    ~( /\ Idle /\ ~broken /\ ~killed
       /\ stage = "materials_generated" /\ drafts = {} /\ resume = "ready"
       /\ \A t \in TaskIds : ~Open(t) )

(***************************************************************************)
(* docs/ARCHITECTURE.md:100: cycles "only dry-run applications the owner   *)
(* already approved".                                                      *)
(***************************************************************************)
OnlyApprovedAreDryRun ==
    [][\A s \in Sessions : CycleApply(s) => resume # "none"]_vars
=============================================================================
