---------------------------- MODULE AutonomousRun ----------------------------
(***************************************************************************)
(* The autonomous runner: v2/app/autonomous_loop.py with the browser       *)
(* session of browser_filler.fill_application_form, the submission engine, *)
(* the CAPTCHA bridge, and what the owner and the other handlers do to the *)
(* same postings meanwhile.                                                *)
(*                                                                         *)
(* A run reads its candidates once and goes on with those rows (held); it  *)
(* writes a stage only where it differs from the one it holds, and writes  *)
(* it directly, past assert_transition. The click and the stage are two    *)
(* steps. The employer's page is outside: it may take an application and   *)
(* say nothing, refuse it, or put a challenge in the way.                  *)
(***************************************************************************)
EXTENDS StateMachine, FiniteSets, Integers

CONSTANTS
    Jobs,            \* the postings
    CompanyOf,       \* the employer of a posting (Job.company, normalised)
    Runners,         \* sessions that may run the loop at the same time
    NoJob,           \* no posting in hand
    Fit,             \* postings whose score reaches min_score_threshold
    Barred,          \* postings of blacklisted companies
    Copies,          \* postings that are linked duplicates (or of a role with a
                     \* SubmissionEvidence row of kind submission; nothing under
                     \* src writes such a row, so the set does not change)
    Marked,          \* postings whose form or URL already holds one of the words the
                     \* evidence check looks for ("success", "thank you for your interest")
    Polite,          \* postings whose employer refuses with such words
    Shared,          \* bound: the postings that others touch, or that an exception strikes,
                     \* while runs go on
    StageAtFirst,    \* the stages that the first run finds
    ByHandFrom,      \* the stages of postings the owner starts a single run on
    MaxApplications, MaxErrors,           \* AutonomousConfig
    BaseTicks, SolveTicks, NoticeTicks,   \* 30, 60 and 600 polls of half a second
    SpamRetries,     \* clicks that answer a spam notice (2)
    MaxChallenges,   \* bound: challenges the page puts up in one browser session
    MaxReceived      \* bound: applications the employer of one posting takes

ASSUME AutonomousAssumption ==
    /\ NoJob \notin Jobs
    /\ StageAtFirst \in [Jobs -> Stages]
    /\ Polite \subseteq Jobs /\ Shared \subseteq Jobs /\ ByHandFrom \subseteq Stages
    /\ MaxApplications \in Nat /\ MaxErrors \in Nat
    /\ BaseTicks \in Nat \ {0} /\ SolveTicks \in Nat \ {0} /\ NoticeTicks \in Nat
    /\ SpamRetries \in Nat /\ MaxChallenges \in Nat /\ MaxReceived \in Nat

VARIABLES
    stage,      \* Job.stage
    task,       \* the postings with an open ReviewTask
    received,   \* outside: how many applications the employer of a posting took
    killed,     \* the flag global_kill_switch
    live,       \* settings.allow_live_submission and the flag of that name
    run,        \* the loop and the browser session of every runner
    won,        \* the postings that each run has submitted
    reopened    \* history: postings that the owner, or preparation, queued again, or
                \* that were in hand when a run ended with an exception

switches == <<killed, live>>
vars == <<stage, task, received, killed, live, run, won, reopened>>

Queue   == {"discovered", "scored", "shortlisted", "ready_to_apply"}
Places  == {"idle", "loop", "tailor", "fetch", "fill", "submit", "poll", "shot", "settle"}
Pages   == {"form", "pending", "silent", "challenge", "spam", "thanks", "regrets"}
Results == {"none", "unmatched", "failed", "filled", "submitted", "uncertain"}

Run == [ pc       : Places,
         armed    : BOOLEAN,                \* AutonomousConfig.allow_live_submission
         single   : BOOLEAN,                \* run_job_async, not run_async
         held     : [Jobs -> Stages],       \* the stages it has read
         todo     : SUBSET Jobs,            \* the candidates it has not come to
         cur      : Jobs \cup {NoJob},      \* the posting in hand
         consent  : BOOLEAN,                \* can_submit_live
         done     : Nat,                    \* submitted_live + verified_dry_runs
         errors   : Nat,
         page     : Pages,
         ticks    : Nat,                    \* max_ticks - tick
         notified : BOOLEAN,                \* captcha_popup_notified
         retries  : Nat,                    \* spam_retries
         asked    : Nat,                    \* challenges so far
         result   : Results ]               \* what the browser session returned

\* A run holds a posting exactly while it works on one.
TypeOK ==
    /\ stage \in [Jobs -> Stages]
    /\ task \subseteq Jobs
    /\ received \in [Jobs -> Nat]
    /\ killed \in BOOLEAN /\ live \in BOOLEAN
    /\ run \in [Runners -> Run]
    /\ won \in [Runners -> SUBSET Jobs]
    /\ reopened \subseteq Jobs
    /\ \A r \in Runners : (run[r].cur = NoJob) <=> (run[r].pc \in {"idle", "loop"})

Larger(a, b) == IF a > b THEN a ELSE b
InHand(j) == \E r \in Runners : run[r].cur = j

\* Nothing is kept of a run, or of a browser session, that is over.
Asleep == [ pc |-> "idle", armed |-> FALSE, single |-> FALSE, todo |-> {}, cur |-> NoJob,
            held |-> [j \in Jobs |-> "discovered"], consent |-> FALSE, done |-> 0, errors |-> 0,
            page |-> "form", ticks |-> 0, notified |-> FALSE, retries |-> 0, asked |-> 0,
            result |-> "none" ]

Init ==
    /\ stage = StageAtFirst
    /\ task = {} /\ received = [j \in Jobs |-> 0]
    /\ killed = FALSE /\ live \in BOOLEAN
    /\ run = [r \in Runners |-> Asleep]
    /\ won = [r \in Runners |-> {}]
    /\ reopened = {}

-----------------------------------------------------------------------------
(* The loop                                                                *)

\* run_async: the kill switch, the scoring of what is pending (done or left out
\* for want of facts), the candidates.
Start(r) ==
    /\ run[r].pc = "idle" /\ ~killed
    /\ \E verdict \in [{j \in Jobs : stage[j] = "discovered"} ->
                          {"discovered", "rejected", "review", "shortlisted"}] :
         /\ stage' = [j \in Jobs |-> IF j \in DOMAIN verdict THEN verdict[j] ELSE stage[j]]
         /\ task' = task \cup {j \in DOMAIN verdict : verdict[j] = "review"}
    /\ run' = [run EXCEPT ![r] = [Asleep EXCEPT !.pc = "loop", !.armed = live, !.held = stage',
                                     !.todo = {j \in Jobs : stage'[j] \in Queue}]]
    /\ won' = [won EXCEPT ![r] = {}]
    /\ UNCHANGED <<received, switches, reopened>>

MayGoOn(r) ==
    /\ ~killed
    /\ run[r].done < MaxApplications
    /\ run[r].errors < MaxErrors
    /\ run[r].todo # {}

\* The switch, the budget, too many errors, or nothing left.
Stop(r) ==
    /\ run[r].pc = "loop" /\ ~MayGoOn(r)
    /\ run' = [run EXCEPT ![r] = Asleep]
    /\ UNCHANGED <<stage, task, received, switches, won, reopened>>

NoCooldown(r, j) == FALSE

\* The company of j has a submission of this run.
CoolingDown(r, j) == \E k \in won[r] : CompanyOf[k] = CompanyOf[j]

\* duplicate_guard, action "submit".
Guarded(j) == j \in Copies

\* Not taken up: the score, the company, the guard, or the liveness gate, which may
\* close the posting or ask the owner about it.
Skip(r, j) ==
    /\ run[r].pc = "loop" /\ MayGoOn(r) /\ j \in run[r].todo
    /\ run' = [run EXCEPT ![r].todo = @ \ {j}]
    /\ \/ /\ j \notin Fit \/ j \in Barred \/ CoolingDown(r, j) \/ Guarded(j)
          /\ UNCHANGED <<stage, task>>
       \/ /\ j \in Fit \ Barred /\ ~CoolingDown(r, j) /\ ~Guarded(j)
          /\ \/ UNCHANGED <<stage, task>>
             \/ stage[j] \in CloseSources /\ stage' = [stage EXCEPT ![j] = "closed"] /\ UNCHANGED task
             \/ task' = task \cup {j} /\ UNCHANGED stage
    /\ UNCHANGED <<received, switches, won, reopened>>

\* A new browser session for the posting; live only if every switch is on.
Fresh(rec, j, agreed) ==
    [rec EXCEPT !.pc = "tailor", !.cur = j, !.todo = @ \ {j}, !.consent = agreed]

Take(r, j) ==
    /\ run[r].pc = "loop" /\ MayGoOn(r) /\ j \in run[r].todo
    /\ j \in Fit \ Barred /\ ~CoolingDown(r, j) /\ ~Guarded(j)
    /\ run' = [run EXCEPT ![r] = Fresh(@, j, run[r].armed /\ live)]
    /\ UNCHANGED <<stage, task, received, switches, won, reopened>>

\* POST /api/jobs/{id}/run-autonomous: no guard, no liveness gate, never live.
RunJob(r, j) ==
    /\ run[r].pc = "idle" /\ ~killed /\ j \notin Barred /\ stage[j] \in ByHandFrom
    /\ run' = [run EXCEPT ![r] =
                 Fresh([Asleep EXCEPT !.held = stage, !.single = TRUE], j, FALSE)]
    /\ won' = [won EXCEPT ![r] = {}]
    /\ UNCHANGED <<stage, task, received, switches, reopened>>

KeepsPosting(rec, failed) == [rec EXCEPT !.pc = IF rec.single THEN "idle" ELSE "loop"]

\* The posting is done with; a run over candidates goes on to the next.
Released(rec, failed) ==
    IF rec.single THEN Asleep
    ELSE [Asleep EXCEPT !.pc = "loop", !.armed = rec.armed, !.held = rec.held, !.todo = rec.todo,
                        !.done = IF failed THEN rec.done ELSE rec.done + 1,
                        !.errors = IF failed THEN rec.errors + 1 ELSE rec.errors]

-----------------------------------------------------------------------------
(* One posting                                                             *)

\* Documents are written and go through the truth guard, which may refuse them.
Tailor(r) ==
    /\ run[r].pc = "tailor"
    /\ \/ run' = [run EXCEPT ![r].pc = "fetch"]
       \/ run' = [run EXCEPT ![r] = Released(@, TRUE)]
    /\ UNCHANGED <<stage, task, received, switches, won, reopened>>

FetchForm(r) ==
    /\ run[r].pc = "fetch"
    /\ \/ run' = [run EXCEPT ![r].pc = "fill"]
       \/ run' = [run EXCEPT ![r] = Released(@, TRUE)]
    /\ UNCHANGED <<stage, task, received, switches, won, reopened>>

\* fill_application_form up to the submission: fields that do not match, an exception,
\* or all filled; only then, and only live, is the form submitted.
Fill(r) ==
    /\ run[r].pc = "fill"
    /\ \/ \E res \in {"unmatched", "failed"} :
            run' = [run EXCEPT ![r].pc = "settle", ![r].result = res]
       \/ run' = [run EXCEPT ![r].pc = IF run[r].consent THEN "submit" ELSE "settle",
                             ![r].result = "filled"]
    /\ UNCHANGED <<stage, task, received, switches, won, reopened>>

\* execute_live_submission: no click while a challenge is unresolved, without a button,
\* or if the click raises.
Click(r) ==
    /\ run[r].pc = "submit"
    /\ \/ run' = [run EXCEPT ![r].pc = "settle", ![r].result = "uncertain"]
       \/ run' = [run EXCEPT ![r].pc = "poll", ![r].page = "pending",
                             ![r].ticks = BaseTicks]
    /\ UNCHANGED <<stage, task, received, switches, won, reopened>>

AnyAnswer(r) == run[r].page \in {"thanks", "regrets", "silent", "form"} \/ run[r].cur \in Marked

\* evidence_is_sufficient: a confirmation on the page, or a word in its text or URL,
\* whoever says it and why.
Sufficient(r) == run[r].page \in {"thanks", "regrets"} \/ run[r].cur \in Marked

TicksKept(rec) == rec.ticks

TicksLeft(rec) == rec.ticks - 1

\* One turn of the polling loop, which ends with the confirmation or the last tick.
Poll(r) ==
    LET rec == run[r]
        again == rec.notified
        retry == rec.page = "spam" /\ rec.retries < SpamRetries
        left  == TicksLeft(rec)
    IN
    /\ rec.pc = "poll"
    /\ \/ /\ Sufficient(r)
          /\ run' = [run EXCEPT ![r].pc = "shot"]
       \/ /\ ~Sufficient(r) /\ rec.page = "challenge"
          /\ run' = [run EXCEPT ![r].notified = TRUE,
                                ![r].ticks = Larger(left, IF again THEN SolveTicks
                                                          ELSE Larger(SolveTicks, NoticeTicks))]
       \/ /\ ~Sufficient(r) /\ rec.page # "challenge"
          /\ IF again \/ retry
             THEN run' = [run EXCEPT ![r].page = "pending", ![r].notified = FALSE,
                                     ![r].retries = IF retry THEN @ + 1 ELSE @,
                                     ![r].ticks = Larger(left, BaseTicks)]
             ELSE run' = [run EXCEPT ![r].ticks = left,
                                     ![r].pc = IF left > 0 THEN "poll" ELSE "shot"]
    /\ UNCHANGED <<stage, task, received, switches, won, reopened>>

\* The screenshot, which may raise, and the last look at the evidence.
Shot(r) ==
    /\ run[r].pc = "shot"
    /\ \E taken \in BOOLEAN :
         run' = [run EXCEPT ![r].pc = "settle",
                            ![r].result = IF taken /\ Sufficient(r) THEN "submitted" ELSE "uncertain"]
    /\ UNCHANGED <<stage, task, received, switches, won, reopened>>

\* job.stage = s and commit, from the row that was read.
WriteStage(r, j, s) ==
    stage' = IF run[r].held[j] # s THEN [stage EXCEPT ![j] = s] ELSE stage

UncertainStays(rec) ==
    CASE rec.result = "submitted" -> "submitted"
      [] rec.result = "unmatched" -> "review"
      [] rec.result = "filled"    -> "ready_to_apply"
      [] OTHER                    -> rec.held[rec.cur]

\* Submitted, held for review (without a task), a verified dry run, or a failure
\* that leaves the stage; live, whatever is not confirmed is held.
StageAfter(rec) ==
    CASE rec.result = "submitted"                -> "submitted"
      [] rec.result = "unmatched" \/ (rec.consent /\ rec.result # "submitted") -> "review"
      [] ~rec.consent /\ rec.result = "filled"   -> "ready_to_apply"
      [] ~rec.consent /\ rec.result \in {"none", "failed", "uncertain"} -> rec.held[rec.cur]

Settle(r) ==
    LET rec == run[r]  j == run[r].cur  s == StageAfter(run[r]) IN
    /\ rec.pc = "settle"
    /\ WriteStage(r, j, s)
    /\ run' = [run EXCEPT ![r] = Released([@ EXCEPT !.held[j] = s],
                                          rec.result \notin {"submitted", "filled"})]
    /\ won' = IF rec.result = "submitted" THEN [won EXCEPT ![r] = @ \cup {j}] ELSE won
    /\ UNCHANGED <<task, received, switches, reopened>>

\* An exception that nobody catches (the browser does not start, does not close), or
\* the end of the process: what was not committed is lost.
Interrupt(r) ==
    /\ run[r].cur # NoJob
    /\ run' = [run EXCEPT ![r] = Asleep]
    /\ reopened' = reopened \cup {run[r].cur}
    /\ UNCHANGED <<stage, task, received, switches, won>>

-----------------------------------------------------------------------------
(* The employer's page                                                     *)

\* Taken, with or without a word; refused, in silence, with a notice or politely; challenged.
Answer(r) ==
    /\ run[r].pc = "poll" /\ run[r].page = "pending"
    /\ \/ /\ received[run[r].cur] < MaxReceived
          /\ received' = [received EXCEPT ![run[r].cur] = @ + 1]
          /\ \E p \in {"thanks", "silent"} : run' = [run EXCEPT ![r].page = p]
       \/ /\ \/ \E p \in {"form", "spam"} : run' = [run EXCEPT ![r].page = p]
             \/ run[r].cur \in Polite /\ run' = [run EXCEPT ![r].page = "regrets"]
             \/ /\ run[r].asked < MaxChallenges
                /\ run' = [run EXCEPT ![r].page = "challenge", ![r].asked = @ + 1]
          /\ UNCHANGED received
    /\ UNCHANGED <<stage, task, switches, won, reopened>>

\* The challenge is gone: the application goes on its way, or waits for another click.
Solve(r) ==
    /\ run[r].pc = "poll" /\ run[r].page = "challenge"
    /\ \E p \in {"form", "pending"} : run' = [run EXCEPT ![r].page = p]
    /\ UNCHANGED <<stage, task, received, switches, won, reopened>>

-----------------------------------------------------------------------------
(* The owner and the other handlers                                        *)

\* approve_task: a posting in review is shortlisted, one in needs_review requeued
\* (if its materials are ready).
Approve(j) ==
    /\ j \in task /\ ~killed
    /\ \/ stage[j] = "review" /\ stage' = [stage EXCEPT ![j] = "shortlisted"]
       \/ stage[j] = "needs_review" /\ stage' = [stage EXCEPT ![j] = "ready_to_apply"]
    /\ task' = task \ {j}
    /\ reopened' = reopened \cup {j}
    /\ UNCHANGED <<received, switches, run, won>>

\* revalidate_single_task: answers, facts or materials are there now; a held posting
\* goes back to the queue, the task of one that is not held is just closed.
Revalidate(j) ==
    /\ j \in task
    /\ stage' = IF stage[j] = "needs_review" THEN [stage EXCEPT ![j] = "ready_to_apply"] ELSE stage
    /\ reopened' = IF stage[j] = "needs_review" THEN reopened \cup {j} ELSE reopened
    /\ task' = task \ {j}
    /\ UNCHANGED <<received, switches, run, won>>

\* reject_task.
Reject(j) ==
    /\ j \in task /\ CanTransition(stage[j], "rejected")
    /\ stage' = [stage EXCEPT ![j] = "rejected"]
    /\ task' = task \ {j}
    /\ UNCHANGED <<received, switches, run, won, reopened>>

\* Preparation makes a shortlisted posting ready; a dry run of the cycle holds it.
Elsewhere(j) ==
    /\ \/ /\ stage[j] = "shortlisted" /\ stage' = [stage EXCEPT ![j] = "ready_to_apply"]
          /\ UNCHANGED task
       \/ /\ stage[j] = "ready_to_apply" /\ stage' = [stage EXCEPT ![j] = "needs_review"]
          /\ task' = task \cup {j}
    /\ UNCHANGED <<received, switches, run, won, reopened>>

\* process_inbox_email: an interview or an assessment opens a task and moves nothing;
\* a rejection writes the stage.
Mail(j) ==
    /\ \/ task' = task \cup {j} /\ UNCHANGED stage
       \/ stage' = [stage EXCEPT ![j] = "rejected"] /\ UNCHANGED task
    /\ UNCHANGED <<received, switches, run, won, reopened>>

Switch ==
    /\ \/ killed' = ~killed /\ UNCHANGED live
       \/ live' = ~live /\ UNCHANGED killed
    /\ UNCHANGED <<stage, task, received, run, won, reopened>>

Work(r) ==
    \/ Stop(r) \/ Tailor(r) \/ FetchForm(r) \/ Fill(r) \/ Click(r) \/ Poll(r) \/ Shot(r) \/ Settle(r)
    \/ \E j \in Jobs : Skip(r, j) \/ Take(r, j)

Next ==
    \/ \E r \in Runners : Start(r) \/ Work(r) \/ Answer(r) \/ Solve(r)
    \/ \E r \in Runners : run[r].cur \in Shared /\ Interrupt(r)
    \/ \E r \in Runners, j \in Jobs : RunJob(r, j)
    \/ \E j \in Shared : Approve(j) \/ Reject(j) \/ Revalidate(j) \/ Elsewhere(j) \/ Mail(j)
    \/ Switch

Spec == Init /\ [][Next]_vars

\* The loop goes on by itself: each browser call has a time-out.
UnattendedSpec == Spec /\ \A r \in Runners : WF_vars(Work(r))

\* Somebody sits before the browser and solves the challenges.
AttendedSpec == UnattendedSpec /\ \A r \in Runners : WF_vars(Solve(r))
-----------------------------------------------------------------------------
(* What is promised                                                        *)

(***************************************************************************)
(* What a run reports as submitted was taken by the employer: a timeout, a *)
(* refusal or a failed screenshot never counts as a submission             *)
(* (submission_engine.execute_live_submission), if neither the page and its*)
(* URL say thanks already nor the refusal does.                            *)
(***************************************************************************)
SubmittedWasTaken ==
    \A r \in Runners : \A j \in won[r] : j \notin Marked \cup Polite => received[j] > 0

(***************************************************************************)
(* An application that may have been sent is not sent again by a later     *)
(* run: once the employer has one, the posting is out of the queue that    *)
(* runs draw from, unless a person or preparation put it back there, or a  *)
(* run ended with an exception in between (autonomous_loop._process_job).  *)
(***************************************************************************)
SentStaysOut ==
    \A j \in Jobs : received[j] > 0 /\ ~InHand(j)
                     => stage[j] \notin Queue \/ j \in reopened

(***************************************************************************)
(* A run keeps to its budget and its patience, and one company gets one    *)
(* submission of it (the cooldown of run_async, over several postings).    *)
(***************************************************************************)
RunsAreLimited ==
    \A r \in Runners :
        /\ run[r].done <= MaxApplications /\ run[r].errors <= MaxErrors
        /\ \A j, k \in won[r] : CompanyOf[j] = CompanyOf[k] => j = k

(***************************************************************************)
(* A run comes to an end: the polling after a click, extended by challenges*)
(* and notices, does not go on for ever (execute_live_submission).         *)
(***************************************************************************)
RunEnds == \A r \in Runners : run[r].pc # "idle" ~> run[r].pc = "idle"

(***************************************************************************)
(* The same of every posting, whatever a page says beforehand and however  *)
(* politely an employer refuses (evidence.CONFIRMATION_MARKERS).           *)
(***************************************************************************)
ThanksMeanTaken == \A r \in Runners : \A j \in won[r] : received[j] > 0

(***************************************************************************)
(* No employer gets two applications for one posting (README, "permanently *)
(* blocking duplicate submissions").                                       *)
(***************************************************************************)
SubmitsOnce == \A j \in Jobs : received[j] <= 1

(***************************************************************************)
(* Every change of stage is one of the state machine's (ARCHITECTURE:      *)
(* "every stage change goes through assert_transition").                   *)
(***************************************************************************)
MovesAreLegal == [][ \A j \in Jobs : CanTransition(stage[j], stage'[j]) ]_vars

(***************************************************************************)
(* What a run holds for review has a task that tells the owner so          *)
(* (human_intervention: "exits safely to ReviewTask").                     *)
(***************************************************************************)
HeldIsAsked == \A j \in Jobs : stage[j] \in {"review", "needs_review"} /\ j \notin reopened => j \in task
=============================================================================
