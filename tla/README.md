# Formal models of HunterXJob

HunterXJob finds job postings, scores them, prepares application materials, fills application forms
as *dry runs* and puts everything that needs a person into a review queue. Nothing in `v2/` submits an
application by itself unless a whole chain of flags is set; the interest of the code is in the pipeline
that many handlers push postings through, each in a database session of its own, each with several
commits, several of them slow, any of them able to end in the middle.

This directory holds TLA+ models of that pipeline, configurations for TLC, and proofs for TLAPS. All
definitions are translated from `src/v2`; `PROJECT.json` maps every one of them to its lines.

    tlc -config apply_flow.cfg ApplyFlow          model-check one instance
    tlapm ApplyFlowProofs.tla                     check the proofs of one module

## 1. The system

| Component (source) | State | Operations | Talks to |
|---|---|---|---|
| Pipeline stages (`models.py`, `state_machine.py`) | `Job.stage`, `Application.stage` | `can_transition`, `assert_transition` | everybody |
| Duplicate postings (`dedup.py`) | `Job.duplicate_of_id`, `JobLink` rows | link, hand over, deactivate, re-gate, release and re-group, unlink, guard, scan | called by discovery, `pipeline.transition`, liveness, CLI, remote API |
| Discovery (`discovery.py`) | `Job` rows | `upsert_records` | boards over HTTP; links duplicates, hints liveness |
| Scheduler (`cycle.py`, `scheduler.py`) | thread lock, file lock, `SchedulerCycle` ledger | `run_once`, `busy`, `trigger_async`, the loop, the five steps with their budgets | runs discovery, liveness, scoring, preparation, dry runs |
| Job liveness (`job_liveness.py`, `liveness.py`) | liveness columns of `Job`, `LivenessCheck` | scheduled checks, manual check, gate before preparing or applying, feed hint | closes postings, releases copies, opens tasks |
| Gate, scoring, shortlist (`pipeline.py`) | `Job.stage`, `Application` | `score_pending_jobs`, `shortlist_job` | opens `decision_review` |
| Materials (`material_store.py`, `material_workflow.py`) | `ApplicationMaterial` versions | generate, approve, reject, `approve_pending` | moves the job, opens and closes `materials_review` |
| Apply pipeline (`pipeline.py`) | both stages, evidence | `approve_application`, `execute_apply` | forms over HTTP; holds for review |
| Review queue (`review_queue.py`, `review_actions.py`) | `ReviewTask` | `open_task`, approve, reject, resolve | both stages, materials |
| Flags (`flags.py`) | feature flags, the kill switch | `set_flag`, reads everywhere | read in the middle of most operations |
| Autonomous runner (`autonomous_loop.py`, `submission_engine.py`, `captcha_bridge.py`) | stages, the run in memory | a run over candidates, one posting by hand, click, polling | liveness gate, forms, browser, review queue |
| Form inspection (`real_forms.py`, `*_form.py`, `greenhouse_browser.py`) | a form per posting | fetch, parse, read-only browser session, cross-check | platforms over HTTP; used by dry runs and runner |
| Answers (`form_engine.py`, `vault_store.py`, `profile_vault.py`, `knowledge_book.py`, `autofill_api.py`) | `AnswerPolicy` rows, facts | plan a form, resolve a question, suggest to the extension, store, seed | profile; used by dry runs, runner, extension |
| Form filling (`browser_filler.py`) | the page | find a field, write, read back, attach, submit | runner |
| Profile (`profile.py`, `truth_guard.py`) | `ProfileFact` rows | import, add, edit, verify, remove | used by materials and answers |
| Inbox, follow-ups, evidence (`inbox_matcher.py`, `follow_up.py`, `evidence_reconciliation.py`, `autofill_api.py`) | stages, tasks, `SubmissionEvidence` | mail intents, due follow-ups, verdicts, logged applications | writes stages directly |
| Improvement kernel (`v2/improvement_kernel`) | agent versions, clusters, runs, promotion records | record, evaluate, cluster, synthesize, tournament, rollback | own database; reads failed applications |
| Certification, settings, migrations, backup | maturity, overrides, schema | promotion, override, migrate, back up | |
| Legacy backend, extension, mobile | own stores / UI | | separate programs |

What makes it hard:

* **Sessions that do not look again.** `db.py` makes sessions with `expire_on_commit=False` and
  `autoflush=False`. A handler works from the rows it read at its start, across its own commits, and
  writes only the columns that differ from what it read. A `WHERE` clause sees the database, the
  attributes of a loaded row do not.
* **Operations of several commits.** `transition` commits before `release_duplicates`;
  `shortlist_job` commits the stage before the application exists; a review task is closed one commit
  after the decision took effect; a dry run is five commits.
* **Slow steps in the middle**: probing a source, loading a form, writing materials.
* **Several processes**: API with a scheduler thread and request threads, command line, cron.
* **Flags and facts that change at any time**: the kill switch, a fact the owner un-verifies.
* **Pages that act by themselves**: an employer's page takes an application and says nothing, puts up a
  challenge, submits or moves while it is read, has two fields that one key leads to.
* **Several answers to one question**: three code paths, scopes, aliases, defaults and a fallback.

The properties that make each component correct, and the hazards behind them, are listed line by line
under `hazards` in `PROJECT.json`.

## 2. The modules

| Module | Models | State |
|---|---|---|
| `StateMachine` | stages, order, `ALLOWED`, `can_transition` | none |
| `DuplicateLinks` | `dedup.py` and its callers | stages, links, applications, dry-run evidence; per session: held rows and the rest of the operation |
| `CycleLedger` | what the scheduler promises: one turn, one ledger | turn, ledger |
| `CycleRunner`, `MCCycleRunner` | `cycle.py`: locks, ledger, steps, budgets, trigger | both locks, ledger, per caller: place, mode, row, step, items left, verdict |
| `CycleRunnerProofs` | theorems about `CycleRunner` | |
| `JobLiveness` | `job_liveness.py` for one posting | the row, the task, the world outside; per checker: held row and place |
| `JobLivenessProofs` | theorems about `JobLiveness` | |
| `ApplyFlow` | one posting from discovery to dry run: `pipeline.py`, `review_*.py`, `material_workflow.py` | both stages, pending drafts, approved resume, tasks, kill switch; per session: place, held rows, task it decides on |
| `ApplyFlowProofs` | theorems about `ApplyFlow` | |
| `DuplicateLinksProofs` | theorems about `DuplicateLinks` | |
| `AutonomousRun`, `MCAutonomousRun` | `autonomous_loop.py`, `submission_engine.py`, `captcha_bridge.py` | stages, tasks, what employers took, switches; per runner: place, held rows, budget, the page, time left |
| `AutonomousRunProofs` | theorems about `AutonomousRun` | |
| `FormInspection` | how a form is obtained and cross-checked, per platform | the posting, the form, the page, the reason it ends with |
| `FormAnswers`, `FormCases`, `MCFormAnswers` | the three paths from a question to an answer | stored rows, verified facts, history, the entry being seeded |
| `FormFilling`, `MCFormFilling` | `browser_filler.fill_application_form` | the page's fields, the plan, what each field holds, the report |
| `ProfileFacts`, `ProfileFactsProofs` | `profile.py` with its callers | fact rows; per session: the changes it is about to commit |
| `AfterSubmission` | evidence, inbox, follow-ups, logged applications | both stages, evidence rows, follow-ups; per session: what it read as due |
| `ImprovementKernel`, `ImprovementKernelProofs` | `v2/improvement_kernel` and its commands | versions, clusters, runs, records; per process: its tournament |
| `Platform`, `MCPlatform` | an instance of each of the last six, with the conditions under which their properties hold | the variables of all six |
| `PlatformProofs` | theorems about the six parts | |

`StateMachine` is extended by `DuplicateLinks`, `JobLiveness`, `ApplyFlow` and `AutonomousRun`;
`CycleRunner` implements `CycleLedger` through `INSTANCE CycleLedger WITH turn <- Turn`. The six parts in
`Platform` share no state: each of its behaviours is one of one part, the variables of the others being
`"off"`, so that one run, and one module of theorems, covers what would otherwise be six. Its properties are
those of the parts, and its conditions (`OneSession`, `OpensOnForm`, `TextsSaySomething`, `PlansAreLists`,
`FieldsAreTheEmployers`, `NoAnswerAround`, `MovesAreSeen`) are the hypotheses of the theorems; `MCPlatform` gives the
constants values and asserts, in an `ASSUME` that TLC evaluates, that they meet all of them.

**How code becomes actions.** One action per commit. `held` is what a session has read; `Commit`
(`ApplyFlow`), `Write` (`DuplicateLinks`) and `Merge` (`JobLiveness`) write the columns that differ from
it. Handlers that do no slow work between their first read and their first commit do both in one action;
the others (scoring batch, generation of materials, dry run, liveness check) have an action that reads.
Every early return and refusal is a guard.

**DuplicateLinks.** `compare()` on texts is an arbitrary symmetric relation `similar` that changes when a
text is refreshed; sources, stages and the order of discovery are as in the code. `link_duplicate` with
hand-over and demotion is one action per commit; the re-grouping loop of `release_duplicates` is one action
per copy (`Relink`). `Transition` stands for callers of `pipeline.transition`; `RejectionEmail`, `Scan` and
`Crash` are actions of their own so that runs can leave them out. A dry run has two actions here, up to its
first commit and from there to its last, the commits between being of no concern to links; `ApplyFlow` has them
one by one.

**CycleRunner.** A call of `run_once` is one action per lock operation, commit and work item. The step
`busy()` takes both locks (mode `probe`). `Steps` has the five steps; discovery, liveness and scoring are
done or failed, preparation and dry runs are loops with a budget. `Crash` of a process frees its locks and
leaves its rows; `CommitFails` is a ledger commit that raises, `LockFileFails` a lock file that cannot be opened.

**JobLiveness.** Time is relative (ages and times left) and saturates, so the state space is finite. The
answer of the source is what `posting` says when the probe is committed.

**ApplyFlow.** The cycle and the owner call the same handlers; `ToPrepare` and `ToDryRun` are the cycle's
selections. The rules of the gate, the score and the form plan are choices among their outcomes. The
posting is taken to be live and the primary of its group (the other two modules are about that).

**AutonomousRun.** A run reads its candidates once and works from those rows. One action per place of
`_process_job` and of the browser session, with the click and the commit of the stage apart and one action
per turn of the polling loop. `Answer` is the employer's page: it takes the application, with or without a
word, refuses it (in the words of a confirmation if the posting is one of `Polite`), or puts a challenge in the
way. The owner's decisions, re-validation, other handlers, mails
and the switches happen in between. `reopened` is a history variable: who put a posting back in the queue.

**FormInspection.** A field is its name and whether it is required, a question also whether it stands in a survey
(whose questions Lever and Ashby make optional). Each platform has its own reading of a
response, its own parser, and its own fallback; `Request`, `PageSubmits`, `PageLeaves` and `PageMoves` are what
the page's scripts do while the session reads it; `Moves` says what a page may do at its address.

**FormAnswers.** A question is a record of what its label says (subject, country, employer, whether it also
certifies) with its options; a key is a subject and a country. `Plan`, `Suggest` and `BookAnswers` are the three
paths as operators over the state, which the owner, imports, the seeding of policies and changes of the profile
move. Properties quantify over every question of the instance in every state.

**FormFilling.** `Search` lists the ways in which a key is looked for, in the order of the code, with the kinds of
fields each of them accepts; the writes differ by kind, and so does what counts as read back: an empty box is read
back by the text around it. A write may raise, before or after it has changed the field.

**ProfileFacts.** A session plans its changes from the rows it loads and commits the columns that differ from
them, or nothing when a row to update is gone.

**AfterSubmission.** Every handler is a commit except the scan for follow-ups, which reads and then queues.
The confidence of the reconciliation and the score of a mail are computed as in the code, in whole numbers.

**ImprovementKernel.** The steps of `hunterx improve` in any order, by any process. A harness is its set of
patches; `Failures`, `Score` and `Significant` reproduce what the sandbox, the heuristic judge and the signed
rank test make of the golden cases. A promotion is two commits, and a process may die between them.

## 3. What is checked

At most two or three actors and postings are needed: every hazard here is between two parties, or between
one party and what it read earlier.

| Run | Instance | What it shows |
|---|---|---|
| `links_full` | 3 postings, 1 session, all operations | `LinksAreStars`, `NoStrandedDuplicate`, `OverridesLast`, `StagesFollowMachine` |
| `links_pair` | 2 postings, changing texts, no scan/mail/crash | `LinkNeverOutlivesPrimary`, `OverrideIsRecorded`, `CopiesAreReleased` |
| `cycle_runner` | 2 processes, 3 callers, 2 rows, cap 1 per day, 2 per cycle | mutual exclusion, ledger, cap, locks given back, refinement |
| `live_safety` | 1 checker, confirmation 2, every trigger | `ClosedOnlyWhenConfirmed`, `ClosedIsKnown`, `GateMeansLive` |
| `live_wait` | 1 checker, fairness | `GoneIsClosed`, `UnreachableIsReviewed` |
| `apply_flow` | 1 session, 2 hold tasks | `HeldHasTask`, `NextStepKnown`, `AppFollowsJob`, `MovesAreLegal`, `DryRunEnds` |
| `auto_run` | 1 runner, 2 postings of one company, one of them touched by others | `SubmittedWasTaken`, `SentStaysOut`, `RunsAreLimited`, `RunEnds` |
| `platform` | six parts, see below | `FormsCoverThePage`; `CountryKept`, `PriorFailsClosed`; `NothingRequiredIsBlank`; `UsedIsConfirmed`; `FollowUpsAreFew`; `OneChampion`, `NeverWorse` |
| `form_legal`, `book_claims`, `fill_blank`, `apply_stranded` | | counterexamples, section 5 |

**Bounds and why they are enough.**

* `links_full` has three postings: the smallest number with a hand-over (copy, old primary, new primary) and
  with a chain that could arise from it. Texts are fixed (`Refreshable = {}`) to keep the space small; every
  relation `similar` is an initial state.
* That an owner's override lasts, `UnlinkedPairsStayApart`, is broken by the hand-over as soon as there are three
  postings (`links_handover`, section 5). `OverridesLast` says how far it does last, with three postings and all
  operations: its row is never overwritten, and only a copy that is handed over with its primary ends up with what it
  was taken from.
* `links_pair` has two postings. With three the re-grouping loop breaks `LinkNeverOutlivesPrimary`, and the scan
  breaks it already with two, so it is kept out (section 5). What the run shows is that the property holds apart
  from those defects, whatever the texts do.
* `MoveStages` is the set of stages that ordinary transitions lead to. In `links_pair` it has a stage of every class
  that `dedup.py` tells apart (before and at an application, in review, held, rejected, withdrawn); with three postings
  `links_full` has one before, one in review and one that is out. The stages after an application come from dry runs.
* `cycle_runner`: one process has a background thread and a request thread, so both the thread lock and the
  file lock are needed; the second process is the command line. Two rows let one cycle leave a row to the next.
  A limit per cycle (2) above the daily cap (1) makes the budget matter. `CycleIds` bounds the calls.
* `JobLiveness`: the delays are small but all different where the code compares them (confirmation 2 < recheck 4,
  back-off 1 doubling to at most 3, age 2). `MaxLag`, `FailCap` and `Horizon` are where times and counters stop;
  the assumptions of the module say how they relate.
* `ApplyFlow`: `HoldTasks` bounds how often a posting is held; two make "held again while an older task is
  open" and "held again after it was closed" both happen. Two sessions exceed what TLC finishes here; the
  property that is about several sessions, `HeldHasTask`, is proved for any number.
* `auto_run`: two postings of one company make the cooldown matter, and a budget of two is reached. The first
  is at `discovered` (it is scored in the run), the second is ready. `Shared` keeps the owner, mails and
  exceptions to the first; one challenge, one retry and waits of 1, 2 and 3 turns let every extension of the
  polling happen and end. One application taken per posting (`MaxReceived`) is enough to be sent twice to. The
  employer of the second posting may refuse politely; `SubmittedWasTaken` leaves such postings out.
* `platform`, inspection: every platform, two names that read as one key, up to two questions, in a survey or not,
  pages that open on the form or on a challenge and change their address with what they show; answers: 43 questions,
  six keys in two scopes, two rows, three employers, one of them with a look-alike, and a `HistoryLimit` of two
  (`PriorFailsClosed` is about histories up to it); filling: two keys and a resume on pages of two fields of all
  eight kinds, so that two keys lead to one field; profile: a fact and one nested in it, two contents; after the
  submission: two postings of one company, one logged by the extension, two weeks; kernel: three versions, one audit
  seed and one traced defect, so that two challengers meet one champion (`NeverWorse` was also run with five
  versions).
* Deadlock is not checked where the system may stop for good: all rows of the bounded ledger written, a posting
  rejected, every operation of the bounded instance done.

**Fairness.** `DuplicateLinks`, `CycleRunner` and `ApplyFlow` assume weak fairness of the next commit of a
handler that is under way and of nothing else: a thread that runs goes on (SQLite waits `busy_timeout`, probes
and form loads have time-outs). Nobody is assumed to start a cycle, to approve or to release the kill switch.
`CommitFails`, `Crash` and `Interrupt` may happen at any moment. `live_wait` also assumes that time passes and
that the scheduled check keeps being run (`_loop` calls `run_once` every interval), for one posting. `auto_run`
assumes weak fairness of the runner's own steps (every browser call has a time-out) and, for `RunEnds`, of
`Solve`: somebody sits before the browser and solves challenges. Without that a run does not end (section 5).
The six parts of `platform` are checked for safety only and assume nothing.

**Invariants with a history variable.** `aside` and `broken` (`ApplyFlow`) record that the owner resolved a
task without deciding, and that a handler ended early. `HeldHasTask`, `MovesAreLegal` hold in spite of broken
handlers; `NextStepKnown`, `AppFollowsJob` and `DryRunEnds` are promised by the code only without, since
nothing in it resumes an operation that was cut off: a crash leaves postings in `eligible`, `scored`,
`preparing`, `applying` or `form_filled`, in `shortlisted` without an application, or in `review` without a task.
`seen` (`JobLiveness`) records the answers given so far.

## 4. What is proved

| Theorem | Statement | Assumptions |
|---|---|---|
| `TypeCorrect`, `LivenessTypes`, `ApplyTypes` | type correctness of the three modules | the constants' |
| `NoOverlap`, `OneRunningRow`, `LiveRowsAreKept` | at most one cycle, one running row, and the sweep leaves live rows alone | the constants' |
| `CapIsRespected` | cycles keep the daily dry-run cap, for every cap and limit, across midnights | no dry runs by hand |
| `RunnerImplementsLedger` | `CycleRunner` implements `CycleLedger` | the constants' |
| `ClosedStaysKnown`, `ClosingIsConfirmed`, `GateIsFounded` | the liveness properties for every delay | one checker at a time (`OneChecker`) |
| `HeldIsAsked` | a posting in `needs_review` has an open task | the constants' |
| `MovesStayLegal`, `StagesAgree`, `NothingGetsLost` | every move of a posting is one of `ALLOWED`; the stages of job and application agree between handlers; no posting gets lost between queues and tasks | one session (`ApplyFlowProofs!OneSession`) |
| `StarsHold`, `NobodyStranded` | links form stars, a duplicate has a primary, with scans, mails and crashes | one session at a time (`OneSession`) |
| `TypesHold`, `RunsStayLimited`, `ReportedWasTaken` | types, budget and cooldown, and nothing reported that was not taken where neither the page nor a refusal thanks, in an autonomous run | the constants' |
| `SentKeepsOut` | what may have been sent leaves the queue | one runner (`OneRunner`), postings started by hand are in the queue (`QueuedByHand`) |
| `UsedStaysConfirmed`, `UsedRemainsConfirmed` | what is used says what the owner confirmed last | one session at a time, special values are no facts (`ConstantsApart`) |
| `OverridesStay` | the row of an override is never overwritten, and a pair the owner took apart is linked again by nothing but a hand-over of copies, with scans, mails and crashes | one session at a time |
| `OverrideStaysRecorded` | unlinking a matching pair leaves an override on record, with scans, mails and crashes | one session at a time; no posting matches two others (`RolesArePairs`) |
| `StagesFollow` | every stage that the duplicate handling writes is a transition of `ALLOWED` (those that a mail writes itself excepted), with scans, mails and crashes | one session at a time |
| `ReleasesKeepUp` | a link never outlives its primary, with scans | one session at a time; a re-grouping meets no copy out for good that something else could stand for (`NoOneElse`) |
| `PairsKeepUp` | a link never outlives its primary | one session at a time, two postings |
| `VerifiedFormsCover` | a form loaded as verified has every required question of the page | `OpensOnForm`, `MovesAreSeen` |
| `NothingStaysBlank` | when Submit is pressed no required field is blank | `TextsSaySomething`, `NoAnswerAround`, `PlansAreLists` |
| `CountriesStayApart` | what was said about one country answers for no other | `FieldsAreTheEmployers` |
| `FollowUpsStayFew` | each follow-up once, in order | one session scanning (`OneSession`) |
| `ChampionIsOne`, `ChampionStaysOne` | one champion, and it is on record | one process (`OneProcess`) |

All hold for any number of postings, rows, facts, versions, questions and fields, and, where no assumption says
otherwise, of callers, processes, sessions and runners. (In the rows of
`ProfileFacts` and `ImprovementKernel` the first theorem is about the module alone, the second the same as a
property of `Platform`.)

* `CycleRunnerProofs`. `CyclesNeverOverlap` is not inductive. `LockInv` says who holds what at every place
  of `run_once`: past an acquire, the thread lock of one's process; in a cycle, also the file lock. Two threads
  in a cycle are then in one process, and the same. `LedgerInv` adds whose the running row is: the cycle's
  under way, or a single one that a dead or failed cycle left, which `_mark_interrupted` writes off before
  the next is opened. `CapInv` says that what was done today plus what the one loop under way may still do
  stays within the cap. The refinement follows from `LockInv` and `LedgerInv` action by action.
* `JobLivenessProofs`. `LivenessInv` relates the row to the history of answers (a suspicion is as old as the
  last `gone` without a `live` since) and the row a checker holds to the row in the database. With a second
  checker the latter is false, hence `OneChecker`, and hence the counterexamples of section 5.
* `ApplyFlowProofs`. `HeldHasTask` is not inductive: a session may be about to close the task. `HoldInv` adds
  that nobody is deciding on it. That holds because `approve_task` and `reject_task` move the posting off
  `needs_review` in the very commit with which they start on a task, because only `open_task` moves it there,
  together with a task nobody has seen yet, and because a commit from old rows writes `Job.stage` only when
  the handler changed it. The three theorems for one session rest on `FlowInv`: for every place of a handler,
  the stages the posting can be in there wherever earlier handlers ended (`Fits`, which makes every move legal),
  the stages of the application that go with them if none ended early (`Agrees`, which gives `AppFollowsJob`),
  that the rows in hand are the stored ones, that materials exist from `preparing` on only, and that a posting
  in `review` has its task. With a second session the third is false: rows read earlier undo moves.
* `DuplicateLinksProofs`. A session holds rows between its commits, so `LinksAreStars` needs `HeldIsCurrent`:
  while one session works, what it holds of a posting is what the database has, and what it has left to do is
  about postings that exist. `InOrder` is both properties together with "what does not exist is linked to
  nothing"; the lemmas show that each operation of `dedup.py` takes rows in order to rows in order.
  *Overrides*: `PairsHaveRows` says that whoever points to a posting has a row of that pair, so that a posting
  cannot be unlinked where no row could be marked. `OverridesStep` is what each operation keeps: linking and the
  scan look at the override of the pair they are about, in both directions; the hand-over does not, and is the one
  exception that `OverridesStay` makes. For `OverrideStaysRecorded`, `RowInv` says that a row is `linked` exactly
  where one posting points to the other; there the hand-over has to be excluded, since it leaves the row of the
  old pair behind (`RolesArePairs`, which `TwoArePairs` shows of any two postings).
  *Stages*: `deactivate` and `regate` write stages themselves; `DeactivatingIsLegal`, `LinkingIsLegal`,
  `ReleasingIsLegal` and their like show that what they write, given `LinkInv`, is in `ALLOWED`.
  *Releases*: `KeepUpInv` says that nobody is behind a posting that is out but the copies of the release under
  way, which is about one posting. A re-grouping keeps it unless it makes a primary of a copy that was rejected or
  withdrawn meanwhile (section 5): `NoOneElse` excludes just that. `RegroupedInv` gets `NoOneElse` for two
  postings: who is re-grouped was released by the other one, which is out, so there is no candidate.
* `AutonomousRunProofs`. `RunInv` says of every place of a run what is known there: the count of errors and of what
  was done stay within the limits because a run that reaches them stops; a posting is reported only from a place
  where the page has thanked, as it does for an application that was taken, for a posting whose page has the words
  beforehand, and for one of a polite refusal. `SentInv` adds that the candidates a run still has to come to are
  untouched by employers, which one runner keeps true and two do not.
* `ProfileFactsProofs`. `ViewInv`: what a session plans starts from the committed row and is sound (a mark
  follows the owner's word or an unchanged row).
* `ImprovementKernelProofs`. `TourInv`: the champion a tournament names is still the champion, its queue is of
  candidates, and what it has recorded it is about to crown.
* `PlatformProofs`. `OnePartMoves` takes a step of `Platform` to a step or a stutter of its part, so that an
  invariant of a part is one of the whole; for the kernel and the profile these are `KernelInv` and `ProfileInv` of
  their own modules. *Follow-ups*: what was read as due is still the next number when it is queued (`StillDue`).
  *Inspection*: `VerifiedCoversThePage` is not inductive. `FormInv` adds that the answer's required questions are
  required controls of the form until it is cross-checked (`CoversAnswer`), and that a page which has given no
  reason for distrust shows the form or a challenge, and what was read of it is what it shows (`Trusted`): a script
  that moves, submits or leaves raises a flag before the reading is used. *Answers*: `CountryKept` holds whatever
  the vault and the facts hold: `RecordsFor`, `KeysOf`, `SharedKeys`, `AliasesJoin` and `PlanFrom` follow an answer
  back through plan, scope and alias to the keys it can have been said under. *Filling*: `FillInv` says of every key
  of the report, as long as none is unmatched, that its field exists and is a group of checkboxes or holds something
  that is not blank (`Reported`) whatever later keys write, and that Submit is pressed only with every required key
  in the report. `WrittenSays` is the lemma behind it: what counts as written and read back is not blank, for every
  kind of field (`GroupSays`, `ComboSays`, `LocatedIsPlace`, ...).

**What the hypotheses mean.** Each excludes a defect that is a counterexample of section 5, or a value the
code cannot meet. `OneSession` and its like: with two sessions rows read earlier undo or repeat what was done.
`RolesArePairs`, `NoOneElse`: the hand-over and the re-grouping loop with three postings. `OpensOnForm`: a blank
page is taken as verified. `MovesAreSeen`: so is one that puts up something else at its address.
`TextsSaySomething`: an option without a text (`fill_blank`). `NoAnswerAround`: an empty box is read back by the
text around it, a label "(Yes/No)" for the answer "Yes" or, for a place, any text. On the other side,
`FieldsAreTheEmployers` (the names an employer gives to fields are none of the keys of the book), `PlansAreLists`
and `ConstantsApart` only give constants their types. `MCPlatform` meets all conditions; `links_pair`
has two postings, which meet `RolesArePairs`.

**Only model-checked.** Everything under fairness (`CopiesAreReleased`, `LockIsGivenBack`, `GoneIsClosed`,
`UnreachableIsReviewed`, `DryRunEnds`, `RunEnds`): liveness and `ENABLED` are out of the prover's reach.
`NeverWorse`: scores and ranks are folds over the golden cases, and what they come to is induction over data, which
the library's theorems do not give here. `PriorFailsClosed`: that the history is handed on in full is true up to
`HistoryLimit` only, and what would be left to prove is the guard of one rule. Every other property of a passing run
is stated by a theorem.

## 5. Where the code disagrees with what is said of it

Listed under `findings`, each with a run whose counterexample shows it:

* `form_legal`: the general consents, which the profile gives by default as soon as it holds any verified fact,
  answer every legal question: "Have you ever been convicted?" is filled with *Yes*, whatever is stored. Legal terms
  were to fail closed.
* `book_claims`: the runner's book takes a lone option before anything else, and the truth guard knows affirmative
  words and six credentials only: with an empty profile "Do you hold a CPA designation?" is answered with its only
  option "I confirm".
* `fill_blank`: an option without a text is part of every value, both when it is chosen and when it is read back;
  a required select left on its blank first option counts as filled, and Submit is pressed.
* `apply_stranded`: the last draft approved under the kill switch leaves the posting in `materials_generated`
  with its task closed; releasing the switch changes nothing.

Further counterexamples, each with a configuration beside the modules (`tlc -config X.cfg M`):

| Configuration | Module | Property | What happens |
|---|---|---|---|
| `links_mail` | `DuplicateLinks` | `LinkNeverOutlivesPrimary` | a rejection mail writes `rejected` itself; the copies stay linked to it (`dedup.py:22`: "A link never outlives its primary") |
| `links_relink` | `DuplicateLinks` | `LinkNeverOutlivesPrimary` | the re-grouping loop does the same with a rejected copy (three postings) |
| `links_crash` | `DuplicateLinks` | `LinkNeverOutlivesPrimary` | the process ends between the transition and the release |
| `links_handover` | `DuplicateLinks` | `UnlinkedPairsStayApart` | the hand-over of copies ignores overrides |
| `links_role` | `DuplicateLinks` | `RoleDryRunOnce` | a role is dry-run again through a copy released when the first posting closed |
| `links_two_sessions` | `DuplicateLinks` | `InFlightNeverDemoted` | from held rows a posting that is being dry-run is demoted |
| `cycle_thread` | `MCCycleRunner` | `SchedulerSurvives` | a lock file that cannot be opened, or an exception of a ledger commit, leaves `run_once` and ends the scheduler thread (`cycle.py:190`: it "must survive it") |
| `cycle_overlap` | `MCCycleRunner` | `OverlapMeansRunning` | a probe of `busy()` makes a due cycle record an overlap |
| `cycle_trigger` | `MCCycleRunner` | `AcceptedTriggerRuns` | an accepted manual cycle is recorded as skipped |
| `live_asked` | `JobLiveness` | `GoneIsClosed` | after one early manual check each scheduled check comes at the *old* stamp plus the confirmation delay, is too early by the new stamp, and stamps again: a posting that is gone for good is never closed |
| `live_gate` | `JobLiveness` | `GateMeansLive` | a second session works from a row that is out of date |
| `live_inflight` | `JobLiveness` | `InFlightNeverClosed` | a posting that goes into `applying` during the probe is closed |
| `live_consecutive` | `JobLiveness` | `ReviewMeansConsecutive` | a `gone` answer does not interrupt a run of inconclusive ones |
| `apply_retracted` | `ApplyFlow` | `OnlyApprovedAreDryRun` | the approved resume of an application that is `ready_to_apply` is rejected; the cycle dry-runs it all the same |
| `auto_twice` | `MCAutonomousRun` | `SubmitsOnce` | an unconfirmed submission is approved by the owner and sent again |
| `form_paths` | `MCFormAnswers` | `BookFailsClosed` | the runner's knowledge book says "never worked for you" without any history (with `-continue`: `ExtensionKeepsCountry`, the extension gives one country's answer for another) |
| `fill_declined` | `MCFormFilling` | `DeclinedIsNotTicked` | a single checkbox that is found as one of a group is ticked for *No* |
| `after_dryrun` | `AfterSubmission` | `NothingSentNothingConfirmed` | the reconciliation takes a dry run for a confirmed submission because the posting's address holds "success" |

The following need another value of a constant than the configurations have:

| Module, constants | Property | What happens |
|---|---|---|
| `DuplicateLinks`, `links_pair` with `ScanSpec` | `LinkNeverOutlivesPrimary` | the scan makes a fresh posting the copy of a rejected one |
| `MCCycleRunner` with `ManualSpec`, two dry runs | `DailyCapHolds` | dry runs by hand during the loop take the day above the cap |
| `MCAutonomousRun`, `UnattendedSpec` | `RunEnds` | the wait for a challenge is extended for ever when nobody solves it |
| `MCAutonomousRun`, two runners, or `ByHandFrom` with stages outside the queue | `SentStaysOut` | a second run, or one by hand, sends again |
| `MCAutonomousRun` | `MovesAreLegal`, `HeldIsAsked` | the runner writes stages past the state machine, and holds postings for review without a task |
| `MCAutonomousRun` | `ThanksMeanTaken` | a refusal with "Thank you for your interest" counts as a confirmation (`evidence.py:26`) |
| `MCFormAnswers`, `form_paths` | `LegalFailsClosed` | a lone option is taken for a legal question with nothing stored (`form_engine.py:360`) |
| `MCFormAnswers`, `form_paths` | `PriorFailsClosed` | an employer beyond the limit (ten in the code) is one the candidate never worked for |
| `MCFormAnswers` | `NoIsNotAgreed`, `SeedKeepsAnswers` | a lone option is taken although the owner said no; an answer stored while the policy is being seeded is overwritten |
| `MCFormFilling`, `MCTwoFiles`, kinds text and file | `FilesStayAttached` | the second file goes into the only file input and replaces the resume; both are reported |
| `MCFormFilling`, options `MCAnswerAround` | `NothingRequiredIsBlank` | a required box that drops what is typed is read back by the text around it, which holds the answer (`browser_filler.py:456`): it counts as filled, and Submit is pressed |
| `MCFormFilling` | `AnswersStillHold` | a later key writes into a field that was matched before |
| `ProfileFacts`, two sessions | `UsedIsConfirmed` | a mark set in one session verifies a content that another one wrote |
| `AfterSubmission`, two sessions | `FollowUpsAreFew` | both scans queue the same follow-up |
| `AfterSubmission` | `VerdictKept`, `RejectedIsLeftAlone`, `RejectedWasSent` | the next evidence row replaces the owner's verdict; a follow-up is queued for a posting rejected in between; a mail rejects what was never sent |
| `FormInspection` | `RequiredOnPageIsRequired`, `NoSampleForm`, `RequiredIsAsked` | a control that the answer calls optional stays so; five platforms plan against their standard questions; of two questions with one key the first alone is kept |
| `FormInspection`, `Landings` with `"blank"` | `VerifiedCoversThePage` | a page that shows no field of the form is taken as verified |
| `FormInspection`, `Moves` with `"render"` | `VerifiedCoversThePage` | a page that puts up something else without changing its address is taken as verified |
| `ImprovementKernel`, four versions, no seeds | `GateNeverRegresses` | after rollbacks by the owner, the second challenger of a tournament is compared with the scores of the champion that the first one has just replaced, and wins although it scores worse (`loop.py:8`: "zero-regression enforcement") |
| `ImprovementKernel`, two processes | `OneChampion` | two tournaments crown; `get_current_champion` raises from then on |

Seen while modelling, without a property of their own: approving a shortlisted application before it has materials
moves it to `approved`, from which `_prepare` (shortlisted only) never takes it, which is why `NextStepKnown` leaves
that stage out; `POST /api/applications/{id}/approve` does not look at the kill switch; `execute_apply` accepts a
`validated` posting, loads its form, and is then refused by the state machine; with two sessions a held row revives
a posting that the owner has rejected or withdrawn meanwhile; nobody records evidence of kind `submission`, so that
in the running system follow-ups never come due; editing an employment keeps its key, so that the achievements of
the old one go to the new employer; required questions of a survey become optional on Lever and Ashby
(`lever_form.py:378`, `ashby_form.py:257`), so that a platform that insists on them refuses; the documented
thresholds of the promotion gate (p < 0.05 and d >= 0.20) are not both required; `IllegalTransition` for one job
ends its scoring batch.

## 6. What is left out

* Texts: comparison of postings, patterns that recognise a question, documents, page classification. They enter
  as relations, as fields of a record or as choices.
* Pipeline events and `LivenessCheck` rows, which nothing modelled reads back.
* In `ApplyFlow`: versions of materials (only the kinds that await a decision and the state of the approved
  resume are kept; rejecting an approved letter therefore does not appear), the liveness gate, the duplicate
  guard, the feature flags of adapters, and stages that only the autonomous runner and the mail reach.
* In `AutonomousRun`: the liveness gate is a choice (`JobLiveness` is about it), the documents and the form are,
  too; how a page is filled is `FormFilling`, what it is filled with `FormAnswers`.
* In `FormFilling`: cutting a text to a field's limits, the scores of places and salaries, and the digits by which
  a telephone number is read back.
* In `FormAnswers`: how a text tells the country a question is about (the posting's location, where the label refers
  to it, included); the country is a field of the question.
* In `CycleRunner`: a system without `fcntl`, on which `cycle.py:57` keeps threads apart and processes not.
* In `ImprovementKernel`: safety failures that lead to no patch, latencies, costs, occurrence counts (they order the
  synthesis, which here takes any open cluster), and a language model as judge.
* Migrations and backups (straight-line work before anything else runs), settings (one row read at each use),
  the dashboard and the rest of the API (rendering), the browser extension and the mobile application (user
  interfaces), the legacy backend (nothing of it is imported), scripts and deployment; certification and adapter
  health, whose counts no modelled operation reads. `PROJECT.json` gives the reason for each.

## 7. What could follow

1. Materials with versions of one kind and decisions of several sessions: at most one approved version, and what
   is attached is what the owner approved.
2. Certification: promotion and demotion of an adapter from its recorded runs.
3. Theorems: `NeverWorse`, from what the fold of the scores does for a fixed set of golden cases; the
   runner's hand-over of answers to `FormFilling` as a composition instead of two parts side by side.
