--------------------------- MODULE DuplicateLinks ---------------------------
(***************************************************************************)
(* Duplicate postings: v2/app/dedup.py, with the callers that feed it      *)
(* (discovery.upsert_records, pipeline.transition, pipeline.shortlist_job, *)
(* job_liveness closing and reopening a posting, the owner's unlink, the   *)
(* dedup-scan command, inbox_matcher).                                     *)
(*                                                                         *)
(* Copies of one role are linked to a primary posting. The job rows and    *)
(* the job_links rows live in one SQLite database that several sessions    *)
(* use: the cycle thread, API request threads, the command line. A session *)
(* commits several times inside one operation, so an operation is one      *)
(* action per commit; what it still has to do is its task. Sessions are    *)
(* created with expire_on_commit=False and autoflush=False: a row a        *)
(* session holds is not read again, the WHERE clause of a query is         *)
(* evaluated on the committed database, and only the columns that differ   *)
(* from the held row are written back.                                     *)
(***************************************************************************)
EXTENDS StateMachine, FiniteSets, Functions

CONSTANTS
    NumJobs,     \* bound: postings ever discovered, numbered in the order of discovered_at
    Sessions,    \* database sessions that can be in use at the same time
    MoveStages,  \* bound: the stages ordinary transitions of an instance lead to
    Refreshable, \* bound: the postings whose text may change after discovery
    NoJob        \* "no job": duplicate_of_id IS NULL

ASSUME NumJobsAssumption == NumJobs \in Nat \ {0}
ASSUME MoveStagesAssumption ==
    MoveStages \subseteq Stages \ ({"discovered"} \cup InactiveStages)

ASSUME RefreshableAssumption == Refreshable \subseteq 1..NumJobs

Jobs == 1..NumJobs
Pairs == { {a, b} : a, b \in Jobs } \ { {a} : a \in Jobs }

ASSUME NoJobAssumption == NoJob \notin Jobs

\* A primary in one of these no longer represents the role for its copies.
ReleasingStages == {"closed", "rejected", "withdrawn"}

VARIABLES
    stage,    \* Job.stage, NoStage before the posting is discovered
    dup,      \* Job.duplicate_of_id
    link,     \* JobLink.status of the row <<job, primary>>; "none" without a row, and
              \* for a released one: no query tells the two apart
    hasApp,   \* the jobs with an Application row
    dryRun,   \* the jobs with dry_run evidence
    similar,  \* the pairs of postings that compare() takes for the same role
    task,     \* what a session still has to do in the operation it is in
    held      \* the job rows a session holds, as it last read or wrote them

db   == <<stage, dup, link, hasApp, dryRun, similar>>
vars == <<stage, dup, link, hasApp, dryRun, similar, task, held>>

Idle == [op |-> "idle", jobs |-> {}]
Todo(op, jobs) == IF jobs = {} THEN Idle ELSE [op |-> op, jobs |-> jobs]

NothingHeld == [stage |-> << >>, dup |-> << >>]
HeldRows == UNION { [ stage : [H -> Stages \cup {NoStage}],
                      dup   : [H -> Jobs \cup {NoJob}] ] : H \in SUBSET Jobs }

Exists(j) == stage[j] # NoStage

\* Links, applications and evidence belong to existing postings; no posting is
\* linked to itself; a session holds rows exactly while it has something to do.
TypeOK ==
    /\ stage \in [Jobs -> Stages \cup {NoStage}]
    /\ dup \in [Jobs -> Jobs \cup {NoJob}]
    /\ link \in [Jobs \X Jobs -> {"none", "linked", "unlinked"}]
    /\ \A e \in Jobs \X Jobs :
         link[e] # "none" => e[1] # e[2] /\ Exists(e[1]) /\ Exists(e[2])
    /\ dryRun \subseteq hasApp
    /\ \A j \in hasApp : j \in Jobs /\ Exists(j)
    /\ similar \subseteq Pairs
    /\ task \in [Sessions -> [op : {"idle", "release", "relink", "application"},
                              jobs : SUBSET Jobs]]
    /\ held \in [Sessions -> HeldRows]
    /\ \A s \in Sessions : task[s] = Idle <=> held[s] = NothingHeld

(***************************************************************************)
(* Rows(s) is what session s sees; the operators below compute, from rows  *)
(* r as a session sees them, the rows after an operation. Write commits    *)
(* them: a column that the session did not change is not written, whatever *)
(* the database holds by then.                                             *)
(***************************************************************************)
Over(own, all) == [ j \in Jobs |-> IF j \in DOMAIN own THEN own[j] ELSE all[j] ]

Rows(s) == [ stage |-> Over(held[s].stage, stage),
             dup   |-> Over(held[s].dup, dup),
             link  |-> link ]

Changed(old, seen, new) ==
    [ j \in Jobs |-> IF new[j] # seen[j] THEN new[j] ELSE old[j] ]

Write(s, r, keep) ==
    LET seen == Rows(s)
    IN /\ stage' = Changed(stage, seen.stage, r.stage)
       /\ dup' = Changed(dup, seen.dup, r.dup)
       /\ link' = r.link
       /\ held' = [held EXCEPT ![s] = [ stage |-> Restrict(r.stage, keep),
                                        dup   |-> Restrict(r.dup, keep) ]]

\* Go on with t, holding the rows loaded so far (none once the operation is over).
Finish(s, r, t) ==
    /\ task' = [task EXCEPT ![s] = t]
    /\ Write(s, r, IF t = Idle THEN {} ELSE t.jobs \cup DOMAIN held[s].stage)

-----------------------------------------------------------------------------
(* dedup.py                                                                *)

WithStage(r, j, to) ==
    [r EXCEPT !.stage = [ k \in Jobs |-> IF k = j THEN to ELSE r.stage[k] ]]

\* (mutant) deactivate without its can_transition check.
DeactivateUnchecked(r, j, to) == WithStage(r, j, to)

\* deactivate: move a posting to "duplicate" or "closed" if its stage allows it.
Deactivate(r, j, to) ==
    IF CanTransition(r.stage[j], to) THEN WithStage(r, j, to) ELSE r

\* (mutant) regate that forgets to move the posting.
RegatedForgotten(st) == st

\* regate: send an inactive posting back to "discovered".
Regated(st) == IF st \in InactiveStages THEN "discovered" ELSE st

\* _progress(a) > _progress(b): an application, then the stage, then the age.
MoreAdvanced(r, a, b) ==
    LET appFirst  == a \in hasApp /\ b \notin hasApp
        appTie    == (a \in hasApp) = (b \in hasApp)
        rank(j)   == StageRank[r.stage[j]]
    IN \/ appFirst
       \/ appTie /\ rank(a) > rank(b)
       \/ appTie /\ rank(a) = rank(b) /\ a < b

\* (mutants) find_duplicate without the stage filter, and looking at the unlinked
\* pairs from one side only.
CandidatesAnyStage(j) ==
    { p \in Jobs \ {j} : /\ Exists(p) /\ dup[p] = NoJob /\ {j, p} \in similar
                         /\ link[<<j, p>>] # "unlinked" /\ link[<<p, j>>] # "unlinked" }
CandidatesOneSided(j) ==
    { p \in Jobs \ {j} : /\ Exists(p) /\ dup[p] = NoJob /\ {j, p} \in similar
                         /\ stage[p] \notin ReleasingStages
                         /\ link[<<j, p>>] # "unlinked" }

\* find_duplicate: the candidates of j (a query of the committed database).
Candidates(j) ==
    { p \in Jobs \ {j} : /\ Exists(p)
                         /\ dup[p] = NoJob
                         /\ stage[p] \notin ReleasingStages
                         /\ {j, p} \in similar
                         /\ link[<<j, p>>] # "unlinked"
                         /\ link[<<p, j>>] # "unlinked" }

\* (mutant) link_duplicate that leaves the copies of the demoted posting with it.
LinkWithoutHandOver(r, j, p) ==
    LET demoted == IF MoreAdvanced(r, j, p) THEN p ELSE j
        primary == IF MoreAdvanced(r, j, p) THEN j ELSE p
    IN Deactivate([r EXCEPT !.link[<<demoted, primary>>] = "linked",
                            !.dup[demoted] = primary], demoted, "duplicate")

\* link_duplicate: demote the less advanced of the two and hand over its copies.
LinkDuplicate(r, j, p) ==
    LET demoted == IF MoreAdvanced(r, j, p) THEN p ELSE j
        primary == IF MoreAdvanced(r, j, p) THEN j ELSE p
        linked  == [ r EXCEPT
                       !.link[<<demoted, primary>>] = "linked",
                       !.dup = [ c \in Jobs |->
                                   IF c = demoted \/ dup[c] = demoted
                                   THEN primary ELSE r.dup[c] ] ]
    IN Deactivate(linked, demoted, "duplicate")

\* link_if_duplicate: the best match is taken; which one is best is left open.
LinkIfDuplicate(r, j, cands) ==
    IF cands = {} THEN {r} ELSE { LinkDuplicate(r, j, p) : p \in cands }

\* The copies release_duplicates takes from primary p.
CopiesOf(p) == { c \in Jobs : dup[c] = p }

\* release_duplicates up to its commit.
ReleaseCopies(r, p) ==
    LET copies == CopiesOf(p)
    IN [ stage |-> [ c \in Jobs |-> IF c \in copies THEN Regated(r.stage[c])
                                                    ELSE r.stage[c] ],
         dup   |-> [ c \in Jobs |-> IF c \in copies THEN NoJob ELSE r.dup[c] ],
         link  |-> [ e \in Jobs \X Jobs |->
                       IF e[1] \in copies /\ link[e] = "linked"
                       THEN "none" ELSE r.link[e] ] ]

\* duplicate_guard(job, "dry_run") found nothing against a dry run of j.
GuardPasses(j) ==
    /\ dup[j] = NoJob
    /\ CopiesOf(j) \cap dryRun = {}

-----------------------------------------------------------------------------
(* Operations                                                              *)

\* Postings are numbered as they are discovered.
IsNext(j) == ~Exists(j) /\ \A k \in Jobs : k < j => Exists(k)

\* discovery.upsert_records on a posting it has not seen: insert, then link.
Upsert(s) ==
    /\ task[s] = Idle
    /\ \E j \in Jobs :
         LET r == WithStage(Rows(s), j, "discovered")
         IN IsNext(j) /\ \E w \in LinkIfDuplicate(r, j, Candidates(j)) : Finish(s, w, Idle)
    /\ UNCHANGED <<hasApp, dryRun, similar>>

\* upsert_records on a known posting: a new text changes what it is similar to.
Refresh(j) ==
    /\ Exists(j)
    /\ \E now \in SUBSET { p \in Pairs : j \in p } :
         similar' = { p \in similar : j \notin p } \cup now
    /\ UNCHANGED <<stage, dup, link, hasApp, dryRun, task, held>>

\* pipeline.transition up to its commit; a releasing stage leaves the release to do.
Transition(s, j, to) ==
    /\ task[s] = Idle
    /\ Exists(j)
    /\ to \in MoveStages \ {"shortlisted"}
    /\ to # stage[j]
    /\ CanTransition(stage[j], to)
    /\ Finish(s, WithStage(Rows(s), j, to),
              IF to \in ReleasingStages THEN Todo("release", {j}) ELSE Idle)
    /\ UNCHANGED <<hasApp, dryRun, similar>>

\* pipeline.shortlist_job: the transition, then the application in a commit of its own.
Shortlist(s, j) ==
    /\ task[s] = Idle
    /\ Exists(j)
    /\ "shortlisted" \in MoveStages
    /\ stage[j] # "shortlisted"
    /\ CanTransition(stage[j], "shortlisted")
    /\ Finish(s, WithStage(Rows(s), j, "shortlisted"), Todo("application", {j}))
    /\ UNCHANGED <<hasApp, dryRun, similar>>

CreateApplication(s) ==
    /\ task[s].op = "application"
    /\ hasApp' = hasApp \cup task[s].jobs
    /\ Finish(s, Rows(s), Idle)
    /\ UNCHANGED <<dryRun, similar>>

\* pipeline.transition, after its commit: release_duplicates up to its own commit.
Release(s) ==
    /\ task[s].op = "release"
    /\ \E p \in task[s].jobs :
         IF Rows(s).stage[p] \in ReleasingStages
         THEN Finish(s, ReleaseCopies(Rows(s), p), Todo("relink", CopiesOf(p)))
         ELSE Finish(s, Rows(s), Idle)
    /\ UNCHANGED <<hasApp, dryRun, similar>>

\* One turn of the re-grouping loop of release_duplicates, or of the loop of scan.
Relink(s) ==
    /\ task[s].op = "relink"
    /\ LET todo == task[s].jobs
           r    == Rows(s)
       IN \E c \in { x \in todo : \A y \in todo : x <= y } :
            LET rest == Todo("relink", todo \ {c})
            IN IF r.dup[c] = NoJob /\ r.stage[c] \notin InactiveStages
               THEN \E w \in LinkIfDuplicate(r, c, Candidates(c)) : Finish(s, w, rest)
               ELSE Finish(s, r, rest)
    /\ UNCHANGED <<hasApp, dryRun, similar>>

\* hunterx dedup-scan: load every posting that is not linked, oldest first.
Scan(s) ==
    /\ task[s] = Idle
    /\ LET todo == { j \in Jobs : /\ Exists(j)
                                  /\ dup[j] = NoJob
                                  /\ stage[j] \notin InactiveStages }
       IN todo # {} /\ Finish(s, Rows(s), Todo("relink", todo))
    /\ UNCHANGED <<hasApp, dryRun, similar>>

\* (mutant) unlink that clears the pointer and forgets the owner's decision.
UnlinkForgotten(s, j) ==
    /\ task[s] = Idle
    /\ dup[j] # NoJob
    /\ Finish(s, [ stage |-> [stage EXCEPT ![j] = IF @ = "duplicate" THEN Regated(@) ELSE @],
                   dup   |-> [dup EXCEPT ![j] = NoJob],
                   link  |-> link ], Idle)
    /\ UNCHANGED <<hasApp, dryRun, similar>>

\* unlink: the owner says that j is not a duplicate.
Unlink(s, j) ==
    /\ task[s] = Idle
    /\ dup[j] # NoJob
    /\ Finish(s,
         [ stage |-> [stage EXCEPT ![j] = IF @ = "duplicate" THEN Regated(@) ELSE @],
           dup   |-> [dup EXCEPT ![j] = NoJob],
           link  |-> [ e \in Jobs \X Jobs |->
                         IF e[1] = j /\ link[e] = "linked" THEN "unlinked" ELSE link[e] ] ],
         Idle)
    /\ UNCHANGED <<hasApp, dryRun, similar>>

\* job_liveness: a confirmed "gone" closes j and releases its copies in one commit.
Close(s, j) ==
    /\ task[s] = Idle
    /\ Exists(j)
    /\ stage[j] # "closed"
    /\ CanTransition(stage[j], "closed")
    /\ Finish(s, ReleaseCopies(Deactivate(Rows(s), j, "closed"), j),
              Todo("relink", CopiesOf(j)))
    /\ UNCHANGED <<hasApp, dryRun, similar>>

\* job_liveness: a closed posting is live again.
Reopen(s, j) ==
    /\ task[s] = Idle
    /\ stage[j] = "closed"
    /\ Finish(s, WithStage(Rows(s), j, Regated(stage[j])), Idle)
    /\ UNCHANGED <<hasApp, dryRun, similar>>

\* pipeline.execute_apply, whose commits are two here (ApplyFlow has them one by one):
\* the stages between them are all in flight, and no operation of this module tells them
\* apart. First the guard and "applying" ...
BeginDryRun(s, j) ==
    /\ task[s] = Idle
    /\ j \in hasApp
    /\ stage[j] \in {"ready_to_apply", "validated", "needs_review"}
    /\ CanTransition(stage[j], "applying")
    /\ GuardPasses(j)
    /\ Finish(s, WithStage(Rows(s), j, "applying"), Idle)
    /\ UNCHANGED <<hasApp, dryRun, similar>>

\* ... then, when the form validates, form_filled, validated and the evidence.
CompleteDryRun(s, j) ==
    /\ task[s] = Idle
    /\ j \in hasApp
    /\ stage[j] = "applying"
    /\ dryRun' = dryRun \cup {j}
    /\ Finish(s, WithStage(Rows(s), j, "validated"), Idle)
    /\ UNCHANGED <<hasApp, similar>>

\* inbox_matcher.process_inbox_email: a rejection e-mail for j's application.
RejectionEmail(s, j) ==
    /\ task[s] = Idle
    /\ j \in hasApp
    /\ stage[j] # "rejected"
    /\ Finish(s, WithStage(Rows(s), j, "rejected"), Idle)
    /\ UNCHANGED <<hasApp, dryRun, similar>>

\* The process dies: what a session had left to do is lost.
Crash ==
    /\ \E s \in Sessions : task[s] # Idle
    /\ task' = [s \in Sessions |-> Idle]
    /\ held' = [s \in Sessions |-> NothingHeld]
    /\ UNCHANGED db

-----------------------------------------------------------------------------
Init ==
    /\ stage = [j \in Jobs |-> NoStage]
    /\ dup = [j \in Jobs |-> NoJob]
    /\ link = [e \in Jobs \X Jobs |-> "none"]
    /\ hasApp = {}
    /\ dryRun = {}
    /\ similar \in SUBSET Pairs
    /\ task = [s \in Sessions |-> Idle]
    /\ held = [s \in Sessions |-> NothingHeld]

\* (mutant) a transition that never gets to its release.
ContinueWithoutRelease(s) == CreateApplication(s) \/ Relink(s)

Continue(s) == CreateApplication(s) \/ Release(s) \/ Relink(s)

\* What the program does of its own accord or for the owner, the override aside.
Work(s) ==
    \/ Upsert(s)
    \/ Continue(s)
    \/ \E j \in Jobs : \/ \E to \in MoveStages : Transition(s, j, to)
                       \/ Shortlist(s, j)
                       \/ Close(s, j)
                       \/ Reopen(s, j)
                       \/ BeginDryRun(s, j)
                       \/ CompleteDryRun(s, j)

Next ==
    \/ \E s \in Sessions : Work(s)
    \/ \E s \in Sessions, j \in Jobs : Unlink(s, j)
    \/ \E j \in Refreshable : Refresh(j)

\* With the scan command, with rejection e-mails, with crashes, with all of them.
NextWithScan  == Next \/ \E s \in Sessions : Scan(s)
NextWithMail  == Next \/ \E s \in Sessions, j \in Jobs : RejectionEmail(s, j)
NextWithCrash == Next \/ Crash
NextWithAll   == NextWithScan \/ NextWithMail \/ NextWithCrash

Fairness == \A s \in Sessions : WF_vars(Continue(s))

Spec      == Init /\ [][Next]_vars
FairSpec  == Spec /\ Fairness
MailSpec  == Init /\ [][NextWithMail]_vars
CrashSpec == Init /\ [][NextWithCrash]_vars
ScanSpec  == Init /\ [][NextWithScan]_vars
FullSpec  == Init /\ [][NextWithAll]_vars

-----------------------------------------------------------------------------
(* Properties                                                              *)

(***************************************************************************)
(* The links form stars: a posting is linked to a primary that is itself   *)
(* linked to nothing, so that one look at duplicate_of_id finds the        *)
(* posting that stands for the role (group_ids and duplicate_guard look    *)
(* no further). It is what the hand-over of the copies in link_duplicate   *)
(* and the re-grouping after a release are for.                            *)
(***************************************************************************)
LinksAreStars ==
    \A j \in Jobs : dup[j] # NoJob => dup[j] # j /\ dup[dup[j]] = NoJob

(***************************************************************************)
(* A posting in stage "duplicate" has a primary. One without is lost:      *)
(* nothing scores or checks it, no release and no unlink reaches it.       *)
(***************************************************************************)
NoStrandedDuplicate ==
    \A j \in Jobs : stage[j] = "duplicate" => dup[j] # NoJob

(***************************************************************************)
(* dedup.py:22, "A link never outlives its primary": a copy of a posting   *)
(* that is rejected, withdrawn or closed is about to be released by the    *)
(* session that moved the primary.                                         *)
(***************************************************************************)
LinkNeverOutlivesPrimary ==
    \A j \in Jobs :
      dup[j] # NoJob /\ stage[dup[j]] \in ReleasingStages
        => \E s \in Sessions : task[s].op = "release" /\ dup[j] \in task[s].jobs

(***************************************************************************)
(* dedup.py:332 and :239: a pair the owner took apart stays apart. The     *)
(* row of the link remembers the decision. Violated by a hand-over.        *)
(***************************************************************************)
UnlinkedPairsStayApart ==
    \A j, p \in Jobs : link[<<j, p>>] = "unlinked" => dup[j] # p /\ dup[p] # j

\* j goes over to p with the posting it was linked to.
HandedOver(j, p) == \E d \in Jobs \ {j, p} : dup[j] = d /\ dup'[d] = p

(***************************************************************************)
(* dedup.py:239 and :332, how far an override does reach: its row is never *)
(* overwritten, through new links, releases, scans and crashes, and the    *)
(* pair that it takes apart comes together again only where one of the two *)
(* is a copy that is handed over with its primary.                         *)
(***************************************************************************)
OverridesLast ==
    [][\A j, p \in Jobs :
         /\ link[<<j, p>>] = "unlinked" => link'[<<j, p>>] = "unlinked"
         /\ "unlinked" \in {link[<<j, p>>], link[<<p, j>>]} /\ dup[j] # p /\ dup'[j] = p
              => HandedOver(j, p)]_vars

(***************************************************************************)
(* dedup.py:332, the owner's override: the pair that was taken apart is on *)
(* record as unlinked, which is all that keeps two postings that still     *)
(* match from being linked again.                                          *)
(***************************************************************************)
OverrideIsRecorded ==
    [][\A s \in Sessions, j \in Jobs :
         Unlink(s, j) /\ {j, dup[j]} \in similar
                      => \/ link'[<<j, dup[j]>>] = "unlinked"
                         \/ link'[<<dup[j], j>>] = "unlinked"]_vars

(***************************************************************************)
(* dedup.py:349 and docs/ARCHITECTURE.md:224: a role is dry-run at most    *)
(* once, whichever of its postings it is dry-run through. Two postings are *)
(* one role here when they match and the owner did not take them apart.    *)
(***************************************************************************)
SameRole(j, k) ==
    {j, k} \in similar /\ link[<<j, k>>] # "unlinked" /\ link[<<k, j>>] # "unlinked"

RoleDryRunOnce ==
    [][\A j \in dryRun' \ dryRun, k \in dryRun : ~SameRole(j, k)]_vars

(***************************************************************************)
(* Every committed change of a posting's stage is one the state machine    *)
(* allows, but for the one write that does not ask it, the rejection mail  *)
(* (inbox_matcher.py); in particular (state_machine.py:123) "duplicate"    *)
(* and "closed" are not reached from an in-flight stage.                   *)
(***************************************************************************)
StagesFollowMachine ==
    [][\A j \in Jobs :
         \/ CanTransition(stage[j], stage'[j])
         \/ \E s \in Sessions : RejectionEmail(s, j)]_vars

(***************************************************************************)
(* state_machine.py:123: "duplicate" and "closed" are not reachable from   *)
(* an in-flight or submission stage.                                       *)
(***************************************************************************)
InFlightNeverDemoted ==
    [][\A j \in Jobs : stage[j] \in {"applying", "form_filled", "submission_uncertain",
                                    "submitted", "confirmed"}
         => stage'[j] \notin InactiveStages]_vars

(***************************************************************************)
(* The copies of a primary that is out do get released: a posting does not *)
(* stay behind one that no longer represents its role.                     *)
(***************************************************************************)
CopiesAreReleased ==
    \A j \in Jobs :
      (dup[j] # NoJob /\ stage[dup[j]] \in ReleasingStages)
        ~> ~(dup[j] # NoJob /\ stage[dup[j]] \in ReleasingStages)
=============================================================================
