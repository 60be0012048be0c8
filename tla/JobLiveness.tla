---------------------------- MODULE JobLiveness ----------------------------
(***************************************************************************)
(* The liveness policy of one posting: v2/app/job_liveness.py.             *)
(*                                                                         *)
(* Several database sessions may check the same posting: the cycle's       *)
(* scheduled batch, the owner's "check liveness" request, and the gate     *)
(* that the cycle and the autonomous runner ask before preparing or        *)
(* dry-running. A checker loads the row, asks the posting's source (slow)  *)
(* and applies the policy to the row IT HOLDS; the commit then writes the  *)
(* columns that differ from the held row, and nothing else (db.py: the     *)
(* session neither flushes nor expires by itself). The actions are cut at  *)
(* those points: Load, Decide, Answer, CommitEvidence.                     *)
(*                                                                         *)
(* Time is relative. "checked" is the age of liveness_checked_at, "due"    *)
(* the time left until liveness_next_check_at, "lag" the age of the `now`  *)
(* a check took before it probed (a scheduled batch takes one `now` for    *)
(* all its postings). Ages stop at Horizon, which exceeds every delay they *)
(* are compared with; Never is the age of what has not happened.           *)
(***************************************************************************)
EXTENDS Integers, StateMachine

CONSTANTS
    Checkers,       \* the database sessions that check this posting
    Confirm,        \* liveness_confirm_minutes
    Recheck,        \* liveness_recheck_hours
    BaseBackoff,    \* liveness_backoff_minutes
    MaxBackoff,     \* liveness_backoff_max_hours
    MaxAge,         \* liveness_max_age_*: how long a "live" answer is reused
    ReviewAfter,    \* liveness_review_after_failures
    MoveStages,     \* the stages other parts of the program move the job to
    MaxLag,         \* bound: the longest time from `now` to the commit
    FailCap,        \* bound: liveness_failures stops counting here
    Horizon         \* bound: ages stop growing here

ASSUME CheckersAssumption == Checkers # {}
ASSUME DelaysAssumption ==
    /\ {Confirm, Recheck, BaseBackoff, MaxBackoff, MaxAge} \subseteq Nat \ {0}
    /\ MaxLag \in Nat /\ MaxLag < Confirm
    /\ Horizon \in Nat /\ Horizon > Confirm + MaxLag /\ Horizon > MaxAge
ASSUME CountersAssumption ==
    ReviewAfter \in Nat \ {0} /\ FailCap \in Nat /\ ReviewAfter <= FailCap
ASSUME PowersAssumption == \A n \in 0 .. FailCap : 2 ^ n \in Nat \ {0}
ASSUME StagesAssumption ==
    MoveStages \subseteq Stages \ InactiveStages /\ "discovered" \in MoveStages

VARIABLES
    job,        \* the Job row: stage and liveness columns
    review,     \* an open "liveness_review" task exists
    posting,    \* what the posting's public source answers at present
    pc,         \* where each checker is
    kind,       \* why it checks: CheckContext.trigger
    held,       \* the row it loaded
    lag,        \* the age of its `now`
    seen        \* history: the answers recorded so far, see SeenAfter

vars == <<job, review, posting, pc, kind, held, lag, seen>>

QueuedStages ==
    {"review", "scored", "shortlisted", "approved", "materials_generated",
     "materials_reviewed", "ready_to_apply", "needs_review", "validated"}

\* Where the callers of ensure_live take their postings from.
GateStages == {"discovered", "scored", "shortlisted", "ready_to_apply"}

Never == Horizon + 1
Ages == 0 .. Never
Outcomes == {"live", "gone", "unknown"}
Kinds == {"scheduled", "manual", "gate"}

Rows == [ stage : MoveStages \cup {"closed"},
          liveness : {"none", "live", "suspect", "unknown", "closed"},
          checked : Ages,
          due : Nat,
          failures : 0 .. FailCap ]

NewRow == [stage |-> "discovered", liveness |-> "none", checked |-> Never,
           due |-> 0, failures |-> 0]

Smaller(m, n) == IF m < n THEN m ELSE n
Left(delay, passed) == IF passed < delay THEN delay - passed ELSE 0
Older(age) == IF age < Horizon THEN age + 1 ELSE age

-----------------------------------------------------------------------------
(***************************************************************************)
(* The policy: what a check makes of the row it holds, l after its `now`.  *)
(***************************************************************************)
Backoff(failures) ==
    Smaller(BaseBackoff * 2 ^ (IF failures = 0 THEN 0 ELSE failures - 1), MaxBackoff)

\* Mutant: the posting that is live again is left inactive.
OnLiveAsCopy(row, l) ==
    [row EXCEPT !.stage = IF @ = "closed" THEN "duplicate" ELSE @,
                !.liveness = "live", !.failures = 0, !.due = Left(Recheck, l)]

\* _on_live: a closed posting is re-gated, any other keeps its stage.
OnLive(row, l) ==
    [row EXCEPT !.stage = IF @ = "closed" THEN "discovered" ELSE @,
                !.liveness = "live",
                !.failures = 0,
                !.due = Left(Recheck, l)]

\* Mutant: two answers in quick succession confirm each other.
OldEnoughAtOnce(row, l) == row.checked # Never

\* The suspicion of the row, and whether it is old enough to be confirmed.
Suspected(row) == row.liveness = "suspect" /\ row.checked # Never
OldEnough(row, l) == row.checked - l >= Confirm

Closes(row, l) ==
    /\ row.stage # "closed"
    /\ Suspected(row) /\ OldEnough(row, l)
    /\ CanTransition(row.stage, "closed")

\* Mutant: the confirmation is scheduled before it can confirm anything.
OnGoneTooSoon(row, l) ==
    CASE row.stage = "closed" ->
            [row EXCEPT !.liveness = "closed", !.due = Left(Recheck, l)]
      [] row.stage # "closed" /\ ~Suspected(row) ->
            [row EXCEPT !.liveness = "suspect", !.due = Left(Confirm - 1, l)]
      [] row.stage # "closed" /\ Suspected(row) /\ ~OldEnough(row, l) ->
            [row EXCEPT !.due = Left(Confirm, row.checked)]
      [] Closes(row, l) ->
            [row EXCEPT !.stage = "closed", !.liveness = "closed", !.due = Left(Recheck, l)]
      [] OTHER -> [row EXCEPT !.due = Left(Confirm, l)]

\* _on_gone, one disjunct of the code per line of the table.
OnGone(row, l) ==
    CASE row.stage = "closed" ->
            [row EXCEPT !.liveness = "closed", !.due = Left(Recheck, l)]
      [] row.stage # "closed" /\ ~Suspected(row) ->
            [row EXCEPT !.liveness = "suspect", !.due = Left(Confirm, l)]
      [] row.stage # "closed" /\ Suspected(row) /\ ~OldEnough(row, l) ->
            [row EXCEPT !.due = Left(Confirm, row.checked)]
      [] Closes(row, l) ->
            [row EXCEPT !.stage = "closed", !.liveness = "closed", !.due = Left(Recheck, l)]
      [] OTHER -> [row EXCEPT !.due = Left(Confirm, l)]

\* Mutant: an inconclusive answer forgets what was known.
OnUnknownForgets(row, l) ==
    LET failures == Smaller(row.failures + 1, FailCap)
    IN  [row EXCEPT !.failures = failures, !.liveness = "unknown",
                    !.due = Left(Backoff(failures), l)]

\* _on_unknown: nothing is concluded, the next check backs off.
OnUnknown(row, l) ==
    LET failures == Smaller(row.failures + 1, FailCap)
    IN  [row EXCEPT !.failures = failures,
                    !.liveness = IF @ \in {"suspect", "closed"} THEN @ ELSE "unknown",
                    !.due = Left(Backoff(failures), l)]

\* Mutant: the owner is told once.
ReviewDueOnce(failures) == failures = ReviewAfter

\* After so many failures the owner is told, unless an open task says so.
ReviewDue(failures) == failures >= ReviewAfter

Observed(row, outcome, l) ==
    CASE outcome = "live" -> OnLive(row, l)
      [] outcome = "gone" -> OnGone(row, l)
      [] outcome = "unknown" -> OnUnknown(row, l)

\* record_observation: a definitive answer is stamped with the check's `now`.
Stamped(row, outcome, l) == IF outcome = "unknown" THEN row.checked ELSE l

(***************************************************************************)
(* The commit of `new` by a session that loaded `old`: a column is written *)
(* when it differs from the loaded one. The next check's time is a fresh   *)
(* timestamp in every branch, so it always is.                             *)
(***************************************************************************)
Merge(old, new) ==
    [job EXCEPT !.stage    = IF new.stage = old.stage THEN @ ELSE new.stage,
                !.liveness = IF new.liveness = old.liveness THEN @ ELSE new.liveness,
                !.failures = IF new.failures = old.failures THEN @ ELSE new.failures,
                !.due      = new.due]

(***************************************************************************)
(* What has been answered, kept apart from the row: the time since the     *)
(* last "live" answer, the time since the first "gone" answer that no      *)
(* "live" answer followed, and how many "unknown" answers came in a row.   *)
(***************************************************************************)
SeenAfter(outcome) ==
    [ live |-> IF outcome = "live" THEN 0 ELSE seen.live,
      gone |-> IF outcome = "live" THEN Never
               ELSE IF outcome = "gone" /\ seen.gone = Never THEN 0
               ELSE seen.gone,
      unknowns |-> IF outcome = "unknown" THEN Smaller(seen.unknowns + 1, FailCap) ELSE 0 ]

-----------------------------------------------------------------------------
(***************************************************************************)
(* A checker takes up the posting. The scheduled batch selects queued      *)
(* postings that are due (due_jobs); the owner may ask about any posting;  *)
(* a gate's caller selects its candidates long before it asks.             *)
(***************************************************************************)
Load(c, k) ==
    /\ pc[c] = "idle"
    /\ k = "scheduled" => job.stage \in QueuedStages /\ job.due = 0
    /\ k = "gate" => job.stage \in GateStages
    /\ pc' = [pc EXCEPT ![c] = IF k = "gate" THEN "holding" ELSE "probing"]
    /\ kind' = [kind EXCEPT ![c] = k]
    /\ held' = [held EXCEPT ![c] = job]
    /\ lag' = [lag EXCEPT ![c] = 0]
    /\ UNCHANGED <<job, review, posting, seen>>

\* Mutant: any recent definitive answer is reused.
FreshlyAnswered(row) == row.checked # Never /\ row.checked <= MaxAge

\* ensure_live: a recent "live" of the row in hand is reused.
FreshlyLive(row) == row.liveness = "live" /\ row.checked # Never /\ row.checked <= MaxAge

Decide(c) ==
    /\ pc[c] = "holding"
    /\ pc' = [pc EXCEPT ![c] = IF FreshlyLive(held[c]) THEN "allowed" ELSE "probing"]
    /\ lag' = [lag EXCEPT ![c] = 0]
    /\ UNCHANGED <<job, review, posting, kind, held, seen>>

\* Where a checker goes from the commit of its observation.
Verdict(c, outcome) == IF kind[c] = "gate" /\ outcome = "live" THEN "allowed" ELSE "idle"

\* A check that waited for its answer before it took its `now`.
LagOf(c) == IF kind[c] = "manual" THEN 0 ELSE lag[c]

(***************************************************************************)
(* The source answers and the policy is applied, up to the commit. Closing *)
(* commits twice: release_duplicates ends with a commit of its own, before *)
(* the check is stamped and its evidence row added.                        *)
(***************************************************************************)
AnswerAndClose(c) ==
    /\ pc[c] = "probing" /\ posting = "gone"
    /\ Closes(held[c], LagOf(c))
    /\ job' = Merge(held[c], OnGone(held[c], LagOf(c)))
    /\ review' = FALSE
    /\ seen' = SeenAfter("gone")
    /\ pc' = [pc EXCEPT ![c] = "evidence"]
    /\ UNCHANGED <<posting, kind, held, lag>>

CommitEvidence(c) ==
    /\ pc[c] = "evidence"
    /\ job' = [job EXCEPT !.checked = LagOf(c)]
    /\ pc' = [pc EXCEPT ![c] = "idle"]
    /\ UNCHANGED <<review, posting, kind, held, lag, seen>>

Answer(c) ==
    LET new == Observed(held[c], posting, LagOf(c))
    IN  /\ pc[c] = "probing"
        /\ ~(posting = "gone" /\ Closes(held[c], LagOf(c)))
        /\ job' = [Merge(held[c], new) EXCEPT !.checked = Stamped(job, posting, LagOf(c))]
        /\ review' = (review \/ (posting = "unknown" /\ ReviewDue(new.failures)))
        /\ seen' = SeenAfter(posting)
        /\ pc' = [pc EXCEPT ![c] = Verdict(c, posting)]
        /\ UNCHANGED <<posting, kind, held, lag>>

\* The caller of the gate goes on with the posting it was allowed.
Proceed(c) ==
    /\ pc[c] = "allowed"
    /\ pc' = [pc EXCEPT ![c] = "idle"]
    /\ UNCHANGED <<job, review, posting, kind, held, lag, seen>>

\* The process of a checker ends between two commits.
Crash(c) ==
    /\ pc[c] # "idle"
    /\ pc' = [pc EXCEPT ![c] = "idle"]
    /\ UNCHANGED <<job, review, posting, kind, held, lag, seen>>

-----------------------------------------------------------------------------
\* hint_missing_from_feed: the board no longer lists the posting.
Hint ==
    /\ job.stage \in QueuedStages /\ job.due > 0
    /\ job' = [job EXCEPT !.due = 0]
    /\ UNCHANGED <<review, posting, pc, kind, held, lag, seen>>

\* The pipeline or the owner moves the job on (StateMachine).
Move(s) ==
    /\ job.stage \notin InactiveStages
    /\ s \in Allowed[job.stage]
    /\ job' = [job EXCEPT !.stage = s]
    /\ UNCHANGED <<review, posting, pc, kind, held, lag, seen>>

\* The owner resolves the review task.
ResolveReview ==
    /\ review
    /\ review' = FALSE
    /\ UNCHANGED <<job, posting, pc, kind, held, lag, seen>>

\* The employer takes the posting down or up, or its site stops answering.
PostingChanges(outcome) ==
    /\ posting # outcome
    /\ posting' = outcome
    /\ UNCHANGED <<job, review, pc, kind, held, lag, seen>>

Busy(c) == pc[c] \in {"probing", "evidence"}

Tick ==
    /\ \A c \in Checkers : Busy(c) => lag[c] < MaxLag
    /\ job' = [job EXCEPT !.checked = Older(@), !.due = Left(@, 1)]
    /\ held' = [c \in Checkers |-> [held[c] EXCEPT !.checked = Older(@), !.due = Left(@, 1)]]
    /\ lag' = [c \in Checkers |-> IF Busy(c) THEN lag[c] + 1 ELSE lag[c]]
    /\ seen' = [seen EXCEPT !.live = Older(@), !.gone = Older(@)]
    /\ UNCHANGED <<review, posting, pc, kind>>

-----------------------------------------------------------------------------
Init ==
    /\ \E s \in MoveStages : job = [NewRow EXCEPT !.stage = s]
    /\ review = FALSE
    /\ posting \in Outcomes
    /\ pc = [c \in Checkers |-> "idle"]
    /\ kind = [c \in Checkers |-> "manual"]
    /\ held = [c \in Checkers |-> NewRow]
    /\ lag = [c \in Checkers |-> 0]
    /\ seen = [live |-> Never, gone |-> Never, unknowns |-> 0]

\* The checks that run by themselves.
Scheduled(c) ==
    \/ Load(c, "scheduled")
    \/ AnswerAndClose(c)
    \/ CommitEvidence(c)
    \/ Answer(c)

Gated(c) == Load(c, "gate") \/ Decide(c) \/ Proceed(c)

World ==
    \/ \E outcome \in Outcomes : PostingChanges(outcome)
    \/ Tick

Next ==
    \/ \E c \in Checkers : Scheduled(c) \/ Gated(c) \/ Load(c, "manual") \/ Crash(c)
    \/ Hint
    \/ \E s \in MoveStages : Move(s)
    \/ ResolveReview
    \/ World

Spec == Init /\ [][Next]_vars

(***************************************************************************)
(* A posting that waits in its queue. The cycle runs again and again, each *)
(* probe ends (liveness_timeout), time passes: that is the fairness.       *)
(***************************************************************************)
NextWaiting ==
    \/ \E c \in Checkers : Scheduled(c)
    \/ ResolveReview
    \/ World

NextAsked == NextWaiting \/ \E c \in Checkers : Load(c, "manual")

Fairness ==
    /\ WF_vars(Tick)
    /\ \A c \in Checkers : WF_vars(Scheduled(c))

WaitingSpec == Init /\ [][NextWaiting]_vars /\ Fairness
AskedSpec == Init /\ [][NextAsked]_vars /\ Fairness

-----------------------------------------------------------------------------
\* Every variable holds a value the program can give it.
TypeOK ==
    /\ job \in Rows
    /\ review \in BOOLEAN
    /\ posting \in Outcomes
    /\ pc \in [Checkers -> {"idle", "holding", "probing", "evidence", "allowed"}]
    /\ kind \in [Checkers -> Kinds]
    /\ held \in [Checkers -> Rows]
    /\ lag \in [Checkers -> 0 .. MaxLag]
    /\ seen \in [live : Ages, gone : Ages, unknowns : 0 .. FailCap]

(***************************************************************************)
(* A posting is closed only after two definitive "gone" answers at least   *)
(* the confirmation delay apart, with no "live" answer between them        *)
(* (module docstring, config.py). A batch stamps its answers with the time *)
(* it started, so the two may be MaxLag closer together than the delay.    *)
(***************************************************************************)
ClosedOnlyWhenConfirmed ==
    [][ job.stage # "closed" /\ job'.stage = "closed"
          => seen'.gone \in Confirm - MaxLag .. Horizon ]_vars

(***************************************************************************)
(* The gate lets a posting through only when the last definitive answer    *)
(* was "live", at most MaxAge ago: nothing is prepared or dry-run for a    *)
(* posting that has since been reported gone (docstring of ensure_live).   *)
(***************************************************************************)
GateMeansLive ==
    [][ \A c \in Checkers :
          pc[c] # "allowed" /\ pc'[c] = "allowed"
            => seen'.gone = Never /\ seen'.live <= MaxAge ]_vars

(***************************************************************************)
(* A closed posting is known to be closed. If its row said otherwise it    *)
(* would be shown as live and, being out of the queue, never be checked    *)
(* again.                                                                  *)
(***************************************************************************)
ClosedIsKnown == job.stage = "closed" => job.liveness = "closed"

(***************************************************************************)
(* An in-flight posting is never closed: not even when it was still queued *)
(* as the check loaded it (test_in_flight_postings_are_never_closed).      *)
(***************************************************************************)
InFlightNeverClosed ==
    [][ job'.stage = "closed" /\ job.stage # "closed" => job.stage \in CloseSources ]_vars

(***************************************************************************)
(* A liveness_review task says how many checks in a row were inconclusive, *)
(* and is opened after that many (module docstring, _on_unknown).          *)
(***************************************************************************)
ReviewMeansConsecutive ==
    [][ ~review /\ review' => seen'.unknowns >= ReviewAfter ]_vars

(***************************************************************************)
(* A posting that is gone for good does not stay in the queue: once the    *)
(* owner stops asking for checks, the scheduled ones close it.             *)
(***************************************************************************)
OwnerAsks == \E c \in Checkers : kind'[c] = "manual" /\ pc[c] = "idle" /\ pc'[c] # "idle"

GoneIsClosed ==
    <>[](posting = "gone") /\ <>[][~OwnerAsks]_vars => <>[](job.stage \notin QueuedStages)

(***************************************************************************)
(* A queued posting whose source stays unreachable comes before the owner, *)
(* again and again if the owner resolves the task without closing it.      *)
(***************************************************************************)
UnreachableIsReviewed ==
    <>[](posting = "unknown" /\ job.stage \in QueuedStages) => []<>review
=============================================================================
