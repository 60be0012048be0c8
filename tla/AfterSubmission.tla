--------------------------- MODULE AfterSubmission ---------------------------
(***************************************************************************)
(* What happens to an application after its form was worked on: the        *)
(* evidence ledger and its reconciliation (evidence.py,                     *)
(* evidence_reconciliation.py), the inbox (inbox_matcher.py), the follow-up *)
(* cadence (follow_up.py) and the applications that the browser extension   *)
(* logs (autofill_api.py).  The postings are of one company, so that a mail *)
(* may fit more than one of them.  The follow-up scan reads what is due in   *)
(* one step and writes in a second one; every other handler is one commit.  *)
(*                                                                          *)
(* No code of this commit calls record_evidence for a submission (the       *)
(* autonomous runner writes the stage of the job alone): RecordSubmission   *)
(* is the contract of evidence.py, which its tests exercise, and            *)
(* Shown = {} leaves it out.                                                *)
(***************************************************************************)
EXTENDS Integers, Sequences, FiniteSets, FiniteSetsExt

CONSTANTS
  Postings,             \* postings of one company that have an application
  External,             \* those that only the extension may log
  SuccessUrl,           \* those whose url holds "success", "thank", "submitted", ...
  Sessions,             \* requests that may scan for follow-ups at the same time
  Shown,                \* the sets of signals that pages may show; {} when nobody
                        \* records submissions
  Given,                \* the verdicts that the owner may give
  MaxWeek,              \* bound: weeks that pass
  MaxRows,              \* bound: evidence rows of a posting
  MaxSent               \* bound: dispatches of one follow-up

VARIABLES
  app,     \* per posting: stage of the application, its confirmation and error
  stage,   \* per posting: stage of the job
  rows,    \* per posting: evidence rows in order of creation
  follow,  \* per posting and number: follow-up tasks made, open ones, mails sent
  due,     \* per session: the follow-ups it read as due
  week     \* weeks that have passed

vars == <<app, stage, rows, follow, due, week>>

Stages == {"none", "ready_to_apply", "validated", "submitted", "submission_uncertain",
           "confirmed", "rejected"}
Verdicts == {"confirmed", "non_submission", "dismissed"}
Numbers == 1..2

TypeOK ==
  /\ app \in [Postings -> [stage : Stages, error : BOOLEAN,
                           ref : BOOLEAN, verdict : Verdicts \cup {"none"}]]
  /\ stage \in [Postings -> Stages]
  /\ \A p \in Postings : Len(rows[p]) <= MaxRows
  /\ follow \in [Postings -> [Numbers -> [made : Nat, open : Nat, sent : Nat]]]
  /\ due \in [Sessions -> SUBSET (Postings \X Numbers)]
  /\ week \in 0..MaxWeek

Init ==
  /\ app = [p \in Postings |-> [stage |-> IF p \in External THEN "none" ELSE "ready_to_apply",
                                error |-> FALSE, ref |-> FALSE, verdict |-> "none"]]
  /\ stage = [p \in Postings |-> app[p].stage]
  /\ rows = [p \in Postings |-> << >>]
  /\ follow = [p \in Postings |-> [n \in Numbers |-> [made |-> 0, open |-> 0, sent |-> 0]]]
  /\ due = [s \in Sessions |-> {}]
  /\ week = 0

Known == {p \in Postings : app[p].stage # "none"}

-----------------------------------------------------------------------------
(* The evidence ledger *)

\* What a page may show: a confirmation text, a candidate id, a confirmation url.
Signals == {"marker", "ref", "url"}

\* Only the row of a submission is ever sufficient.
SufficientRow(kind, seen) == kind = "submission" /\ seen # {}

Record(p, kind, seen) ==
  /\ Len(rows[p]) < MaxRows
  /\ rows' = [rows EXCEPT ![p] =
       Append(@, [kind |-> kind, seen |-> seen, week |-> week,
                  sufficient |-> SufficientRow(kind, seen)])]

\* A row that updates the application replaces all of its confirmation, the
\* owner's verdict included.
Confirmed(p, seen) ==
  [app EXCEPT ![p].ref = "ref" \in seen, ![p].verdict = "none"]

RecordSubmission(p) ==
  /\ \E seen \in Shown :
       /\ Record(p, "submission", seen)
       /\ app' = [Confirmed(p, seen) EXCEPT
            ![p].stage = IF seen = {} THEN "submission_uncertain" ELSE "submitted"]
  /\ UNCHANGED <<stage, follow, due, week>>

\* The autonomous runner moves the job alone.
RunnerSubmits(p) ==
  /\ stage[p] \in {"ready_to_apply", "validated"}
  /\ stage' = [stage EXCEPT ![p] = "submitted"]
  /\ UNCHANGED <<app, rows, follow, due, week>>

\* Dry runs write rows of their own kinds, with the url of the posting.
UrlSignal(p) == {"url" : x \in {p} \cap SuccessUrl}

RecordDryRun(p) ==
  /\ stage[p] \in {"ready_to_apply", "validated"}
  /\ Record(p, "dry_run", UrlSignal(p))
  /\ app' = [Confirmed(p, {}) EXCEPT ![p].stage = "validated"]
  /\ stage' = [stage EXCEPT ![p] = "validated"]
  /\ UNCHANGED <<follow, due, week>>

\* A dry run that stopped for review leaves the application alone, but for the
\* error that stopped it; approving the materials clears the error.
RecordReview(p) ==
  /\ stage[p] \in {"ready_to_apply", "validated"}
  /\ Record(p, "dry_run_review", UrlSignal(p))
  /\ \E error \in BOOLEAN : app' = [app EXCEPT ![p].error = error]
  /\ UNCHANGED <<stage, follow, due, week>>

-----------------------------------------------------------------------------
(* Reconciliation: a report that changes nothing, and the owner's verdict *)

\* The doubt that a signal leaves, in twentieths.
Doubt(signal) == CASE signal = "ref" -> 1 [] signal = "marker" -> 3 [] signal = "url" -> 6

\* The mails that count as late receipts: the search asks for "confirmation",
\* the inbox writes "receipt confirmed", so there are none.
LateReceipts(p) == {}

\* The signals of all rows, whatever their kind.
Counted(p) ==
  {x \in (DOMAIN rows[p]) \X Signals : x[2] \in rows[p][x[1]].seen} \cup LateReceipts(p)

\* In millionths: 1 less the product of the doubts, reduced by a conflict.
Confidence(p) ==
  LET doubt == FoldSet(LAMBDA x, acc : (acc * Doubt(x[2])) \div 20, 1000000, Counted(p))
  IN ((1000000 - doubt) * (IF app[p].error THEN 6 ELSE 10)) \div 10

Outcome(p) ==
  IF rows[p] = << >> THEN "uncertain"
  ELSE IF Confidence(p) >= 850000 /\ ~app[p].error THEN "confirmed"
  ELSE IF Confidence(p) \in 600000..849999 THEN "probable"
  ELSE IF Counted(p) = {} /\ app[p].error THEN "non_submission"
  ELSE "uncertain"

OwnerResolves(p) ==
  /\ \E verdict \in Given : app' = [app EXCEPT ![p].verdict = verdict]
  /\ UNCHANGED <<stage, rows, follow, due, week>>

-----------------------------------------------------------------------------
(* The inbox and the extension *)

\* The first kind whose phrases a mail contains.
Intent(phrases) ==
  IF "interview" \in phrases THEN "interview"
  ELSE IF "assessment" \in phrases THEN "assessment"
  ELSE IF "rejection" \in phrases THEN "rejection"
  ELSE IF "confirmation" \in phrases THEN "confirmation"
  ELSE "general"

\* In hundredths: the company, the words of the title, a candidate id.  The
\* sender's domain adds 15 to all postings and decides nothing.
Score(p, mail) ==
  (IF mail.named THEN 50 ELSE 0) + (IF p \in mail.titled THEN 30 ELSE 0)
    + (IF mail.ref /\ app[p].ref THEN 50 ELSE 0)

\* Every application takes part, in whatever stage it is; the rows come in no
\* order, so that any best match may be the first one.
Matches(mail) ==
  {p \in Known : /\ Score(p, mail) >= 50
                 /\ \A q \in Known : Score(q, mail) <= Score(p, mail)}

\* Only a rejection changes a stage, without the state machine; the others add an
\* event or a review task.
ReceiveMail ==
  /\ \E mail \in [named : BOOLEAN, titled : SUBSET Postings, ref : BOOLEAN],
        phrases \in SUBSET {"interview", "rejection", "confirmation"} :
       /\ Intent(phrases) = "rejection"
       /\ \E p \in Matches(mail) :
            /\ app' = [app EXCEPT ![p].stage = "rejected"]
            /\ stage' = [stage EXCEPT ![p] = "rejected"]
  /\ UNCHANGED <<rows, follow, due, week>>

\* The extension logs an application, unless its address, cut to 40 characters,
\* is known already.
LogApplication(p) ==
  /\ p \in External \ Known
  /\ app' = [app EXCEPT ![p].stage = "confirmed"]
  /\ stage' = [stage EXCEPT ![p] = "confirmed"]
  /\ UNCHANGED <<rows, follow, due, week>>

-----------------------------------------------------------------------------
(* Follow-ups *)

SentWeeks(p) == {rows[p][i].week : i \in {j \in DOMAIN rows[p] : rows[p][j].sufficient}}

\* Mutant for FollowUpsAreFew: only the tasks that are still open are counted.
OpenFollowUps(p) == follow[p][1].open + follow[p][2].open

\* One event is written with every task, and counted.
CountFollowUps(p) == follow[p][1].made + follow[p][2].made

\* The first one 7 days after the latest sufficient row, the second one after 14.
Due(p, n) ==
  /\ app[p].stage = "submitted" /\ stage[p] # "rejected"
  /\ SentWeeks(p) # {}
  /\ CountFollowUps(p) = n - 1
  /\ week - Max(SentWeeks(p)) >= n

Scan(s) ==
  /\ due[s] = {}
  /\ due' = [due EXCEPT ![s] = {d \in Known \X Numbers : Due(d[1], d[2])}]
  /\ UNCHANGED <<app, stage, rows, follow, week>>

Queue(s) ==
  /\ due[s] # {}
  /\ follow' = [p \in Postings |-> [n \in Numbers |->
       IF <<p, n>> \in due[s]
       THEN [follow[p][n] EXCEPT !.made = @ + 1, !.open = @ + 1] ELSE follow[p][n]]]
  /\ due' = [due EXCEPT ![s] = {}]
  /\ UNCHANGED <<app, stage, rows, week>>

\* A task may be dispatched again, and whatever happened to the application.
Dispatch(p, n) ==
  /\ follow[p][n].made > 0 /\ follow[p][n].sent < MaxSent
  /\ follow' = [follow EXCEPT ![p][n].open = Max({0, @ - 1}), ![p][n].sent = @ + 1]
  /\ UNCHANGED <<app, stage, rows, due, week>>

Pass ==
  /\ week < MaxWeek
  /\ week' = week + 1
  /\ UNCHANGED <<app, stage, rows, follow, due>>

Next ==
  \/ \E p \in Known :
       \/ RecordSubmission(p) \/ RunnerSubmits(p) \/ RecordDryRun(p) \/ RecordReview(p)
       \/ OwnerResolves(p) \/ \E n \in Numbers : Dispatch(p, n)
  \/ \E p \in Postings : LogApplication(p)
  \/ \E s \in Sessions : Scan(s) \/ Queue(s)
  \/ ReceiveMail
  \/ Pass

Spec == Init /\ [][Next]_vars

-----------------------------------------------------------------------------
(* Properties *)

\* However often follow-ups are scanned for and dispatched, an application gets
\* at most one of each number, and the second one only after the first
\* (follow_up.get_due_follow_ups and process_due_follow_ups, one session).
FollowUpsAreFew ==
  \A p \in Postings : /\ \A n \in Numbers : follow[p][n].made <= 1
                      /\ follow[p][2].made <= follow[p][1].made

\* evidence.py: dry-run rows are "never proof that anything was sent".  Violated:
\* the reconciliation counts the url of a dry run of "customer-success-manager".
NothingSentNothingConfirmed ==
  \A p \in Postings :
    Outcome(p) = "confirmed" => \E i \in DOMAIN rows[p] : rows[p][i].kind = "submission"

\* An owner's verdict is kept.  Violated: the next evidence row replaces it.
VerdictKept ==
  [][\A p \in Postings : app[p].verdict # "none" => app'[p].verdict # "none"]_vars

\* No follow-up is queued for a rejected posting.  Violated between scan and queue.
RejectedIsLeftAlone ==
  [][\A p \in Postings, n \in Numbers :
       stage[p] = "rejected" => follow'[p][n].made = follow[p][n].made]_vars

\* A mail rejects only what was sent.  Violated: every application takes part.
RejectedWasSent ==
  [][\A p \in Postings : stage'[p] = "rejected" /\ stage[p] # "rejected"
       => stage[p] \in {"submitted", "submission_uncertain", "confirmed"}]_vars
==============================================================================
