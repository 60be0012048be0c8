------------------------------- MODULE Platform -------------------------------
(***************************************************************************)
(* Six parts that share no state, in one specification: how a form is       *)
(* obtained (FormInspection), what answers its questions (FormAnswers), how *)
(* it is filled (FormFilling), what comes after it (AfterSubmission), the    *)
(* candidate's facts (ProfileFacts) and the improvement kernel               *)
(* (ImprovementKernel).  A behaviour is one of one part; the variables of    *)
(* the others stay "off".                                                   *)
(***************************************************************************)
EXTENDS FormInspection

CONSTANTS
  Sessions,                                                   \* of every part that has some
  Procs, Projects, Traced, LastErrors, Seeded, MaxVersions,   \* of the kernel
  Postings, External, SuccessUrl, Shown, Given,
    MaxWeek, MaxEvidence, MaxSent,                            \* after the submission
  Order, FileOrder, Required, FieldValues, Within, Declined,
    LocationKeys, FieldKinds, FieldOptions, Ways, Frames, MaxFields,  \* of the filling
  FactKeys, Parent, Contents,                                 \* of the profile
  Questions, Stored, Statements, Scopes, Facts, Employers,
    HistoryLimit, Alike, SeedKeys, MaxRows                    \* of the answers

VARIABLES
  part,                                                  \* the part that moves
  versions, clusters, runs, traces, apps, records, kpc, tour,   \* of the kernel
  app, stage, rows, follow, due, week,                   \* after the submission
  sheet, plan, at, dom, report, unmatched, phase,        \* of the filling
  facts, view, confirmed,                                \* of the profile
  vault, known, worked, seeding                          \* of the answers

kernel  == <<versions, clusters, runs, traces, apps, records, kpc, tour>>
after   == <<app, stage, rows, follow, due, week>>
filling == <<sheet, plan, at, dom, report, unmatched, phase>>
profile == <<facts, view, confirmed>>
answers == <<vault, known, worked, seeding>>

\* The parts, apart from FormInspection; two of them with what is proved about them,
\* which adds nothing to what they do.
K == INSTANCE ImprovementKernelProofs WITH pc <- kpc
A == INSTANCE AfterSubmission WITH MaxRows <- MaxEvidence
B == INSTANCE FormFilling WITH page <- sheet, Values <- FieldValues,
                               Kinds <- FieldKinds, Options <- FieldOptions
U == INSTANCE ProfileFactsProofs WITH Facts <- FactKeys
W == INSTANCE FormAnswers WITH rows <- vault, facts <- known

ASSUME AnswersFit == W!AnswersAssumption

-----------------------------------------------------------------------------
(* One part moves *)

Off(v) == v = "off"
KernelOff  == /\ Off(versions) /\ Off(clusters) /\ Off(runs) /\ Off(traces)
              /\ Off(apps) /\ Off(records) /\ Off(kpc) /\ Off(tour)
AfterOff   == Off(app) /\ Off(stage) /\ Off(rows) /\ Off(follow) /\ Off(due) /\ Off(week)
FillingOff == /\ Off(sheet) /\ Off(plan) /\ Off(at) /\ Off(dom)
              /\ Off(report) /\ Off(unmatched) /\ Off(phase)
ProfileOff == Off(facts) /\ Off(view) /\ Off(confirmed)
AnswersOff == Off(vault) /\ Off(known) /\ Off(worked) /\ Off(seeding)
InspectionOff == Off(posting) /\ Off(pc) /\ Off(form) /\ Off(page) /\ Off(result)

PlatformInit ==
  /\ \/ part = "inspection" /\ Init
     \/ part = "kernel" /\ K!Init
     \/ part = "after" /\ A!Init
     \/ part = "filling" /\ B!Init
     \/ part = "profile" /\ U!Init
     \/ part = "answers" /\ W!Init
  /\ IF part = "inspection" THEN TRUE ELSE InspectionOff
  /\ IF part = "kernel" THEN TRUE ELSE KernelOff
  /\ IF part = "after" THEN TRUE ELSE AfterOff
  /\ IF part = "filling" THEN TRUE ELSE FillingOff
  /\ IF part = "profile" THEN TRUE ELSE ProfileOff
  /\ IF part = "answers" THEN TRUE ELSE AnswersOff

PlatformNext ==
  \/ part = "inspection" /\ Next /\ UNCHANGED <<part, kernel, after, filling, profile, answers>>
  \/ part = "kernel" /\ K!Next /\ UNCHANGED <<part, vars, after, filling, profile, answers>>
  \/ part = "after" /\ A!Next /\ UNCHANGED <<part, vars, kernel, filling, profile, answers>>
  \/ part = "filling" /\ B!Next /\ UNCHANGED <<part, vars, kernel, after, profile, answers>>
  \/ part = "profile" /\ U!Next /\ UNCHANGED <<part, vars, kernel, after, filling, answers>>
  \/ part = "answers" /\ W!Next /\ UNCHANGED <<part, vars, kernel, after, filling, profile>>

platformVars == <<part, vars, kernel, after, filling, profile, answers>>

PlatformSpec == PlatformInit /\ [][PlatformNext]_platformVars

-----------------------------------------------------------------------------
(* The properties of the parts *)

\* FormInspection: what the browser vouches for has every field of the page.
FormsCoverThePage == part = "inspection" => VerifiedCoversThePage

\* ImprovementKernel: no step leaves a project with two champions.
OneChampion == part = "kernel" => K!OneChampion

\* ImprovementKernel: a promotion never lowers the score of the champion.
NeverWorse == [][part = "kernel" => K!PromotionHelps]_<<part, kernel>>

\* AfterSubmission: an application gets two follow-ups at most.
FollowUpsAreFew == part = "after" => A!FollowUpsAreFew

\* FormFilling: no required field is blank when Submit is pressed.
NothingRequiredIsBlank == part = "filling" => B!NothingRequiredIsBlank

\* ProfileFacts: what is used says what the owner confirmed last.
UsedIsConfirmed == part = "profile" => U!UsedIsConfirmed

\* FormAnswers: what was said about one country answers for no other.
CountryKept == part = "answers" => W!CountryKept

\* FormAnswers: "never worked for us" is said only from a known history, unless that is
\* longer than what is handed on.
PriorFailsClosed == part = "answers" /\ W!Cardinality(worked) <= HistoryLimit => W!PriorFailsClosed

-----------------------------------------------------------------------------
(* The conditions under which they hold *)

\* One session works at a time.
OneSession == \A s, t \in Sessions : s = t

\* An application's address opens on its form or on a challenge.
OpensOnForm == Landings \subseteq {"form", "challenge"}

\* A page that shows something else says so: by a submission, a document, an address.
MovesAreSeen == Moves \subseteq {"address"}

\* Values, texts and file names say something: no value but "" stands for no answer,
\* no option but the placeholder of a select is blank, and nothing blank is part of a
\* text.
TextsSaySomething ==
  /\ FieldValues \cap B!Blank \subseteq {""} /\ B!Files \cap B!Blank = {}
  /\ \A pair \in Within : pair[1] \notin B!Blank /\ pair[2] \notin B!Blank
  /\ \A kind \in FieldKinds : \A options \in FieldOptions[kind] :
       /\ options \in Seq(STRING) /\ (kind \in {"select", "radio"} => options # << >>)
       /\ \A i \in DOMAIN options :
            options[i] \notin B!Blank \/ (kind = "select" /\ options[i] = "select")

\* Around a box that drops what is typed no text fits an answer, and no place is typed
\* into it.
NoAnswerAround ==
  "dropping" \in FieldKinds =>
    /\ LocationKeys \cap B!Keys = {}
    /\ \A around \in FieldOptions["dropping"] : \A i \in DOMAIN around :
         \A value \in FieldValues \ {""} : ~B!Fits(value, around[i])

\* Plans are lists, frames and fields are numbered.
PlansAreLists ==
  Order \in Seq(STRING) /\ FileOrder \in Seq(STRING) /\ Frames \subseteq Nat /\ MaxFields \in Nat

\* The names of an employer's own fields are none of the book's keys.
FieldsAreTheEmployers ==
  \A q \in Questions :
    q.field \notin {"work_authorization", "sponsorship", "citizenship", "located_in_canada",
                    "prior_employment"}
===============================================================================
