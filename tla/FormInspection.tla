--------------------------- MODULE FormInspection ----------------------------
(***************************************************************************)
(* How the real application form of a posting is obtained (real_forms.py   *)
(* and the *_form.py of every platform) and cross-checked in a read-only    *)
(* browser session (greenhouse_browser.py).  One posting per behaviour: the *)
(* platform's answer is parsed into controls, and where the browser is on   *)
(* the page is opened and read while it runs its own scripts.               *)
(*                                                                          *)
(* A question or field is its name and whether it is required, a question   *)
(* also whether it stands in a survey; labels, types, options and vault     *)
(* keys are left out.  A platform's answer names its fields once, but        *)
(* Greenhouse may repeat one; Lever and Ashby tell surveys apart.           *)
(***************************************************************************)
EXTENDS Integers, Sequences, FiniteSets

CONSTANTS
  Platforms,   \* the platforms of the postings looked at
  Names,       \* names of questions and fields
  KeyOf,       \* Names -> keys, as read from the words of a name and its label
  Verify,      \* platforms with <PLATFORM>_BROWSER_VERIFY
  Fallback,    \* GREENHOUSE_BROWSER_FALLBACK
  Landings,    \* what the application's address may open on
  Moves        \* what a page may do without a new document: change its "address", or
               \* "render" something else at the same one

ASSUME VerifyAssumption == Verify \subseteq {"greenhouse", "lever", "ashby"}

VARIABLES
  posting,  \* its platform, the questions of the answer, the fields of the page
  pc,       \* "fetch", "open", "browse", "judge" or "done"
  form,     \* the form that was obtained
  page,     \* the browser's page: what it shows and what its scripts did
  result    \* "none", "loaded", "handoff" or the reason of the review

vars == <<posting, pc, form, page, result>>

Reasons == {"form_unavailable", "form_fetch_failed", "job_closed", "blocked_by_bot_check"}

\* What a field of the rendered page may be.
Fields == {"absent", "optional", "required"}
Question == [name : Names, required : BOOLEAN, survey : BOOLEAN]

\* A form is a set of controls, each with the name it stands for, its key, and
\* whether it is required.
NoForm == [controls |-> {}, read |-> FALSE, verified |-> FALSE]
Closed == [shows |-> "nothing", documents |-> 0, submits |-> FALSE, moved |-> FALSE,
           received |-> {}, data |-> {}]

TypeOK ==
  /\ posting.platform \in Platforms /\ posting.fields \in [Names -> Fields]
  /\ pc \in {"fetch", "open", "browse", "judge", "done"}
  /\ \A c \in form.controls : c.name \in Names \cup {"standard"} /\ c.required \in BOOLEAN
  /\ page.shows \in {"nothing", "elsewhere"} \cup Landings /\ page.documents \in 0..2
  /\ result \in {"none", "loaded", "handoff"} \cup Reasons

NamesOf(asked) == {asked[i].name : i \in DOMAIN asked}
Repeats(asked) == Cardinality(NamesOf(asked)) < Len(asked)

\* Up to two questions; only Greenhouse's answers may repeat a name, and only those
\* of Lever and Ashby have surveys.
Asked(platform) ==
  {q \in {<< >>} \cup {<<a>> : a \in Question} \cup (Question \X Question) :
     /\ Repeats(q) => platform = "greenhouse"
     /\ (\E i \in DOMAIN q : q[i].survey) => platform \in {"lever", "ashby"}}

Init ==
  /\ \E platform \in Platforms : \E asked \in Asked(platform), fields \in [Names -> Fields] :
       posting = [platform |-> platform, asked |-> asked, fields |-> fields]
  /\ pc = "fetch" /\ form = NoForm /\ page = Closed /\ result = "none"

End(reason) == pc' = "done" /\ result' = reason

-----------------------------------------------------------------------------
(* The platform's answer *)

\* "gone": 404, 410 or no such posting; "bot": 403; "redirect"; "fault": any
\* other status or body; "network": no answer.
Responses == {"ok", "gone", "bot", "redirect", "fault", "network"}

\* The reason a failed fetch is held with, "ok" when there is something to parse
\* and "standard" when the platform falls back on its standard questions.
GreenhouseFetch(r) == CASE r = "ok" -> "ok" [] r = "gone" -> "form_unavailable" [] OTHER -> "form_fetch_failed"
LeverFetch(r) == GreenhouseFetch(r)
AshbyFetch(r) == GreenhouseFetch(r)

\* Workday and SmartRecruiters follow redirects and read whatever page that is.
WorkdayFetch(r) == IF r = "redirect" THEN "standard" ELSE GreenhouseFetch(r)
SmartRecruitersFetch(r) == WorkdayFetch(r)

WorkableFetch(r) ==
  CASE r = "ok" -> "ok" [] r = "gone" -> "job_closed" [] r = "bot" -> "blocked_by_bot_check"
    [] OTHER -> "form_unavailable"

\* Breezy and Recruitee answer any other status with the standard questions.
BreezyFetch(r) == IF r \in {"redirect", "fault"} THEN "standard" ELSE WorkableFetch(r)
RecruiteeFetch(r) == BreezyFetch(r)

FetchOutcome(r) ==
  CASE posting.platform = "greenhouse"      -> GreenhouseFetch(r)
    [] posting.platform = "lever"           -> LeverFetch(r)
    [] posting.platform = "ashby"           -> AshbyFetch(r)
    [] posting.platform = "workday"         -> WorkdayFetch(r)
    [] posting.platform = "smartrecruiters" -> SmartRecruitersFetch(r)
    [] posting.platform = "workable"        -> WorkableFetch(r)
    [] posting.platform = "breezy"          -> BreezyFetch(r)
    [] posting.platform = "recruitee"       -> RecruiteeFetch(r)
    [] posting.platform = "gov"             -> "standard"
    [] OTHER                                -> "form_unavailable"

-----------------------------------------------------------------------------
(* The parsers: the controls that a list of questions becomes *)

\* A survey is voluntary, whatever the answer says.
AsControl(q, key) == [name |-> q.name, key |-> key, required |-> q.required /\ ~q.survey]

\* Name, e-mail and resume: the same whatever the employer asks.
StandardControls == {[name |-> "standard", key |-> "standard", required |-> TRUE]}

\* Only the first question of a key is kept.
First(asked, key) == {i \in DOMAIN asked : \A j \in 1..(i - 1) : key[asked[j].name] # key[asked[i].name]}
KeptFirst(asked, key) == {AsControl(asked[i], key[asked[i].name]) : i \in First(asked, key)}
All(asked, key) == {AsControl(asked[i], key[asked[i].name]) : i \in DOMAIN asked}

OwnNames == [n \in Names |-> n]

\* An empty set stands for an answer that is refused.
GreenhouseControls(asked) == IF Repeats(asked) THEN {} ELSE All(asked, OwnNames)
LeverControls(asked) == KeptFirst(asked, OwnNames)
AshbyControls(asked) == KeptFirst(asked, OwnNames)

\* Keys are made from words; a page without controls gets the standard ones.
WorkdayControls(asked) == IF asked = << >> THEN StandardControls ELSE KeptFirst(asked, KeyOf)
SmartRecruitersControls(asked) == WorkdayControls(asked)

\* The standard questions and the employer's own, two of which may share a key.
WorkableControls(asked) == StandardControls \cup All(asked, KeyOf)
BreezyControls(asked) == WorkableControls(asked)
RecruiteeControls(asked) == WorkableControls(asked)
GovControls == StandardControls

Parsed(asked) ==
  CASE posting.platform = "greenhouse"      -> GreenhouseControls(asked)
    [] posting.platform = "lever"           -> LeverControls(asked)
    [] posting.platform = "ashby"           -> AshbyControls(asked)
    [] posting.platform = "workday"         -> WorkdayControls(asked)
    [] posting.platform = "smartrecruiters" -> SmartRecruitersControls(asked)
    [] posting.platform = "workable"        -> WorkableControls(asked)
    [] posting.platform = "breezy"          -> BreezyControls(asked)
    [] posting.platform = "recruitee"       -> RecruiteeControls(asked)
    [] OTHER                                -> GovControls

-----------------------------------------------------------------------------
(* Fetching *)

\* What _verify does with a parsed form; without a browser it is taken as it is.
Obtain(controls, read) ==
  /\ form' = [controls |-> controls, read |-> read, verified |-> FALSE]
  /\ IF posting.platform \in Verify THEN pc' = "open" /\ UNCHANGED result ELSE End("loaded")

\* Greenhouse alone may read the page instead when its answer is of no use.
GiveUp(reason) ==
  /\ UNCHANGED form
  /\ IF reason = "form_fetch_failed" /\ posting.platform = "greenhouse" /\ Fallback
     THEN pc' = "open" /\ UNCHANGED result ELSE End(reason)

Fetch(r) ==
  /\ pc = "fetch"
  /\ CASE FetchOutcome(r) = "ok" ->
            IF Parsed(posting.asked) = {} THEN GiveUp("form_fetch_failed")
            ELSE Obtain(Parsed(posting.asked), posting.asked # << >>)
       [] FetchOutcome(r) = "standard" -> Obtain(Parsed(<< >>), FALSE)
       [] OTHER -> GiveUp(FetchOutcome(r))
  /\ UNCHANGED <<posting, page>>

-----------------------------------------------------------------------------
(* The browser session: only GET leaves it *)

\* The page opens on the form, on a challenge, or on something without fields.
Open ==
  /\ pc = "open"
  /\ \/ /\ \E landing \in Landings : page' = [page EXCEPT !.shows = landing, !.documents = 1]
        /\ pc' = "browse" /\ UNCHANGED result
     \/ /\ \E reason \in {"form_unavailable", "form_fetch_failed"} :
             \* a 404, or a browser that does not start; _verify holds both as a failed fetch
             End(IF form = NoForm THEN reason ELSE "form_fetch_failed")
        /\ UNCHANGED page
  /\ UNCHANGED <<posting, form>>

\* What the router does with a request: a GET goes on, a read that Ashby's pages
\* send as POST is sent as GET, the rest is aborted.
Routed(request) ==
  CASE request = "get"                                              -> {"get"}
    [] request = "graph_query" /\ posting.platform = "ashby"        -> {"get"}
    [] OTHER                                                        -> {}

Request(request) ==
  /\ pc = "browse"
  /\ page' = [page EXCEPT !.received = @ \cup Routed(request)]
  /\ UNCHANGED <<posting, pc, form, result>>

\* A script submits the form: the event is cancelled and kept.
PageSubmits ==
  /\ pc = "browse"
  /\ page' = [page EXCEPT !.submits = TRUE]
  /\ UNCHANGED <<posting, pc, form, result>>

\* A script leaves for another document, which may have the same address, or
\* changes the address alone.
PageLeaves ==
  /\ pc \in {"browse", "judge"} /\ page.documents = 1
  /\ \E moved \in BOOLEAN :
       page' = [page EXCEPT !.shows = "elsewhere", !.documents = 2, !.moved = @ \/ (moved /\ pc = "browse")]
  /\ UNCHANGED <<posting, pc, form, result>>

\* Only the origin and the path of the address are compared: a page that renders
\* something else, or changes its query, looks like one that stayed.
PageMoves ==
  /\ pc = "browse" /\ page.documents = 1
  /\ \E move \in Moves :
       page' = [page EXCEPT !.shows = "elsewhere", !.moved = @ \/ move = "address"]
  /\ UNCHANGED <<posting, pc, form, result>>

\* The fields that can be read: those of the form, or one that is not its own.
Rendered ==
  IF page.shows = "form"
  THEN {[name |-> n, required |-> posting.fields[n] = "required"] :
          n \in {m \in Names : posting.fields[m] # "absent"}}
  ELSE {}

Read ==
  /\ pc = "browse"
  /\ page' = [page EXCEPT !.data = Rendered]
  /\ pc' = "judge"
  /\ UNCHANGED <<posting, form, result>>

\* Mutant for VerifiedCoversThePage: a second document at the same address is not noticed.
UntrustedByAddress == page.submits \/ page.moved

Untrusted == page.submits \/ page.moved \/ page.documents > 1

Challenged == page.data = {} /\ page.shows = "challenge"

\* Required fields that the answer lacks are added.
Added ==
  {[name |-> f.name, key |-> f.name, required |-> TRUE] :
     f \in {g \in page.data : g.required /\ g.name \notin {c.key : c \in form.controls}}}

FromPage == {[name |-> f.name, key |-> f.name, required |-> f.required] : f \in page.data}

Judge ==
  /\ pc = "judge"
  /\ CASE Untrusted -> UNCHANGED form /\ End("form_fetch_failed")
       [] ~Untrusted /\ form # NoForm ->
            /\ form' = [form EXCEPT !.controls = @ \cup Added, !.verified = TRUE]
            /\ End(IF Challenged THEN "handoff" ELSE "loaded")
       [] ~Untrusted /\ form = NoForm ->
            /\ form' = [controls |-> FromPage, read |-> TRUE, verified |-> FALSE]
            /\ End(IF Challenged THEN "handoff" ELSE IF page.data = {} THEN "form_fetch_failed" ELSE "loaded")
  /\ UNCHANGED <<posting, page>>

Next ==
  \/ \E r \in Responses : Fetch(r)
  \/ Open
  \/ \E request \in {"get", "post", "graph_query", "graph_mutation"} : Request(request)
  \/ PageSubmits \/ PageLeaves \/ PageMoves
  \/ Read
  \/ Judge

Spec == Init /\ [][Next]_vars

-----------------------------------------------------------------------------
(* Properties *)

PageRequires(name) == posting.fields[name] = "required"
QuestionRequired(name) ==
  \E i \in DOMAIN posting.asked :
    posting.asked[i] = [name |-> name, required |-> TRUE, survey |-> FALSE]
InForm(name) == \E c \in form.controls : c.name = name
RequiredInForm(name) == \E c \in form.controls : c.name = name /\ c.required

\* A form that is loaded as verified leaves no required question out: what the
\* answer requires, surveys apart, is required, and what the page requires has a control,
\* whatever the page's scripts did while it was read (real_forms._verify,
\* greenhouse_browser.reconcile and untrusted_session_reasons).
VerifiedCoversThePage ==
  result = "loaded" /\ form.verified =>
    \A n \in Names : /\ QuestionRequired(n) => RequiredInForm(n)
                     /\ PageRequires(n) => InForm(n)

\* What the page requires is required in the form.  Violated: a control that the
\* answer calls optional stays so.
RequiredOnPageIsRequired ==
  result = "loaded" /\ form.verified => \A n \in Names : PageRequires(n) => RequiredInForm(n)

\* real_forms.py refuses "rather than planning against a sample form".  Violated by
\* Workday, SmartRecruiters, Breezy, Recruitee and the government portals.
NoSampleForm == result = "loaded" => form.read

\* Every required question of an answer, surveys apart, is a required control.  Violated where
\* the words of two questions give one key.
RequiredIsAsked ==
  result = "loaded" /\ form.read /\ ~form.verified
    => \A n \in Names : QuestionRequired(n) /\ posting.platform # "greenhouse" => RequiredInForm(n)
==============================================================================
