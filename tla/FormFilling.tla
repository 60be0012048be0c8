----------------------------- MODULE FormFilling -----------------------------
(***************************************************************************)
(* fill_application_form of browser_filler.py: one browser session that     *)
(* writes the planned answers into the fields of a real page, attaches the  *)
(* files, reads every field back and presses Submit when nothing was left   *)
(* unmatched.                                                               *)
(*                                                                          *)
(* A field is a text box, a combobox with suggestions, a select, a group of *)
(* radio buttons or of checkboxes, a group of option buttons, a text box    *)
(* whose script drops what is typed, or a file input.  The options of a box *)
(* that drops are the texts around it.  How the words of a key lead to a    *)
(* field is the field's way for that key; Within says which texts are part  *)
(* of which.  Cutting a text to a field's limits, the scores of places and  *)
(* salaries, phone numbers and the wording of errors are left out.          *)
(***************************************************************************)
EXTENDS Integers, Sequences, FiniteSets, FiniteSetsExt

CONSTANTS
  Order,         \* the keys of the plan, in order
  Required,      \* the keys that the form requires, files not among them
  Values,        \* the values that the plan may have; "" is no answer
  Within,        \* pairs of different texts, the first part of the second
  Declined,      \* the values that stand for no
  LocationKeys,  \* keys or labels with location, city, address or reside
  FileOrder,     \* the keys of the files, in order
  Kinds,         \* the kinds of fields that the page may have
  Options,       \* kind -> its possible lists of options or suggestions
  Ways,          \* the ways by which a key may lead to a field
  Frames,        \* the page and its frames, 1 the page itself
  MaxFields      \* bound: fields of the page

VARIABLES
  page,      \* the fields in document order
  plan,      \* key -> value, the files that exist, live submission or not
  at,        \* the next answer, then the next file, to write
  dom,       \* field -> the texts it holds
  report,    \* key -> the field it was written to (0: none) and whether it matched
  unmatched, \* keys that were not filled or not read back
  phase      \* "answers", "files", "verify", "pressed", "held" or "failed"

vars == <<page, plan, at, dom, report, unmatched, phase>>

Elements(seq) == {seq[i] : i \in DOMAIN seq}
Keys == Elements(Order)
Files == Elements(FileOrder)
Blank == {"", "select"}

\* Answers do not look at file inputs, nor files at anything else.
WaysTo(kind) ==
  {way \in [Keys \cup Files -> Ways \cup {"none"}] :
     \A key \in DOMAIN way : (key \in Files) # (kind = "file") => way[key] = "none"}

Field == UNION {[kind : {kind}, options : Options[kind], frame : Frames, way : WaysTo(kind)] :
                  kind \in Kinds}

Init ==
  /\ page \in UNION {[1..n -> Field] : n \in 1..MaxFields}
  /\ plan \in [answers : [Keys -> Values], files : SUBSET Files, live : BOOLEAN]
  /\ at = 1 /\ report = << >> /\ unmatched = {} /\ phase = "answers"
  /\ dom = [i \in DOMAIN page |-> IF page[i].kind = "select" THEN {page[i].options[1]} ELSE {}]

-----------------------------------------------------------------------------
(* Where a key leads *)

Fits(a, b) == a = b \/ <<a, b>> \in Within \/ <<b, a>> \in Within

\* The steps of the search, each a way and the kinds of fields that it asks for.
Search ==
  << <<"champion", Kinds>>, <<"location", Kinds>>, <<"container", Kinds>>,
     <<"exact", {"radio"}>>, <<"partial", {"radio"}>>,
     <<"exact", {"checks"}>>, <<"partial", {"checks"}>>,
     <<"exact", Kinds>>, <<"partial", Kinds>>, <<"label", Kinds>> >>

\* Option buttons are found by the very text of one of them.
Leads(key, value, i, step) ==
  /\ page[i].way[key] = Search[step][1] /\ page[i].kind \in Search[step][2] \ {"file"}
  /\ step = 2 => key \in LocationKeys
  /\ page[i].kind = "buttons" => value \in Elements(page[i].options)

\* The first field of the first step that finds one, in the first such frame.
Places(key, value) ==
  {p \in Frames \X (DOMAIN Search) \X (DOMAIN page) :
     page[p[3]].frame = p[1] /\ Leads(key, value, p[3], p[2])}

Weight(place) == 10000 * place[1] + 100 * place[2] + place[3]

Located(key, value) ==
  CHOOSE p \in Places(key, value) : \A q \in Places(key, value) : Weight(p) <= Weight(q)

\* Within a group the first option that fits the value, else the first option.
GroupOption(options, step, value) ==
  LET fitting == {j \in DOMAIN options : Fits(value, options[j])}
  IN  IF step \in 3..7 /\ fitting # {} THEN options[Min(fitting)] ELSE options[1]

-----------------------------------------------------------------------------
(* What a write leaves in a field, and whether its read-back matches *)

Wrote(held, matched) == [held |-> held, matched |-> matched]

\* The best option of a select; an option without a text is part of any value.
SelectOption(options, value) ==
  LET equal   == {j \in DOMAIN options : options[j] = value}
      fitting == {j \in DOMAIN options : Fits(value, options[j])}
      real    == {j \in fitting : options[j] \notin Blank}
      texts   == {options[j] : j \in real}
      part    == {j \in DOMAIN options : Fits(value, options[j]) \/ options[j] = ""}
  IN  IF equal # {} THEN {options[Min(equal)]}
      ELSE IF Cardinality(texts) = 1 THEN texts
      ELSE IF part = {} THEN {} ELSE {options[Min(part)]}

WriteSelect(i, value) ==
  LET chosen == SelectOption(page[i].options, value)
  IN  IF chosen = {} THEN Wrote(dom[i], FALSE) ELSE Wrote(chosen, TRUE)

\* A checkbox found as one of a group is always ticked; otherwise by the value.
WriteChecks(i, step, value) ==
  LET option == GroupOption(page[i].options, step, value)
  IN  IF step \in 4..7 \/ value \notin Declined
      THEN Wrote(dom[i] \cup {option}, TRUE) ELSE Wrote(dom[i] \ {option}, TRUE)

\* The suggestion that is clicked; without a fitting one a place is left as typed.
WriteCombo(key, i, value) ==
  LET options == page[i].options
      fitting == {j \in DOMAIN options : Fits(value, options[j])}
      equal   == {j \in fitting : options[j] = value}
      longer  == {j \in fitting : <<value, options[j]>> \in Within}
      best    == IF equal # {} THEN options[Min(equal)]
                 ELSE IF longer # {} THEN options[Min(longer)]
                 ELSE IF fitting # {} THEN options[Min(fitting)]
                 ELSE IF options = << >> \/ key \in LocationKeys THEN value
                 ELSE options[1]
  IN  Wrote({best}, key \in LocationKeys \/ Fits(value, best))

\* An empty box is read back by the text around it, which matches when it fits the
\* value; for a place any text will do, and none at all.
WriteDropping(key, i, value) ==
  Wrote({}, key \in LocationKeys \/ \E text \in Elements(page[i].options) : Fits(value, text))

Write(key, i, step, value) ==
  CASE page[i].kind = "select"   -> WriteSelect(i, value)
    [] page[i].kind = "checks"   -> WriteChecks(i, step, value)
    [] page[i].kind = "radio"    -> Wrote({GroupOption(page[i].options, step, value)}, TRUE)
    [] page[i].kind = "buttons"  -> Wrote({value}, TRUE)
    [] page[i].kind = "combo"    -> WriteCombo(key, i, value)
    [] page[i].kind = "dropping" -> WriteDropping(key, i, value)
    [] OTHER                     -> Wrote({value}, TRUE)

-----------------------------------------------------------------------------
(* The session *)

Report(key, i, matched) ==
  [k \in DOMAIN report \cup {key} |-> IF k = key THEN [field |-> i, matched |-> matched] ELSE report[k]]

\* A key that leads nowhere is forgotten unless the form requires it; an exception in
\* a write, before or after the field has changed, is a report without a match.
FillAnswer ==
  /\ phase = "answers" /\ at <= Len(Order)
  /\ LET key == Order[at]  value == plan.answers[Order[at]]
     IN  IF value = ""
         THEN UNCHANGED <<dom, report, unmatched>>
         ELSE IF Places(key, value) = {}
         THEN /\ IF key \in Required
                 THEN report' = Report(key, 0, FALSE) /\ unmatched' = unmatched \cup {key}
                 ELSE UNCHANGED <<report, unmatched>>
              /\ UNCHANGED dom
         ELSE LET place == Located(key, value)
                  wrote == Write(key, place[3], place[2], value)
                  written == [dom EXCEPT ![place[3]] = wrote.held]
              IN  \/ /\ dom' = written /\ report' = Report(key, place[3], wrote.matched)
                     /\ unmatched' = IF wrote.matched THEN unmatched ELSE unmatched \cup {key}
                  \/ /\ dom' \in {dom, written} /\ report' = Report(key, place[3], FALSE)
                     /\ unmatched' = unmatched \cup {key}
  /\ at' = at + 1 /\ UNCHANGED <<page, plan, phase>>

FilesNext == phase = "answers" /\ at > Len(Order) /\ phase' = "files" /\ at' = 1
             /\ UNCHANGED <<page, plan, dom, report, unmatched>>

\* The input named for the file, else the only file input of the frame.
FileInputs(key) ==
  LET inputs(fr) == {i \in DOMAIN page : page[i].kind = "file" /\ page[i].frame = fr}
      named(fr)  == {i \in inputs(fr) : page[i].way[key] # "none"}
      found(fr)  == IF named(fr) # {} THEN named(fr)
                    ELSE IF Cardinality(inputs(fr)) = 1 THEN inputs(fr) ELSE {}
      with       == {fr \in Frames : found(fr) # {}}
  IN  IF with = {} THEN {} ELSE found(Min(with))

\* A file that does not exist is passed over; one that was attached counts as
\* matched without being read back.
AttachFile ==
  /\ phase = "files" /\ at <= Len(FileOrder)
  /\ LET key == FileOrder[at]
     IN  IF key \notin plan.files
         THEN UNCHANGED <<dom, report, unmatched>>
         ELSE IF FileInputs(key) = {}
         THEN report' = Report(key, 0, FALSE) /\ unmatched' = unmatched \cup {key} /\ UNCHANGED dom
         ELSE /\ dom' = [dom EXCEPT ![Min(FileInputs(key))] = {key}]
              /\ report' = Report(key, Min(FileInputs(key)), TRUE) /\ UNCHANGED unmatched
  /\ at' = at + 1 /\ UNCHANGED <<page, plan, phase>>

Matched(key) == key \in DOMAIN report /\ report[key].matched
\* Mutant: the check of the required keys looks at what was tried only.
MissingAttempted == {key \in Required \cap DOMAIN report : ~Matched(key)}
Missing == {key \in Required : ~Matched(key)}

\* Submit is pressed only when submission is on and nothing is unmatched.
VerifyAndSubmit ==
  /\ phase = "files" /\ at > Len(FileOrder)
  /\ unmatched' = unmatched \cup Missing
  /\ phase' = IF plan.live /\ unmatched' = {} THEN "pressed" ELSE "held"
  /\ UNCHANGED <<page, plan, at, dom, report>>

\* The browser fails anywhere before the button.
Fault == phase \in {"answers", "files"} /\ phase' = "failed"
         /\ UNCHANGED <<page, plan, at, dom, report, unmatched>>

Next == FillAnswer \/ FilesNext \/ AttachFile \/ VerifyAndSubmit \/ Fault

Spec == Init /\ [][Next]_vars

-----------------------------------------------------------------------------
(* Properties *)

\* When Submit is pressed every field that a required key was written to still
\* holds an answer, whatever the later keys and files wrote; a checkbox may be
\* left unticked (the check of the required keys before the button).
NothingRequiredIsBlank ==
  phase = "pressed" =>
    \A key \in Required :
      /\ key \in DOMAIN report /\ report[key].field # 0
      /\ \/ page[report[key].field].kind = "checks"
         \/ dom[report[key].field] \ Blank # {}

\* A key answered with no does not leave a ticked checkbox behind ("Checks and
\* unchecks checkboxes", the docstring of the module).
DeclinedIsNotTicked ==
  phase = "pressed" =>
    \A key \in DOMAIN report \cap Keys :
      LET i == report[key].field
      IN  (plan.answers[key] \in Declined /\ i # 0 /\ page[i].kind = "checks"
             /\ Len(page[i].options) = 1) => dom[i] = {}

\* What was read back as matched still fits its answer when Submit is pressed,
\* though later keys may lead to the same field ("verify read-backs").
AnswersStillHold ==
  phase = "pressed" =>
    \A key \in DOMAIN report \cap Keys :
      LET i == report[key].field
      IN  (i # 0 /\ page[i].kind # "checks") => \E held \in dom[i] : Fits(plan.answers[key], held)

\* A file that is reported as attached is still in its input.
FilesStayAttached ==
  phase = "pressed" =>
    \A key \in DOMAIN report \cap Files : dom[report[key].field] = {key}

=============================================================================
