----------------------------- MODULE ProfileFacts -----------------------------
(***************************************************************************)
(* The candidate's facts (profile.py, cli_profile.py, materials_api.py):    *)
(* imported from a profile file or a parsed resume, added, edited, verified *)
(* and removed by the owner, and used in materials and answers only while   *)
(* they are verified.                                                       *)
(*                                                                          *)
(* A session loads the rows it needs, decides, and commits; SQLAlchemy      *)
(* writes only the columns that differ from what was loaded, and nothing at *)
(* all when a row to update is gone or one to insert is there.  A fact is   *)
(* its content; schemas, positions and provenance are left out.             *)
(***************************************************************************)
EXTENDS Integers, Sequences, FiniteSets

CONSTANTS
  Facts,     \* keys of facts
  Parent,    \* achievement -> the employment or project it belongs to, or "none"
  Contents,  \* what a fact may say
  Sessions   \* requests and commands at work at the same time

VARIABLES
  facts,     \* key -> the committed row
  view,      \* session -> the changes it is about to commit
  confirmed  \* key -> the content that the owner confirmed last, or "nothing"

vars == <<facts, view, confirmed>>

Absent == [there |-> FALSE, content |-> "nothing", verified |-> FALSE]
Row(content, verified) == [there |-> TRUE, content |-> content, verified |-> verified]
Rows == {Absent} \cup {Row(c, v) : c \in Contents, v \in BOOLEAN}

TypeOK ==
  /\ facts \in [Facts -> Rows]
  /\ \A s \in Sessions : \A k \in DOMAIN view[s] : k \in Facts /\ view[s][k].becomes \in Rows
  /\ confirmed \in [Facts -> Contents \cup {"nothing"}]

Init ==
  /\ facts = [k \in Facts |-> Absent] /\ confirmed = [k \in Facts |-> "nothing"]
  /\ view = [s \in Sessions |-> << >>]

-----------------------------------------------------------------------------
(* What an operation makes of the rows it loads *)

\* What the owner says of the content by this change: "yes", "no" or nothing.
Change(key, row, says) == [was |-> facts[key], becomes |-> row, says |-> says]
Says(verified) == IF verified THEN "yes" ELSE "no"

Only(key, change) == [k \in {key} |-> change]

Load(s, changes) ==
  /\ view[s] = << >> /\ view' = [view EXCEPT ![s] = changes]
  /\ UNCHANGED <<facts, confirmed>>

SetVerified(s, key, verified) ==
  facts[key].there /\ Load(s, Only(key, Change(key, Row(facts[key].content, verified), Says(verified))))

\* The content and the mark are replaced, the key stays.
EditFact(s, key, content, verified) ==
  facts[key].there /\ Load(s, Only(key, Change(key, Row(content, verified), Says(verified))))

AddFact(s, key, content, verified) ==
  ~facts[key].there /\ Load(s, Only(key, Change(key, Row(content, verified), Says(verified))))

RemoveFact(s, key) == facts[key].there /\ Load(s, Only(key, Change(key, Absent, "no")))

\* A profile file or a parsed resume; of two entries with one key the first counts.
Entry == [content : Contents, said : {"yes", "no", "unsaid"}]
Documents ==
  [entries : UNION {[K -> Entry] : K \in (SUBSET Facts) \ {{}}}, default : BOOLEAN, resume : BOOLEAN]

\* A file verifies an entry where it says so: for the entry, else for the entry it
\* is nested in, else for the whole file.
Marked(doc, key) ==
  LET said(k) == doc.entries[k].said
      inherits == said(key) = "unsaid"
      parent == Parent[key]
      above  == IF parent \in DOMAIN doc.entries /\ said(parent) # "unsaid"
                THEN said(parent) = "yes" ELSE doc.default
  IN  IF inherits THEN above ELSE said(key) = "yes"

\* Facts parsed from a resume are drafts, whatever it says.
DraftVerified(doc, key) == ~doc.resume /\ Marked(doc, key)

\* Mutant: the new content under the old mark.
ApplyKeepingMark(row, content, verified, resume) ==
  IF row.verified /\ resume THEN row ELSE Row(content, row.verified \/ verified)

\* A resume leaves a verified fact alone; any other draft replaces content that
\* differs, mark included, and may verify content that does not.
ApplyDraft(row, content, verified, resume) ==
  CASE row.verified /\ row.content # content /\ resume -> row
    [] row.content = content -> Row(content, row.verified \/ verified)
    [] OTHER                 -> Row(content, verified)

Import(s, doc) ==
  Load(s, [key \in DOMAIN doc.entries |->
             LET content == doc.entries[key].content
                 row == ApplyDraft(facts[key], content, DraftVerified(doc, key), doc.resume)
             IN  Change(key, row, IF DraftVerified(doc, key) THEN "yes"
                                  ELSE IF row = facts[key] THEN "nothing" ELSE "no")])

-----------------------------------------------------------------------------
(* Committing *)

Lost(key, change) ==
  \/ change.was.there /\ change.becomes.there /\ change.becomes # change.was /\ ~facts[key].there
  \/ ~change.was.there /\ facts[key].there

\* The columns that differ from what was loaded.
Merged(now, change) ==
  IF ~change.was.there \/ ~change.becomes.there THEN change.becomes
  ELSE IF ~now.there THEN now
  ELSE Row(IF change.becomes.content # change.was.content THEN change.becomes.content ELSE now.content,
           IF change.becomes.verified # change.was.verified THEN change.becomes.verified ELSE now.verified)

Commit(s) ==
  /\ view[s] # << >> /\ view' = [view EXCEPT ![s] = << >>]
  /\ IF \E key \in DOMAIN view[s] : Lost(key, view[s][key])
     THEN UNCHANGED <<facts, confirmed>>
     ELSE /\ facts' = [key \in Facts |-> IF key \in DOMAIN view[s] THEN Merged(facts[key], view[s][key])
                                         ELSE facts[key]]
          /\ confirmed' = [key \in Facts |->
               IF key \notin DOMAIN view[s] THEN confirmed[key]
               ELSE CASE view[s][key].says = "yes" -> view[s][key].becomes.content
                      [] view[s][key].says = "no"  -> "nothing"
                      [] OTHER                     -> confirmed[key]]

\* The process ends before its commit.
Crash(s) == view[s] # << >> /\ view' = [view EXCEPT ![s] = << >>] /\ UNCHANGED <<facts, confirmed>>

Next ==
  \E s \in Sessions :
    \/ \E key \in Facts, verified \in BOOLEAN : SetVerified(s, key, verified)
    \/ \E key \in Facts, content \in Contents, verified \in BOOLEAN :
         EditFact(s, key, content, verified) \/ AddFact(s, key, content, verified)
    \/ \E key \in Facts : RemoveFact(s, key)
    \/ \E doc \in Documents : Import(s, doc)
    \/ Commit(s) \/ Crash(s)

Spec == Init /\ [][Next]_vars

-----------------------------------------------------------------------------
(* Properties *)

\* The facts that materials and answers are made of (verified_profile).
Used ==
  LET verified == {k \in Facts : facts[k].verified}
  IN  {k \in verified : Parent[k] = "none" \/ Parent[k] \in verified}

\* What is used says what the owner confirmed last: no import, edit or removal
\* changes a verified fact under its mark, and nothing is used that was taken back
\* ("Only verified facts are used", "Editing a fact's content makes it unverified
\* again").
UsedIsConfirmed ==
  \A k \in Used : /\ confirmed[k] = facts[k].content
                  /\ Parent[k] # "none" => confirmed[Parent[k]] = facts[Parent[k]].content
===============================================================================
