-------------------------- MODULE ProfileFactsProofs --------------------------
(***************************************************************************)
(* Proofs about ProfileFacts, for any facts, contents and parents.  With    *)
(* one session a planned change starts from the committed row, so a commit  *)
(* writes what was planned; with several it does not, and UsedIsConfirmed    *)
(* is lost.                                                                 *)
(***************************************************************************)
EXTENDS ProfileFacts, TLAPS

\* One request or command at a time.
OneSession == \A s, t \in Sessions : s = t

\* The values of the constants that are not facts or contents.
ConstantsApart == "nothing" \notin Contents /\ "none" \notin Facts

-----------------------------------------------------------------------------
(* The invariant *)

ChangeSet == [was : Rows, becomes : Rows, says : {"yes", "no", "nothing"}]

\* What a change leaves to the owner's last word.
Sound(key, change) ==
  change.becomes.verified =>
    \/ change.says = "yes"
    \/ change.says = "nothing" /\ change.becomes = change.was

ViewInv ==
  \A s \in Sessions : \A key \in DOMAIN view[s] :
    /\ key \in Facts /\ view[s][key] \in ChangeSet
    /\ view[s][key].was = facts[key]
    /\ Sound(key, view[s][key])

VerifiedIsConfirmed == \A k \in Facts : facts[k].verified => confirmed[k] = facts[k].content

ProfileInv ==
  /\ facts \in [Facts -> Rows] /\ confirmed \in [Facts -> Contents \cup {"nothing"}]
  /\ DOMAIN view = Sessions
  /\ ViewInv /\ VerifiedIsConfirmed

-----------------------------------------------------------------------------
(* Rows and planned changes *)

LEMMA RowsAreRecords ==
  ASSUME NEW row \in Rows
  PROVE  /\ row.there \in BOOLEAN /\ row.verified \in BOOLEAN
         /\ row.content \in Contents \cup {"nothing"}
         /\ row.there => row.content \in Contents /\ row = Row(row.content, row.verified)
         /\ ~row.there => row = Absent
<1>1. CASE row = Absent
  BY <1>1 DEF Absent
<1>2. CASE row \in {Row(c, v) : c \in Contents, v \in BOOLEAN}
  <2>1. PICK c \in Contents, v \in BOOLEAN : row = Row(c, v)
    BY <1>2
  <2>2. row.there = TRUE /\ row.content = c /\ row.verified = v
    BY <2>1 DEF Row
  <2> QED
    BY <2>1, <2>2
<1> QED
  BY <1>1, <1>2 DEF Rows

LEMMA RowIsARow ==
  ASSUME NEW content \in Contents, NEW verified \in BOOLEAN
  PROVE  Row(content, verified) \in Rows
  BY DEF Rows

\* A change that a session planned from the committed rows is in the invariant.
LEMMA PlanKeepsInv ==
  ASSUME ProfileInv, OneSession, NEW s \in Sessions, NEW changes, Load(s, changes),
         \A key \in DOMAIN changes :
           /\ key \in Facts /\ changes[key] \in ChangeSet /\ changes[key].was = facts[key]
           /\ Sound(key, changes[key])
  PROVE  ProfileInv'
<1>1. \A t \in Sessions : view'[t] = changes
  BY DEF Load, OneSession, ProfileInv
<1>2. ViewInv'
  BY <1>1 DEF ViewInv, Load, Sound
<1> QED
  BY <1>2 DEF ProfileInv, Load, VerifiedIsConfirmed

\* The same for a single fact.
LEMMA OneChange ==
  ASSUME ProfileInv, OneSession, NEW s \in Sessions, NEW key \in Facts, NEW row \in Rows,
         NEW says \in {"yes", "no", "nothing"}, row.verified => says = "yes",
         Load(s, Only(key, Change(key, row, says)))
  PROVE  ProfileInv'
<1> DEFINE changes == Only(key, Change(key, row, says))
<1>1. DOMAIN changes = {key} /\ changes[key] = Change(key, row, says)
  BY DEF Only
<1>2. Change(key, row, says) \in ChangeSet
  BY DEF Change, ChangeSet, ProfileInv
<1>3. Change(key, row, says).was = facts[key] /\ Sound(key, Change(key, row, says))
  BY DEF Change, Sound
<1> QED
  BY <1>1, <1>2, <1>3, PlanKeepsInv

LEMMA SaysIsAWord ==
  ASSUME NEW verified \in BOOLEAN
  PROVE  Says(verified) \in {"yes", "no", "nothing"} /\ (verified => Says(verified) = "yes")
  BY DEF Says

-----------------------------------------------------------------------------
(* Initial states and steps *)

LEMMA InitInv == ASSUME Init PROVE ProfileInv
<1>1. Absent \in Rows /\ ~Absent.verified
  BY DEF Absent, Rows
<1>2. \A s \in Sessions : DOMAIN view[s] = {}
  BY DEF Init
<1> QED
  BY <1>1, <1>2 DEF Init, ProfileInv, ViewInv, VerifiedIsConfirmed

LEMMA SetVerifiedInv ==
  ASSUME ProfileInv, OneSession, NEW s \in Sessions, NEW key \in Facts, NEW verified \in BOOLEAN,
         SetVerified(s, key, verified)
  PROVE  ProfileInv'
<1>1. facts[key] \in Rows /\ facts[key].there
  BY DEF ProfileInv, SetVerified
<1>2. facts[key].content \in Contents
  BY <1>1, RowsAreRecords
<1>3. Row(facts[key].content, verified) \in Rows /\ Row(facts[key].content, verified).verified = verified
  BY <1>2, RowIsARow DEF Row
<1> QED
  BY <1>3, OneChange, SaysIsAWord DEF SetVerified

LEMMA NewContentInv ==
  ASSUME ProfileInv, OneSession, NEW s \in Sessions, NEW key \in Facts, NEW content \in Contents,
         NEW verified \in BOOLEAN,
         EditFact(s, key, content, verified) \/ AddFact(s, key, content, verified)
  PROVE  ProfileInv'
<1>1. Row(content, verified) \in Rows /\ Row(content, verified).verified = verified
  BY RowIsARow DEF Row
<1>2. Load(s, Only(key, Change(key, Row(content, verified), Says(verified))))
  BY DEF EditFact, AddFact
<1> QED
  BY <1>1, <1>2, OneChange, SaysIsAWord

LEMMA RemoveFactInv ==
  ASSUME ProfileInv, OneSession, NEW s \in Sessions, NEW key \in Facts, RemoveFact(s, key)
  PROVE  ProfileInv'
<1>1. Absent \in Rows /\ ~Absent.verified
  BY DEF Absent, Rows
<1> QED
  BY <1>1, OneChange DEF RemoveFact

\* Whether a draft is verified is settled by the document.
LEMMA DraftIsMarkedOrNot ==
  ASSUME NEW doc \in Documents, NEW key \in DOMAIN doc.entries
  PROVE  /\ DraftVerified(doc, key) \in BOOLEAN
         /\ DraftVerified(doc, key) => ~doc.resume
         /\ key \in Facts /\ doc.entries[key].content \in Contents
<1>1. doc.default \in BOOLEAN /\ doc.resume \in BOOLEAN
  BY DEF Documents
<1>2. PICK K \in (SUBSET Facts) \ {{}} : doc.entries \in [K -> Entry]
  BY DEF Documents
<1>3. key \in Facts /\ doc.entries[key] \in Entry
  BY <1>2
<1> QED
  BY <1>1, <1>3 DEF DraftVerified, Marked, Entry

\* A draft verifies content that the owner vouches for, or leaves the row alone.
LEMMA DraftIsSound ==
  ASSUME NEW row \in Rows, NEW content \in Contents, NEW verified \in BOOLEAN, NEW resume,
         resume => ~verified, ConstantsApart
  PROVE  /\ ApplyDraft(row, content, verified, resume) \in Rows
         /\ ApplyDraft(row, content, verified, resume).verified =>
              verified \/ ApplyDraft(row, content, verified, resume) = row
<1> DEFINE new == ApplyDraft(row, content, verified, resume)
<1>1. CASE row.verified /\ row.content # content /\ resume
  <2>1. new = row
    BY <1>1 DEF ApplyDraft
  <2> QED
    BY <2>1
<1>2. CASE ~(row.verified /\ row.content # content /\ resume) /\ row.content = content
  <2>1. new = Row(content, row.verified \/ verified)
    BY <1>2 DEF ApplyDraft
  <2>2. row.there /\ row = Row(content, row.verified)
    BY <1>2, RowsAreRecords DEF Absent, ConstantsApart
  <2>3. (row.verified \/ verified) \in BOOLEAN
    BY RowsAreRecords
  <2>4. new \in Rows
    BY <2>1, <2>3, RowIsARow
  <2>5. CASE verified
    BY <2>4, <2>5
  <2>6. CASE ~verified
    <3>1. (row.verified \/ verified) = row.verified
      BY <2>6, RowsAreRecords
    <3>2. new = row
      BY <2>1, <2>2, <3>1
    <3> QED
      BY <2>4, <3>2
  <2> QED
    BY <2>5, <2>6
<1>3. CASE ~(row.verified /\ row.content # content /\ resume) /\ row.content # content
  <2>1. new = Row(content, verified)
    BY <1>3 DEF ApplyDraft
  <2> QED
    BY <2>1, RowIsARow DEF Row
<1> QED
  BY <1>1, <1>2, <1>3

LEMMA ImportInv ==
  ASSUME ProfileInv, OneSession, ConstantsApart, NEW s \in Sessions, NEW doc \in Documents,
         Import(s, doc)
  PROVE  ProfileInv'
<1> DEFINE Becomes(key) ==
             ApplyDraft(facts[key], doc.entries[key].content, DraftVerified(doc, key), doc.resume)
           Word(key) == IF DraftVerified(doc, key) THEN "yes"
                        ELSE IF Becomes(key) = facts[key] THEN "nothing" ELSE "no"
           changes == [key \in DOMAIN doc.entries |-> Change(key, Becomes(key), Word(key))]
<1>1. Load(s, changes)
  BY DEF Import
<1>2. ASSUME NEW key \in DOMAIN changes
      PROVE  /\ key \in Facts /\ changes[key] \in ChangeSet /\ changes[key].was = facts[key]
             /\ Sound(key, changes[key])
  <2>1. key \in Facts /\ doc.entries[key].content \in Contents /\ DraftVerified(doc, key) \in BOOLEAN
    BY DraftIsMarkedOrNot
  <2>2. doc.resume => ~DraftVerified(doc, key)
    BY DraftIsMarkedOrNot
  <2>3. facts[key] \in Rows
    BY <2>1 DEF ProfileInv
  <2>4. Becomes(key) \in Rows
        /\ (Becomes(key).verified => DraftVerified(doc, key) \/ Becomes(key) = facts[key])
    BY <2>1, <2>2, <2>3, DraftIsSound
  <2>5. Word(key) \in {"yes", "no", "nothing"}
    OBVIOUS
  <2>6. changes[key] = [was |-> facts[key], becomes |-> Becomes(key), says |-> Word(key)]
    BY DEF Change
  <2>7. Sound(key, changes[key])
    <3> HIDE DEF Becomes, changes
    <3> QED
      BY <2>1, <2>4, <2>6 DEF Sound
  <2> HIDE DEF changes, Becomes, Word
  <2> QED
    BY <2>1, <2>3, <2>4, <2>5, <2>6, <2>7 DEF ChangeSet
<1> HIDE DEF changes
<1> QED
  BY <1>1, <1>2, PlanKeepsInv

\* From the row it was planned on, a change is written as planned.
LEMMA MergedAsPlanned ==
  ASSUME NEW change \in ChangeSet
  PROVE  Merged(change.was, change) = change.becomes
<1>1. change.was \in Rows /\ change.becomes \in Rows
  BY DEF ChangeSet
<1>2. CASE ~change.was.there \/ ~change.becomes.there
  BY <1>2 DEF Merged
<1>3. CASE change.was.there /\ change.becomes.there
  <2>1. change.becomes = Row(change.becomes.content, change.becomes.verified)
    BY <1>1, <1>3, RowsAreRecords
  <2> QED
    BY <1>3, <2>1 DEF Merged
<1>4. change.was.there \in BOOLEAN /\ change.becomes.there \in BOOLEAN
  BY <1>1, RowsAreRecords
<1> QED
  BY <1>2, <1>3, <1>4

LEMMA CommitInv ==
  ASSUME ProfileInv, OneSession, NEW s \in Sessions, Commit(s)
  PROVE  ProfileInv'
<1>1. \A t \in Sessions : view'[t] = << >>
  BY DEF Commit, OneSession, ProfileInv
<1>2. DOMAIN view' = Sessions /\ ViewInv'
  <2>1. \A t \in Sessions : DOMAIN view'[t] = {}
    BY <1>1
  <2> QED
    BY <2>1 DEF Commit, ViewInv, ProfileInv
<1>3. CASE \E key \in DOMAIN view[s] : Lost(key, view[s][key])
  BY <1>2, <1>3 DEF Commit, ProfileInv, VerifiedIsConfirmed
<1>4. CASE ~\E key \in DOMAIN view[s] : Lost(key, view[s][key])
  <2> DEFINE change(key) == view[s][key]
  <2>1. facts' = [key \in Facts |-> IF key \in DOMAIN view[s] THEN Merged(facts[key], change(key))
                                    ELSE facts[key]]
    BY <1>4 DEF Commit
  <2>2. confirmed' = [key \in Facts |->
               IF key \notin DOMAIN view[s] THEN confirmed[key]
               ELSE CASE change(key).says = "yes" -> change(key).becomes.content
                      [] change(key).says = "no"  -> "nothing"
                      [] OTHER                    -> confirmed[key]]
    BY <1>4 DEF Commit
  <2>3. ASSUME NEW key \in Facts
        PROVE  /\ facts'[key] \in Rows /\ confirmed'[key] \in Contents \cup {"nothing"}
               /\ facts'[key].verified => confirmed'[key] = facts'[key].content
    <3>1. CASE key \notin DOMAIN view[s]
      BY <2>1, <2>2, <3>1 DEF ProfileInv, VerifiedIsConfirmed
    <3>2. CASE key \in DOMAIN view[s]
      <4>1. change(key) \in ChangeSet /\ change(key).was = facts[key] /\ Sound(key, change(key))
        BY <3>2 DEF ProfileInv, ViewInv
      <4>2. facts'[key] = change(key).becomes
        BY <2>1, <3>2, <4>1, MergedAsPlanned
      <4>3. change(key).becomes \in Rows /\ change(key).says \in {"yes", "no", "nothing"}
        BY <4>1 DEF ChangeSet
      <4>4. change(key).becomes.content \in Contents \cup {"nothing"}
        BY <4>3, RowsAreRecords
      <4>5. confirmed'[key] = CASE change(key).says = "yes" -> change(key).becomes.content
                                [] change(key).says = "no"  -> "nothing"
                                [] OTHER                    -> confirmed[key]
        BY <2>2, <3>2
      <4>6. confirmed[key] \in Contents \cup {"nothing"}
            /\ (facts[key].verified => confirmed[key] = facts[key].content)
        BY DEF ProfileInv, VerifiedIsConfirmed
      <4> HIDE DEF change
      <4>7. CASE change(key).says = "yes"
        BY <4>2, <4>3, <4>4, <4>5, <4>7
      <4>8. CASE change(key).says = "no"
        BY <4>1, <4>2, <4>3, <4>5, <4>8 DEF Sound
      <4>9. CASE change(key).says = "nothing"
        <5>1. confirmed'[key] = confirmed[key]
          BY <4>5, <4>9
        <5> QED
          BY <4>1, <4>2, <4>3, <4>6, <4>9, <5>1 DEF Sound
      <4> QED
        BY <4>3, <4>7, <4>8, <4>9
    <3> QED
      BY <3>1, <3>2
  <2>4. facts' \in [Facts -> Rows] /\ confirmed' \in [Facts -> Contents \cup {"nothing"}]
    BY <2>1, <2>2, <2>3
  <2> QED
    BY <1>2, <2>3, <2>4 DEF ProfileInv, VerifiedIsConfirmed
<1> QED
  BY <1>3, <1>4

LEMMA CrashInv ==
  ASSUME ProfileInv, OneSession, NEW s \in Sessions, Crash(s)
  PROVE  ProfileInv'
<1>1. \A t \in Sessions : DOMAIN view'[t] = {}
  BY DEF Crash, OneSession, ProfileInv
<1> QED
  BY <1>1 DEF Crash, ProfileInv, ViewInv, VerifiedIsConfirmed

LEMMA StepInv ==
  ASSUME ProfileInv, OneSession, ConstantsApart, [Next]_vars
  PROVE  ProfileInv'
<1>1. CASE Next
  BY <1>1, SetVerifiedInv, NewContentInv, RemoveFactInv, ImportInv, CommitInv, CrashInv DEF Next
<1>2. CASE UNCHANGED vars
  BY <1>2 DEF vars, ProfileInv, ViewInv, VerifiedIsConfirmed
<1> QED
  BY <1>1, <1>2

LEMMA UsedFromInv == ASSUME ProfileInv PROVE UsedIsConfirmed
  BY DEF ProfileInv, VerifiedIsConfirmed, UsedIsConfirmed, Used

\* With one session at a time, materials and answers are made of what the owner
\* confirmed last (verified_profile of profile.py).
THEOREM UsedStaysConfirmed ==
  ASSUME OneSession, ConstantsApart
  PROVE  Spec => []UsedIsConfirmed
<1>1. Init => ProfileInv
  BY InitInv
<1>2. ProfileInv /\ [Next]_vars => ProfileInv'
  BY StepInv
<1>3. ProfileInv => UsedIsConfirmed
  BY UsedFromInv
<1> QED
  BY <1>1, <1>2, <1>3, PTL DEF Spec
===============================================================================
