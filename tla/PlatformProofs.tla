---------------------------- MODULE PlatformProofs ----------------------------
(***************************************************************************)
(* Theorems about the six parts of Platform, for every value of its         *)
(* constants that meets the conditions they name: the kernel and the        *)
(* profile from the theorems about them, the four others from the           *)
(* invariants below, which speak of a part's definitions by its letter.     *)
(***************************************************************************)
EXTENDS Platform, TLAPS, WellFoundedInduction, FiniteSetTheorems

\* A step of the platform is a step of its part or leaves the part as it is.
LEMMA OnePartMoves ==
  ASSUME [PlatformNext]_platformVars
  PROVE  /\ part' = part
         /\ part = "inspection" => [Next]_vars
         /\ part = "kernel" => [K!Next]_K!vars
         /\ part = "after" => [A!Next]_A!vars
         /\ part = "filling" => [B!Next]_B!vars
         /\ part = "profile" => [U!Next]_U!vars
         /\ part = "answers" => [W!Next]_W!vars
<1>1. CASE PlatformNext
  BY <1>1 DEF PlatformNext
<1>2. CASE UNCHANGED platformVars
  BY <1>2 DEF platformVars, vars, kernel, after, filling, profile, answers,
     K!vars, A!vars, B!vars, U!vars, W!vars
<1> QED
  BY <1>1, <1>2

LEMMA OnePartBegins ==
  ASSUME PlatformInit
  PROVE  /\ part = "inspection" => Init
         /\ part = "kernel" => K!Init
         /\ part = "after" => A!Init
         /\ part = "filling" => B!Init
         /\ part = "profile" => U!Init
         /\ part = "answers" => W!Init
  BY DEF PlatformInit

-----------------------------------------------------------------------------
(* The kernel and the profile *)

\* While one process improves, a project has one champion at most, and one that is
\* not the baseline has a promotion or a rollback on record, wherever a command dies
\* (ContinuousImprovementLoop.benchmark_and_promote, "rollback").
THEOREM ChampionStaysOne ==
  ASSUME K!OneProcess
  PROVE  PlatformSpec => []OneChampion
<1> DEFINE Inv == part = "kernel" => K!KernelInv
<1>1. PlatformInit => Inv
  BY OnePartBegins, K!InitKernel
<1>2. Inv /\ [PlatformNext]_platformVars => Inv'
  BY OnePartMoves, K!NextKernel
<1>3. Inv => OneChampion
  BY K!KernelCrowns DEF OneChampion
<1> QED
  BY <1>1, <1>2, <1>3, PTL DEF PlatformSpec

\* With one session at a time, materials and answers are made of what the owner
\* confirmed last (verified_profile of profile.py).
THEOREM UsedRemainsConfirmed ==
  ASSUME U!OneSession, U!ConstantsApart
  PROVE  PlatformSpec => []UsedIsConfirmed
<1> DEFINE Inv == part = "profile" => U!ProfileInv
<1>1. PlatformInit => Inv
  BY OnePartBegins, U!InitInv
<1>2. Inv /\ [PlatformNext]_platformVars => Inv'
  BY OnePartMoves, U!StepInv
<1>3. Inv => UsedIsConfirmed
  BY U!UsedFromInv DEF UsedIsConfirmed
<1> QED
  BY <1>1, <1>2, <1>3, PTL DEF PlatformSpec

-----------------------------------------------------------------------------
(* After the submission: a scan keeps what it read as due until it queues.  While *)
(* one session scans nothing is queued in between, so that it still holds.        *)

FollowUpType == follow \in [Postings -> [A!Numbers -> [made : Nat, open : Nat, sent : Nat]]]

\* What a session read as due has the number that comes next.
StillDue ==
  \A s \in Sessions : \A d \in due[s] :
    d \in Postings \X A!Numbers /\ A!CountFollowUps(d[1]) = d[2] - 1

FollowUpInv ==
  /\ FollowUpType /\ DOMAIN due = Sessions /\ DOMAIN app = Postings
  /\ A!FollowUpsAreFew /\ StillDue

LEMMA InitFollowUps == A!Init => FollowUpInv
  BY DEF A!Init, FollowUpInv, FollowUpType, A!FollowUpsAreFew, StillDue, A!Numbers

\* Every other handler leaves the number of follow-ups alone.
LEMMA SameFollowUps ==
  ASSUME FollowUpInv, DOMAIN app' = Postings, due' = due, FollowUpType',
         \A p \in Postings, n \in A!Numbers : follow'[p][n].made = follow[p][n].made
  PROVE  FollowUpInv'
<1>1. 1 \in A!Numbers /\ 2 \in A!Numbers
  BY DEF A!Numbers
<1>2. A!FollowUpsAreFew'
  BY <1>1 DEF FollowUpInv, A!FollowUpsAreFew
<1>3. StillDue'
  BY <1>1 DEF FollowUpInv, StillDue, A!CountFollowUps
<1> QED
  BY <1>2, <1>3 DEF FollowUpInv

LEMMA ScanKeeps ==
  ASSUME FollowUpInv, NEW s \in Sessions, A!Scan(s)
  PROVE  FollowUpInv'
<1>1. follow' = follow /\ app' = app /\ due' = [due EXCEPT ![s] = {d \in A!Known \X A!Numbers : A!Due(d[1], d[2])}]
  BY DEF A!Scan
<1>2. \A d \in due'[s] : d \in Postings \X A!Numbers /\ A!CountFollowUps(d[1]) = d[2] - 1
  BY <1>1 DEF FollowUpInv, A!Due, A!Known
<1>3. StillDue'
  BY <1>1, <1>2 DEF FollowUpInv, StillDue, A!CountFollowUps
<1> QED
  BY <1>1, <1>3 DEF FollowUpInv, FollowUpType, A!FollowUpsAreFew

LEMMA QueueKeeps ==
  ASSUME FollowUpInv, OneSession, NEW s \in Sessions, A!Queue(s)
  PROVE  FollowUpInv'
<1> DEFINE more(p, n) == IF <<p, n>> \in due[s]
                         THEN [follow[p][n] EXCEPT !.made = @ + 1, !.open = @ + 1] ELSE follow[p][n]
<1>1. follow' = [p \in Postings |-> [n \in A!Numbers |-> more(p, n)]]
      /\ due' = [due EXCEPT ![s] = {}] /\ app' = app
  BY DEF A!Queue
<1>2. ASSUME NEW p \in Postings, NEW n \in A!Numbers
      PROVE  /\ follow[p][n] \in [made : Nat, open : Nat, sent : Nat]
             /\ more(p, n) \in [made : Nat, open : Nat, sent : Nat]
             /\ more(p, n).made = IF <<p, n>> \in due[s] THEN follow[p][n].made + 1 ELSE follow[p][n].made
  <2> DEFINE old == follow[p][n]
             made == old.made + 1
             open == old.open + 1
  <2>1. old \in [made : Nat, open : Nat, sent : Nat]
    BY DEF FollowUpInv, FollowUpType
  <2>2. made \in Nat /\ open \in Nat
    BY <2>1
  <2>3. more(p, n) = IF <<p, n>> \in due[s] THEN [old EXCEPT !.made = made, !.open = open] ELSE old
    OBVIOUS
  <2> HIDE DEF made, open, more
  <2>4. more(p, n) \in [made : Nat, open : Nat, sent : Nat]
        /\ more(p, n).made = IF <<p, n>> \in due[s] THEN made ELSE old.made
    BY <2>1, <2>2, <2>3
  <2> QED
    BY <2>1, <2>4 DEF made
<1> HIDE DEF more
<1>3. FollowUpType'
  BY <1>1, <1>2 DEF FollowUpType
<1>4. A!FollowUpsAreFew'
  <2> SUFFICES ASSUME NEW p \in Postings
      PROVE  /\ \A n \in A!Numbers : follow'[p][n].made <= 1
             /\ follow'[p][2].made <= follow'[p][1].made
    BY DEF A!FollowUpsAreFew
  <2>1. A!Numbers = {1, 2}
    BY DEF A!Numbers
  <2>2. \A n \in A!Numbers :
          /\ follow'[p][n].made = IF <<p, n>> \in due[s] THEN follow[p][n].made + 1 ELSE follow[p][n].made
          /\ follow[p][n].made \in Nat /\ follow[p][n].made <= 1
          /\ <<p, n>> \in due[s] => follow[p][1].made + follow[p][2].made = n - 1
    BY <1>1, <1>2 DEF FollowUpInv, A!FollowUpsAreFew, StillDue, A!CountFollowUps
  <2>3. follow[p][2].made <= follow[p][1].made
    BY DEF FollowUpInv, A!FollowUpsAreFew
  <2> DEFINE a == follow[p][1].made
             b == follow[p][2].made
             first == <<p, 1>> \in due[s]
             second == <<p, 2>> \in due[s]
  <2>4. a \in Nat /\ b \in Nat /\ a <= 1 /\ b <= 1 /\ b <= a
        /\ (first => a + b = 0) /\ (second => a + b = 1)
    BY <2>1, <2>2, <2>3
  <2>5. follow'[p][1].made = (IF first THEN a + 1 ELSE a) /\ follow'[p][2].made = (IF second THEN b + 1 ELSE b)
    BY <2>1, <2>2
  <2> HIDE DEF a, b, first, second
  <2>6. follow'[p][1].made <= 1 /\ follow'[p][2].made <= 1 /\ follow'[p][2].made <= follow'[p][1].made
    BY <2>4, <2>5
  <2> QED
    BY <2>1, <2>6
<1>5. \A t \in Sessions : due'[t] = {}
  BY <1>1 DEF OneSession, FollowUpInv
<1>6. StillDue' /\ DOMAIN due' = Sessions
  BY <1>1, <1>5 DEF StillDue, FollowUpInv
<1> QED
  BY <1>1, <1>3, <1>4, <1>6 DEF FollowUpInv

LEMMA DispatchKeeps ==
  ASSUME FollowUpInv, NEW p \in Postings, NEW n \in A!Numbers, A!Dispatch(p, n)
  PROVE  FollowUpInv'
<1> DEFINE old == follow[p][n]
           left == A!Max({0, old.open - 1})
           sent == old.sent + 1
<1>1. old \in [made : Nat, open : Nat, sent : Nat]
  BY DEF FollowUpInv, FollowUpType
<1>2. left \in Nat
  <2> DEFINE k == old.open - 1
  <2>1. k \in Int
    BY <1>1
  <2> HIDE DEF k
  <2>2. \E x \in {0, k} : \A y \in {0, k} : x >= y
    <3>1. CASE k >= 0
      BY <2>1, <3>1
    <3>2. CASE ~(k >= 0)
      BY <2>1, <3>2
    <3> QED
      BY <3>1, <3>2
  <2>3. left \in {0, k} /\ \A y \in {0, k} : left >= y
    BY <2>2 DEF A!Max, k
  <2> HIDE DEF left
  <2> QED
    BY <2>1, <2>3
<1>3. sent \in Nat
  BY <1>1
<1>4. follow' = [follow EXCEPT ![p][n].open = left, ![p][n].sent = sent]
      /\ app' = app /\ due' = due
  BY DEF A!Dispatch
<1> HIDE DEF left, sent
<1>5. FollowUpType' /\ \A q \in Postings, m \in A!Numbers : follow'[q][m].made = follow[q][m].made
  <2> DEFINE new == [old EXCEPT !.open = left, !.sent = sent]
  <2>1. new \in [made : Nat, open : Nat, sent : Nat] /\ new.made = old.made
    BY <1>1, <1>2, <1>3
  <2>2. follow \in [Postings -> [A!Numbers -> [made : Nat, open : Nat, sent : Nat]]]
    BY DEF FollowUpInv, FollowUpType
  <2>3. follow' = [follow EXCEPT ![p][n] = new]
    BY <1>4, <2>2
  <2> HIDE DEF new
  <2>4. FollowUpType'
    BY <2>1, <2>2, <2>3 DEF FollowUpType
  <2> QED
    BY <2>1, <2>2, <2>3, <2>4
<1> QED
  BY <1>4, <1>5, SameFollowUps DEF FollowUpInv

LEMMA OthersKeep ==
  ASSUME FollowUpInv, NEW p \in Postings,
         \/ A!RecordSubmission(p) \/ A!RunnerSubmits(p) \/ A!RecordDryRun(p) \/ A!RecordReview(p)
         \/ A!OwnerResolves(p) \/ A!LogApplication(p) \/ A!ReceiveMail \/ A!Pass
  PROVE  FollowUpInv'
<1>1. follow' = follow /\ due' = due
  BY DEF A!RecordSubmission, A!RunnerSubmits, A!RecordDryRun, A!RecordReview, A!OwnerResolves,
         A!LogApplication, A!ReceiveMail, A!Pass
<1>2. DOMAIN app' = DOMAIN app
  BY DEF A!RecordSubmission, A!RunnerSubmits, A!RecordDryRun, A!RecordReview, A!OwnerResolves,
         A!LogApplication, A!ReceiveMail, A!Pass, A!Confirmed
<1> QED
  BY <1>1, <1>2, SameFollowUps DEF FollowUpInv, FollowUpType

\* Every step keeps the invariant.
LEMMA NextFollowUps ==
  ASSUME OneSession, FollowUpInv, [A!Next]_A!vars
  PROVE  FollowUpInv'
<1>1. CASE UNCHANGED A!vars
  BY <1>1, SameFollowUps DEF A!vars, FollowUpInv, FollowUpType
<1>2. ASSUME NEW p \in A!Known,
             \/ A!RecordSubmission(p) \/ A!RunnerSubmits(p) \/ A!RecordDryRun(p) \/ A!RecordReview(p)
             \/ A!OwnerResolves(p)
      PROVE  FollowUpInv'
  BY <1>2, OthersKeep DEF A!Known
<1>3. ASSUME NEW p \in A!Known, NEW n \in A!Numbers, A!Dispatch(p, n)
      PROVE  FollowUpInv'
  BY <1>3, DispatchKeeps DEF A!Known
<1>4. ASSUME NEW p \in Postings, A!LogApplication(p) PROVE FollowUpInv'
  BY <1>4, OthersKeep
<1>5. ASSUME NEW s \in Sessions, A!Scan(s) \/ A!Queue(s) PROVE FollowUpInv'
  BY <1>5, ScanKeeps, QueueKeeps
<1>6. CASE A!ReceiveMail \/ A!Pass
  <2>1. follow' = follow /\ due' = due
    BY <1>6 DEF A!ReceiveMail, A!Pass
  <2>2. DOMAIN app' = DOMAIN app
    BY <1>6 DEF A!ReceiveMail, A!Pass
  <2> QED
    BY <2>1, <2>2, SameFollowUps DEF FollowUpInv, FollowUpType
<1> QED
  BY <1>1, <1>2, <1>3, <1>4, <1>5, <1>6 DEF A!Next

\* However often one session scans and whatever is dispatched, each follow-up is
\* queued once and the second one after the first (follow_up.process_due_follow_ups).
THEOREM FollowUpsStayFew ==
  ASSUME OneSession
  PROVE  PlatformSpec => []FollowUpsAreFew
<1> DEFINE Inv == part = "after" => FollowUpInv
<1>1. PlatformInit => Inv
  BY OnePartBegins, InitFollowUps
<1>2. Inv /\ [PlatformNext]_platformVars => Inv'
  BY OnePartMoves, NextFollowUps
<1>3. Inv => FollowUpsAreFew
  BY DEF FollowUpInv, FollowUpsAreFew
<1> QED
  BY <1>1, <1>2, <1>3, PTL DEF PlatformSpec

-----------------------------------------------------------------------------
(* The page of the form *)

\* A form that is still to be cross-checked has a required control for every required
\* question of the answer, and its controls are known by their own names.
CoversAnswer ==
  /\ \A n \in Names : QuestionRequired(n) => RequiredInForm(n)
  /\ \A c \in form.controls : c.name = c.key

\* While the page is trusted it shows the form or a challenge; what was read of it is
\* what it shows.
ShowsTheForm == ~Untrusted => page.shows \in {"form", "challenge"}
ReadIsShown  == ~Untrusted => page.data = Rendered

\* The fields of the two records.
Shaped ==
  /\ form = [controls |-> form.controls, read |-> form.read, verified |-> form.verified]
  /\ page = [shows |-> page.shows, documents |-> page.documents, submits |-> page.submits,
             moved |-> page.moved, received |-> page.received, data |-> page.data]
  /\ page.moved \in BOOLEAN /\ page.submits \in BOOLEAN /\ page.documents \in 0..2

Trusted ==
  /\ pc \in {"browse", "judge"} => ShowsTheForm
  /\ pc = "judge" => ReadIsShown

FormInv ==
  /\ posting.asked \in Asked(posting.platform) /\ Shaped
  /\ pc = "fetch" => form = NoForm
  /\ pc \in {"fetch", "open"} => page = Closed
  /\ pc # "done" => ~form.verified /\ result # "loaded"
  /\ pc \in {"open", "browse", "judge"} /\ form # NoForm => CoversAnswer
  /\ Trusted
  /\ VerifiedCoversThePage

\* Questions that do not repeat a name are told apart by their names.
LEMMA NamesApart ==
  ASSUME NEW platform, NEW asked \in Asked(platform), ~Repeats(asked),
         NEW i \in DOMAIN asked, NEW j \in DOMAIN asked, asked[i].name = asked[j].name
  PROVE  i = j
<1>1. asked = << >> \/ (\E a \in Question : asked = <<a>>) \/ asked \in Question \X Question
  BY DEF Asked
<1>2. CASE asked \in Question \X Question
  <2>1. DOMAIN asked = {1, 2} /\ Len(asked) = 2
    BY <1>2
  <2>2. SUFFICES ASSUME i # j PROVE FALSE
    OBVIOUS
  <2>3. asked[1].name = asked[2].name
    BY <2>1, <2>2
  <2>4. NamesOf(asked) = {asked[1].name}
    BY <2>1, <2>3 DEF NamesOf
  <2>5. Cardinality(NamesOf(asked)) = 1
    BY <2>4, FS_Singleton
  <2> QED
    BY <2>1, <2>5 DEF Repeats
<1> QED
  BY <1>1, <1>2

LEMMA EachHasControl ==
  ASSUME NEW asked, NEW controls,
         controls = {[name |-> asked[i].name, key |-> asked[i].name,
                      required |-> asked[i].required /\ ~asked[i].survey] : i \in DOMAIN asked}
  PROVE  /\ \A i \in DOMAIN asked : asked[i].required /\ ~asked[i].survey =>
              \E c \in controls : c.name = asked[i].name /\ c.required
         /\ \A c \in controls : c.name = c.key
<1>1. ASSUME NEW i \in DOMAIN asked, asked[i].required, ~asked[i].survey
      PROVE  \E c \in controls : c.name = asked[i].name /\ c.required
  <2> DEFINE c == [name |-> asked[i].name, key |-> asked[i].name,
                   required |-> asked[i].required /\ ~asked[i].survey]
  <2>1. c \in controls
    OBVIOUS
  <2>2. c.name = asked[i].name /\ c.required = (asked[i].required /\ ~asked[i].survey)
    OBVIOUS
  <2> HIDE DEF c
  <2>3. c.required
    BY <1>1, <2>2
  <2> QED
    BY <2>1, <2>2, <2>3
<1>2. \A c \in controls : c.name = c.key
  OBVIOUS
<1> QED
  BY <1>1, <1>2

\* What the three parsers that are cross-checked make of the questions of an answer.
LEMMA ParsedCovers ==
  ASSUME NEW asked \in Asked(posting.platform),
         posting.platform \in {"greenhouse", "lever", "ashby"},
         Parsed(asked) # {}
  PROVE  /\ \A i \in DOMAIN asked : asked[i].required /\ ~asked[i].survey =>
              \E c \in Parsed(asked) : c.name = asked[i].name /\ c.required
         /\ \A c \in Parsed(asked) : c.name = c.key
<1>1. ~Repeats(asked)
  BY DEF Parsed, GreenhouseControls, Asked
<1>2. \A i \in DOMAIN asked : asked[i] \in Question
  <2>1. asked = << >> \/ (\E a \in Question : asked = <<a>>) \/ asked \in Question \X Question
    BY DEF Asked
  <2> QED
    BY <2>1
<1>3. CASE posting.platform = "greenhouse"
  <2>1. Parsed(asked) = {AsControl(asked[i], OwnNames[asked[i].name]) : i \in DOMAIN asked}
    BY <1>1, <1>3 DEF Parsed, GreenhouseControls, All
  <2>2. \A i \in DOMAIN asked : OwnNames[asked[i].name] = asked[i].name
    BY <1>2 DEF OwnNames, Question
  <2>3. Parsed(asked) = {[name |-> asked[i].name, key |-> asked[i].name,
                         required |-> asked[i].required /\ ~asked[i].survey] : i \in DOMAIN asked}
    BY <2>1, <2>2 DEF AsControl
  <2> QED
    BY <2>3, EachHasControl
<1>4. CASE posting.platform \in {"lever", "ashby"}
  <2>1. Parsed(asked) = {AsControl(asked[i], OwnNames[asked[i].name]) : i \in First(asked, OwnNames)}
    BY <1>4 DEF Parsed, LeverControls, AshbyControls, KeptFirst
  <2>2. \A i \in DOMAIN asked : OwnNames[asked[i].name] = asked[i].name
    BY <1>2 DEF OwnNames, Question
  <2>3. ASSUME NEW i \in DOMAIN asked PROVE i \in First(asked, OwnNames)
    <3>1. SUFFICES ASSUME NEW j \in 1..(i - 1)
                   PROVE OwnNames[asked[j].name] # OwnNames[asked[i].name]
      BY DEF First
    <3>2. DOMAIN asked \subseteq {1, 2} /\ \A k \in DOMAIN asked : 1..(k - 1) \subseteq DOMAIN asked
      <4>1. asked = << >> \/ (\E a \in Question : asked = <<a>>) \/ asked \in Question \X Question
        BY DEF Asked
      <4>2. DOMAIN asked = {} \/ DOMAIN asked = {1} \/ DOMAIN asked = {1, 2}
        BY <4>1
      <4> QED
        BY <4>2
    <3>3. i \in Int /\ j \in DOMAIN asked /\ j # i
      BY <3>2
    <3> QED
      BY <3>3, <2>2, <1>1, NamesApart
  <2>4. First(asked, OwnNames) = DOMAIN asked
    BY <2>3 DEF First
  <2>5. Parsed(asked) = {[name |-> asked[i].name, key |-> asked[i].name,
                         required |-> asked[i].required /\ ~asked[i].survey] : i \in DOMAIN asked}
    BY <2>1, <2>2, <2>4 DEF AsControl
  <2> QED
    BY <2>5, EachHasControl
<1> QED
  BY <1>3, <1>4

LEMMA FormBegins == Init => FormInv
<1>1. SUFFICES ASSUME Init PROVE FormInv
  OBVIOUS
<1>2. posting.asked \in Asked(posting.platform)
  BY <1>1 DEF Init
<1>3. pc = "fetch" /\ form = NoForm /\ page = Closed /\ result = "none"
  BY <1>1 DEF Init
<1> QED
  BY <1>2, <1>3 DEF FormInv, Shaped, Trusted, Closed, NoForm, VerifiedCoversThePage

LEMMA FetchCovers ==
  ASSUME FormInv, NEW r \in Responses, Fetch(r) PROVE FormInv'
<1> posting' = posting /\ page' = page /\ page = Closed /\ pc = "fetch" /\ form = NoForm /\ result # "loaded"
  BY DEF Fetch, FormInv
<1> posting.asked \in Asked(posting.platform) /\ ~form.verified
  BY DEF FormInv
<1> ~form'.verified /\ pc' \in {"open", "done"} /\ (pc' # "done" => result' # "loaded")
  <2>1. CASE FetchOutcome(r) = "ok"
    BY <2>1 DEF Fetch, Obtain, GiveUp, End
  <2>2. CASE FetchOutcome(r) = "standard"
    BY <2>2 DEF Fetch, Obtain, End
  <2>3. CASE FetchOutcome(r) \notin {"ok", "standard"}
    BY <2>3 DEF Fetch, GiveUp, End
  <2> QED
    BY <2>1, <2>2, <2>3
<1>1. ASSUME pc' = "open", form' # NoForm PROVE CoversAnswer'
  <2>1. posting.platform \in {"greenhouse", "lever", "ashby"}
    BY <1>1, VerifyAssumption DEF Fetch, Obtain, GiveUp, End
  <2>2. FetchOutcome(r) # "standard"
    BY <2>1 DEF FetchOutcome, GreenhouseFetch, LeverFetch, AshbyFetch
  <2>3. Parsed(posting.asked) # {} /\ form'.controls = Parsed(posting.asked)
    BY <1>1, <2>2 DEF Fetch, Obtain, GiveUp, End
  <2> DEFINE P == Parsed(posting.asked)
  <2>4. /\ \A i \in DOMAIN posting.asked : posting.asked[i].required /\ ~posting.asked[i].survey =>
             \E c \in P : c.name = posting.asked[i].name /\ c.required
        /\ \A c \in P : c.name = c.key
    BY <2>1, <2>3, ParsedCovers
  <2> HIDE DEF P
  <2> QED
    BY <2>3, <2>4 DEF CoversAnswer, QuestionRequired, RequiredInForm, P
<1>2. Shaped'
  <2>1. \/ form' = form
        \/ \E controls, read : form' = [controls |-> controls, read |-> read, verified |-> FALSE]
    <3>1. CASE FetchOutcome(r) = "ok"
      BY <3>1 DEF Fetch, Obtain, GiveUp
    <3>2. CASE FetchOutcome(r) = "standard"
      BY <3>2 DEF Fetch, Obtain
    <3>3. CASE FetchOutcome(r) \notin {"ok", "standard"}
      BY <3>3 DEF Fetch, GiveUp
    <3> QED
      BY <3>1, <3>2, <3>3
  <2> QED
    BY <2>1 DEF FormInv, Shaped
<1> QED
  BY <1>1, <1>2 DEF FormInv, Trusted, Closed, VerifiedCoversThePage

LEMMA JudgeCovers ==
  ASSUME FormInv, Judge PROVE FormInv'
<1> USE DEF FormInv
<1> posting' = posting /\ page' = page /\ pc = "judge" /\ pc' = "done"
  BY DEF Judge, End
<1>1. VerifiedCoversThePage'
  <2>1. SUFFICES ASSUME result' = "loaded", form'.verified
                 PROVE  \A n \in Names : /\ QuestionRequired(n)' => RequiredInForm(n)'
                                         /\ PageRequires(n)' => InForm(n)'
    BY DEF VerifiedCoversThePage
  <2>2. ~Untrusted /\ form # NoForm
    <3>1. CASE Untrusted
      BY <2>1, <3>1 DEF Judge, End
    <3>2. CASE ~Untrusted /\ form = NoForm
      BY <2>1, <3>2 DEF Judge, End
    <3> QED
      BY <3>1, <3>2
  <2>3. form' = [form EXCEPT !.controls = @ \cup Added, !.verified = TRUE] /\ ~Challenged
    BY <2>1, <2>2 DEF Judge, End
  <2>4. page.shows \in {"form", "challenge"} /\ page.data = Rendered /\ page.shows = "form"
    BY <2>2, <2>3 DEF Trusted, ShowsTheForm, ReadIsShown, Rendered, Challenged
  <2>5. /\ \A n \in Names : QuestionRequired(n) => RequiredInForm(n)
        /\ \A c \in form.controls : c.name = c.key
    BY <2>2 DEF CoversAnswer
  <2>6. form.controls \subseteq form'.controls /\ Added \subseteq form'.controls
    <3>1. form.controls \cup Added \subseteq form'.controls
      BY <2>1, <2>3
    <3> QED
      BY <3>1
  <2>7. ASSUME NEW n \in Names, QuestionRequired(n)' PROVE RequiredInForm(n)'
    BY <2>5, <2>6, <2>7 DEF QuestionRequired, RequiredInForm
  <2>8. ASSUME NEW n \in Names, PageRequires(n)' PROVE InForm(n)'
    <3> DEFINE f == [name |-> n, required |-> TRUE]
    <3>1. f \in page.data
      BY <2>4, <2>8 DEF PageRequires, Rendered
    <3>2. CASE n \in {c.key : c \in form.controls}
      BY <3>2, <2>5, <2>6 DEF InForm
    <3>3. CASE n \notin {c.key : c \in form.controls}
      <4>1. f \in {g \in page.data : g.required /\ g.name \notin {c.key : c \in form.controls}}
        BY <3>1, <3>3
      <4>2. [name |-> f.name, key |-> f.name, required |-> TRUE] \in Added
        BY <4>1 DEF Added
      <4>3. f.name = n
        OBVIOUS
      <4> QED
        BY <4>2, <4>3, <2>6 DEF InForm
    <3> QED
      BY <3>2, <3>3
  <2> QED
    BY <2>7, <2>8
<1>2. Shaped'
  <2>1. \/ form' = form
        \/ form' = [form EXCEPT !.controls = @ \cup Added, !.verified = TRUE]
        \/ \E controls, read : form' = [controls |-> controls, read |-> read, verified |-> FALSE]
    BY DEF Judge
  <2> QED
    BY <2>1 DEF Shaped
<1> QED
  BY <1>1, <1>2 DEF Trusted

LEMMA PageElsewhere ==
  ASSUME NEW p, NEW a, NEW b, NEW c, NEW d, NEW e, NEW f, NEW shows, NEW documents, NEW moved,
         p = [shows |-> a, documents |-> b, submits |-> c, moved |-> d, received |-> e, data |-> f]
  PROVE  /\ [p EXCEPT !.shows = shows, !.documents = documents]
              = [shows |-> shows, documents |-> documents, submits |-> c,
                 moved |-> d, received |-> e, data |-> f]
         /\ [p EXCEPT !.shows = shows, !.documents = documents, !.moved = moved]
              = [shows |-> shows, documents |-> documents, submits |-> c,
                 moved |-> moved, received |-> e, data |-> f]
<1> DEFINE q == [shows |-> shows, documents |-> documents, submits |-> c,
                 moved |-> d, received |-> e, data |-> f]
<1>1. [p EXCEPT !.shows = shows, !.documents = documents] = q
  <2> DEFINE o == [shows |-> shows, documents |-> b, submits |-> c,
                   moved |-> d, received |-> e, data |-> f]
  <2>1. [p EXCEPT !.shows = shows] = o
    OBVIOUS
  <2>2. [o EXCEPT !.documents = documents] = q
    OBVIOUS
  <2> HIDE DEF o, q
  <2>3. [p EXCEPT !.shows = shows, !.documents = documents] = [o EXCEPT !.documents = documents]
    BY <2>1, Zenon
  <2> QED
    BY <2>2, <2>3
<1>2. [q EXCEPT !.moved = moved]
         = [shows |-> shows, documents |-> documents, submits |-> c,
            moved |-> moved, received |-> e, data |-> f]
  OBVIOUS
<1> HIDE DEF q
<1>3. [p EXCEPT !.shows = shows, !.documents = documents, !.moved = moved] = [q EXCEPT !.moved = moved]
  BY <1>1, Zenon
<1> QED
  BY <1>1, <1>2, <1>3 DEF q

\* The browser's own steps: what they change is trusted no longer, or is what is shown.
LEMMA BrowserCovers ==
  ASSUME FormInv, OpensOnForm, MovesAreSeen,
         \/ Open \/ PageSubmits \/ PageLeaves \/ PageMoves \/ Read
         \/ \E request \in {"get", "post", "graph_query", "graph_mutation"} : Request(request)
  PROVE  FormInv'
<1> Shaped /\ Trusted /\ (pc \in {"fetch", "open"} => page = Closed)
  BY DEF FormInv
<1>1. posting' = posting /\ form' = form /\ pc \in {"open", "browse", "judge"}
      /\ pc' \in {"browse", "judge", "done"} /\ (pc' # "done" => result' = result)
      /\ result' # "loaded"
  BY DEF FormInv, Open, PageSubmits, PageLeaves, PageMoves, Read, Request, End
<1>2. ASSUME Open PROVE Shaped' /\ Trusted'
  <2>1. page = Closed
    BY <1>2, <1>1 DEF Open, FormInv
  <2>2. \/ page' = page /\ pc' = "done"
        \/ \E landing \in Landings :
             page' = [page EXCEPT !.shows = landing, !.documents = 1] /\ pc' = "browse"
    BY <1>2 DEF Open, End
  <2>3. CASE page' = page /\ pc' = "done"
    BY <1>1, <2>3 DEF Shaped, Trusted
  <2>4. CASE \E landing \in Landings :
               page' = [page EXCEPT !.shows = landing, !.documents = 1] /\ pc' = "browse"
    <3>1. PICK landing \in Landings :
            page' = [page EXCEPT !.shows = landing, !.documents = 1] /\ pc' = "browse"
      BY <2>4
    <3>2. landing \in {"form", "challenge"}
      BY DEF OpensOnForm
    <3>3. Shaped' /\ page'.shows = landing
      <4>1. page.submits = FALSE /\ page.moved = FALSE
        BY <2>1 DEF Closed
      <4>2. page' = [shows |-> landing, documents |-> 1, submits |-> page.submits,
                     moved |-> page.moved, received |-> page.received, data |-> page.data]
        BY <3>1, PageElsewhere DEF Shaped
      <4> QED
        BY <1>1, <4>1, <4>2 DEF Shaped
    <3> QED
      BY <3>1, <3>2, <3>3 DEF Trusted, ShowsTheForm
  <2> QED
    BY <2>2, <2>3, <2>4
<1>3. ASSUME Read PROVE Shaped' /\ Trusted'
  <2>1. page' = [page EXCEPT !.data = Rendered] /\ pc = "browse"
    BY <1>3 DEF Read
  <2> DEFINE R == Rendered
  <2> HIDE DEF R
  <2>2. /\ page'.shows = page.shows /\ page'.data = Rendered /\ page'.submits = page.submits
        /\ page'.moved = page.moved /\ page'.documents = page.documents /\ Shaped'
    <3>1. page' = [page EXCEPT !.data = R] /\ R = Rendered
      BY <2>1 DEF R
    <3> QED
      BY <3>1, <1>1 DEF Shaped
  <2>3. Rendered' = Rendered
    BY <2>2, <1>1 DEF Rendered
  <2> QED
    BY <2>1, <2>2, <2>3 DEF Trusted, ShowsTheForm, Untrusted, ReadIsShown
<1>4. ASSUME PageLeaves \/ PageMoves PROVE Shaped' /\ Trusted'
  <2>1. \E moved \in BOOLEAN, documents \in {1, 2} :
          /\ page' = [page EXCEPT !.shows = "elsewhere", !.documents = documents, !.moved = moved]
          /\ documents = 2 \/ moved
    <3>1. CASE PageLeaves
      <4>1. PICK moved \in BOOLEAN :
              page' = [page EXCEPT !.shows = "elsewhere", !.documents = 2,
                                   !.moved = @ \/ (moved /\ pc = "browse")]
        BY <3>1 DEF PageLeaves
      <4> DEFINE v == page.moved \/ (moved /\ pc = "browse")
      <4>2. v \in BOOLEAN /\ page' = [page EXCEPT !.shows = "elsewhere", !.documents = 2, !.moved = v]
        BY <4>1
      <4> HIDE DEF v
      <4> QED
        BY <4>2
    <3>2. CASE PageMoves
      <4>1. PICK move \in Moves :
              page' = [page EXCEPT !.shows = "elsewhere", !.moved = @ \/ move = "address"]
        BY <3>2 DEF PageMoves
      <4>2. \E v \in BOOLEAN : v /\ page' = [page EXCEPT !.shows = "elsewhere", !.moved = v]
        <5> DEFINE v == page.moved \/ move = "address"
        <5>1. v /\ v \in BOOLEAN
          BY DEF MovesAreSeen
        <5>2. page' = [page EXCEPT !.shows = "elsewhere", !.moved = v]
          BY <4>1
        <5> HIDE DEF v
        <5> QED
          BY <5>1, <5>2, Zenon
      <4>3. PICK v \in BOOLEAN : v /\ page' = [page EXCEPT !.shows = "elsewhere", !.moved = v]
        BY <4>2
      <4>4. page' = [page EXCEPT !.shows = "elsewhere", !.documents = 1, !.moved = v]
        BY <3>2, <4>3 DEF PageMoves, Shaped
      <4> QED
        BY <4>3, <4>4
    <3> QED
      BY <1>4, <3>1, <3>2
  <2>2. PICK moved \in BOOLEAN, documents \in {1, 2} :
          /\ page' = [page EXCEPT !.shows = "elsewhere", !.documents = documents, !.moved = moved]
          /\ documents = 2 \/ moved
    BY <2>1
  <2>3. Shaped' /\ page'.documents = documents /\ page'.moved = moved
    <3>1. page' = [shows |-> "elsewhere", documents |-> documents, submits |-> page.submits,
                   moved |-> moved, received |-> page.received, data |-> page.data]
      BY <2>2, PageElsewhere DEF Shaped
    <3> QED
      BY <1>1, <3>1 DEF Shaped
  <2>4. Untrusted'
    BY <2>2, <2>3 DEF Untrusted
  <2> QED
    BY <2>3, <2>4 DEF Trusted, ShowsTheForm, ReadIsShown
<1>5. ASSUME \/ PageSubmits
             \/ \E request \in {"get", "post", "graph_query", "graph_mutation"} : Request(request)
      PROVE  Shaped' /\ Trusted'
  <2>1. pc = "browse" /\ pc' = "browse"
    BY <1>5 DEF PageSubmits, Request
  <2>2. \/ \E v \in BOOLEAN : v /\ page' = [page EXCEPT !.submits = v]
        \/ \E received : page' = [page EXCEPT !.received = received]
    <3>1. CASE PageSubmits
      <4>1. page' = [page EXCEPT !.submits = TRUE]
        BY <3>1 DEF PageSubmits
      <4> QED
        BY <4>1, Zenon
    <3>2. CASE ~PageSubmits
      BY <1>5, <3>2 DEF Request
    <3> QED
      BY <3>1, <3>2
  <2>3. Shaped' /\ page'.shows = page.shows /\ page'.moved = page.moved
        /\ page'.documents = page.documents /\ (page'.submits \/ page'.submits = page.submits)
    BY <1>1, <2>2 DEF Shaped
  <2> QED
    BY <2>1, <2>3 DEF Trusted, ShowsTheForm, Untrusted
<1>6. pc' \in {"open", "browse", "judge"} /\ form' # NoForm => CoversAnswer'
  BY <1>1 DEF FormInv, CoversAnswer, QuestionRequired, RequiredInForm
<1>7. Shaped' /\ Trusted'
  BY <1>2, <1>3, <1>4, <1>5
<1> QED
  BY <1>1, <1>6, <1>7 DEF FormInv, VerifiedCoversThePage

LEMMA FormCovers ==
  ASSUME OpensOnForm, MovesAreSeen, FormInv, [Next]_vars
  PROVE  FormInv'
<1>1. CASE UNCHANGED vars
  BY <1>1 DEF vars, FormInv, Shaped, Trusted, CoversAnswer, ShowsTheForm, ReadIsShown, Untrusted, Rendered,
     VerifiedCoversThePage, QuestionRequired, RequiredInForm, PageRequires, InForm
<1>2. CASE Next
  BY <1>2, FetchCovers, BrowserCovers, JudgeCovers DEF Next
<1> QED
  BY <1>1, <1>2

\* Whatever the scripts of the page do while it is read, a form that is loaded as
\* verified leaves no required question out (real_forms._verify,
\* greenhouse_browser.reconcile and untrusted_session_reasons).
THEOREM VerifiedFormsCover ==
  ASSUME OpensOnForm, MovesAreSeen
  PROVE  PlatformSpec => []FormsCoverThePage
<1> DEFINE Inv == part = "inspection" => FormInv
<1>1. PlatformInit => Inv
  BY OnePartBegins, FormBegins
<1>2. Inv /\ [PlatformNext]_platformVars => Inv'
  BY OnePartMoves, FormCovers
<1>3. Inv => FormsCoverThePage
  BY DEF FormInv, FormsCoverThePage
<1> QED
  BY <1>1, <1>2, <1>3, PTL DEF PlatformSpec

-----------------------------------------------------------------------------
(* The answers *)

\* What the profile says of a key is about that key.
LEMMA ProfileSaysOf ==
  ASSUME NEW k, NEW rec \in W!ProfileSays(k)
  PROVE  rec.key = k
<1>1. \E kind, value : rec = W!Record(kind, k, value)
  BY DEF W!ProfileSays
<1> QED
  BY <1>1 DEF W!Record

\* A record that is read for a key has that key or one of its aliases.
LEMMA RecordsFor ==
  ASSUME NEW k, NEW scopes, NEW rec \in W!Records(k, scopes)
  PROVE  rec.key = k \/ k \in W!Aliases(rec.key)
<1> DEFINE own   == {r \in vault : r.key = k /\ r.scope \in scopes}
           alias == {r \in vault : k \in W!Aliases(r.key) /\ r.scope \in scopes}
<1>1. CASE own # {}
  <2>1. rec \in {W!Stated(r) : r \in {o \in own : \A s \in own : W!Rank(s) <= W!Rank(o)}}
    BY <1>1 DEF W!Records
  <2>2. PICK r \in own : rec = W!Stated(r)
    BY <2>1
  <2> QED
    BY <2>2 DEF W!Stated
<1>2. CASE own = {} /\ W!ProfileSays(k) # {}
  <2>1. rec \in W!ProfileSays(k)
    BY <1>2 DEF W!Records
  <2> QED
    BY <2>1, ProfileSaysOf
<1>3. CASE own = {} /\ W!ProfileSays(k) = {}
  <2>1. rec \in {W!Stated(r) : r \in {a \in alias : \A s \in alias : W!Rank(a) <= W!Rank(s)}}
    BY <1>3 DEF W!Records
  <2>2. PICK r \in alias : rec = W!Stated(r)
    BY <2>1
  <2> QED
    BY <2>2 DEF W!Stated
<1> QED
  BY <1>1, <1>2, <1>3

\* The pairs that the aliases join speak of Canada on both sides or of no country.
LEMMA AliasesJoin ==
  ASSUME NEW j, NEW k, k \in W!Aliases(j)
  PROVE  \/ /\ k \in {<<"work_authorization", "ca">>, <<"work_authorization", "none">>,
                      <<"sponsorship", "ca">>, <<"sponsorship", "none">>,
                      <<"citizenship", "ca">>, <<"citizenship", "none">>}
            /\ j \in {<<"work_authorization", "ca">>, <<"work_authorization", "none">>,
                      <<"sponsorship", "ca">>, <<"sponsorship", "none">>,
                      <<"citizenship", "ca">>, <<"citizenship", "none">>,
                      <<"located_in_canada", "none">>}
         \/ /\ k \in {<<"terms_consent", "none">>, <<"agreement_consent", "none">>}
            /\ j \in {<<"terms_consent", "none">>, <<"agreement_consent", "none">>,
                      <<"salary_acceptance", "none">>}
  BY DEF W!Aliases, W!Plain

\* The keys that the words of a label lead to.
FallbackKeys ==
  {<<"terms_consent", "none">>, <<"agreement_consent", "none">>, <<"general_consent", "none">>,
   <<"salary_expectation", "none">>, <<"desired_salary", "none">>, <<"compensation_expectation", "none">>,
   <<"time_zone", "none">>, <<"timezone", "none">>,
   <<"work_location_preference", "none">>, <<"work_arrangement_nonlocal", "none">>}

LEMMA TwoInSeq ==
  ASSUME NEW S, NEW a \in S, NEW b \in S
  PROVE  <<a, b>> \in Seq(S)
  OBVIOUS

LEMMA WordsLeadTo ==
  ASSUME NEW w \in W!Words
  PROVE  W!KeysOfWord[w] \in Seq(FallbackKeys)
<1>1. CASE w = "agree"
  BY <1>1 DEF W!KeysOfWord, W!Words, W!Plain, FallbackKeys
<1>2. CASE w = "pay"
  BY <1>2 DEF W!KeysOfWord, W!Words, W!Plain, FallbackKeys
<1>3. CASE w = "time zone"
  <2>1. W!KeysOfWord[w] = <<<<"time_zone", "none">>, <<"timezone", "none">>>>
    BY <1>3 DEF W!KeysOfWord, W!Words, W!Plain
  <2>2. <<"time_zone", "none">> \in FallbackKeys /\ <<"timezone", "none">> \in FallbackKeys
    BY DEF FallbackKeys
  <2> QED
    BY <2>1, <2>2, TwoInSeq
<1>4. CASE w = "work location"
  <2>1. W!KeysOfWord[w] = <<<<"work_location_preference", "none">>, <<"work_arrangement_nonlocal", "none">>>>
    BY <1>4 DEF W!KeysOfWord, W!Words, W!Plain
  <2>2. <<"work_location_preference", "none">> \in FallbackKeys /\ <<"work_arrangement_nonlocal", "none">> \in FallbackKeys
    BY DEF FallbackKeys
  <2> QED
    BY <2>1, <2>2, TwoInSeq
<1> QED
  BY <1>1, <1>2, <1>3, <1>4 DEF W!Words

LEMMA WordKeysLeadTo ==
  ASSUME NEW q, NEW w \in W!Words
  PROVE  W!WordKeys(q, w) \in Seq(FallbackKeys)
<1>1. W!KeysOfWord[w] \in Seq(FallbackKeys)
  BY WordsLeadTo
<1>2. << >> \in Seq(FallbackKeys)
  OBVIOUS
<1> QED
  BY <1>1, <1>2 DEF W!WordKeys

\* The keys that may answer a question.
LEMMA KeysOf ==
  ASSUME NEW q, NEW i \in DOMAIN W!KeysFor(q)
  PROVE  \/ W!KeysFor(q)[i] = <<q.field, "none">>
         \/ W!KeysFor(q)[i] = W!SharedKey(q)
         \/ W!KeysFor(q)[i] \in FallbackKeys
<1> DEFINE own    == W!Plain(q.field)
           shared == W!SharedKey(q)
           S      == FallbackKeys \cup {own, shared}
           agree  == W!WordKeys(q, "agree")
           pay    == W!WordKeys(q, "pay")
           zone   == W!WordKeys(q, "time zone")
           place  == W!WordKeys(q, "work location")
<1>1. W!KeysFor(q) = <<own, shared>> \o agree \o pay \o zone \o place
  BY DEF W!KeysFor
<1>2. /\ agree \in Seq(FallbackKeys) /\ pay \in Seq(FallbackKeys)
      /\ zone \in Seq(FallbackKeys) /\ place \in Seq(FallbackKeys)
  BY WordKeysLeadTo DEF W!Words
<1>3. own = <<q.field, "none">>
  BY DEF W!Plain
<1> HIDE DEF own, shared, agree, pay, zone, place
<1>4. /\ agree \in Seq(S) /\ pay \in Seq(S) /\ zone \in Seq(S) /\ place \in Seq(S)
      /\ <<own, shared>> \in Seq(S)
  <2> FallbackKeys \subseteq S /\ own \in S /\ shared \in S
    OBVIOUS
  <2> HIDE DEF S
  <2> QED
    BY <1>2
<1> HIDE DEF S
<1>5. <<own, shared>> \o agree \o pay \o zone \o place \in Seq(S)
  BY <1>4
<1>6. W!KeysFor(q)[i] \in S
  BY <1>1, <1>5
<1> QED
  BY <1>3, <1>6 DEF S, shared

\* The shared key of a question: of one that is scoped to a country, the country's.
LEMMA SharedKeys ==
  ASSUME NEW q
  PROVE  q.subject \in W!Scoped /\ q.country # "none" =>
           W!SharedKey(q) \in {<<"none", "none">>, <<"work_authorization", q.country>>,
                               <<"sponsorship", q.country>>, <<"citizenship", q.country>>}
<1>1. W!NoKey = <<"none", "none">>
  BY DEF W!NoKey, W!Plain
<1>2. W!SharedKey(q) = W!NoKey \/ W!SharedKey(q) = W!ClassifiedKey(q)
  BY DEF W!SharedKey
<1>3. ASSUME q.subject \in W!Scoped, q.country # "none"
      PROVE  W!ClassifiedKey(q) \in {<<"work_authorization", q.country>>,
                                     <<"sponsorship", q.country>>, <<"citizenship", q.country>>}
  BY <1>3 DEF W!ClassifiedKey, W!CountryKey, W!Scoped
<1> QED
  BY <1>1, <1>2, <1>3

\* Where what is filled comes from: what a key of the question holds, the rule on
\* earlier employment, or a rule that speaks of no country.
LEMMA PlanFrom ==
  ASSUME NEW q, NEW a \in W!FilledBy(W!Plan(q))
  PROVE  \/ \E i \in DOMAIN W!KeysFor(q) : \E scopes : a.from \in W!Records(W!KeysFor(q)[i], scopes)
         \/ q.subject = "prior" /\ a \in W!FilledBy({W!PriorAnswer(q)})
         \/ a.from.key \in {<<"voluntary_self_identification", "none">>, <<"terms_consent", "none">>}
<1> a.status = "fill" /\ a \in W!Plan(q)
  BY DEF W!FilledBy
<1>1. CASE W!FirstHits(q) # {}
  <2>1. PICK rec \in W!FirstHits(q) : a \in W!FromVault(q, rec)
    BY <1>1 DEF W!Plan
  <2>2. PICK i \in DOMAIN W!KeysFor(q) : rec \in W!Usable(q, W!KeysFor(q)[i])
    BY <2>1 DEF W!FirstHits
  <2>3. \E scopes : rec \in W!Records(W!KeysFor(q)[i], scopes)
    BY <2>2 DEF W!Usable
  <2>4. a.from = rec
    <3>1. a # W!Held(q)
      BY DEF W!Held
    <3>2. \E o : a = W!Filled(q, o, rec)
      BY <2>1, <3>1 DEF W!FromVault
    <3> QED
      BY <3>2 DEF W!Filled
  <2> QED
    BY <2>3, <2>4
<1>2. CASE W!FirstHits(q) = {} /\ (~W!Sensitive(q) /\ ~W!Legal(q) /\ q.subject = "prior")
  BY <1>2 DEF W!Plan, W!FilledBy
<1>3. CASE W!FirstHits(q) = {} /\ ~(~W!Sensitive(q) /\ ~W!Legal(q) /\ q.subject = "prior")
  <2>1. a # W!Held(q) /\ a # W!Left(q)
    BY DEF W!Held, W!Left
  <2>2. \/ a = W!Filled(q, "decline", W!Record("rule", W!Plain("voluntary_self_identification"), "decline"))
        \/ \E o : a = W!Filled(q, o, W!Record("rule", W!Plain("terms_consent"), "yes"))
    <3>1. CASE W!Declines(q)
      BY <1>3, <3>1 DEF W!Plan
    <3>2. CASE ~W!Declines(q) /\ (W!Legal(q) /\ W!Cardinality(q.options) = 1)
      BY <1>3, <3>2 DEF W!Plan
    <3>3. CASE ~W!Declines(q) /\ ~(W!Legal(q) /\ W!Cardinality(q.options) = 1)
      BY <1>3, <2>1, <3>3 DEF W!Plan
    <3> QED
      BY <3>1, <3>2, <3>3
  <2> QED
    BY <2>2 DEF W!Filled, W!Record, W!Plain
<1> QED
  BY <1>1, <1>2, <1>3

\* In any state of the vault and the profile.
LEMMA CountriesApart ==
  ASSUME FieldsAreTheEmployers
  PROVE  W!CountryKept
<1> SUFFICES ASSUME NEW q \in Questions, q.subject \in W!Scoped, q.country # "none",
                    NEW a \in W!FilledBy(W!Plan(q))
             PROVE  W!About(a.from.key) \in {q.country, "none"}
  BY DEF W!CountryKept
<1>1. ASSUME NEW i \in DOMAIN W!KeysFor(q), NEW scopes, a.from \in W!Records(W!KeysFor(q)[i], scopes)
      PROVE  W!About(a.from.key) \in {q.country, "none"}
  <2> DEFINE k == W!KeysFor(q)[i]  j == a.from.key
  <2>1. \/ k = <<q.field, "none">> \/ k = W!SharedKey(q)
        \/ k \in FallbackKeys
    BY KeysOf
  <2>2. q.field \notin {"work_authorization", "sponsorship", "citizenship", "located_in_canada"}
    BY DEF FieldsAreTheEmployers
  <2>3. j = k \/ k \in W!Aliases(j)
    BY <1>1, RecordsFor
  <2> HIDE DEF k, j
  <2>4. \/ k = <<q.field, "none">>
        \/ k \in {<<"none", "none">>, <<"work_authorization", q.country>>,
                  <<"sponsorship", q.country>>, <<"citizenship", q.country>>}
        \/ k \in FallbackKeys
    BY <2>1, SharedKeys
  <2>5. CASE j = k
    BY <2>2, <2>4, <2>5 DEF W!About, j, FallbackKeys
  <2>6. CASE k \in W!Aliases(j)
    <3>1. \/ q.country = "ca" /\ j \in {<<"work_authorization", "ca">>, <<"work_authorization", "none">>,
                      <<"sponsorship", "ca">>, <<"sponsorship", "none">>,
                      <<"citizenship", "ca">>, <<"citizenship", "none">>,
                      <<"located_in_canada", "none">>}
          \/ j \in {<<"terms_consent", "none">>, <<"agreement_consent", "none">>,
                      <<"salary_acceptance", "none">>}
      BY <2>2, <2>4, <2>6, AliasesJoin DEF FallbackKeys
    <3> QED
      BY <3>1 DEF W!About, j
  <2> QED
    BY <2>3, <2>5, <2>6
<1>2. ASSUME a.from.key \in {<<"voluntary_self_identification", "none">>, <<"terms_consent", "none">>}
      PROVE  W!About(a.from.key) \in {q.country, "none"}
  BY <1>2 DEF W!About
<1>3. q.subject # "prior"
  BY DEF W!Scoped
<1> QED
  BY <1>1, <1>2, <1>3, PlanFrom

\* Whatever the owner stores and verifies, no country is answered for by what was said
\* about another, through scopes, aliases, facts and their defaults
\* (greenhouse_form._country_scoped, vault_store.load_vault).
THEOREM CountriesStayApart ==
  ASSUME FieldsAreTheEmployers
  PROVE  PlatformSpec => []CountryKept
<1>1. CountryKept
  BY CountriesApart DEF CountryKept
<1> QED
  BY <1>1, PTL

-----------------------------------------------------------------------------
(* The filling *)

\* A set of numbers that is not empty has a least one.
LEMMA LeastOne ==
  ASSUME NEW S \in SUBSET Nat, S # {}
  PROVE  \E x \in S : \A y \in S : x <= y
<1> DEFINE R == StrictSubsetOrdering(Nat)  T == {0..x : x \in S}
<1>1. IsWellFoundedOn(R, FiniteSubsetsOf(Nat))
  BY FS_StrictSubsetOrderingWellFounded
<1>2. T \subseteq FiniteSubsetsOf(Nat) /\ T # {}
  <2>1. ASSUME NEW x \in S PROVE 0..x \in FiniteSubsetsOf(Nat)
    <3>1. x \in Nat /\ 0 \in Int /\ x \in Int
      OBVIOUS
    <3>2. IsFiniteSet(0..x)
      BY <3>1, FS_Interval
    <3>3. 0..x \subseteq Nat
      BY <3>1
    <3> QED
      BY <3>2, <3>3 DEF FiniteSubsetsOf
  <2> QED
    BY <2>1
<1>3. \E t \in T : \A u \in T : ~(<<u, t>> \in R)
  <2> HIDE DEF R, T
  <2> QED
    BY <1>1, <1>2, WFMin
<1>4. PICK x \in S : \A y \in S : ~(<<0..y, 0..x>> \in R)
  <2> HIDE DEF R
  <2> QED
    BY <1>3
<1>5. ASSUME NEW y \in S PROVE x <= y
  <2>1. x \in Nat /\ y \in Nat /\ ~(<<0..y, 0..x>> \in R)
    BY <1>4
  <2>2. ASSUME y < x PROVE FALSE
    <3>1. 0..y \subseteq 0..x /\ x \in 0..x /\ x \notin 0..y
      BY <2>1, <2>2
    <3>2. 0..y # 0..x /\ 0..y \in SUBSET Nat /\ 0..x \in SUBSET Nat
      BY <2>1, <3>1
    <3> QED
      BY <2>1, <3>1, <3>2 DEF StrictSubsetOrdering
  <2> QED
    BY <2>1, <2>2
<1> QED
  BY <1>5

\* Min is in its set, and the place that is found is one of the places.
LEMMA MinIsIn ==
  ASSUME NEW S \in SUBSET Nat, S # {}
  PROVE  B!Min(S) \in S
  BY LeastOne DEF B!Min

LEMMA LocatedIsPlace ==
  ASSUME PlansAreLists, DOMAIN sheet \subseteq Nat, NEW key, NEW value, B!Places(key, value) # {}
  PROVE  B!Located(key, value) \in B!Places(key, value)
<1> DEFINE P == B!Places(key, value)  S == {B!Weight(p) : p \in P}
<1>1. DOMAIN B!Search \subseteq Nat
  BY DEF B!Search
<1>2. ASSUME NEW p \in P PROVE B!Weight(p) \in Nat
  <2>1. p[1] \in Nat /\ p[2] \in Nat /\ p[3] \in Nat
    BY <1>1 DEF B!Places, PlansAreLists
  <2> QED
    BY <2>1 DEF B!Weight
<1> HIDE DEF P
<1>3. S \in SUBSET Nat /\ S # {}
  BY <1>2 DEF P
<1>4. \E x \in S : \A y \in S : x <= y
  <2> HIDE DEF S
  <2> QED
    BY <1>3, LeastOne
<1>5. \E p \in P : \A q \in P : B!Weight(p) <= B!Weight(q)
  BY <1>4
<1> QED
  BY <1>5 DEF B!Located, P

\* A value is no blank, and what fits it is none.
LEMMA ValuesSay ==
  ASSUME TextsSaySomething, NEW value \in FieldValues, value # ""
  PROVE  /\ value \notin B!Blank
         /\ \A text : B!Fits(value, text) => text \notin B!Blank
<1>1. value \notin B!Blank
  BY DEF TextsSaySomething
<1>2. ASSUME NEW text, B!Fits(value, text) PROVE text \notin B!Blank
  <2>1. CASE text = value
    BY <1>1, <2>1
  <2>2. CASE <<value, text>> \in Within
    <3>1. <<value, text>>[2] \notin B!Blank
      BY <2>2 DEF TextsSaySomething
    <3> QED
      BY <3>1
  <2>3. CASE <<text, value>> \in Within
    <3>1. <<text, value>>[1] \notin B!Blank
      BY <2>3 DEF TextsSaySomething
    <3> QED
      BY <3>1
  <2> QED
    BY <1>2, <2>1, <2>2, <2>3 DEF B!Fits
<1> QED
  BY <1>1, <1>2

LEMMA ChosenSays ==
  ASSUME NEW options \in Seq(STRING), NEW value, value \notin B!Blank,
         \A text : B!Fits(value, text) => text \notin B!Blank,
         \A j \in DOMAIN options : options[j] \notin B!Blank \/ options[j] = "select",
         B!SelectOption(options, value) # {}
  PROVE  B!SelectOption(options, value) \ B!Blank # {}
<1> DEFINE equal   == {j \in DOMAIN options : options[j] = value}
           fitting == {j \in DOMAIN options : B!Fits(value, options[j])}
           real    == {j \in fitting : options[j] \notin B!Blank}
           texts   == {options[j] : j \in real}
           partly  == {j \in DOMAIN options : B!Fits(value, options[j]) \/ options[j] = ""}
<1>1. DOMAIN options \in SUBSET Nat
  OBVIOUS
<1>2. equal \in SUBSET Nat /\ partly \in SUBSET Nat
  BY <1>1
<1>3. CASE equal # {}
  <2>1. B!SelectOption(options, value) = {options[B!Min(equal)]}
    BY <1>3 DEF B!SelectOption
  <2>2. B!Min(equal) \in equal
    <3> HIDE DEF equal
    <3> QED
      BY <1>2, <1>3, MinIsIn
  <2> QED
    BY <2>1, <2>2
<1>4. CASE equal = {} /\ B!Cardinality(texts) = 1
  <2>1. B!SelectOption(options, value) = texts
    BY <1>4 DEF B!SelectOption
  <2> QED
    BY <2>1
<1>5. CASE equal = {} /\ B!Cardinality(texts) # 1
  <2>1. B!SelectOption(options, value) = IF partly = {} THEN {} ELSE {options[B!Min(partly)]}
    BY <1>5 DEF B!SelectOption
  <2>2. partly # {}
    BY <2>1
  <2>3. B!Min(partly) \in partly
    <3> HIDE DEF partly
    <3> QED
      BY <1>2, <2>2, MinIsIn
  <2>4. options[B!Min(partly)] \notin B!Blank
    BY <2>3 DEF B!Blank
  <2> QED
    BY <2>1, <2>2, <2>4
<1> QED
  BY <1>3, <1>4, <1>5

LEMMA WroteFields ==
  ASSUME NEW w, NEW held, NEW matched, w = B!Wrote(held, matched)
  PROVE  w.held = held /\ w.matched = matched
  BY DEF B!Wrote

LEMMA WroteTrue ==
  ASSUME NEW held, NEW w, w = B!Wrote(held, TRUE)
  PROVE  w.held = held
<1>1. \E m : w = B!Wrote(held, m)
  BY Zenon
<1> QED
  BY <1>1, WroteFields

LEMMA WroteFalse ==
  ASSUME NEW held, NEW w, w = B!Wrote(held, FALSE)
  PROVE  ~w.matched
<1>1. \E m : ~m /\ w = B!Wrote(held, m)
  BY Zenon
<1>2. PICK m : ~m /\ w = B!Wrote(held, m)
  BY <1>1
<1>3. w.matched = m
  BY <1>2, WroteFields
<1> QED
  BY <1>2, <1>3

LEMMA FirstOne ==
  ASSUME NEW options \in Seq(STRING)
  PROVE  DOMAIN options \in SUBSET Nat /\ (options # << >> => 1 \in DOMAIN options)
  OBVIOUS

LEMMA GroupSays ==
  ASSUME NEW options \in Seq(STRING), NEW step, NEW value, options # << >>
  PROVE  \E j \in DOMAIN options : B!GroupOption(options, step, value) = options[j]
<1> DEFINE fitting == {j \in DOMAIN options : B!Fits(value, options[j])}
<1>1. fitting \in SUBSET Nat /\ 1 \in DOMAIN options
  BY FirstOne
<1>2. fitting # {} => B!Min(fitting) \in fitting
  <2> HIDE DEF fitting
  <2> QED
    BY <1>1, MinIsIn
<1> QED
  BY <1>1, <1>2 DEF B!GroupOption

\* A combobox holds the value or an option.
ValueOrOption(held, value, options) == held = {value} \/ \E j \in DOMAIN options : held = {options[j]}

LEMMA ComboSays ==
  ASSUME NEW key, NEW i, NEW value,
         NEW options, options \in Seq(STRING), options = sheet[i].options,
         NEW wrote, wrote = B!WriteCombo(key, i, value)
  PROVE  ValueOrOption(wrote.held, value, options)
<1> DEFINE fitting == {j \in DOMAIN options : B!Fits(value, options[j])}
           equal   == {j \in fitting : options[j] = value}
           longer  == {j \in fitting : <<value, options[j]>> \in Within}
           best == IF equal # {} THEN options[B!Min(equal)]
                   ELSE IF longer # {} THEN options[B!Min(longer)]
                   ELSE IF fitting # {} THEN options[B!Min(fitting)]
                   ELSE IF options = << >> \/ key \in LocationKeys THEN value
                   ELSE options[1]
<1>1. DOMAIN options \in SUBSET Nat /\ (options # << >> => 1 \in DOMAIN options)
  BY FirstOne
<1>2. ASSUME NEW S \in SUBSET fitting, S # {} PROVE B!Min(S) \in DOMAIN options
  <2>1. S \in SUBSET Nat
    BY <1>1
  <2>2. B!Min(S) \in S
    BY <1>2, <2>1, MinIsIn
  <2> QED
    BY <2>2
<1>3. equal \in SUBSET fitting /\ longer \in SUBSET fitting /\ fitting \in SUBSET fitting
  OBVIOUS
<1>4. best = value \/ \E j \in DOMAIN options : best = options[j]
  <2> HIDE DEF equal, longer, fitting
  <2> QED
    BY <1>1, <1>2, <1>3
<1>5. wrote = B!Wrote({best}, key \in LocationKeys \/ B!Fits(value, best))
  BY DEF B!WriteCombo
<1> HIDE DEF best
<1>6. \E m : wrote = B!Wrote({best}, m)
  BY <1>5, Zenon
<1>7. wrote.held = {best}
  BY <1>6, WroteFields
<1> QED
  BY <1>4, <1>7 DEF ValueOrOption

\* Nothing is read back as matched from a box that dropped what was typed.
LEMMA DroppedFails ==
  ASSUME NoAnswerAround, NEW key \in B!Keys, NEW value \in FieldValues, value # "",
         NEW i, "dropping" \in FieldKinds, sheet[i].options \in FieldOptions["dropping"],
         NEW wrote, wrote = B!WriteDropping(key, i, value)
  PROVE  ~wrote.matched
<1>1. key \notin LocationKeys
  BY DEF NoAnswerAround
<1>2. \A text \in B!Elements(sheet[i].options) : ~B!Fits(value, text)
  BY DEF NoAnswerAround, B!Elements
<1>3. \E m : ~m /\ wrote = B!Wrote({}, m)
  <2> DEFINE m == key \in LocationKeys \/ \E text \in B!Elements(sheet[i].options) : B!Fits(value, text)
  <2>1. wrote = B!Wrote({}, m)
    BY DEF B!WriteDropping
  <2>2. ~m
    BY <1>1, <1>2
  <2> HIDE DEF m
  <2> QED
    BY <2>1, <2>2, Zenon
<1>4. PICK m : ~m /\ wrote = B!Wrote({}, m)
  BY <1>3
<1>5. wrote.matched = m
  BY <1>4, WroteFields
<1> QED
  BY <1>4, <1>5

\* What is written says something wherever it is read back as matched.
LEMMA WrittenSays ==
  ASSUME TextsSaySomething, NoAnswerAround, NEW i \in DOMAIN sheet, sheet[i] \in B!Field, sheet[i].kind # "file",
         NEW key \in B!Keys, NEW value \in FieldValues, value # "", NEW step,
         NEW wrote, wrote = B!Write(key, i, step, value)
  PROVE  wrote.matched => sheet[i].kind = "checks" \/ wrote.held \ B!Blank # {}
<1>1. PICK kind \in FieldKinds : sheet[i] \in [kind : {kind}, options : FieldOptions[kind], frame : Frames, way : B!WaysTo(kind)]
  BY DEF B!Field
<1>2. sheet[i].kind = kind /\ sheet[i].options \in FieldOptions[kind]
  BY <1>1
<1>3. PICK options : options = sheet[i].options
  OBVIOUS
<1>4. /\ options \in Seq(STRING) /\ (kind \in {"select", "radio"} => options # << >>)
      /\ \A j \in DOMAIN options : options[j] \notin B!Blank \/ (kind = "select" /\ options[j] = "select")
  BY <1>2, <1>3 DEF TextsSaySomething
<1>5. value \notin B!Blank /\ \A text : B!Fits(value, text) => text \notin B!Blank
  BY ValuesSay
<1>6. CASE kind = "select"
  <2>1. wrote = B!WriteSelect(i, value)
    BY <1>2, <1>6 DEF B!Write
  <2>2. CASE B!SelectOption(options, value) = {}
    <3>1. wrote = B!Wrote(dom[i], FALSE)
      BY <1>3, <2>1, <2>2 DEF B!WriteSelect
    <3>2. ~wrote.matched
      BY <3>1, WroteFalse
    <3> QED
      BY <3>2
  <2>3. CASE B!SelectOption(options, value) # {}
    <3>1. wrote = B!Wrote(B!SelectOption(options, value), TRUE)
      BY <1>3, <2>1, <2>3 DEF B!WriteSelect
    <3>2. wrote.held = B!SelectOption(options, value)
      BY <3>1, WroteTrue
    <3> QED
      BY <1>4, <1>5, <2>3, <3>2, ChosenSays
  <2> QED
    BY <2>2, <2>3
<1>7. CASE kind = "radio"
  <2>1. wrote = B!Wrote({B!GroupOption(options, step, value)}, TRUE)
    BY <1>2, <1>3, <1>7 DEF B!Write
  <2>2. wrote.held = {B!GroupOption(options, step, value)}
    BY <2>1, WroteTrue
  <2>3. \E j \in DOMAIN options : B!GroupOption(options, step, value) = options[j]
    BY <1>4, <1>7, GroupSays
  <2> QED
    BY <1>4, <1>7, <2>2, <2>3
<1>8. CASE kind = "combo"
  <2>1. wrote = B!WriteCombo(key, i, value)
    BY <1>2, <1>8 DEF B!Write
  <2>2. ValueOrOption(wrote.held, value, options)
    BY <1>3, <1>4, <2>1, ComboSays
  <2>3. wrote.held = {value} \/ \E j \in DOMAIN options : wrote.held = {options[j]}
    BY <2>2 DEF ValueOrOption
  <2> QED
    BY <1>4, <1>5, <1>8, <2>3
<1>9. CASE kind = "dropping"
  <2>1. wrote = B!WriteDropping(key, i, value)
    BY <1>2, <1>9 DEF B!Write
  <2>2. ~wrote.matched
    BY <1>2, <1>9, <2>1, DroppedFails
  <2> QED
    BY <2>2
<1>10. CASE kind \notin {"select", "radio", "combo", "dropping", "checks"}
  <2>1. wrote = B!Wrote({value}, TRUE)
    BY <1>2, <1>10 DEF B!Write
  <2>2. wrote.held = {value}
    BY <2>1, WroteTrue
  <2> QED
    BY <1>5, <2>2
<1> QED
  BY <1>2, <1>6, <1>7, <1>8, <1>9, <1>10

\* A file's input is a field of the page.
LEMMA InputIsField ==
  ASSUME PlansAreLists, DOMAIN sheet \subseteq Nat, NEW key, B!FileInputs(key) # {}
  PROVE  B!Min(B!FileInputs(key)) \in DOMAIN sheet
<1> DEFINE inputs(fr) == {i \in DOMAIN sheet : sheet[i].kind = "file" /\ sheet[i].frame = fr}
           named(fr)  == {i \in inputs(fr) : sheet[i].way[key] # "none"}
           found(fr)  == IF named(fr) # {} THEN named(fr)
                         ELSE IF B!Cardinality(inputs(fr)) = 1 THEN inputs(fr) ELSE {}
           with       == {fr \in Frames : found(fr) # {}}
<1>1. \A fr : found(fr) \subseteq DOMAIN sheet
  OBVIOUS
<1>2. B!FileInputs(key) = IF with = {} THEN {} ELSE found(B!Min(with))
  BY DEF B!FileInputs
<1>3. B!FileInputs(key) \subseteq DOMAIN sheet
  <2> HIDE DEF found, with
  <2> QED
    BY <1>1, <1>2
<1>4. B!FileInputs(key) \in SUBSET Nat
  BY <1>3
<1>5. B!Min(B!FileInputs(key)) \in B!FileInputs(key)
  BY <1>4, MinIsIn
<1> QED
  BY <1>3, <1>5

\* The fields and the plan stay what they are; where nothing is unmatched every key
\* of the report was written to a field, and that field is not blank.
FillType ==
  /\ \E n \in Nat : sheet \in [1..n -> B!Field]
  /\ plan.answers \in [B!Keys -> FieldValues] /\ plan.files \subseteq B!Files
  /\ DOMAIN dom = DOMAIN sheet /\ at \in Nat \ {0}

Reported(key) ==
  /\ report[key].field \in DOMAIN sheet
  /\ sheet[report[key].field].kind = "checks" \/ dom[report[key].field] \ B!Blank # {}

FillInv ==
  /\ FillType
  /\ unmatched = {} => \A key \in DOMAIN report : Reported(key)
  /\ phase = "pressed" => unmatched = {} /\ Required \subseteq DOMAIN report

LEMMA FillBegins == ASSUME PlansAreLists, B!Init PROVE FillInv
<1>1. \E n \in Nat : sheet \in [1..n -> B!Field]
  BY DEF B!Init, PlansAreLists
<1>2. DOMAIN dom = DOMAIN sheet /\ at = 1 /\ report = << >> /\ phase = "answers"
  BY DEF B!Init
<1>3. plan.answers \in [B!Keys -> FieldValues] /\ plan.files \subseteq B!Files
  BY DEF B!Init
<1> QED
  BY <1>1, <1>2, <1>3 DEF FillInv, FillType

\* What a key writes into a field leaves no field blank.
LEMMA WriteKeeps ==
  ASSUME FillType, \A k \in DOMAIN report : Reported(k),
         NEW key, NEW i \in DOMAIN sheet, NEW held, NEW matched,
         sheet' = sheet, dom' = [dom EXCEPT ![i] = held], report' = B!Report(key, i, matched),
         sheet[i].kind = "checks" \/ held \ B!Blank # {}
  PROVE  \A k \in DOMAIN report' : Reported(k)'
<1>1. /\ DOMAIN report' = DOMAIN report \cup {key} /\ report'[key].field = i
      /\ \A k \in DOMAIN report : k # key => report'[k] = report[k]
  BY DEF B!Report
<1>2. dom'[i] = held /\ \A j \in DOMAIN sheet : j # i => dom'[j] = dom[j]
  BY DEF FillType
<1> SUFFICES ASSUME NEW k \in DOMAIN report' PROVE Reported(k)'
  OBVIOUS
<1>3. CASE k = key
  BY <1>1, <1>2, <1>3 DEF Reported
<1>4. CASE k # key
  <2>1. k \in DOMAIN report /\ report'[k] = report[k]
    BY <1>1, <1>4
  <2>2. Reported(k)
    BY <2>1
  <2>3. CASE report[k].field = i
    BY <1>2, <2>1, <2>2, <2>3 DEF Reported
  <2>4. CASE report[k].field # i
    BY <1>2, <2>1, <2>2, <2>4 DEF Reported
  <2> QED
    BY <2>3, <2>4
<1> QED
  BY <1>3, <1>4

LEMMA AnswerKeeps ==
  ASSUME TextsSaySomething, NoAnswerAround, PlansAreLists, FillInv, B!FillAnswer
  PROVE  FillInv'
<1> DEFINE key == Order[at]
           value == plan.answers[Order[at]]
<1>1. /\ phase = "answers" /\ phase' = "answers" /\ at' = at + 1 /\ sheet' = sheet /\ plan' = plan
      /\ at <= Len(Order)
  BY DEF B!FillAnswer
<1>2. PICK n \in Nat : sheet \in [1..n -> B!Field]
  BY DEF FillInv, FillType
<1>3. DOMAIN sheet \subseteq Nat /\ at \in Nat \ {0} /\ DOMAIN dom = DOMAIN sheet
  BY <1>2 DEF FillInv, FillType
<1>4. key \in B!Keys
  BY <1>1, <1>3 DEF PlansAreLists, B!Keys, B!Elements
<1>5. value \in FieldValues
  BY <1>4 DEF FillInv, FillType
<1> HIDE DEF key, value
<1>6. CASE ~(value # "" /\ B!Places(key, value) # {})
  <2>1. dom' = dom /\ ((report' = report /\ unmatched' = unmatched) \/ unmatched' # {})
    BY <1>6 DEF B!FillAnswer, key, value
  <2> QED
    BY <1>1, <1>3, <2>1 DEF FillInv, FillType, Reported
<1>7. CASE value # "" /\ B!Places(key, value) # {}
  <2> DEFINE place == B!Located(key, value)
             wrote == B!Write(key, place[3], place[2], value)
             written == [dom EXCEPT ![place[3]] = wrote.held]
  <2>1. \/ /\ dom' = written /\ report' = B!Report(key, place[3], wrote.matched)
           /\ unmatched' = IF wrote.matched THEN unmatched ELSE unmatched \cup {key}
        \/ dom' \in {dom, written} /\ unmatched' = unmatched \cup {key}
    BY <1>7 DEF B!FillAnswer, key, value
  <2>2. place \in B!Places(key, value)
    BY <1>3, <1>7, LocatedIsPlace
  <2>3. place[3] \in DOMAIN sheet /\ sheet[place[3]].kind # "file"
    BY <2>2 DEF B!Places, B!Leads
  <2>4. sheet[place[3]] \in B!Field
    BY <1>2, <2>3
  <2>5. wrote.matched => sheet[place[3]].kind = "checks" \/ wrote.held \ B!Blank # {}
    <3> HIDE DEF place, written
    <3> QED
      BY <1>4, <1>5, <1>7, <2>3, <2>4, WrittenSays
  <2> HIDE DEF place, wrote
  <2>6. DOMAIN dom' = DOMAIN sheet
    BY <1>3, <2>1
  <2>7. FillType'
    BY <1>1, <1>3, <2>6 DEF FillInv, FillType
  <2>8. ASSUME unmatched' = {} PROVE \A k \in DOMAIN report' : Reported(k)'
    <3>1. /\ dom' = [dom EXCEPT ![place[3]] = wrote.held]
          /\ report' = B!Report(key, place[3], wrote.matched)
          /\ wrote.matched /\ unmatched = {}
      BY <2>1, <2>8
    <3>2. \A k \in DOMAIN report : Reported(k)
      BY <3>1 DEF FillInv
    <3>3. sheet[place[3]].kind = "checks" \/ wrote.held \ B!Blank # {}
      BY <2>5, <3>1
    <3>4. FillType
      BY DEF FillInv
    <3> QED
      BY <1>1, <2>3, <3>1, <3>2, <3>3, <3>4, WriteKeeps
  <2> QED
    BY <1>1, <2>7, <2>8 DEF FillInv
<1> QED
  BY <1>6, <1>7

LEMMA AttachKeeps ==
  ASSUME TextsSaySomething, PlansAreLists, FillInv, B!AttachFile
  PROVE  FillInv'
<1> DEFINE key == FileOrder[at]
<1>1. /\ phase = "files" /\ phase' = "files" /\ at' = at + 1 /\ sheet' = sheet /\ plan' = plan
  BY DEF B!AttachFile
<1>2. DOMAIN sheet \subseteq Nat /\ at \in Nat \ {0} /\ DOMAIN dom = DOMAIN sheet
  <2>1. PICK n \in Nat : sheet \in [1..n -> B!Field]
    BY DEF FillInv, FillType
  <2> QED
    BY <2>1 DEF FillInv, FillType
<1> HIDE DEF key
<1>3. CASE dom' = dom /\ ((report' = report /\ unmatched' = unmatched) \/ unmatched' # {})
  BY <1>1, <1>2, <1>3 DEF FillInv, FillType, Reported
<1>4. CASE ~(dom' = dom /\ ((report' = report /\ unmatched' = unmatched) \/ unmatched' # {}))
  <2>1. key \in plan.files /\ B!FileInputs(key) # {}
    BY <1>4 DEF B!AttachFile, key
  <2> DEFINE i == B!Min(B!FileInputs(key))
  <2>2. dom' = [dom EXCEPT ![i] = {key}] /\ report' = B!Report(key, i, TRUE) /\ unmatched' = unmatched
    BY <2>1 DEF B!AttachFile, key
  <2>3. i \in DOMAIN sheet
    BY <1>2, <2>1, InputIsField
  <2>4. {key} \ B!Blank # {}
    BY <2>1 DEF FillInv, FillType, TextsSaySomething
  <2> HIDE DEF i
  <2>5. FillType'
    BY <1>1, <1>2, <2>2 DEF FillInv, FillType
  <2>6. ASSUME unmatched' = {} PROVE \A k \in DOMAIN report' : Reported(k)'
    <3>1. FillType /\ \A k \in DOMAIN report : Reported(k)
      BY <2>2, <2>6 DEF FillInv
    <3>2. \E m : report' = B!Report(key, i, m)
      BY <2>2, Zenon
    <3>3. PICK m : report' = B!Report(key, i, m)
      BY <3>2
    <3> QED
      BY <1>1, <2>2, <2>3, <2>4, <3>1, <3>3, WriteKeeps
  <2> QED
    BY <1>1, <2>5, <2>6 DEF FillInv
<1> QED
  BY <1>3, <1>4

LEMMA FillKeeps ==
  ASSUME TextsSaySomething, NoAnswerAround, PlansAreLists, FillInv, [B!Next]_B!vars
  PROVE  FillInv'
<1>1. CASE UNCHANGED B!vars
  BY <1>1 DEF B!vars, FillInv, FillType, Reported
<1>2. CASE B!FilesNext
  BY <1>2 DEF B!FilesNext, FillInv, FillType, Reported
<1>3. CASE B!Fault
  BY <1>3 DEF B!Fault, FillInv, FillType, Reported
<1>4. CASE B!VerifyAndSubmit
  <2>1. /\ sheet' = sheet /\ plan' = plan /\ at' = at /\ dom' = dom /\ report' = report
        /\ unmatched' = unmatched \cup B!Missing
        /\ phase' = "pressed" => unmatched' = {}
    BY <1>4 DEF B!VerifyAndSubmit
  <2>2. unmatched' = {} => unmatched = {} /\ Required \subseteq DOMAIN report
    BY <2>1 DEF B!Missing, B!Matched
  <2> QED
    BY <2>1, <2>2 DEF FillInv, FillType, Reported
<1> QED
  BY <1>1, <1>2, <1>3, <1>4, AnswerKeeps, AttachKeeps DEF B!Next

\* When Submit is pressed no required field is blank, whatever led the keys to their
\* fields, in whatever order they wrote and whichever write failed, as long as no text
\* around a field reads as its answer (fill_application_form).
THEOREM NothingStaysBlank ==
  ASSUME TextsSaySomething, NoAnswerAround, PlansAreLists
  PROVE  PlatformSpec => []NothingRequiredIsBlank
<1> DEFINE Inv == part = "filling" => FillInv
<1>1. PlatformInit => Inv
  BY OnePartBegins, FillBegins
<1>2. Inv /\ [PlatformNext]_platformVars => Inv'
  BY OnePartMoves, FillKeeps
<1>3. Inv => NothingRequiredIsBlank
  <2>1. ASSUME FillInv, phase = "pressed", NEW key \in Required
        PROVE  /\ key \in DOMAIN report /\ report[key].field # 0
               /\ \/ sheet[report[key].field].kind = "checks"
                  \/ dom[report[key].field] \ B!Blank # {}
    <3>1. key \in DOMAIN report /\ Reported(key)
      BY <2>1 DEF FillInv
    <3>2. PICK n \in Nat : sheet \in [1..n -> B!Field]
      BY <2>1 DEF FillInv, FillType
    <3>3. 0 \notin DOMAIN sheet
      BY <3>2
    <3> QED
      BY <3>1, <3>3 DEF Reported
  <2> QED
    BY <2>1 DEF NothingRequiredIsBlank, B!NothingRequiredIsBlank
<1> QED
  BY <1>1, <1>2, <1>3, PTL DEF PlatformSpec

===============================================================================
