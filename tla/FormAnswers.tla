----------------------------- MODULE FormAnswers -----------------------------
(***************************************************************************)
(* What is written into a field of an application form, and on whose word. *)
(* Three paths answer the same question:                                   *)
(*   form       form_engine.plan_fill over vault_store.load_vault, for the *)
(*              dry runs of the pipeline;                                  *)
(*   book       knowledge_book.resolve_answers with the truth guard, for   *)
(*              the autonomous runner;                                     *)
(*   extension  autofill_api.evaluate_form_fields, for the browser.        *)
(* Questions, keys and values are reduced to what tells them apart; the    *)
(* text patterns that recognise a question are the fields of its record.   *)
(***************************************************************************)
EXTENDS FiniteSets, Integers, Sequences, Functions

CONSTANTS
    Questions,      \* the questions a form may ask, see Question
    Stored,         \* the keys that answers are stored under, see Keys
    Statements,     \* what is stored: value, source and confidence
    Scopes,         \* the scopes of a posting, least specific first
    Facts,          \* what the verified profile may say, see FactNames
    Employers,      \* the owner's employers, the latest first
    HistoryLimit,   \* employers that profile_answers hands on (10)
    Alike,          \* looks_like, on employers
    SeedKeys,       \* the keys of the seed file and of the master policy
    MaxRows         \* bound: stored answers

Countries == {"ca", "us"}
Options   == {"yes", "no", "agree", "decline", "other"}
Values    == {"yes", "no", "decline", "other", "blank"}

\* What a question is about: the groups of QUESTION_CATALOG, each reduced to what is
\* told apart here, and what the catalog does not know.
Scoped      == {"authorization", "sponsorship", "citizenship"}
Eligibility == Scoped \cup {"clearance"}
Permissions == {"consent", "background"}
Pay         == {"pay"}
Conditions  == {"relocation"}
Experience  == {"experience"}
Contacts    == {"prior"}
Voluntary   == {"gender"}
Practice    == {"residence"}
Subjects    == Eligibility \cup Permissions \cup Pay \cup Conditions \cup Experience \cup Contacts
                  \cup Voluntary \cup Practice \cup {"conviction", "cpa", "degree", "plain"}

\* The label and the control of a field: what it asks, about which country or
\* employer, whether it also certifies or agrees, the words in it that have keys of
\* their own, what may be chosen, its key.  "own" is the country the candidate lives in.
Places   == Countries \cup {"own", "none"}
Words    == {"agree", "pay", "time zone", "work location"}
Question == [ subject : Subjects, country : Places, employer : STRING,
              certified : BOOLEAN, words : SUBSET Words, required : BOOLEAN,
              options : SUBSET Options, field : STRING ]

\* A key of the vault: what it is about and the country its name ends in.
Plain(k)  == <<k, "none">>
NoKey     == Plain("none")
Keys      == STRING \X Places

\* The keys that a word of the label leads to, in the order they are tried.
KeysOfWord ==
    [ w \in Words |->
        CASE w = "agree"     -> <<Plain("terms_consent"), Plain("agreement_consent"), Plain("general_consent")>>
          [] w = "pay"       -> <<Plain("salary_expectation"), Plain("desired_salary"), Plain("compensation_expectation")>>
          [] w = "time zone" -> <<Plain("time_zone"), Plain("timezone")>>
          [] OTHER           -> <<Plain("work_location_preference"), Plain("work_arrangement_nonlocal")>> ]

\* Verified facts: authorized in a country or not, sponsorship needed there or not, a
\* credential.
FactNames == ({"authorized", "barred", "sponsored", "unsponsored"} \X Countries)
                \cup {Plain("cpa"), Plain("clearance")}

Levels  == {"full", "fair", "low"}              \* 1.0, at least 0.8, less
Sources == {"user", "policy", "resume", "generated"}
Nothing == [kind |-> "none"]

\* What the constants have to be (assumed by Platform of its instance).
AnswersAssumption ==
    /\ Questions \subseteq Question
    /\ Stored \subseteq Keys /\ SeedKeys \subseteq Stored
    /\ Statements \subseteq [value : Values, source : Sources, level : Levels]
    /\ Scopes \in Seq(STRING) /\ Scopes # <<>>
    /\ Employers \in Seq(STRING) /\ HistoryLimit \in Nat
    /\ Facts \subseteq FactNames
    /\ MaxRows \in Nat

VARIABLES
    rows,       \* AnswerPolicy: what is stored under a key in a scope
    facts,      \* what the verified profile says
    worked,     \* the employers whose employment facts are verified
    seeding     \* the entry that seed_answer_vault_from_policy has found missing

vars == <<rows, facts, worked, seeding>>

Row == [key : Stored, scope : Range(Scopes), said : Statements]

TypeOK ==
    /\ rows \subseteq Row
    /\ \A a, b \in rows : a.key = b.key /\ a.scope = b.scope => a = b
    /\ facts \subseteq Facts
    /\ worked \subseteq Range(Employers)
    /\ seeding \subseteq SeedKeys

Init == rows = {} /\ facts = {} /\ worked = {} /\ seeding = {}

-----------------------------------------------------------------------------
(* What a label means                                                      *)

\* LEGAL_PATTERNS: consents, certifications, criminal records, background checks.
Legal(q) == q.certified \/ q.subject \in {"consent", "background", "conviction"}

\* Sensitive keys, voluntary sections and the words of AUTH and SENSITIVE_PATTERNS.
Sensitive(q) == q.subject \in Scoped \cup {"background", "gender", "clearance"}

GlobalKey(base, c) == Plain(base)

\* country_scoped: no country, no shared key; what is asked about the country of
\* residence has a key of its own.
CountryKey(base, c) == IF c = "none" THEN NoKey ELSE <<base, c>>

\* classify_question.
ClassifiedKey(q) ==
    CASE q.subject = "authorization" -> CountryKey("work_authorization", q.country)
      [] q.subject = "sponsorship"   -> CountryKey("sponsorship", q.country)
      [] q.subject = "citizenship"   -> CountryKey("citizenship", q.country)
      [] q.subject = "consent"       -> Plain("terms_consent")
      [] q.subject = "background"    -> Plain("background_check_consent")
      [] q.subject = "gender"        -> Plain("gender")
      [] q.subject = "pay"           -> Plain("salary_expectation")
      [] q.subject = "relocation"    -> Plain("willing_to_relocate")
      [] q.subject = "experience"    -> Plain("financial_experience")
      [] q.subject = "residence"     -> Plain("located_in_canada")
      [] OTHER                       -> NoKey

\* shared_answer_key: of the legal questions only known consents share an answer.
SharedKey(q) ==
    IF Legal(q) /\ q.subject \notin {"consent", "background"} THEN NoKey ELSE ClassifiedKey(q)

\* The keys that may answer a control, in the order they are tried: its own, the
\* shared one, for anything legal the general consents, and those of its words.
WordKeys(q, w) ==
    IF w \in q.words \/ (w = "agree" /\ Legal(q)) THEN KeysOfWord[w] ELSE <<>>
KeysFor(q) ==
    <<Plain(q.field), SharedKey(q)>>
    \o WordKeys(q, "agree") \o WordKeys(q, "pay") \o WordKeys(q, "time zone") \o WordKeys(q, "work location")

-----------------------------------------------------------------------------
(* The vault                                                               *)

\* _POLICY_KEY_ALIASES, as far as it joins the keys above.
Aliases(k) ==
    CASE k = Plain("work_authorization")    -> {<<"work_authorization", "ca">>}
      [] k = <<"work_authorization", "ca">> -> {Plain("work_authorization")}
      [] k = Plain("located_in_canada")     -> {<<"work_authorization", "ca">>}
      [] k = Plain("sponsorship")           -> {<<"sponsorship", "ca">>}
      [] k = <<"sponsorship", "ca">>        -> {Plain("sponsorship")}
      [] k = <<"citizenship", "ca">>        -> {Plain("citizenship")}
      [] k = Plain("citizenship")           -> {<<"citizenship", "ca">>}
      [] k = Plain("terms_consent")         -> {Plain("agreement_consent")}
      [] k = Plain("agreement_consent")     -> {Plain("terms_consent")}
      [] k = Plain("salary_acceptance")     -> {Plain("agreement_consent")}
      [] OTHER                              -> {}

\* Mutant: the limit counts employers whether their facts are verified or not.
HistoryUnverified == {Employers[i] : i \in {n \in DOMAIN Employers : n <= HistoryLimit}} \cap worked

\* The history rows that profile_answers hands on: the latest of the verified ones.
History ==
    LET upTo(i) == {Employers[n] : n \in 1 .. i} \cap worked IN
    UNION {upTo(i) : i \in {n \in DOMAIN Employers : Cardinality(upTo(n)) <= HistoryLimit}}

Record(kind, key, value) ==
    [kind |-> kind, key |-> key, value |-> value, source |-> "user", level |-> "full"]

\* What profile_answers takes for granted of anybody whose profile is not empty.
Granted ==
    { <<Plain(name), "yes">> : name \in {"terms_consent", "agreement_consent", "general_consent", "financial_experience"} }
    \cup { <<Plain("prior_employment"), "no">> }
    \cup { <<Plain(name), "other">> : name \in {"salary_expectation", "time_zone",
                                                "work_location_preference", "work_arrangement_nonlocal"} }

\* profile_answers: the verified facts, and what is taken for granted beside them.
ProfileSays(k) ==
    IF facts = {} /\ worked = {} THEN {} ELSE
    CASE k[1] = "work_authorization" /\ <<"authorized", k[2]>> \in facts -> {Record("fact", k, "yes")}
      [] k[1] = "work_authorization" /\ <<"barred", k[2]>> \in facts -> {Record("fact", k, "no")}
      [] k[1] = "sponsorship" /\ <<"sponsored", k[2]>> \in facts -> {Record("fact", k, "yes")}
      [] k[1] = "sponsorship" /\ <<"unsponsored", k[2]>> \in facts -> {Record("fact", k, "no")}
      [] k \in {Plain("work_authorization"), Plain("located_in_canada"), <<"citizenship", "ca">>}
            /\ <<"authorized", "ca">> \in facts -> {Record("default", k, "yes")}
      [] k = Plain("sponsorship") /\ <<"unsponsored", "ca">> \in facts -> {Record("default", k, "no")}
      [] OTHER -> {Record("default", k, g[2]) : g \in {h \in Granted : h[1] = k}}

Rank(r) == CHOOSE i \in DOMAIN Scopes : Scopes[i] = r.scope
Stated(r) == [kind |-> "row", key |-> r.key, value |-> r.said.value, source |-> r.said.source, level |-> r.said.level]

\* load_vault for the given scopes: the most specific row, else the profile, else the
\* first alias (of the least specific rows; which of them, the query decides).
Records(k, scopes) ==
    LET own   == {r \in rows : r.key = k /\ r.scope \in scopes}
        alias == {r \in rows : k \in Aliases(r.key) /\ r.scope \in scopes}
    IN
    IF own # {} THEN {Stated(r) : r \in {o \in own : \A s \in own : Rank(s) <= Rank(o)}}
    ELSE IF ProfileSays(k) # {} THEN ProfileSays(k)
    ELSE {Stated(r) : r \in {a \in alias : \A s \in alias : Rank(a) <= Rank(s)}}

\* AnswerVault.resolve.
Resolves(rec, required, sensitive) ==
    /\ rec.value # "blank"
    /\ sensitive => rec.source \in {"user", "policy"} /\ rec.level = "full"
    /\ rec.level # "low"
    /\ ~(required /\ rec.source = "generated")

-----------------------------------------------------------------------------
(* Options                                                                 *)

Affirmative == {"yes", "agree"}

\* _match_option and derive_option: the option itself; a lone consent whatever the
\* answer; an affirmative for a yes.
Matches(q, v) ==
    LET lone == Cardinality(q.options) = 1 IN
    IF v \in q.options THEN {v}
    ELSE IF Legal(q) /\ lone /\ q.options \subseteq Affirmative THEN q.options
    ELSE IF v = "yes" /\ "agree" \in q.options THEN {"agree"}
    ELSE IF v = "yes" /\ lone THEN q.options
    ELSE {}

Filled(q, v, rec) == [question |-> q, status |-> "fill", value |-> v, from |-> rec]
Held(q) == [question |-> q, status |-> "review"]
Left(q) == [question |-> q, status |-> "skip"]

-----------------------------------------------------------------------------
(* form: plan_fill                                                         *)

\* prior_employment.decide: No only if history is known and nothing in it comes near.
PriorAnswer(q) ==
    IF /\ History # {}
       /\ \A e \in History : q.employer # e /\ {q.employer, e} \notin Alike
       /\ q.options = {} \/ "no" \in q.options
    THEN Filled(q, "no", Record("rule", Plain("prior_employment"), "no")) ELSE Held(q)

Usable(q, k) == {rec \in Records(k, Range(Scopes)) : Resolves(rec, q.required, Sensitive(q) \/ Legal(q))}

\* _resolve_control: the first key with a usable record answers.
FirstHits(q) ==
    LET keys == KeysFor(q) IN
    UNION {Usable(q, keys[i]) : i \in {n \in DOMAIN keys : \A b \in 1 .. (n - 1) : Usable(q, keys[b]) = {}}}

FromVault(q, rec) ==
    IF q.options = {} THEN {Filled(q, rec.value, rec)}
    ELSE IF Matches(q, rec.value) = {} THEN {Held(q)}
    ELSE {Filled(q, o, rec) : o \in Matches(q, rec.value)}

\* The owner's standing wish to decline voluntary questions.
Declines(q) ==
    /\ q.subject = "gender" /\ "decline" \in q.options
    /\ \E rec \in Records(Plain("voluntary_self_identification"), Range(Scopes)) :
          Resolves(rec, FALSE, TRUE) /\ rec.value = "decline"

\* One control of plan_fill; controls do not depend on one another.
Plan(q) ==
    LET hits == FirstHits(q) IN
    IF hits # {} THEN UNION {FromVault(q, rec) : rec \in hits}
    ELSE IF ~Sensitive(q) /\ ~Legal(q) /\ q.subject = "prior" THEN {PriorAnswer(q)}
    ELSE IF Declines(q)
    THEN {Filled(q, "decline", Record("rule", Plain("voluntary_self_identification"), "decline"))}
    ELSE IF Legal(q) /\ Cardinality(q.options) = 1
    THEN {Filled(q, o, Record("rule", Plain("terms_consent"), "yes")) : o \in q.options}
    ELSE IF q.required \/ Sensitive(q) \/ Legal(q) THEN {Held(q)}
    ELSE {Left(q)}

-----------------------------------------------------------------------------
(* extension: evaluate_form_fields                                         *)

\* The key of the question catalog, for a label without a shared key.
CatalogKey(q) ==
    CASE q.subject = "authorization" -> Plain("work_authorization")
      [] q.subject = "sponsorship"   -> Plain("sponsorship")
      [] q.subject = "citizenship"   -> Plain("citizenship")
      [] q.subject = "consent"       -> Plain("terms_consent")
      [] q.subject = "background"    -> Plain("background_check_consent")
      [] q.subject = "clearance"     -> Plain("security_clearance")
      [] OTHER                       -> NoKey

\* Only global answers; what SENSITIVE_KEYS holds by name is sensitive.
Suggest(q) ==
    LET k    == IF SharedKey(q) = NoKey THEN CatalogKey(q) ELSE SharedKey(q)
        sens == k[2] = "none" /\ k[1] \in Scoped \cup {"work_authorization", "gender", "security_clearance"}
        hits == {rec \in Records(k, {Scopes[1]}) : Resolves(rec, TRUE, sens)}
    IN IF hits = {} THEN {Left(q)} ELSE {Filled(q, rec.value, rec) : rec \in hits}

-----------------------------------------------------------------------------
(* book: resolve_answers                                                   *)

Constant(k, v) == {Record("constant", Plain(k), v)}

\* resolve_with_llm_or_fallback: a required question gets some answer; a plain yes to
\* a question about a credential is dropped.
Improvised(q) ==
    LET said == IF q.options = {} THEN {"other"}
                ELSE IF q.subject = "degree" /\ q.options # {"yes"} THEN q.options \ {"yes"}
                ELSE q.options
    IN IF q.required THEN UNION {Constant("model", v) : v \in said} ELSE {}

\* _resolve_catalog_item on the questions about eligibility, permissions and contacts.
Eligible(q) ==
    CASE q.subject = "sponsorship"   -> Constant("sponsorship", "no")
      [] q.subject = "citizenship"   -> Constant("citizenship", "other")
      [] q.subject = "authorization" ->
           LET c == IF q.country = "us" THEN "us" ELSE "ca" IN
           IF <<"authorized", c>> \in facts THEN {Record("fact", <<"work_authorization", c>>, "yes")} ELSE {}
      [] q.subject \in Permissions -> Constant("terms_consent", "yes")
      [] q.subject = "prior"       -> Constant("prior_employment", "no")
      [] q.subject = "relocation"  -> Constant("relocation", "yes")
      [] OTHER -> {}

\* The same on the person.
Personal(q) ==
    CASE q.subject = "pay"        -> Constant("salary", "other")
      [] q.subject = "experience" -> Constant("experience", "yes")
      [] q.subject = "gender"     -> Constant("gender", "other")
      [] q.subject = "clearance"  -> Constant("clearance", IF Plain("clearance") \in facts THEN "other" ELSE "no")
      [] OTHER -> {}

\* resolve_screening_question: a lone option, the catalog, the patterns, the credentials.
Screened(q) ==
    CASE Cardinality(q.options) = 1        -> UNION {Constant("single", o) : o \in q.options}
      [] OTHER ->
    CASE Eligible(q) \cup Personal(q) # {} -> Eligible(q) \cup Personal(q)
      [] q.subject = "residence"           -> Constant("reside_in_canada", "yes")
      [] q.subject = "cpa"                 -> Constant("certification", IF Plain("cpa") \in facts THEN "yes" ELSE "no")
      [] OTHER -> {}

\* resolve_answers: the verified answers, the screening, and for what is required the model.
BookSays(q) ==
    CASE ProfileSays(Plain(q.field)) # {} -> ProfileSays(Plain(q.field))
      [] OTHER -> IF Screened(q) # {} THEN Screened(q) ELSE Improvised(q)

\* The option that says the same, the value itself where none does.
BookOption(v, q) ==
    IF v \in q.options THEN v ELSE IF v = "yes" /\ "agree" \in q.options THEN "agree" ELSE v

\* audit_form_answers and enforce_answer_truthfulness: a claim without a verified fact
\* becomes a no, where the claim is a plain yes.
Truthful(v, q) == IF v = "yes" /\ q.subject \in {"cpa", "clearance"} /\ Plain(q.subject) \notin facts THEN "no" ELSE v

BookAnswers(q) ==
    IF BookSays(q) = {} THEN {Left(q)}
    ELSE {Filled(q, Truthful(BookOption(rec.value, q), q), rec) : rec \in BookSays(q)}

-----------------------------------------------------------------------------
(* Steps                                                                   *)

\* The rows that a row under this key in this scope replaces none of.
Others(k, s) == {o \in rows : o.key # k \/ o.scope # s}

\* upsert_answer, by the owner, the policy or an import.
Store(r) ==
    /\ Cardinality(Others(r.key, r.scope)) < MaxRows
    /\ rows' = Others(r.key, r.scope) \cup {r}
    /\ UNCHANGED <<facts, worked, seeding>>

\* A fact is verified, edited or removed (profile.set_verified, edit_fact, remove_fact).
ChangeFact(f) ==
    /\ facts' = IF f \in facts THEN facts \ {f} ELSE facts \cup {f}
    /\ \A c \in Countries : /\ ~({<<"sponsored", c>>, <<"unsponsored", c>>} \subseteq facts')
                           /\ ~({<<"authorized", c>>, <<"barred", c>>} \subseteq facts')
    /\ UNCHANGED <<rows, worked, seeding>>

ChangeHistory(e) ==
    /\ worked' = IF e \in worked THEN worked \ {e} ELSE worked \cup {e}
    /\ UNCHANGED <<rows, facts, seeding>>

\* seed_answer_vault_from_policy: an entry is looked up, then stored.
SeedLook(k) ==
    /\ seeding = {} /\ ~\E r \in rows : r.key = k /\ r.scope = Scopes[1]
    /\ seeding' = {k}
    /\ UNCHANGED <<rows, facts, worked>>

SeedStore(k) ==
    /\ k \in seeding /\ seeding' = {}
    /\ Cardinality(Others(k, Scopes[1])) < MaxRows
    /\ \E s \in Statements :
         /\ s.source \in {"user", "policy"} /\ s.level = "full"
         /\ rows' = Others(k, Scopes[1]) \cup {[key |-> k, scope |-> Scopes[1], said |-> s]}
    /\ UNCHANGED <<facts, worked>>

Next ==
    \/ \E r \in Row : Store(r)
    \/ \E f \in Facts : ChangeFact(f)
    \/ \E e \in Range(Employers) : ChangeHistory(e)
    \/ \E k \in SeedKeys : SeedLook(k) \/ SeedStore(k)

Spec == Init /\ [][Next]_vars
-----------------------------------------------------------------------------
(* What is promised                                                        *)

\* The country a key speaks of: the one in its name; the aliases and the profile tie
\* the unscoped keys to Canada.
About(k) ==
    IF k[2] # "none" THEN k[2]
    ELSE IF k[1] \in {"work_authorization", "sponsorship", "citizenship", "located_in_canada"} THEN "ca"
    ELSE "none"

FilledBy(answers) == {a \in answers : a.status = "fill"}

(***************************************************************************)
(* What was said about one country never answers for another, through      *)
(* scopes, aliases, profile facts and their defaults ("A single global Yes *)
(* must never be reused across countries", greenhouse_form._country_scoped)*)
(***************************************************************************)
CountryKept ==
    \A q \in Questions : q.subject \in Scoped /\ q.country # "none" =>
        \A a \in FilledBy(Plan(q)) : About(a.from.key) \in {q.country, "none"}

(***************************************************************************)
(* The rule answers "have you worked for us" with a No only if some        *)
(* employer is verified and none comes near (prior_employment.decide).     *)
(***************************************************************************)
PriorFailsClosed ==
    \A q \in Questions : \A a \in FilledBy(Plan(q)) :
        a.from.key = Plain("prior_employment") =>
            /\ worked # {}
            /\ \A e \in worked : q.employer # e /\ {q.employer, e} \notin Alike

(***************************************************************************)
(* The runner claims no credential that is not a verified fact, in whatever*)
(* words ("An unknown fact or credential must never become affirmative",   *)
(* truth_guard.audit_form_answers).  Violated by an option that affirms in *)
(* other words than a plain yes.                                           *)
(***************************************************************************)
ClaimsAreVerified ==
    \A q \in Questions : q.subject \in {"cpa", "clearance"} =>
        \A a \in FilledBy(BookAnswers(q)) : a.value \in Affirmative => Plain(q.subject) \in facts

(***************************************************************************)
(* A legal question that shares no answer with others is answered by what  *)
(* is stored for it, or not at all (greenhouse_form.shared_answer_key:     *)
(* "Unknown or employer-specific legal terms fail closed").                *)
(***************************************************************************)
LegalFailsClosed ==
    \A q \in Questions : Legal(q) /\ SharedKey(q) = NoKey =>
        \A a \in FilledBy(Plan(q)) : a.from.kind = "row" /\ a.from.key = Plain(q.field)

(***************************************************************************)
(* The extension keeps countries apart as the form planner does.           *)
(***************************************************************************)
ExtensionKeepsCountry ==
    \A q \in Questions : q.subject \in Scoped /\ q.country # "none" =>
        \A a \in FilledBy(Suggest(q)) : About(a.from.key) \in {q.country, "none"}

(***************************************************************************)
(* The book answers the question about earlier employment with a No only   *)
(* where prior_employment.decide would ("Never a global No").              *)
(***************************************************************************)
BookFailsClosed ==
    \A q \in Questions : \A a \in FilledBy(BookAnswers(q)) :
        a.from.key = Plain("prior_employment") =>
            worked # {} /\ \A e \in worked : q.employer # e /\ {q.employer, e} \notin Alike

(***************************************************************************)
(* Where the owner said no, nothing is agreed to (option_derivation).      *)
(* Violated by a lone option.                                              *)
(***************************************************************************)
NoIsNotAgreed ==
    \A q \in Questions : \A a \in FilledBy(Plan(q)) : a.from.value = "no" => a.value \notin Affirmative

(***************************************************************************)
(* Seeding leaves stored answers alone (seed_answer_vault_from_policy).    *)
(* Violated by an answer stored between the look and the write.            *)
(***************************************************************************)
SeedKeepsAnswers ==
    [][ \A k \in SeedKeys : SeedStore(k) => rows \subseteq rows' ]_vars
=============================================================================
