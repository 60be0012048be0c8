------------------------------ MODULE FormCases ------------------------------
(***************************************************************************)
(* The questions of a form and the stored statements of an instance of     *)
(* FormAnswers: every kind of question that the paths tell apart, with the *)
(* options that make a difference, and enough stored keys and facts to     *)
(* answer one question from another.                                       *)
(***************************************************************************)
EXTENDS FiniteSets, Naturals

Bare(key) == <<key, "none">>

Ask(subject, country, opts) ==
    [subject |-> subject, country |-> country, employer |-> "", certified |-> FALSE,
     words |-> {}, required |-> TRUE, options |-> opts, field |-> "question"]
Certified(q) == [q EXCEPT !.certified = TRUE]
Worded(q, words) == [q EXCEPT !.words = words]

MCQuestions ==
    {Ask(s, c, {"yes", "no"}) : s \in {"authorization", "sponsorship", "citizenship"}, c \in {"ca", "us", "own", "none"}}
    \cup {Certified(Ask("authorization", "us", {"yes", "no"}))}
    \cup {Ask(s, "none", o) : s \in {"consent", "background", "cpa"}, o \in {{"yes"}, {"yes", "no"}, {"agree"}}}
    \cup {Ask("conviction", "none", {"yes", "no"}), Ask("conviction", "none", {"other"}), Ask("gender", "none", {"decline", "other"}),
          Ask("clearance", "none", {}), Ask("degree", "none", {"yes", "no"}), Worded(Ask("pay", "none", {}), {"pay"}),
          Worded(Ask("plain", "none", {"yes", "no"}), {"agree"}), Worded(Ask("plain", "none", {}), {"time zone", "work location"}),
          Ask("relocation", "none", {"yes", "no"}), Ask("experience", "none", {"yes", "no"}), Ask("residence", "ca", {"yes", "no"}),
          [Ask("plain", "none", {}) EXCEPT !.required = FALSE]}
    \cup {[Ask("prior", "none", o) EXCEPT !.employer = e] : o \in {{}, {"yes", "no"}, {"other"}}, e \in {"acme", "acme inc", "zenith"}}

\* Those that leave something to choose or to say.
MCOpenQuestions == {q \in MCQuestions : Cardinality(q.options) # 1}

Say(v, s, l) == [value |-> v, source |-> s, level |-> l]
MCStatements == {Say("yes", "user", "full"), Say("no", "policy", "full"), Say("yes", "resume", "fair")}
MCStored == {Bare("work_authorization"), <<"work_authorization", "us">>, <<"work_authorization", "own">>,
             Bare("located_in_canada"), Bare("terms_consent"), Bare("question")}
\* Answers to one form's own question only.
MCOwnAnswers == {Bare("question")}
MCSeedKeys == {Bare("terms_consent")}
MCScopes == <<"global", "board">>
MCFacts == {<<"authorized", "ca">>, <<"authorized", "us">>, <<"barred", "us">>, <<"unsponsored", "ca">>, Bare("cpa")}
MCEmployers == <<"zenith", "globex", "acme">>
MCAlike == {{"acme", "acme inc"}}
=============================================================================
