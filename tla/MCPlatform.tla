------------------------------ MODULE MCPlatform ------------------------------
(***************************************************************************)
(* An instance of Platform for TLC.                                         *)
(***************************************************************************)
EXTENDS Platform, FormCases, TLC

\* Every question of a form reads as one and the same key.
MCKeyOf == [n \in Names |-> "terms_agreement"]

\* Runs of the first project may show one defect.
MCTraced == {<<"hunterxjob", "resume_timeout">>}

\* What the form planner does not look at is left out; of the statements, one of the
\* owner's and one that is not good enough for what is sensitive.
MCPlanFacts == MCFacts \ {Bare("cpa")}
MCPlanStatements == {Say("no", "policy", "full"), Say("yes", "resume", "fair")}

\* A page shows nothing or a candidate id.
MCShown == {{}, {"ref"}}

\* Two questions, the first one required, and the resume.
MCOrder == <<"q", "r">>
MCFileOrder == <<"resume">>
MCWithin == {<<"male", "female">>}
MCKinds == {"text", "combo", "select", "radio", "checks", "buttons", "dropping", "file"}
MCOptions ==
  [kind \in MCKinds |->
     CASE kind = "select"  -> {<<"select", "male", "female">>}
       [] kind = "radio"   -> {<<"male", "female">>}
       [] kind = "checks"  -> {<<"agree">>}
       [] kind = "combo"   -> {<< >>, <<"male", "other">>}
       [] kind = "buttons" -> {<<"female">>}
       [] kind = "dropping" -> {<<"prompt">>}
       [] OTHER            -> {<< >>}]

\* A job and an achievement of that job.
MCParent == [job |-> "none", feat |-> "job"]

\* The instance meets every condition of the properties.
ASSUME ConditionsAreMet ==
  /\ OneSession /\ K!OneProcess /\ U!ConstantsApart /\ OpensOnForm /\ MovesAreSeen
  /\ TextsSaySomething /\ NoAnswerAround /\ PlansAreLists /\ FieldsAreTheEmployers
===============================================================================
