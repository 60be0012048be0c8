---------------------------- MODULE MCFormAnswers ----------------------------
(* FormAnswers with the instance of FormCases. *)
EXTENDS FormAnswers, FormCases
==============================================================================
