---------------------------- MODULE MCFormFilling ----------------------------
EXTENDS FormFilling
MCOrder == <<"a", "b">>
MCFiles == <<"resume">>
MCTwoFiles == <<"resume", "cover">>
MCWithin == {<<"male", "female">>}
MCOptions ==
  [kind \in Kinds |->
     CASE kind = "select" -> {<<"select", "male", "female">>}
       [] kind = "radio"  -> {<<"male", "female">>}
       [] kind = "checks" -> {<<"agree">>}
       [] kind = "combo"  -> {<< >>, <<"male", "other">>}
       [] kind = "buttons" -> {<<"female">>}
       [] OTHER -> {<< >>}]
\* A box that drops what is typed, under a label that holds the answer.
MCAnswerAround == [MCOptions EXCEPT !["dropping"] = {<<"female">>}]
\* A select whose first option has no text.
MCBlankOptions == [MCOptions EXCEPT !["select"] = {<<"", "other">>}]
=============================================================================
