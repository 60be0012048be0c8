---------------------------- MODULE StateMachine ----------------------------
(***************************************************************************)
(* The pipeline stages of a posting and the transitions the pipeline may   *)
(* make between them: v2/app/models.py (PipelineStage, TERMINAL_STAGES)    *)
(* and v2/app/state_machine.py (ALLOWED, can_transition).                  *)
(*                                                                         *)
(* The module has no variables: every module of the project that moves a   *)
(* posting or an application from stage to stage takes its guards here.    *)
(***************************************************************************)
EXTENDS Integers, Sequences

(***************************************************************************)
(* The stages in the order the enumeration declares them. The order is a   *)
(* fact of the program: dedup ranks postings by it (_STAGE_RANK).          *)
(***************************************************************************)
StageOrder ==
    << "discovered", "normalized", "eligible", "review", "scored",
       "shortlisted", "approved", "preparing", "materials_generated",
       "materials_reviewed", "ready_to_apply", "applying", "form_filled",
       "validated", "needs_review", "submission_uncertain", "submitted",
       "confirmed", "rejected", "withdrawn", "failed", "duplicate", "closed" >>

Stages == { StageOrder[i] : i \in DOMAIN StageOrder }

\* "No stage": a row that does not exist (a job without an application).
NoStage == "none"

StageRank == [ s \in Stages |->
                 CHOOSE i \in DOMAIN StageOrder : StageOrder[i] = s ]

TerminalStages == {"rejected", "withdrawn", "failed", "confirmed", "closed"}

\* A job in one of these needs re-gating before any more work is done on it.
InactiveStages == {"duplicate", "closed"}

\* Where a posting may be demoted to "duplicate" from, and closed from.
DedupSources ==
    {"discovered", "normalized", "eligible", "review", "scored", "shortlisted",
     "approved", "materials_generated", "materials_reviewed",
     "ready_to_apply", "needs_review", "failed"}

CloseSources == DedupSources \cup {"validated", "duplicate"}

\* The transitions written out stage by stage, before the two loops that add
\* "duplicate" and "closed".
BaseAllowed ==
    [ discovered           |-> {"normalized", "eligible", "review", "rejected", "failed"},
      normalized           |-> {"eligible", "review", "rejected", "failed"},
      eligible             |-> {"scored", "review", "rejected", "failed"},
      review               |-> {"eligible", "shortlisted", "rejected", "needs_review"},
      scored               |-> {"shortlisted", "rejected", "review"},
      shortlisted          |-> {"approved", "preparing", "materials_generated",
                                "rejected", "withdrawn"},
      approved             |-> {"preparing", "materials_generated",
                                "ready_to_apply", "withdrawn"},
      preparing            |-> {"materials_generated", "failed", "needs_review"},
      materials_generated  |-> {"materials_reviewed", "ready_to_apply",
                                "needs_review", "failed"},
      materials_reviewed   |-> {"ready_to_apply", "needs_review", "withdrawn"},
      ready_to_apply       |-> {"applying", "needs_review", "withdrawn"},
      applying             |-> {"form_filled", "validated", "needs_review",
                                "failed", "submission_uncertain", "submitted"},
      form_filled          |-> {"validated", "needs_review", "failed"},
      validated            |-> {"submitted", "submission_uncertain",
                                "needs_review", "ready_to_apply"},
      needs_review         |-> {"applying", "ready_to_apply", "rejected",
                                "withdrawn", "failed", "submission_uncertain"},
      submission_uncertain |-> {"submitted", "confirmed", "needs_review",
                                "failed", "withdrawn"},
      submitted            |-> {"confirmed", "submission_uncertain", "needs_review"},
      confirmed            |-> {},
      rejected             |-> {},
      withdrawn            |-> {},
      failed               |-> {"ready_to_apply", "preparing", "needs_review"},
      duplicate            |-> {"discovered"},
      closed               |-> {"discovered"} ]

Allowed ==
    [ s \in Stages |->
        BaseAllowed[s]
          \cup (IF s \in DedupSources THEN {"duplicate"} ELSE {})
          \cup (IF s \in CloseSources THEN {"closed"} ELSE {}) ]

CanTransition(from, to) ==
    \/ from = NoStage
    \/ from = to
    \/ from \in Stages /\ to \in Allowed[from]
=============================================================================
