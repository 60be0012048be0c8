SPECIFICATION Spec
CONSTANTS
  Postings = {"a", "b"}
  External = {"b"}
  SuccessUrl = {"a"}
  Sessions = {"web"}
  Shown = {}
  Given = {"confirmed"}
  MaxWeek = 2
  MaxRows = 2
  MaxSent = 1
INVARIANT NothingSentNothingConfirmed
CHECK_DEADLOCK FALSE
