SPECIFICATION Spec
CONSTANTS
  Order <- MCOrder
  FileOrder <- MCFiles
  Within <- MCWithin
  Options <- MCOptions
  Required = {"a"}
  Values = {"", "no"}
  Declined = {"no"}
  LocationKeys = {}
  Kinds = {"text", "combo", "select", "radio", "checks", "buttons", "dropping", "file"}
  Ways = {"exact", "partial"}
  Frames = {1}
  MaxFields = 2
INVARIANT DeclinedIsNotTicked
CHECK_DEADLOCK FALSE
