SPECIFICATION Spec
CONSTANTS
  Order <- MCOrder
  FileOrder <- MCFiles
  Within <- MCWithin
  Options <- MCBlankOptions
  Required = {"a"}
  Values = {"", "female"}
  Declined = {"no"}
  LocationKeys = {}
  Kinds = {"text", "combo", "select", "radio", "checks", "buttons", "dropping", "file"}
  Ways = {"exact", "partial"}
  Frames = {1}
  MaxFields = 2
INVARIANT NothingRequiredIsBlank
CHECK_DEADLOCK FALSE
