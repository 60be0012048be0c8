\* Six parts without common state, one of them moving in each behaviour.  One posting
\* may be logged by the extension only, and the url of the other holds "success"; the
\* owner has one employer more than the limit of what is handed on.
SPECIFICATION PlatformSpec
CONSTANTS
  Platforms = {"greenhouse", "lever", "ashby", "workday", "smartrecruiters", "workable", "breezy", "recruitee", "gov", "generic"}
  Names = {"a", "b"}
  KeyOf <- MCKeyOf
  Verify = {"greenhouse", "lever", "ashby"}
  Fallback = TRUE
  Landings = {"form", "challenge"}
  Moves = {"address"}
  Sessions = {"web"}
  Procs = {"cli"}
  Projects = {"hunterxjob"}
  Traced <- MCTraced
  LastErrors = {"other", "unmatched"}
  Seeded = {"cpa"}
  MaxVersions = 3
  Postings = {"a", "b"}
  External = {"b"}
  SuccessUrl = {"a"}
  Shown <- MCShown
  Given = {"confirmed"}
  MaxWeek = 2
  MaxEvidence = 1
  MaxSent = 1
  Order <- MCOrder
  FileOrder <- MCFileOrder
  Required = {"q"}
  FieldValues = {"", "female"}
  Within <- MCWithin
  Declined = {"no"}
  LocationKeys = {}
  FieldKinds <- MCKinds
  FieldOptions <- MCOptions
  Ways = {"exact", "partial"}
  Frames = {1}
  MaxFields = 2
  FactKeys = {"job", "feat"}
  Parent <- MCParent
  Contents = {"x", "y"}
  Questions <- MCQuestions
  Stored <- MCStored
  Statements <- MCPlanStatements
  Scopes <- MCScopes
  Facts <- MCPlanFacts
  Employers <- MCEmployers
  HistoryLimit = 2
  Alike <- MCAlike
  SeedKeys <- MCSeedKeys
  MaxRows = 2
INVARIANTS FormsCoverThePage OneChampion FollowUpsAreFew NothingRequiredIsBlank UsedIsConfirmed CountryKept PriorFailsClosed
PROPERTY NeverWorse
CHECK_DEADLOCK FALSE
