SPECIFICATION MCSpec
CONSTANTS
  r1 = r1
  r2 = r2
  Routes = {r1, r2}
  Chars <- MCChars
  Folds <- MCFolds
  Composes <- MCComposes
  Descriptions <- MCDescriptions
  Replies <- MCReplies
  EvidenceMin = 2
  MaxJudgments = 2
  MaxFaults = 1
  MaxEdits = 1
  MaxRestarts = 1
  Components <- MCComponents
  Attached = {"throughline", "docket"}
  Ledgered = {"throughline"}
  Declared <- MCDeclared
  Documents <- MCDocuments
  FirstDocument <- First
  SomeIds = {"permits", "scenes"}
  Lookups = {"q"}
  MaxWrites = 2
  MaxLosses = 1
  MaxDeaths = 1
SYMMETRY Symmetry
CHECK_DEADLOCK FALSE
INVARIANTS
    RoutesAreSound
    QuotesAreSound
    VerifiedWalkIsTrue
    RegistriesAreSound
    LookupsAreHonest
