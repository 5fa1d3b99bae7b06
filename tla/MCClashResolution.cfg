CONSTANTS
  ann = ann
  guest = guest
  other = other
  c1 = c1
  c2 = c2
  x = x
  y = y
  main = main
  barn = barn
  None = None
  NoStage = NoStage
  Artists <- TwoArtists
  Stages <- TwoStages
  StagePairs <- NearBarn
  DefaultTransferMinutes = 12
  Travellers <- AndGuests
  SignedIn <- OneUser
  Calls <- TwoCalls
  Timetables <- Programme
  Revisions <- Revised
  Lineups <- AllArtists
  Views <- Weekends
  Namings <- AllOrNone
  MaxWrites = 1
SPECIFICATION Spec
SYMMETRY Symmetric
INVARIANTS
  TypeOK
  ClashesReported
  ChoicesSurvive
  UnmarkedExplained
  RefusalsExplained
CHECK_DEADLOCK FALSE
