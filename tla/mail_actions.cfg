SPECIFICATION MCSpec
CONSTANTS
  m1 = m1
  m2 = m2
  Unset = Unset
  Messages <- TwoMails
  Contents <- SomeContents
  Stores <- SomeStores
  Inbox = "Inbox"
  UserFolders <- OneFolder
  MaxUserActs = 1
  MaxPauses = 1
  MaxLosses = 1
  Candidates <- SomeCandidates
  Readings <- SomeReadings
  Within <- SomeWithin
  Instants <- SomeInstants
  Matching <- SomeMatching
INVARIANTS
  SafetyFloor CardFollowsCommands HostMovesAreNotLearned ConflictIsReal
PROPERTIES
  CommandsAreAnswered MatchSurvivesMoreFields
CHECK_DEADLOCK FALSE
