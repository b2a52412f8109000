\* Two requests at a time, two keys, locales and types; three workers on a job.
SPECIFICATION Spec
CONSTANTS
  Requests = {1, 2}
  Keys = {read, write}
  MaxLogs = 4
  Locales = {"en", "hi"}
  MaxVersions = 2
  DocTypes = {pan, statement}
  Files = {f1, f2, f3}
  MaxClock = 1
  Jobs = {"loan"}
  ChannelChoices <- MCChannelChoices
  Workers = {w1, w2, w3}
  MlScores <- MCMlScores
  MockScores <- MCMockScores
  MaxCalls = 3
  MaxFaults = 2
INVARIANTS
  TypeOK
  GrantedIsOnRecord
  BreaksAreOverlaps
  StaleOnlyByRace
  DocumentHasBlob
  RepeatsNeedStalls
  OneRowPerRequest
  BandFitsScore
PROPERTIES
  StaleExpires
  JobsEnd
  ScoreSettles
  AskedIsScored
\* All texts are written, calls logged and jobs done: nothing is left to do.
CHECK_DEADLOCK FALSE
