\* Two requests in flight, two tokens in use, one pending redirect.
SPECIFICATION FairSpec
CONSTANTS
  MaxCalls = 2
  MaxTokens = 2
  MaxRedirects = 1
INVARIANTS
  TypeOK
  BusyHasRequest
  CodeStepNamesNumber
PROPERTY
  ProcessingEnds
