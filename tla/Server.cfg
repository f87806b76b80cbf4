CONSTANTS
  s1 = s1
  s2 = s2
  Sessions <- MCSessions
  DefaultDb = "srrdb"
  DBs <- MCDBs
  Requests <- MCRequests
  Setups <- MCSetups
  MaxRequests = 3
SPECIFICATION FairSpec
INVARIANTS ConnectionType AuthRight WholeResponses OwnAnswer PromptRight DeadlockFree
PROPERTIES AnswersCome
