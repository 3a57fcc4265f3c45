\* An admin and a user; one thing goes wrong or happens in another page.
SPECIFICATION FairSpec
CONSTANTS
  ada = ada
  bob = bob
  Users <- TwoUsers
  Admins <- OneAdmin
  NoUser = NoUser
  MaxRequests = 5
  MaxTokens = 2
  MaxEvents = 1
CHECK_DEADLOCK FALSE
INVARIANTS
  TypeOK
  ShownIsLoaded
  CopyAgrees
PROPERTIES
  EntryEnds
