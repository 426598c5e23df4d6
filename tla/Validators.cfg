SPECIFICATION ScopedSpec
CONSTANTS
  Absent = Absent
  Nothing = Nothing
  NoToken = NoToken
  h1 = h1
  h2 = h2
  bad = bad
  Names = {"a", "b", "c"}
  Question = "a"
  Values = {"proof", "other"}
  Digest = "proof"
  Records <- RingRecords
  Servers = 3
  Timeout = 7
  MaxCNAMEs = 2
  Hosts = {h1, h2, bad}
  BadHosts = {bad}
  Identifiers <- SmallIdentifiers
  Addresses <- SmallAddresses
  Public = {"public"}
  Allowed = {"allowed"}
  Answers <- SmallAnswers
  Ports = {80, 443, 8080}
  TestPort = 0
  MaxRedirects = 2
  MaxAddresses = 2
  Raw <- Spellings
  Canon <- Lower
  Types <- TypesOf
  Orders <- OrderSets
  Tokens <- SmallTokens
  Authorities <- Trusted
  AccountKey = "own"
  Skew = 1
  Outlive = TRUE
  LastTime = 4
CHECK_DEADLOCK FALSE
INVARIANTS
  
  
  EveryServerHasTime
  DialsPermitted
  CertificateAttested
PROPERTY
  ValidationEnds
