CONSTANTS
  MaxRequestBytes = 8
  MaxConfigBytes = 6
  MaxOperationIdBytes = 2
  RawFields = {"other"}
  CallbackTimeout = 30
  IntMax = 100000
  Width = 10
  MantissaBits = 5
  MaxByte = 255
  RawRequests <- MCRawRequests
  Configs <- MCConfigs
  Queries <- MCQueries
  Outcomes <- MCOutcomes
  Events <- MCEvents
SPECIFICATION Spec
INVARIANTS CommandsAreUsable DefaultsOnlyFill QueriesAreAnswered ByteArraysArrive  TimestampsAreNear
