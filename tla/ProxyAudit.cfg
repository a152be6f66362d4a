SPECIFICATION FairSpec
CONSTANTS
  r1 = r1
  r2 = r2
  NoService = NoService
  Requests <- OneRequest
  Services = {"openai", "anthropic"}
  Headers = {"authorization", "x-api-key"}
  AuthHeader <- Providers
  BasePath <- Targets
  AllowedPaths <- Whitelisted
  GatewayPaths <- OfGateway
  Origins = {"ui"}
  Limit <- OneLimited
  Inputs <- MoreInputs
  Outcomes = {"plain", "stream", "broken", "timeout", "refused", "reset"}
  MaxKey = 1
CHECK_DEADLOCK FALSE
INVARIANTS AuditedOnce AuditTellsReply StreamsOutliveWriteTimeout
PROPERTIES ForwardsAreAudited
