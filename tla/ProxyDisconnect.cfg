SPECIFICATION Spec
CONSTANTS
  r1 = r1
  r2 = r2
  NoService = NoService
  Requests <- OneRequest
  Services = {"openai", "anthropic"}
  Headers = {"authorization", "x-api-key"}
  AuthHeader <- Providers
  BasePath <- Targets
  AllowedPaths <- Whitelisted
  GatewayPaths = {}
  Origins = {}
  Limit <- OneLimited
  Inputs <- OneInput
  Outcomes = {"plain", "refused", "reset"}
  MaxKey = 1
CHECK_DEADLOCK FALSE
INVARIANTS DisconnectIsClients
