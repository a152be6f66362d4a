SPECIFICATION Spec
CONSTANTS
  r1 = r1
  r2 = r2
  NoService = NoService
  Requests <- TwoRequests
  Services = {"openai", "anthropic"}
  Headers = {"authorization", "x-api-key"}
  AuthHeader <- Providers
  BasePath <- Targets
  AllowedPaths <- Whitelisted
  GatewayPaths = {}
  Origins = {}
  Limit <- BothLimited
  Inputs <- AllInputs
  Outcomes = {}
  MaxKey = 2
CHECK_DEADLOCK FALSE
SYMMETRY Symmetry
INVARIANTS TypeOK ForwardIsAuthorised PathsStayInside RefusedPathsAreFree RightKeyOnly KeyIsFresh
