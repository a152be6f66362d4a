SPECIFICATION Spec
CONSTANTS
  r1 = r1
  r2 = r2
  NoService = NoService
  Requests <- OneRequest
  Services = {"openai", "anthropic", "other"}
  Translators = {"openai", "anthropic"}
  Limit <- OneLimited
  Inputs <- OneStream
  Answers <- AllAnswers
  Faults = {"reported"}
CHECK_DEADLOCK FALSE
INVARIANTS DoneMeansComplete
