SPECIFICATION FairSpec
CONSTANTS
  r1 = r1
  r2 = r2
  NoService = NoService
  Requests <- TwoRequests
  Services = {"openai", "anthropic", "other"}
  Translators = {"openai", "anthropic"}
  Limit <- OneLimited
  Inputs <- AllInputs
  Answers <- AllAnswers
  Faults = {}
CHECK_DEADLOCK FALSE
INVARIANTS TypeOK  DoneMeansComplete AuditTellsReply StreamAgreesWithWhole ConversationIsKept
PROPERTIES CalledIsAudited
