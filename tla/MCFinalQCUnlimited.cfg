CONSTANTS
  MaxQCRounds = 2
  ResearchOnly = FALSE
  MaxProtocolAttempts = 4
  MaxIssues = 2
  MaxCompletionCalls = 4
SPECIFICATION Spec
PROPERTY
  LimitEndsTheReview
