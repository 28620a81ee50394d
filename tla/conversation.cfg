SPECIFICATION ConversationSpec
CONSTANTS
  Requests <- MCRequests
  Answers <- MCAnswers
  MaxEvents = 3
  MaxFiles = 2
INVARIANTS AnswerAsAsked
PROPERTIES PromptTellsTheConversation
CHECK_DEADLOCK FALSE
