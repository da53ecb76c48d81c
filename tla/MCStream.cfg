SPECIFICATION Spec
CHECK_DEADLOCK FALSE
CONSTANTS
  Clients = {"view", "test", "tress"}
  Calls <- MCCalls
  Starts = {0, 1}
  Answers <- MCAnswers
  MaxCalls = 2
INVARIANTS
  RequestsArrive
  InStep
  AnswersArrive
PROPERTIES
  CallsReturn
