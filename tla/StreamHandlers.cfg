SPECIFICATION Spec
CONSTANTS
  Workers = {w1}
  Systems = {"sysA", "sysB"}
  Ids = {"e1"}
  Topics <- HandlerTopics
  Inputs <- HandlerInputs
  MaxInputs = 2
  Budget <- HandlerFaults
  None = None
INVARIANT OneRowPerSourceEvent
