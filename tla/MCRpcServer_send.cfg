\* Two calls ask for the same payment.
SPECIFICATION Spec
CONSTANTS
  MaxCalls = 2
  Workers = {w1, w2}
  Async = async
  Kinds = {"send"}
  RpcAllow <- OnlySend
  Day = 1
  MaxSize = 3
  Wrap = 8
  MaxBlocks = 1
  MaxChanges = 2
INVARIANT EverySendIsSent
CHECK_DEADLOCK FALSE
