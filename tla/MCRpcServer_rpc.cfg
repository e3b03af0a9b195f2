\* Two threads serve two calls of any kind while the analyzer processes a
\* transaction and ends one block.
SPECIFICATION Spec
CONSTANTS
  MaxCalls = 2
  Workers = {w1, w2}
  Async = async
  Kinds = {"send", "holdings", "assets", "start", "get", "clear"}
  RpcAllow <- OneForbidden
  Day = 1
  MaxSize = 3
  Wrap = 8
  MaxBlocks = 1
  MaxChanges = 1
INVARIANT CallsInv
INVARIANT CachedIsCurrent
PROPERTY WorkIsFinished
CHECK_DEADLOCK FALSE
