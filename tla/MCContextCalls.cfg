SPECIFICATION Spec
CONSTANTS
  NodeValues <- MCNodeValues
  ScriptValues <- MCScriptValues
  PromiseValues <- MCPromiseValues
  Kept <- MCKept
  MaxArgs = 2
  MaxLeft = 2
INVARIANTS  StackAccounted
