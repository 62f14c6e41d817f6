\* One AI player, so that a client takes the second slot.
SPECIFICATION LaunchSpec
CONSTANTS
  NULL = NULL
  kmap <- MCkmap
  KeyText <- MCKeyText
  funcarr <- MCfuncarr
  FuncText <- MCFuncText
  Chop <- MCChop
  MAX_NUM_EVENTS = 3
  MAX_NUM_FUNCS = 3
  MaxLines = 2
  ObjID = {0, 1}
  Location = {"here", "there"}
  Document <- MCDocument
  MapName = {"default", "renamed"}
  defaultName = "default"
  MaxLinesWith <- MCMaxLinesWith
  NumAICs = 1
CHECK_DEADLOCK FALSE
INVARIANTS
  LaunchTypeOK BoundAsRead QuitEndsOwnServer StartsFromItsDescription
PROPERTY LaunchSettles
