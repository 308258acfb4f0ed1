SPECIFICATION FairSpec
CONSTANTS
  EPCs = {"power", "mode", "aux"}
  Values = {0, 1}
  On = 1
  Nil = Nil
  Handlers <- All
  Payloads <- AnyPayload
  Settable = {"power", "mode"}
  Readable = {"power", "mode"}
  Registers <- AllOffOrOn
  MaxCommands = 2
  MaxFails = 1
INVARIANTS
  NoOptimisticLies
  IndInv
PROPERTIES
  NoBounce
  WritesAreReread
CHECK_DEADLOCK FALSE
