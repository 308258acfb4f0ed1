SPECIFICATION FairSpec
CONSTANTS
  EPCs = {"power", "mode", "aux"}
  Values = {0, 1}
  On = 1
  Nil = Nil
  Handlers <- OnlyMode
  Payloads <- AnyPayload
  Settable = {"power", "mode", "aux"}
  Readable = {"power", "mode", "aux"}
  Registers <- AllOffOrOn
  MaxCommands = 1
  MaxFails = 0
PROPERTIES
  PreSetsAreReread
CHECK_DEADLOCK FALSE
