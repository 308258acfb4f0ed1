SPECIFICATION FairSpec
CONSTANTS
  Nodes <- MCNodes
  Configured <- MCConfigured
  Specs <- MCSpecs
  DeviceInterval = 0
  DefaultInterval = 60
  SanitizeEnumLabel <- MCSanitizeEnumLabel
  HasComposite = TRUE
  Sizes = {1, 2}
  RawValues <- MCRawValues
  PropertyMaps <- MCPropertyMaps
  Enums <- MCEnums
  Climates <- MCClimates
  Lights <- MCLights
  Writables <- MCWritables
  Registers <- MCRegisters
  SetPoints <- MCSetPoints
  MaxLost = 2
  MaxPushes = 1
  MaxProps = 2
  MaxRestarts = 1
INVARIANTS
  PolledInstanceExists
  AdaptiveGetIsComplete
  DecodesWhatWasSent
  SetReadsBack
  ExportsOneState
  ControlsAreSettable
  ShownAsSet
  IndInv
PROPERTIES
  ScrapesConverge
  DiscoveryFollowsCache
\* a device that is skipped at start-up has nothing left to do
CHECK_DEADLOCK FALSE
