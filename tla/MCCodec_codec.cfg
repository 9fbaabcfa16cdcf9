SPECIFICATION Spec
CONSTANTS
  near = near
  far = far
  long = long
  NoTag = NoTag
  Tags <- MCTags
  Sites <- MCSites
INVARIANTS
  TypeOK
  FramesUnderstood
  MemoryAsAsked
  OnlyTheSelected
  SettingsArrive
  ErrorTold
  InventoryFaithful
  PanicsExplained
