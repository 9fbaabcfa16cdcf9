SPECIFICATION Spec
CONSTANTS
  near = near
  far = far
  long = long
  NoTag = NoTag
  Tags <- MCTags
  Sites <- TagSites
INVARIANTS
  InventoryComplete
