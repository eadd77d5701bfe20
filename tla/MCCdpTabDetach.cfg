CONSTANTS
  MaxNavs = 1
  MaxOps = 1
SPECIFICATION Spec
INVARIANTS
  DetachedLeavesNoTab
