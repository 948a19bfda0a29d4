\* Named errors: is what a naked return hands out wrapped?
CONSTANTS
  Beginnings <- MCNamedBeginnings
  LitSignatures <- MCLitSignatures
  MaxNodes <- MCNamedMaxNodes
  MaxOptouts = 0
SPECIFICATION Spec
INVARIANT HandsOutWrapped
CHECK_DEADLOCK FALSE
