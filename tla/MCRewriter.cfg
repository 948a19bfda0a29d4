\* Every file of up to three nodes in a function, or in the second clause of a switch.
CONSTANTS
  Beginnings <- MCBeginnings
  LitSignatures <- MCLitSignatures
  MaxNodes <- MCMaxNodes
  MaxOptouts = 1
SPECIFICATION Spec
INVARIANTS TypeOK Idempotent WrappedOnce ErrorsOnly NothingMissed OptoutExact WrapNExists
CHECK_DEADLOCK FALSE
