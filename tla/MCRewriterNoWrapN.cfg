\* The same files, checked against what -no-wrapn promises.
CONSTANTS
  Beginnings <- MCBeginnings
  LitSignatures <- MCLitSignatures
  MaxNodes <- MCMaxNodes
  MaxOptouts = 1
SPECIFICATION Spec
INVARIANT NoWrapNObeyed
CHECK_DEADLOCK FALSE
