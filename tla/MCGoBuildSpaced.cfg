\* The user separates selectors by a blank, and then by a comma.
CONSTANTS
  Packages <- MCPackages
  Options <- MCSpacedOptions
  Binaries <- MCBinaries
  MaxBuilds = 2
SPECIFICATION Spec
INVARIANT FreshOutcome
CHECK_DEADLOCK FALSE
