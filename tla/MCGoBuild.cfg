\* Two builds, with any change of options and of errtrace in between.
CONSTANTS
  Packages <- MCPackages
  Options <- MCOptions
  Binaries <- MCBinaries
  MaxBuilds = 2
SPECIFICATION Spec
INVARIANTS TypeOK LinkNameOnce SameArguments FreshOutcome
CHECK_DEADLOCK FALSE
