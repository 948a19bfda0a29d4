\* Two files and stdin, every way to import errtrace, every flag.
CONSTANTS
  Paths <- MCPaths
  Stdin <- MCStdin
  Packages <- MCPackages
  Inputs <- MCInputs
  Commands <- MCCommands
  Torn <- MCTorn
SPECIFICATION Spec
INVARIANTS TypeOK FilesIntact EveryFileProcessed ListAgrees CallsResolve RunAgain GofmtGuards
PROPERTY Terminates
CHECK_DEADLOCK FALSE
