\* Every graph of three errors without a multi-error that has a frame.
CONSTANTS
  N = 3
  MaxKids = 2
  PCMulti = FALSE
SPECIFICATION Spec
INVARIANTS TypeOK EachErrorReported UnwrapLoopAgrees
PROPERTY Terminates
CHECK_DEADLOCK FALSE
