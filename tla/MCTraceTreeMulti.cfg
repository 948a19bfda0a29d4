\* The same graphs, and multi-errors that have a TracePC method too.
CONSTANTS
  N = 3
  MaxKids = 2
  PCMulti = TRUE
SPECIFICATION Spec
INVARIANT EachErrorReported
CHECK_DEADLOCK FALSE
