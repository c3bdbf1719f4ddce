SPECIFICATION Spec
CONSTANTS
  Required = {"timeseries-backend", "kafka-offset"}
  MaxFilters = 2
  MaxLines = 5
INVARIANTS TypeOK OwnValue RunsComplete
\* The parser stops at the end of the file or in an assertion, main() goes on to run().
CHECK_DEADLOCK FALSE
