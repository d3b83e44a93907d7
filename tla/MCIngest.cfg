SPECIFICATION Spec
CONSTANTS
  a = a
  b = b
  c = c
  Doc <- MCDoc
  Source <- MCSource
  SourceOf <- MCSourceOf
  Enumerating = {"federal_register", "hitrust"}
  Enabled = {"federal_register", "cis"}
  Jobs <- MCJobs
  Faults = {"setup", "record", "source", "versions", "kill"}
  Annotatable = {b}
  MaxFailures = 1
INVARIANTS FailedRunLeavesNoTrace CleanRunStoresAll
PROPERTIES OnlyDroppedAreRetired
