SPECIFICATION Spec
CONSTANTS
  a = a
  b = b
  c = c
  Doc <- MCDoc
  Source <- MCSource
  SourceOf <- MCSourceOf
  Enumerating = {"federal_register", "hitrust"}
  Enabled = {"federal_register", "cis"}
  Jobs <- MCJobs
  Faults = {"record"}
  Annotatable = {b}
  MaxFailures = 1
INVARIANT CountedRecordsAreStored
