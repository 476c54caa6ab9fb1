SPECIFICATION Spec
CONSTANTS
  MaxRequests = 2
  MaxFaults = 2
INVARIANTS ReportIsOwn RetrySuffices 
CHECK_DEADLOCK FALSE
