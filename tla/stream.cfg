CONSTANTS
  Fine = 2
  Skew = 1
  Page = 2
  MaxLines = 3
  MaxOpen = 2
  MaxConnects = 2
  MaxFailures = 1
SPECIFICATION StreamSpec
INVARIANTS StreamTypeOK NothingIsSkipped
CHECK_DEADLOCK FALSE
