\* Two threads, three requests, two exports.
CONSTANTS
  Workers = {w1, w2}
  Roles = {"sanitizer", "none"}
  NoRole = NoRole
  Classes = {"xss"}
  NoClass = NoClass
  MaxRequests = 3
  MaxExports = 2
SYMMETRY Threads
SPECIFICATION Spec
INVARIANTS TypeOK TwoGates PartOfOneExport
CHECK_DEADLOCK FALSE
