\* Two roles, one class besides the empty one, three more events.
CONSTANTS
  Roles = {"sanitizer", "source"}
  Classes = {"xss"}
  Confidences = {74, 75, 85, 100}
  Threshold = 85
  MinTriage = 3
  Histories <- Starts
  MaxEvents = 3
SPECIFICATION Spec
INVARIANTS TypeOK NeverOnWordAlone NeverRejectedByHistory TrendEndsAtSummary
PROPERTY CalibrationMonotone
CHECK_DEADLOCK FALSE
