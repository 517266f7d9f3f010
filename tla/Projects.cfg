\* One built-in project, two uploads, two threads, two starts.
CONSTANTS
  Builtins = {demo}
  Uploads = {u1, u2}
  Workers = {w1, w2}
  MaxRequests = 4
  MaxStarts = 2
SYMMETRY Symmetric
SPECIFICATION Spec
INVARIANTS TypeOK VisibleIsComplete DeletedStaysDeleted AuditsKept
CHECK_DEADLOCK FALSE
