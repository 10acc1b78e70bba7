SPECIFICATION Spec
CONSTANTS
  Emails = {e1}
  Requests = {r1, r2}
  Status = {"pending", "approved", "suspended"}
  MaxSessions = 2
  MaxPuts = 2
  None = None
SYMMETRY Symmetry
INVARIANT TypeOK
INVARIANT AdmittedOnly
INVARIANT JarOfOneSession
INVARIANT PlaybackCurrent
PROPERTY AccountKept
