SPECIFICATION Spec
CONSTANTS
  Owners = {o1}
  Busy = {"refresh_tokens"}
  MaxRows = 2
  None = None
INVARIANT UserIdNotUnique
