SPECIFICATION Spec
CONSTANTS
  Owners = {o1}
  Busy = {"users", "refresh_tokens", "playback_state"}
  MaxRows = 2
  None = None
INVARIANT SchemaOfRevision
INVARIANT OnlyRowsBlock
INVARIANT SoundHere
