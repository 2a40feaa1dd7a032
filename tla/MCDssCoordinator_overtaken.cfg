SPECIFICATION Spec
CONSTANTS
  Host = {"load", "storage", "fault"}
  Blocking = {"load", "storage"}
  Asking = {"load"}
  NoHandler = {"storage"}
  Raising = {"storage"}
  MaxEvents = 2
  MaxTime = 2
  Prompt = FALSE
  Switching = FALSE
INVARIANTS
  HeldWhileBlocked
