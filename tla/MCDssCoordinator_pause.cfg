SPECIFICATION FairSpec
CONSTANTS
  Host = {"load", "storage", "fault"}
  Blocking = {"load", "storage"}
  Asking = {"load"}
  NoHandler = {"storage"}
  Raising = {"storage"}
  MaxEvents = 2
  MaxTime = 2
  Prompt = TRUE
  Switching = FALSE
INVARIANTS
  TypeOK
  HeldWhileBlocked
PROPERTIES
  OnlyLostUpdates
  NeverAsksThePast
  NetworkResumes
  AnswerComes
