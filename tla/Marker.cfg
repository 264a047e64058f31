SPECIFICATION Spec
CONSTANTS
  Cmd = {edit, submit}
  SubmitCmd = {submit}
  Cid = {c1, c2}
  None = None
  MaxActions = 1
  MaxSeq = 2
  StepLimit = 2
  MaxRestarts = 1
  Ledger = FALSE
  RestartOnAmbiguous = FALSE
  WriteMayFail = TRUE
  ReadMayFail = FALSE
  DockerMayFail = TRUE
  RecordsMayExpire = TRUE
  ContainerMayDie = TRUE
PROPERTY CompletedStepsNotRerun
SYMMETRY Symmetry
