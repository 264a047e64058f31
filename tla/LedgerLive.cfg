SPECIFICATION FairSpec
CONSTANTS
  Cmd = {edit, submit}
  SubmitCmd = {submit}
  Cid = {c1, c2}
  None = None
  MaxActions = 1
  MaxSeq = 1
  StepLimit = 2
  MaxRestarts = 1
  Ledger = TRUE
  RestartOnAmbiguous = TRUE
  WriteMayFail = TRUE
  ReadMayFail = TRUE
  DockerMayFail = TRUE
  RecordsMayExpire = TRUE
  ContainerMayDie = TRUE
PROPERTY EventuallyEnds
