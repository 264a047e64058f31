SPECIFICATION Spec
CONSTANTS
  Cmd = {edit, submit}
  SubmitCmd = {submit}
  Cid = {c1, c2, c3}
  None = None
  MaxActions = 2
  MaxSeq = 4
  StepLimit = 2
  MaxRestarts = 2
  Ledger = TRUE
  RestartOnAmbiguous = FALSE
  WriteMayFail = FALSE
  ReadMayFail = FALSE
  DockerMayFail = FALSE
  RecordsMayExpire = FALSE
  ContainerMayDie = FALSE
INVARIANTS TypeOK NoOrphanCommand 
PROPERTY ReplayIsFree
SYMMETRY Symmetry
