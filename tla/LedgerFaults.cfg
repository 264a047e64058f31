SPECIFICATION Spec
CONSTANTS
  Cmd = {edit, submit}
  SubmitCmd = {submit}
  Cid = {c1, c2}
  None = None
  MaxActions = 1
  MaxSeq = 2
  StepLimit = 2
  MaxRestarts = 1
  Ledger = TRUE
  RestartOnAmbiguous = FALSE
  WriteMayFail = TRUE
  ReadMayFail = FALSE
  DockerMayFail = FALSE
  RecordsMayExpire = TRUE
  ContainerMayDie = TRUE
INVARIANTS AtMostOnce TrueAccount LedgerInv
SYMMETRY Symmetry
