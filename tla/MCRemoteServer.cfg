SPECIFICATION Spec
CONSTANTS
  Procs = {p1, p2}
  Sent = {"a1", "a2", "a3", "bare", "half"}
  Mails <- Sent
  NoMail = "none"
  Names = {"x", "y", "y z"}
  NoName = "none"
  SplitNames = {"y z"}
  Attachment <- SentAttachment
  Kind <- SentKind
  Ships <- SentShips
  Subject <- SentSubject
  Faults = 1
  Crashes = 1
SYMMETRY ProcSymmetry
INVARIANTS
  ServerInv
  OneSession
  OwnResults
