SPECIFICATION Spec
CONSTANTS
  Procs = {p1, p2}
  Sent = {"a1", "bare", "half", "odd"}
  Mails <- Sent
  NoMail = "none"
  Names = {"x", "y", "y z"}
  NoName = "none"
  SplitNames = {"y z"}
  Attachment <- SentAttachment
  Kind <- SentKind
  Ships <- SentShips
  Subject <- SentSubject
  Faults = 1
  Crashes = 1
PROPERTY EveryMailAnswered
