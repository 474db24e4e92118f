SPECIFICATION Spec
CONSTANTS
  None = None
  Turns = {t1, t2, t3}
  Prompts = {p1, p2}
  Notes = {}
  Mails = {m1}
  TriggerMails = {}
  Ops = {"turn", "interrupt", "guardian"}
SYMMETRY Symmetry
CHECK_DEADLOCK FALSE
INVARIANTS TypeOK TasksAreLive AbortClearsTaken
PROPERTIES PromptKeepsReader LateMailWaits
