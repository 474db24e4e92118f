SPECIFICATION Spec
CONSTANTS
  None = None
  Turns = {t1, t2, t3}
  Prompts = {p1, p2}
  Notes = {}
  Mails = {m1}
  TriggerMails = {m1}
  Ops = {"turn"}
SYMMETRY Symmetry
CHECK_DEADLOCK FALSE
INVARIANT AtMostOneTask
