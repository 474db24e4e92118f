SPECIFICATION Spec
CONSTANTS
  None = None
  Turns = {t1, t2}
  Prompts = {p1}
  Notes = {n1}
  Mails = {m1}
  TriggerMails = {m1}
  Ops = {"turn", "goal", "approve", "aux", "shell"}
SYMMETRY Symmetry
CHECK_DEADLOCK FALSE
INVARIANT NoDuplicate
PROPERTY DeliverySpec
