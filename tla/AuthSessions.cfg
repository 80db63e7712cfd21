SPECIFICATION Spec
CONSTANTS
  p1 = p1  p2 = p2  o1 = o1  o2 = o2
  u1 = u1  u2 = u2  u3 = u3  e1 = e1  e2 = e2  w1 = w1  w2 = w2
  None = None
  Procs <- TwoProcs
  Operators <- TwoOperators
  Plans <- SmallPlans
  UserIds <- ThreeUsers
  Root = u1
  Member = u2
  Emails <- TwoEmails
  AdminEmail = e1
  Passwords <- TwoPasswords
  MaxTokens = 3
  Commands <- AllCommands
  Faults = TRUE
SYMMETRY Symmetry
INVARIANTS OneTokenPerLogin RunsOnce TransparentRefresh NoTokenOfDeletedUser UpdatesMerge
\* Every invocation and request has been made.
CHECK_DEADLOCK FALSE
