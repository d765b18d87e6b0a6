SPECIFICATION AccountsSpec
CONSTANTS
  desk = desk
  Browsers = {desk}
  Callers = {one, two}
  Home <- AtDesk
  MaxTokens = 3
  MaxEndings = 2
  Requests = {one, two}
  MaxFailed = 2
  MaxWrong = 3
  MaxSecrets = 2
  ann = ann
  Emails = {ann1, ann2}
  Person <- OfAnn
  Handlers = {one, two}
  MaxForms = 2
INVARIANTS SessionsInv RotationInv
INVARIANTS SignInInv
INVARIANTS AccessInv
SYMMETRY Alike
VIEW Matters
CHECK_DEADLOCK FALSE
