CONSTANTS
  Calls = {c1, c2}
  Addresses = {a1}
  NoAddress = none
SPECIFICATION Spec
INVARIANT AnswersAreOwn
