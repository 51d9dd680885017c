SPECIFICATION Spec
CONSTANTS
  Docs = {d1, d2}
  d1 = d1
  d2 = d2
  c1 = c1
  c2 = c2
  c3 = c3
  c4 = c4
  Chunks = {c1, c2, c3, c4}
  Users = {u1, u2}
  Terms = {"law", "tax", "die", "who"}
  Configs = {"en", "de"}
  Words = {"w1", "w2", "w3", "w4", "w5"}
  NoWord = "-"
  DocOf <- MCDocOf
  Content <- MCContent
  Lexeme <- MCLexeme
  Stoplist = {"who"}
  Questions <- MCQuestions
  MaxDf = 15
  Candidates = 3
  RrfK = 1
  WeightFts = 1
  Cap = 2
  K = 2
  Pool = 3
  MaxChanges = 1
INVARIANTS
  NoInversion
PROPERTIES
  HitsAllowed
  RecallNet
CHECK_DEADLOCK FALSE
