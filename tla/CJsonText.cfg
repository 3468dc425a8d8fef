CONSTANTS
  IntMax = 40
  NestingLimit = 2
  DefaultSize = 4
  Sizes = {0, 1, 8, 12, 14, 16, 18, 20, 30}
  Texts <- MCTexts
  Others <- MCOthers
SPECIFICATION Spec
INVARIANTS StaysInside FailureFreesAll ParseIsRight PrintIsRight FiveMoreSuffice WritesFit CompareIsRight MinifyKeepsTokens
