\* Two lvalues, calls nested two deep, two calls of up to three attempts, with
\* exceptions of both kinds.
SPECIFICATION Spec
CONSTANTS
  Arg = {x, y}
  Val = {0, 1}
  InitVal = 0
  NoVal = NoVal
  MaxDepth = 2
  MaxCalls = 2
  MaxTries = 2
INVARIANTS TypeOK RunningInside
PROPERTIES OnlySuccessVisible ArgsRestored OutsideAccessRejected
