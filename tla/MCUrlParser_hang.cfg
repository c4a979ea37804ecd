\* http:// followed by at most two of a, @ and :, without a base.
CONSTANTS
  RawInputs <- HangInputs
  Bases <- NoneSet
  Overrides <- NoneSet
  StartUrls <- NoneSet
  StepSlack = 10
SPECIFICATION Spec
INVARIANT StepBound
