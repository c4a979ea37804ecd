\* x://h followed by up to three of '/' and 'a', without a base.
CONSTANTS
  RawInputs <- RoundTripInputs
  Bases <- NoneSet
  Overrides <- NoneSet
  StartUrls <- NoneSet
  StepSlack = 10
SPECIFICATION RTSpec
INVARIANT RoundTripStable
