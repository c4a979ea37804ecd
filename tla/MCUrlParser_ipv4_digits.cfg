\* http:// followed by a host of up to three of 1, 0, x, a and '.'.
CONSTANTS
  RawInputs <- Ipv4Inputs
  Bases <- NoneSet
  Overrides <- NoneSet
  StartUrls <- NoneSet
  StepSlack = 10
SPECIFICATION Spec
INVARIANT NonNumericHostIsDomain
