\* http://h: followed by up to five of the digits 6, 5, 3.
CONSTANTS
  RawInputs <- PortInputs
  Bases <- NoneSet
  Overrides <- NoneSet
  StartUrls <- NoneSet
  StepSlack = 10
SPECIFICATION Spec
INVARIANT PortKeptBelowLimit
