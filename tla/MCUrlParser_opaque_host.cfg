\* x:// followed by host text, without a base.
CONSTANTS
  RawInputs <- OpaqueHostInputs
  Bases <- NoneSet
  Overrides <- NoneSet
  StartUrls <- NoneSet
  StepSlack = 10
SPECIFICATION Spec
INVARIANT NonSpecialHostIsOpaque
