\* Setters on records without a query or fragment.
CONSTANTS
  RawInputs <- SetterInputs
  Bases <- NoneSet
  Overrides <- SetterOverrides
  StartUrls <- SetterUrls
  StepSlack = 10
SPECIFICATION Spec
INVARIANT NoException
