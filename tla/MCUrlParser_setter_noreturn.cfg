\* The scheme and hostname setters: the code does not return after the
\* component, and parses on into the rest of the record.
CONSTANTS
  RawInputs <- SetterInputs
  Bases <- NoneSet
  Overrides <- NoReturnOverrides
  StartUrls <- SetterUrls
  StepSlack = 10
SPECIFICATION Spec
INVARIANT OverrideChangesOnlyItsComponent
