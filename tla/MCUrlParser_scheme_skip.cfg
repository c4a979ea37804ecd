\* The scheme setter given text with a byte that is no scheme byte.
CONSTANTS
  RawInputs <- SchemeInputs
  Bases <- NoneSet
  Overrides <- SchemeOverrides
  StartUrls <- SchemeUrls
  StepSlack = 10
SPECIFICATION Spec
INVARIANTS SchemeSetterTakesInputScheme
