\* The setters: port, path, query, fragment and file host overrides, and
\* the scheme override, on special, non-special and file records, with and
\* without a query, credentials, a port or a host.
CONSTANTS
  RawInputs <- AllSetterInputs
  Bases <- NoneSet
  Overrides <- AllSetterOverrides
  StartUrls <- AllSetterUrls
  StepSlack = 10
SPECIFICATION Spec
INVARIANTS ReturningSetterChangesOnlyItsComponent SchemeSetterKeepsKind FileHostSetterSetsHost

