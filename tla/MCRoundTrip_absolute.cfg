\* Absolute http URLs: every arrangement of up to five authority pieces,
\* and of up to four authority, path, query and fragment bytes, parsed,
\* serialized and parsed again.
CONSTANTS
  RawInputs <- AbsoluteHttpInputs
  Bases <- NoneSet
  Overrides <- NoneSet
  StartUrls <- NoneSet
  StepSlack = 10
SPECIFICATION RTSpec
INVARIANTS TypeOK AuthorityFromLastAt ResultWellFormed RoundTripStable
PROPERTIES FirstAuthorityRefines
