\* Relative and absolute references made of dot segments, slashes, a drive
\* letter, queries and fragments, after nothing, x:, file: or http:,
\* against http, file, non-special and cannot-be-a-base bases.
CONSTANTS
  RawInputs <- ResolveInputs
  Bases <- ResolveBases
  Overrides <- NoneSet
  StartUrls <- NoneSet
  StepSlack = 10
SPECIFICATION Spec
INVARIANTS NoDotSegments InheritsBaseAuthority QueryFragmentSplit PathResolvesLikeReference
PROPERTIES PathRefinesStack AuthorityRefines
