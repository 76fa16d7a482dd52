\* Two scripts, one of them new; two calls at a time of a user who waits.
SPECIFICATION FairSpec
CONSTANTS
  None = None
  s1 = s1
  s2 = s2
  s3 = s3
  j1 = j1
  c1 = c1
  c2 = c2
  Scripts = {s1, s2, s3}
  Known = {s1, s2}
  Shared = {s1}
  Jobs = {j1}
  Slots = {c1, c2}
  TypedTexts <- SomeTexts
  TypedNumbers <- SomeNumbers
  MaxBlocks = 2
  MaxVersions = 2
  MaxClicks = 4
  MaxFailures = 1
  Patient = TRUE
INVARIANTS EditorAgreesWithServer UntouchedIsStored
PROPERTIES  ShownRunsEnd
\* The user's clicks are bounded, so the page comes to rest.
CHECK_DEADLOCK FALSE
