\* Batches, reconciliations and rebuilds over three concepts, edited meanwhile.
SPECIFICATION Spec
CONSTANTS
  s1 = s1
  s2 = s2
  s3 = s3
  t1 = t1
  t2 = t2
  t3 = t3
  b1 = b1
  b2 = b2
  Slugs = {s1, s2, s3}
  Titles = {t1, t2, t3}
  Bodies = {b1, b2}
  LinkSets <- MCLinkSets
  None = None
  Vaults <- MCVaults
  Undoing = FALSE
  MaxCommands = 2
  MaxOps = 3
  MaxEdits = 1
  MaxGit = 1
  MaxActs = 3
INVARIANTS TypeOK CandidatesAgree IndexAgrees
PROPERTIES DirtyUntouched NoNewDuplicates LinksFollow NothingForged VerifiedIsCurrent
CHECK_DEADLOCK FALSE
