CONSTANTS
  e1 = e1
  e2 = e2
  n1 = n1
  n2 = n2
  f1 = f1
  t1 = t1
  r1 = r1
  r2 = r2
  Emails = {e1, e2}
  Names = {n1, n2}
  Candidate <- TwoNames
  Slugs = {0, 1, 2, 11, 12}
  Ids <- AllOrNone
  MaxTries = 2
  Fields = {f1}
  Texts = {t1}
  Blank = Blank
  Requests = {r1, r2}
  NoSlug = NoSlug
  NoEmail = NoEmail
  NoName = NoName
SPECIFICATION Spec
SYMMETRY SlotSymmetry
INVARIANTS TypeOK OneOwner NumberedInOrder BadgeNeedsRegistry NoCircularWait
PROPERTIES NothingTakenOver FilledStays KeepsBook
