SPECIFICATION CollectionSpec
CONSTANTS
  s1 = s1
  c1 = c1
  p1 = p1
  e1 = e1
  l1 = l1
  l2 = l2
  l3 = l3
  Writers = {w1, w2}
  Created = {s1}
  Listings = {l1, l2, l3}
  Connections = {c1}
  Profiles = {p1}
  Letters = {e1}
  Decisions = {"APPROVED"}
  ReadKinds = {"CatalogListing"}
  IdOrder <- MCIdOrder
  Hidden <- MCHidden
  PageLimit = 1
  ScanLimit = 2
  CursorLife = 2
  MaxSequence = 4
  MaxCursors = 2
  MaxTime = 2
  MaxEvents = 6
SYMMETRY CollectionSymmetry
CONSTRAINT Focus
CHECK_DEADLOCK FALSE
INVARIANTS
  PagesAreOneSnapshot
  WalksKeepTheirTerms
  VersionsCanBeExpected
