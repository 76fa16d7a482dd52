\* Two creates, a restore, an import, a sync, a prune, a death and another bucket.
SPECIFICATION CloudSpec
CONSTANTS
  p1 = p1
  c1 = c1
  c2 = c2
  r1 = r1
  i1 = i1
  s1 = s1
  s2 = s2
  x1 = x1
  k1 = k1
  k2 = k2
  NoProfile = NoProfile
  NoBackup = NoBackup
  Sources = {p1}
  Creates = {c1, c2}
  Restores = {r1}
  Imports = {i1}
  Syncs = {s1}
  Prunes = {x1}
  Buckets = {k1, k2}
  FirstBucket = k1
  CloudOverlaps = FALSE
  Used = {p1}
  Retention = 1
  MaxDeaths = 1
  MaxReconfigs = 1
SYMMETRY Sym
INVARIANTS RowsHaveFiles  
PROPERTIES RetentionSparesNewest
\* Every call is used once, so the system stops when they are used up.
CHECK_DEADLOCK FALSE
