SPECIFICATION Spec
CONSTANTS
  MaxLen = 2
  Ranks = {1, 2, 3}
  Now = 2
  Entries <- MCEntries
  Docs <- MCDocs
  Others <- MCOthers
  Valid <- MCValid
  Items <- MCEntries
  Cached <- MCCached
INVARIANTS
  IngestTypeOK
  DecodesFeed
  DedupExact
  
  TypeOK
  DiffSorted
  DiffExact
CHECK_DEADLOCK FALSE
