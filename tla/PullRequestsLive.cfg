SPECIFICATION Spec
CONSTANTS
  p1 = p1
  p2 = p2
  r1 = r1
  r2 = r2
  a = a
  b = b
  n1 = n1
  n2 = n2
  n3 = n3
  open = open
  merged = merged
  edited = edited
  ann = ann
  bob = bob
  Procs <- MCProcs
  Repos <- MCRepos
  Prs <- MCPrs
  RepoOf <- MCRepoOf
  Names <- MCNames
  FirstName <- MCFirstName
  Renames <- NoRenames
  Contents <- MCContents
  Merged <- MCMerged
  FirstContent <- MCFirstContent
  MaxEdits <- OneEdit
  Logins <- MCLogins
  MaxAccounts <- OneAccount
  NoName = NoName
  NoPr = NoPr
CHECK_DEADLOCK FALSE
PROPERTY EveryCommandEnds
