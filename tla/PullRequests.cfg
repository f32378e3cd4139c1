SPECIFICATION Spec
CONSTANTS
  p1 = p1
  p2 = p2
  r1 = r1
  r2 = r2
  a = a
  b = b
  n1 = n1
  n2 = n2
  n3 = n3
  open = open
  merged = merged
  edited = edited
  ann = ann
  bob = bob
  Procs <- MCProcs
  Repos <- MCRepos
  Prs <- MCPrs
  RepoOf <- MCRepoOf
  Names <- MCNames
  FirstName <- MCFirstName
  Renames <- MCRenames
  Contents <- MCContents
  Merged <- MCMerged
  FirstContent <- MCFirstContent
  MaxEdits <- OneEdit
  Logins <- MCLogins
  MaxAccounts <- TwoAccounts
  NoName = NoName
  NoPr = NoPr
SYMMETRY MCSymmetry
CHECK_DEADLOCK FALSE
INVARIANTS
  MovingPullRequestsAreNotStored
  LocatorsAreDistinct
  CurrentIsNewestPublished
  AccountsFitTheirSnapshot
  InputsArePublished
PROPERTIES
  StoreSpec
