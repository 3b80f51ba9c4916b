SPECIFICATION Spec
CONSTANTS
  Workers = {w1, w2}
  ann = ann
  bob = bob
  new = new
  f1 = f1
  f2 = f2
  Accounts <- MCAccounts
  Existing <- MCExisting
  FirstName <- MCFirstName
  Friendships <- MCFriendships
  Names <- MCNames
  Flights <- MCFlights
  Requests <- MCRequests
  Fit = 1
  CommitFails = TRUE
  None = None
  NoCookie = NoCookie
  BadCookie = BadCookie
INVARIANTS
  TypeOK
  ShownToEntitled
  NothingWithoutAccount
  OwnPageServed
PROPERTY
  OnlyOwnData
SYMMETRY Symmetry
