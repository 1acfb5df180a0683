SPECIFICATION Spec
CONSTANTS
  Replicas = {r1, r2}
  e = e
  E = E
  root = root
  Root = Root
  Enabled = {"signup", "password_reset", "email_verify", "oidc"}
  s1 = s1
  s2 = s2
  s3 = s3
  c1 = c1
  c2 = c2
  edge = edge
  none = none
  Addresses = {c1, c2, edge}
  TrustEdge = TRUE
  Arrivals <- MCArrivals
  IpLimit = 2
  KeyLimit = 1
  Emails = {e, E, root, Root}
  NoEmail = NoEmail
  AdminEmail = root
  NoSub = NoSub
  Flows = {f1, f2}
  NoFlow = NoFlow
  Mailbox <- MCMailbox
  Normal <- MCNormal
  Claims <- MCClaims
  MaxRequests = 3
SYMMETRY Symmetry
INVARIANTS
  TypeOK
  SubjectIsStable
  LoginIsOwn
  VerifiedWasProved
  AdminFirst
  AttemptsBounded
PROPERTIES
  NothingUndone
CHECK_DEADLOCK FALSE
