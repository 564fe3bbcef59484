\* Two requests on one user beside the administrator and the walk-in client.
SPECIFICATION Spec
CONSTANTS
  sys = sys
  passer = passer
  chief = chief
  u1 = u1
  p0 = p0
  p1 = p1
  p2 = p2
  p3 = p3
  p4 = p4
  None = None
  Users = {sys, passer, chief, u1}
  System = sys
  WalkIn = passer
  WALKIN_PHONE = p0
  ADMIN_PHONE = p1
  Phones = {p0, p1, p2, p3, p4}
  AssignableRoles = {"COURIER", "STOREKEEPER", "CLIENT_B2B"}
  Updates <- MCUpdates
  MaxTokens = 2
  Edited = {u1}
  Requests = {r1, r2}
  MAX_ADDITIONAL_PHONES = 1
  MaxIdentities = 4
SYMMETRY RequestSymmetry
INVARIANTS
  UsersTypeOK
  StaffCanLogIn
  OneAccountOfEachKind
  LoginsSound
  PhoneLimitHolds
