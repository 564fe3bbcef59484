\* Two requests, a vehicle and two addresses of one client; every report after every step.
SPECIFICATION Spec
CONSTANTS
  w1 = w1
  w2 = w2
  v1 = v1
  v2 = v2
  a1 = a1
  a2 = a2
  keeper = driver
  driver = driver
  cl = cl
  water = water
  tare = tare
  north = north
  northeast = northeast
  None = None
  Deleted = Deleted
  NoProduct = NoProduct
  Vendor = Vendor
  Loss = Loss
  SystemUser = SystemUser
  Users = {driver, cl, SystemUser}
  Clients = {cl}
  Products = {water, tare}
  Returnable <- MCReturnable
  ProductType <- MCProductType
  Virtual <- MCVirtual
  InitInv <- MCInitInv
  Contains <- MCContains
  Names = {}
  Inventories = {v1, a1, a2, Vendor, Loss}
  Requests = {r1, r2}
  TransferTypes = {"CLIENT_RETURN", "LOSS_WRITE_OFF"}
  MaxQty = 1
  MaxTransfers = 3
  MaxDay = 2
  Managing = FALSE
  CatalogOpen = FALSE
SYMMETRY RequestSymmetry
INVARIANTS
  NothingBelowZero
  ContainerReportsAgree
  TrendUpToToday
  MovementReportsAgree
