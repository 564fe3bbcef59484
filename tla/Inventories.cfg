\* Inventories are created, renamed, handed over, archived and deleted around documents.
SPECIFICATION Spec
CONSTANTS
  w1 = w1
  w2 = w2
  v1 = v1
  v2 = v2
  a1 = a1
  a2 = a2
  keeper = cl
  driver = cl
  cl = cl
  water = water
  tare = tare
  north = north
  northeast = northeast
  None = None
  Deleted = Deleted
  NoProduct = NoProduct
  Vendor = Vendor
  Loss = Loss
  SystemUser = SystemUser
  Users = {cl, SystemUser}
  Clients = {cl}
  Products = {water, tare}
  Returnable <- MCReturnable
  ProductType <- MCProductType
  Virtual <- MCVirtual
  InitInv <- MCInitInv
  Contains <- MCContains
  Names = {north, northeast}
  Inventories = {v1, v2, Vendor, Loss}
  Requests = {r1}
  TransferTypes = {"INVENTORY_FINDING", "COURIER_LOAD"}
  MaxQty = 1
  MaxTransfers = 1
  MaxDay = 1
  Managing = TRUE
  CatalogOpen = TRUE
INVARIANTS
  InventoryTypeOK
  OneActiveVehicle
  StockExplained
  NoDanglingProducts
