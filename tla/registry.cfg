SPECIFICATION BoundedSpec
CONSTANTS
  t1 = t1  t2 = t2  hotel = hotel  inn = inn  shop = shop
  ama = ama  esi = esi  kofi = kofi  n1 = n1  n2 = n2
  None = None  Undecodable = Undecodable  NoRequest = NoRequest  Unregistered = Unregistered
  Threads = {t1, t2}
  BusinessIds = {hotel, inn, shop}
  Shipped = {hotel, shop}
  ShippedFiles <- AnyFiles
  Emails = {ama, esi, kofi}
  OwnerEmail <- HotelHasAnOwner
  Fields = {"persona", "provider"}
  MaxRequests = 3
  MaxCrashes = 1
  Sorted <- InOrder
  Numbers = {n1, n2}
  Adapters <- ClaimsOverlap
  Enabled = {hotel, inn, shop}
  UnknownValues = {2}
SYMMETRY Symmetry
INVARIANTS RegTypeOK OwnersHaveTheirBusiness NoHalfBusiness HalvesStayUnowned FileIsAsEdited
PROPERTIES OwnersStay FirstFitIsServed
CHECK_DEADLOCK FALSE
