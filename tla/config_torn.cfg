SPECIFICATION RegSpec
CONSTANTS
  t1 = t1  t2 = t2  hotel = hotel  inn = inn  shop = shop
  ama = ama  esi = esi  kofi = kofi  n1 = n1  n2 = n2
  None = None  Undecodable = Undecodable  NoRequest = NoRequest  Unregistered = Unregistered
  Threads = {t1, t2}
  BusinessIds = {hotel, inn, shop}
  Shipped = {hotel, shop}
  ShippedFiles <- GoodFiles
  Emails = {ama, esi, kofi}
  OwnerEmail <- HotelHasAnOwner
  Fields = {"persona", "provider"}
  MaxRequests = 3
  MaxCrashes = 0
  Sorted <- InOrder
  Numbers = {n1, n2}
  Adapters <- ClaimsOverlap
  Enabled = {hotel, inn, shop}
  UnknownValues = {2}
INVARIANTS NeverHalfWritten
CHECK_DEADLOCK FALSE
