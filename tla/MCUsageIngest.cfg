\* Two drains that overlap, three events of two shops, pages of up to two events,
\* two pages a run, one fault.
SPECIFICATION FairSpec
CONSTANTS
  s1 = s1  s2 = s2  d1 = d1  d2 = d2
  Last = 3
  Shops = {s1, s2}
  ShopOf <- MCShopOf
  Drains = {d1, d2}
  PageSize = 2
  MaxPages = 2
  MaxFaults = 1
CHECK_DEADLOCK FALSE
INVARIANTS
  TypeOK
  NothingSkipped
PROPERTIES
  AllMirrored
