\* One drain at a time, five events of two shops, pages of two events, two pages a
\* run, two faults.
SPECIFICATION Spec
CONSTANTS
  s1 = s1  s2 = s2  d1 = d1  d2 = d2
  Last = 5
  Shops = {s1, s2}
  ShopOf <- MCShopOf
  Drains = {d1}
  PageSize = 2
  MaxPages = 2
  MaxFaults = 2
CHECK_DEADLOCK FALSE
PROPERTY ExactlyOnce
