\* One drain, one event.
SPECIFICATION Spec
CONSTANTS
  s1 = s1  s2 = s2  d1 = d1  d2 = d2
  Last = 1
  Shops = {s1}
  ShopOf <- MCShopOf
  Drains = {d1}
  PageSize = 1
  MaxPages = 1
  MaxFaults = 0
CHECK_DEADLOCK FALSE
INVARIANT RedactedStaysGone
