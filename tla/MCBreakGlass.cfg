\* Two grants, two calls, one use, one fault.
SPECIFICATION FairSpec
CONSTANTS
  g1 = g1  g2 = g2  ada = ada  sam = sam  s1 = s1  s2 = s2
  Grants = {g1, g2}
  Users = {ada, sam}
  Admins = {ada}
  Shops = {s1}
  Wanted <- MCWanted
  Sensitive = {"PII_REVEAL"}
  Calls = {c1, c2}
  Uses = {u1}
  TTL = 3
  TxTimeout = 1
  SweepTake = 1
  MaxFaults = 1
  LastCall = 3
CHECK_DEADLOCK FALSE
INVARIANTS
  TypeOK
  JustifiedAccess
  ExpiredIsOverdue
PROPERTIES
  ActiveEnds
