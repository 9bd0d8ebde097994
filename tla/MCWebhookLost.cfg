\* One event, one fault of the route, one redelivery.
SPECIFICATION Spec
CONSTANTS
  w1 = w1  w2 = w2  r1 = r1  r2 = r2  r3 = r3  k1 = k1  k2 = k2  p1 = p1  p2 = p2
  WebhookIds = {w1}
  Bodies <- MCBodies
  BodyOf <- MCOneBodyOf
  Requests = {r1, r2}
  Workers = {k1}
  Replays = {}
  MaxAttempts = 2
  MaxStalled = 1
  FaultKinds = {"ingest"}
  MaxFaults = 1
CHECK_DEADLOCK FALSE
INVARIANT AckedIsEnqueued
