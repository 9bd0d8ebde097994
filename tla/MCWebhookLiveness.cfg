\* Two ids of one body, delivered up to twice; one worker, which may crash or lose its lock
\* twice while it runs the job of w1: once too often for the queue, which then gives the job
\* up.  No fault of the route, the listener or the replay.
SPECIFICATION FairSpecOneFaulty
CONSTANTS
  w1 = w1  w2 = w2  r1 = r1  r2 = r2  r3 = r3  k1 = k1  k2 = k2  p1 = p1  p2 = p2
  WebhookIds <- MCWebhookIds
  Bodies <- MCBodies
  BodyOf <- MCBodyOf
  Requests = {r1, r2}
  Workers = {k1}
  Replays = {}
  MaxAttempts = 2
  MaxStalled = 1
  FaultKinds = {"run"}
  MaxFaults = 2
CHECK_DEADLOCK FALSE
PROPERTIES
  AckedIsSettled
  JobsFinish
