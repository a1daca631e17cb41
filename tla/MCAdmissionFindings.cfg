\* Both are violated; -continue shows them all.
SPECIFICATION Spec
CONSTANTS
  default = default  acme = acme  c1 = c1  c2 = c2
  Calls = {c1, c2}
  Requests <- MCRequests
  Provisioned <- MCProvisioned
  Tenants = {default, acme}
  Default = default
  Classes <- MCClasses
  Burst <- MCBurst
  Rate <- MCRate
  Unit = 2
  MaxRetries = 1
  MaxTime = 2
  Bounds <- MCBounds
  None = None
CHECK_DEADLOCK FALSE
INVARIANTS SomeKeyTold DrainAnswers
