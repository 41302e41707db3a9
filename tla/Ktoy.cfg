SPECIFICATION Spec
CONSTANTS
  Proc = {p1, p2, p3, p4}
  Root = {p1, p2}
  Value = {v1, v2, v3}
  Initial = deadbeef
  Zero = zero
  InitFaults = {"region", "cdev", "class", "device"}
INVARIANTS NeverIntoUnloaded SetKept
