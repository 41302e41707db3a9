SPECIFICATION Spec
CONSTANT ReleaseFaults = {"qp", "mr", "cq", "pd", "ctx", "sock", "chan", "cq1", "cq2"}
INVARIANTS NoDoubleRelease NoLeak ReleaseOrder
