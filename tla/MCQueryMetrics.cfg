CONSTANTS
    Op = {"b1", "q1", "c1"}
    KindOf <- MCKindOf
    Affected = {0, 2}
    Err = {e1, e2}
    NoErr = NoErr
    NoStart = NoStart
    MaxHooks = 4
SPECIFICATION Spec
INVARIANTS
    OneMetricEach
    MetricIsOfFirstEnd
CHECK_DEADLOCK FALSE
