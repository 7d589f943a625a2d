SPECIFICATION MCSpec
CONSTANTS
    DocIDs = {1, 2, 3}
    Times <- TimesAroundZero
    Tenants = {"a", "b"}
    Sources = {"x", "y"}
    Wheres <- SomeWheres
    Limits <- PositiveLimits
    Callers = {"in process", "a", "b"}
    InProcess = "in process"
    Stores <- SomeStores
INVARIANTS
    PushdownSafe
    TenantOnly
    AnswerExact
CHECK_DEADLOCK FALSE
