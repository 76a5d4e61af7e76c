\* A request of any endpoint, its key with a second caller, and its session.
SPECIFICATION GuardedSpec
CONSTANTS
    Requests = {r1}
    Engines = {e1, e2}
    None = None
    KeyCalls = {r1, c1}
    Origins = {o1}
    NoRow = NoRow
    MaxUses = 2
INVARIANTS TypeOK  RowBeforeMessage NoLimbo OneVerdict AnswersAreCurrent
PROPERTIES SendingIsRecorded OffStaysOff
