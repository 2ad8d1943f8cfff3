SPECIFICATION Spec
CONSTANTS
    Customer = {a, b}
    NoCustomer = NoCustomer
    Gone = Gone
    Contact = {p}
    NoContact = NoContact
    Deal = {d}
    Voice = {v}
    Kind = {x, y}
    Blank = Blank
    Client = {k1, k2}
    MaxVersion = 2
    MaxRequests = 4
    MaxContractVersion = 3
    Contract = {c}
    Sale = {s1, s2}
    NoRow = NoRow
    Terms <- Several
    NoDate = NoDate
    LastDay <- Calendar
    MaxScheduleEntries = 3
SYMMETRY Interchangeable
INVARIANTS ScheduleMatches RecognizedOnce NothingOverwritten
PROPERTIES HistoryKept RetiredForGood
CHECK_DEADLOCK FALSE
