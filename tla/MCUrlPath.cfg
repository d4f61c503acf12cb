SPECIFICATION Spec
CONSTANTS
    Name = {"a", "b", "h"}
    Scheme = "http:"
    Urls <- MCUrls
    MaxSegments = 4
    MaxItems = 3
INVARIANTS TypeOK OpensWhatIsMeant StaysBelowRoot ListsTheQuery
