SPECIFICATION HeadersSpec
CONSTANTS
    N = 87
    Hash <- HashOfFields
    Name <- Names
    NulFree <- Plain
    NameHash <- HashOfNames
    Resembles <- ResemblesOf
    Meant <- MeantBy
    Key <- Keys
INVARIANTS
    ThreadsLeadOn
    TypeOK
    Balanced
    IndexTypeOK
    IndexSorted
PROPERTIES
    PrintsAll
    FindsMeant
