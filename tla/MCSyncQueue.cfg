SPECIFICATION FairSpec
CONSTANTS
    Thread = {t1, t2, t3, t4}
    Entry = {e1, e2, e3}
    Nobody = Nobody
INVARIANTS
    TypeOK
    NoLostWakeup
PROPERTIES
    HeadIsTaken
