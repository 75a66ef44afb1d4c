SPECIFICATION Spec
CONSTANTS
    Ids = {1, 2, 3}
    Appenders = {a1, a2}
    Trimmers = {t1}
    Readers = {c1}
    Free = Free
    TrimLimit = 2
    BatchLimit = 2
    PageLimit = 2
    PurgeLimit = 2
SYMMETRY ProcessSymmetry
INVARIANTS GaplessAboveFloor AnswersAgree ReaderMissesNothing
PROPERTIES ImplementsStream
