SPECIFICATION FairSpec
CONSTANTS
    Callers = {c1, c2}
    Processes = {p1, p2}
    IdModulus = 4
    NoWorker = NoWorker
INVARIANTS TypeOK SlotInSync AnswersAreOwed NoStrayWorkers IdsNeverWrap
PROPERTIES ImplementsService EveryCallReturns OrphansExit
