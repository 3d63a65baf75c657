CONSTANTS
    Rules = {r1, r2}
    Kinds = {"page", "asset", "ajax", "webSocket", "blank"}
SPECIFICATION PagesSpec
SYMMETRY Symmetry
INVARIANTS
    RulesHearTheResponse
    NoCrashWithoutHooks
    DestinationIsFreed
    NavigationsAreAsAsked
    NavigationsAreAnnounced
    DocumentIsAsWritten
PROPERTIES
    ErrorAnswerIsFinal
CHECK_DEADLOCK FALSE
