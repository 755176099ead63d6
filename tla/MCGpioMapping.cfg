SPECIFICATION Spec
CONSTANTS
    Names <- PlainNames
    Pins = {"4", "5", "6"}
    Policies <- TwoPolicies
    Texts <- SomeTexts
    MaxWords = 2
    MaxRestarts = 2
INVARIANTS TypeOK SavedIsKept DeletedIsGone
PROPERTIES ImplementsMappings
