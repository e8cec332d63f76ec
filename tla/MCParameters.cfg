\* Storage classes from creation to deletion, with edited tags.
SPECIFICATION Spec
CONSTANTS
    Classes <- MCClasses
    NoClass = NoClass
    TagValues <- MCTagValues
    MaxEdits = 2
INVARIANTS
    TypeOK
    DeletionAsConfigured
    FinalBackupDecided
    OnlyFinalBackupTagsBlock
