\* Every value that goes through a tag.
SPECIFICATION Spec
CONSTANTS
    Classes <- MCClasses
    NoClass = NoClass
    TagValues <- MCTagValues
    MaxEdits = 0
INVARIANTS
    NoMistranslation
