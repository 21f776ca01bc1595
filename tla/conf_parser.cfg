\* Any text of up to five characters, and documents of one or two lines.
CONSTANTS
    MaxLength = 5
    Texts <- AnyTexts
    Documents <- AnyDocuments
SPECIFICATION Spec
INVARIANTS
    TypeOK
    ReadAsWritten
    NothingIgnored
CHECK_DEADLOCK FALSE
