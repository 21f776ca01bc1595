\* Any text of up to three characters.
CONSTANTS
    MaxLength = 3
    Texts <- AnyTexts
    Documents = {}
SPECIFICATION Spec
INVARIANT SafeToRead
CHECK_DEADLOCK FALSE
