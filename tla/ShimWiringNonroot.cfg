SPECIFICATION WiringSpec
CHECK_DEADLOCK FALSE
CONSTANTS
    Vocabulary <- MCVocabulary
    Originals <- MCOriginals
    MaxLines = 8
PROPERTIES
    NonrootEnforced
