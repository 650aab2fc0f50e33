SPECIFICATION Spec
CONSTANT STREAM = STREAM
CHECK_DEADLOCK FALSE
INVARIANTS
    PrintsWhatIsMeant
    ReadsWhatIsPrinted
    StringsKept
    TextDecoded
PROPERTY
    TextEnds
