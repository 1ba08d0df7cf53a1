\* Round trip of a command reply through the script, status replies included.
CONSTANTS
    Ints <- MCInts
    Texts <- MCTexts
    Lines <- MCLines
    Returns <- MCReturns
SPECIFICATION Spec
INVARIANTS
    RoundTrip
