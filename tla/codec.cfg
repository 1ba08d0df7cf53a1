\* Decoding of delegated replies and framing of script return values.
CONSTANTS
    Ints <- MCInts
    Texts <- MCTexts
    Lines <- MCLines
    Returns <- MCReturns
SPECIFICATION Spec
INVARIANTS
    DecodeConsumesWholeReply
    DecodeMatchesSpec
    EncodeIsFramed
