SPECIFICATION TextSpec
CONSTANTS
    a = a
    b = b
    c = c
    t = t
    Objs <- MCObjs
    Local = t
    THOUSAND  = 2
    MaxTime   = 11
    MaxFactor = 2
    RADIX = 2
    FractionDigits = 3
    MaxSecondDigits = 2
    Texts <- MCTexts
SYMMETRY MCSymmetry
INVARIANTS
    TypeOK
    Normalised
    ValueIsIdeal
    ComparisonsAgree
