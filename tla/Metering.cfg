CONSTANTS
    N = 1
    Ranges = {0, 1, 2}
    Factors = {0, 1}
    Rates = {0, 1}
    NaN = NaN
    None = None
    Water = 1
    Changes = 3
SPECIFICATION Spec
INVARIANTS TypeOK ExemptionFits
PROPERTIES NotDemolished FlashCatchesUp AlarmTells
