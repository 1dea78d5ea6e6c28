SPECIFICATION Spec
CONSTANT Half = 8
INVARIANTS
    BranchAsWritten
    SelectAsWritten
    CodeReversible
    SubsumptionSound
