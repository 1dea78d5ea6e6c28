SPECIFICATION FairPasses
CONSTANTS
    Half = 1
    Functions <- FourAndFive
INVARIANTS
    KeepsMeaning
    EdgesTrue
    FoldedAndPlaced
PROPERTIES
    Ends
