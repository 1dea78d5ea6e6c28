SPECIFICATION FairSpec
CONSTANTS
    Functions <- FourAndFive
    Half = 2
INVARIANTS
    RunsAsMeant
    EdgesTrue
    TokensSound
PROPERTIES
    Ends
