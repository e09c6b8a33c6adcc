SPECIFICATION Spec
CONSTANT MaxLength <- MCMaxLength
INVARIANTS
    SplitIsSound
    FeaturesLookBack
    ChosenIsBest
    DesignCovers
CHECK_DEADLOCK FALSE
