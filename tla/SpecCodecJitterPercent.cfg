\* Delay 100 ms with the jitter percentages where float64 rounding shows.
CONSTANTS
    HostChoices <- MCHostChoices
    ServiceChoices <- MCServiceChoices
    KnobChoices <- MCRoundingKnobs
    DeprecatedPortChoices = {0}
    DeprecatedFlowChoices <- NoFlow
    ExistingServices <- MCExistingServices
    K8sClientWired = TRUE
    PercentChoices <- MCPercents
    Alnum <- MCAlnum
    LabelPunct <- MCLabelPunct
    SelectorStrings <- MCSelectors
    ModifiedMessage <- MCModifiedMessage
    TotalChoices <- MCTotals
INIT CodecInit
NEXT CodecNext
INVARIANT JitterIsPercentOfDelay
CHECK_DEADLOCK FALSE
