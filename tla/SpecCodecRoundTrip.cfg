\* Specs with up to one host, allowed host and service each, with and
\* without the deprecated fields, and a spread of knobs.  The pipeline
\* ends once the injector has started or the spec was refused.
CONSTANTS
    HostChoices <- MCHostChoices
    ServiceChoices <- MCServiceChoices
    KnobChoices <- MCKnobChoices
    DeprecatedPortChoices = {0, 80}
    DeprecatedFlowChoices <- NoDeprecatedFlow
    ExistingServices <- MCExistingServices
    K8sClientWired = TRUE
    PercentChoices <- MCPercents
    Alnum <- MCAlnum
    LabelPunct <- MCLabelPunct
    SelectorStrings <- MCSelectors
    ModifiedMessage <- MCModifiedMessage
    TotalChoices <- MCTotals
INIT CodecInit
NEXT CodecNext
INVARIANT InjectorSeesAdmittedSpec
INVARIANT DefaultJitterIsTenth
CHECK_DEADLOCK FALSE
