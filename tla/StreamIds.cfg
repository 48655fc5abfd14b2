CONSTANTS
    Slots <- MCSlots
    MaxCreated <- MCMaxCreated
    MaxLive <- MCMaxLive
SPECIFICATION Spec
INVARIANTS TypeOK AliasOnlyAcrossWrap AnalysisReadsBack
PROPERTY CloseIsPrecise
CHECK_DEADLOCK FALSE
