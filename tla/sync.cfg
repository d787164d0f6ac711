SPECIFICATION Spec
CONSTANTS
    e1 = e1
    Snapshots <- MCSnapshots
    Entities <- MCEntities
    Rows <- MCRows
    Settings <- MCSettings
    MaxItems = 3
    MaxFlights = 2
    BatchSize = 2
    MaxRequests = 2
    MaxInflight = 2
    SlowInflight = 1
    MaxRetryQueue = 2
    SlowRetryQueue = 1
    SpecRules <- MCSpecRules
    EnabledFields <- MCEnabledFields
    FieldDisables <- MCFieldDisables
    ShortLabels <- MCShortLabels
    SpecStores <- MCSpecStores
    Vocabulary <- MCVocabulary
    SpecPages <- MCSpecPages
    SpecRows <- MCSpecRows
    MaxTableRows = 3
INVARIANTS
    OutstandingIsLive
    DeliveredIsApplied
    DeltaKnowsEntity
    ReorderedPageIsTheSame
    FieldsAreAccountedFor
    AgreementNeverHurts
PROPERTIES
    OlderOnlyByRepeat
    SyncEnds
CHECK_DEADLOCK FALSE
