SPECIFICATION Spec
CONSTANTS
    Channels = {ch0, ch1}
    BadChannels = {bad}
    Configs <- Configurations
    TransportErrs = {"NACK_ADDR", "BUS"}
    MaxU8 = 3
    MaxU32 = 2
INVARIANTS
    HealthIsClassified
    ObservationTruth
    FailureLeavesNoEvidence
PROPERTIES
    ProbeIsPassive
    TotalsOutliveBindings
    ImplementsDriverHealth
    SuccessIsTrue
    RefusalIsTransactional
