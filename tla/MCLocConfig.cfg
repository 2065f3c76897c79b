SPECIFICATION FairSpec
CONSTANTS
    ParamOrder <- MCParams
    CarrierOrder <- MCCarrier
    Values = {"0", "1"}
    Addresses <- MCAddresses
    Configs <- MCConfigs
    Supported = TRUE
    AgpsCapable = TRUE
    MaxCalls = 2
    MaxCrash = 1
    MaxRefuse = 1
INVARIANTS ConfigKept ServerKept MeasurementsTold
PROPERTIES SettingArrives
CHECK_DEADLOCK FALSE
