\* Setup, debug mode, logins, tokens and settings of one machine, where
\* another program holds one of three ports.
CONSTANTS
    Emails = {"admin"}
    NoEmail = ""
    Ports = {9641, 9000, 80}
    DefaultPort = 9641
    Unusable = {80}
    Inputs <- FourInputs
    MaxJobs = 3
    MaxAtOnce = 2
    MaxTokens = 2
    MaxKills = 1
SPECIFICATION FairSpec
INVARIANTS
    TypeOK
    SessionsSurvive
    TokenIsUsedOnce
PROPERTIES
    ActiveTokensStay
    SettingsTakeEffect
\* The system stops when the bounds are reached.
CHECK_DEADLOCK FALSE
