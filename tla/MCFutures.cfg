SPECIFICATION Spec
CONSTANTS
    Configs <- MCConfigs
    Period = 2
    Slack = 1
    Off = Off
    Unarmed = Unarmed
INVARIANTS OutcomeRight NoLostWake TicksOnSchedule
PROPERTY Completes
CHECK_DEADLOCK FALSE
