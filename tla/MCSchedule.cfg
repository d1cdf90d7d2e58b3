\* The update loop, the upgrade refresh, the user and the frontend on one list.
SPECIFICATION FairSpec
CONSTANTS
    a = a  b = b
    Subs <- MCSubs
    Active = a
    WithHeader = {b}
    Default = 2
    MinInterval = 1
    MaxBackoff = 3
    MaxExp = 1
    Intervals = {0, 1, 2}
    Retries = 1
    Budget = 1
INVARIANTS UpgradeNotForgotten
PROPERTIES RoundWritesHealthOnly UpgradeSettles EverySubscriptionIsTried FrontendCatchesUp
CHECK_DEADLOCK FALSE
