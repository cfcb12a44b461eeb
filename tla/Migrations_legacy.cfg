SPECIFICATION FairSpec
CONSTANTS
    Deployments = {d1, d2}
    Releases = {11, 12}
    MaxCrashes = 1
    MaxDowngrades = 2
INVARIANT StampTellsSchema NewReleaseServesHead
PROPERTY UpgradeReaches
