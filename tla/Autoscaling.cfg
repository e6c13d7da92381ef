SPECIFICATION FairSpec
CONSTANTS
    Autoscalers = {a1}
    User = user
    Templates = {t1}
    ReplicaCounts = {3}
    HpaSpecs <- OneBound
    Loads = {25, 100}
    Target = 50
    Cooldown = 1
    Reports = {0, 1}
    MaxDisturbances = 2
PROPERTIES ScalesWithinBounds CooldownKept BoundsConverge ReplicasFollow
