SPECIFICATION Spec
CONSTANTS
    Autoscalers = {a1}
    User = user
    Templates = {t1, t2}
    ReplicaCounts = {1}
    HpaSpecs <- OneBound
    Loads = {100}
    Target = 50
    Cooldown = 2
    Reports = {0, 1}
    MaxDisturbances = 3
PROPERTY HpaWritesReplicasOnly
