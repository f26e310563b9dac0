\* Two replicas that share the version sequence.
CONSTANTS
    Jtis = {j1}
    Replicas = {r1, r2}
    Fetchers = {f1}
    MaxVersion = 3
SPECIFICATION Spec
PROPERTY NeverUnrevokes
CHECK_DEADLOCK FALSE
