\* One replica, two responses in flight, two feed versions: a response can be
\* overtaken by a newer one.  The refresh loop runs under its fairness.
CONSTANTS
    Jtis = {j1, j2}
    Replicas = {r1}
    Fetchers = {f1, f2}
    MaxVersion = 2
SPECIFICATION FairSpec
PROPERTIES NeverUnrevokes GatewayNeverUnrevokes GatewayCatchesUp
CHECK_DEADLOCK FALSE
