SPECIFICATION FairSpec
CONSTANT MaxAttempts = 3
INVARIANTS TypeOK StatusSettles NoOrphanTunnel RoutesNeedTunnel
PROPERTY TeardownReturns
