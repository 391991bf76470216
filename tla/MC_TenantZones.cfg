CONSTANTS
    ClusterIds = {"k1", "k2"}
    NameOf <- MCNameOf
    TopologyOf <- MCTopologyOf
    Zones = {"z1", "z2"}
    Vals = {1, 2}
    MaxServers = 3
    Undef = Undef
    Thrown = Thrown
SPECIFICATION Spec
INVARIANTS TypeOK BoundIsTightest
PROPERTY OneClusterPerClick
