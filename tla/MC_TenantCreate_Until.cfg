CONSTANTS
    Zones = {"z1", "z2"}
    Addrs = {"%"}
    Secrets = {s1, s2}
    Sizes = {n0, n2}
    Zero = n0
    DateVal <- MCDateVal
    TimeVal <- MCTimeVal
    ClusterName = "obcluster"
    Undef = Undef
    Null = Null
    Absent = Absent
    Comma = Comma
SPECIFICATION Spec
INVARIANT UntilEncoded
