--------------------------- MODULE MC_TenantZones ---------------------------
EXTENDS TenantZones

\* Two clusters: k1 with zones z1, z2 and k2 with z1 only
MCTopologyOf == [c \in ClusterIds |-> IF c = "k1" THEN {"z1", "z2"} ELSE {"z1"}]
\* Distinct names, and the case of two namespaces holding a cluster of one name
MCNameOf == [c \in ClusterIds |-> c]
MCSameNameOf == [c \in ClusterIds |-> "ob"]
=============================================================================
