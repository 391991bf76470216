----------------------------- MODULE TenantZones -----------------------------
(***************************************************************************)
(* The zone picker of the tenant-creation form and the resource bound it   *)
(* drives.  The form keeps a copy of the cluster list in which every zone  *)
(* of a cluster's topology carries a `checked` flag; a click on a zone     *)
(* replaces the list by getNewClusterList(list, zone, checked, target).    *)
(* The largest unit the tenant may ask for is findMinParameter(zones,      *)
(* essentialParameter): per dimension, the smallest free amount among the  *)
(* servers of the chosen zones.                                            *)
(***************************************************************************)
EXTENDS Naturals, Sequences

CONSTANTS
    ClusterIds,   \* clusterId of every cluster of the list
    NameOf,       \* NameOf[id]: its name (unique within a namespace only)
    TopologyOf,   \* TopologyOf[id]: the zones of its topology
    Zones,        \* zone names
    Vals,         \* free amounts a server may report
    MaxServers,   \* bound on the length of obServerResources
    Undef,        \* JavaScript undefined
    Thrown        \* findMinValue threw: [key] read of the undefined first element

\* The targets a zone click may name: by id and name, by id, or by name
Targets == {[id |-> c, name |-> NameOf[c]] : c \in ClusterIds}
           \cup {[id |-> c, name |-> Undef] : c \in ClusterIds}
           \cup {[id |-> Undef, name |-> NameOf[c]] : c \in ClusterIds}

Dims == {"availableCPU", "availableLogDisk", "availableMemory"}
ServerResource == [obZone : Zones, availableCPU : Vals,
                   availableLogDisk : Vals, availableMemory : Vals]
MaxResource == [maxCPU : Vals, maxLogDisk : Vals, maxMemory : Vals]

ASSUME TenantZonesAssumption ==
    /\ \A c \in ClusterIds : TopologyOf[c] \subseteq Zones /\ NameOf[c] # Undef
    /\ Undef \notin ClusterIds /\ Thrown \notin MaxResource
    /\ Vals \subseteq Nat /\ Vals # {}
    /\ MaxServers \in Nat

VARIABLES
    clusterList,   \* clusterList[id].topology[zone]: that zone's checked flag
    resources,     \* essentialParameter.obServerResources
    boundZones,    \* the zones the last bound was computed for
    bound          \* maxResource: Undef, Thrown or a MaxResource

vars == <<clusterList, resources, boundZones, bound>>

-----------------------------------------------------------------------------
\* Mutant: the id-or-name test is lost and every cluster's zone is set
GetNewClusterListAll(list, zone, checked, target) ==
    [c \in DOMAIN list |->
        [list[c] EXCEPT !.topology =
            [z \in DOMAIN @ |-> IF z = zone THEN checked ELSE @[z]]]]

\* Mutant: a zone missing from a matching topology is added to it
GetNewClusterListAdd(list, zone, checked, target) ==
    [c \in DOMAIN list |->
        IF c = target.id \/ list[c].name = target.name
        THEN [list[c] EXCEPT !.topology =
                [z \in DOMAIN @ \cup {zone} |-> IF z = zone THEN checked ELSE @[z]]]
        ELSE list[c]]

\* getNewClusterList: in a deep copy, set `checked` on the zone `zone` of
\* every cluster whose id or whose name matches the target
GetNewClusterList(list, zone, checked, target) ==
    [c \in DOMAIN list |->
        IF c = target.id \/ list[c].name = target.name
        THEN [list[c] EXCEPT !.topology =
                [z \in DOMAIN @ |-> IF z = zone THEN checked ELSE @[z]]]
        ELSE list[c]]

\* The orders in which a list of n elements can be read: bijections of 1..n
Reorderings(n) == {p \in [1..n -> 1..n] : \A w \in 1..n : \E v \in 1..n : p[v] = w}

\* s.sort((pre, cur) => pre[key] - cur[key]): the list read in an order under
\* which no element has a larger key than a later one; equal keys may stand
\* in either order (TLC's SortSeq with <=, stated here so that a proof can
\* unfold it)
SortArray(s, key) ==
    LET perm == CHOOSE p \in Reorderings(Len(s)) :
                  \A i, j \in 1..Len(s) : i < j => s[p[i]][key] <= s[p[j]][key]
    IN  [i \in 1..Len(s) |-> s[perm[i]]]

\* Mutant: the comparator is written cur[key] - pre[key] (descending order)
FindMinValueDesc(key, rs) ==
    IF rs = <<>> THEN Thrown
    ELSE LET perm == CHOOSE p \in Reorderings(Len(rs)) :
                       \A i, j \in 1..Len(rs) : i < j => rs[p[i]][key] >= rs[p[j]][key]
         IN  rs[perm[1]][key]

\* findMinValue: sort by key ascending and read the key of the first one
FindMinValue(key, rs) ==
    IF rs = <<>> THEN Thrown
    ELSE SortArray(rs, key)[1][key]

\* obServerResources.filter(resource => zones.includes(resource.obZone)):
\* the servers of the given zones, in their order (Sequences' SelectSeq,
\* written out as the recursive function it is so that a proof can unfold it)
FilterZones(rs, zones) ==
    LET F[i \in 0..Len(rs)] ==
          IF i = 0 THEN << >>
          ELSE IF rs[i].obZone \in zones THEN Append(F[i-1], rs[i]) ELSE F[i-1]
    IN F[Len(rs)]

\* findMinParameter: keep the servers of the given zones, bound each dimension
FindMinParameter(zones, rs) ==
    LET sel == FilterZones(rs, zones) IN
    IF sel = <<>> THEN Thrown
    ELSE [maxCPU     |-> FindMinValue("availableCPU", sel),
          maxLogDisk |-> FindMinValue("availableLogDisk", sel),
          maxMemory  |-> FindMinValue("availableMemory", sel)]

\* The zones of cluster c that are checked
CheckedZones(c) == {z \in DOMAIN clusterList[c].topology :
                        clusterList[c].topology[z] = TRUE}

-----------------------------------------------------------------------------
\* The list as fetched: no zone carries a checked flag yet
Init ==
    /\ clusterList = [c \in ClusterIds |->
                        [name |-> NameOf[c],
                         topology |-> [z \in TopologyOf[c] |-> Undef]]]
    /\ resources \in UNION {[1..n -> ServerResource] : n \in 0..MaxServers}
    /\ boundZones = Undef
    /\ bound = Undef

\* A zone checkbox of the target cluster is ticked or cleared
ClickZone(zone, checked, target) ==
    /\ clusterList' = GetNewClusterList(clusterList, zone, checked, target)
    /\ UNCHANGED <<resources, boundZones, bound>>

\* The form recomputes the bound for the checked zones of cluster c
ComputeBound(c) ==
    /\ boundZones' = CheckedZones(c)
    /\ bound' = FindMinParameter(CheckedZones(c), resources)
    /\ UNCHANGED <<clusterList, resources>>

Next ==
    \/ \E z \in Zones, chk \in BOOLEAN, t \in Targets : ClickZone(z, chk, t)
    \/ \E c \in ClusterIds : ComputeBound(c)

Spec == Init /\ [][Next]_vars

-----------------------------------------------------------------------------
TypeOK ==
    /\ \A c \in ClusterIds :
          clusterList[c].topology \in [TopologyOf[c] -> BOOLEAN \cup {Undef}]
    /\ DOMAIN clusterList = ClusterIds
    /\ boundZones \in (SUBSET Zones) \cup {Undef}
    /\ bound \in MaxResource \cup {Thrown, Undef}

\* The tightest-zone rule, stated without sorting: the smallest free amount
\* of each dimension over the servers of the chosen zones, or an error when
\* no server is in them
RefBound(zones, rs) ==
    LET sel == {rs[i] : i \in {j \in DOMAIN rs : rs[j].obZone \in zones}}
        least(d) == CHOOSE v \in {r[d] : r \in sel} : \A r \in sel : v <= r[d]
    IN IF sel = {} THEN Thrown
       ELSE [maxCPU |-> least("availableCPU"),
             maxLogDisk |-> least("availableLogDisk"),
             maxMemory |-> least("availableMemory")]

(***************************************************************************)
(* The bound findMinParameter gives the form is, for each dimension, the   *)
(* smallest amount free on a server of the chosen zones (a unit larger     *)
(* than it fits nowhere there), and choosing no zone with a server fails   *)
(* instead of yielding a bound.                                            *)
(***************************************************************************)
BoundIsTightest ==
    bound # Undef => bound = RefBound(boundZones, resources)

(***************************************************************************)
(* A zone click sets one checkbox: in a step, at most one zone flag of at  *)
(* most one cluster changes, and every cluster keeps its name and the      *)
(* zones of its topology.  getNewClusterList matches clusters by id OR by  *)
(* name and rewrites a zone of each match, so this fails as soon as the    *)
(* target matches two clusters or the zone is added to a topology.         *)
(***************************************************************************)
OneClusterPerClick ==
    [][/\ \A c \in ClusterIds :
            /\ clusterList'[c].name = clusterList[c].name
            /\ DOMAIN clusterList'[c].topology = DOMAIN clusterList[c].topology
       /\ \A c1, c2 \in ClusterIds :
            \A z1 \in DOMAIN clusterList[c1].topology,
               z2 \in DOMAIN clusterList[c2].topology :
                 /\ clusterList'[c1].topology[z1] # clusterList[c1].topology[z1]
                 /\ clusterList'[c2].topology[z2] # clusterList[c2].topology[z2]
                 => c1 = c2 /\ z1 = z2]_vars

=============================================================================
