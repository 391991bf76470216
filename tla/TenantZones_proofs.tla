------------------------- MODULE TenantZones_proofs -------------------------
(***************************************************************************)
(* Zone clicks when cluster names are unique: getNewClusterList matches a  *)
(* cluster by id or by name, and with no two clusters of one name every    *)
(* target the page can build designates a single cluster.                  *)
(***************************************************************************)
EXTENDS TenantZones, TLAPS

\* No two clusters of the list share a name (one namespace, or unique names)
UniqueNames == \A c1, c2 \in ClusterIds : NameOf[c1] = NameOf[c2] => c1 = c2

\* The copy keeps every cluster of the list under its own name
NamesKept ==
    /\ clusterList \in [ClusterIds -> [name : {NameOf[c] : c \in ClusterIds},
                                      topology : UNION {[Z -> BOOLEAN \cup {Undef}] :
                                                           Z \in SUBSET Zones}]]
    /\ \A c \in ClusterIds : clusterList[c].name = NameOf[c]

LEMMA NamesKeptInit == Init => NamesKept
BY TenantZonesAssumption DEF Init, NamesKept

\* getNewClusterList changes the topology alone, keeps its domain, and
\* changes the flag of the clicked zone only, in the matching clusters only
LEMMA GetNewClusterListShape ==
    ASSUME NamesKept, NEW z \in Zones, NEW chk \in BOOLEAN, NEW t \in Targets
    PROVE  LET l2 == GetNewClusterList(clusterList, z, chk, t) IN
           /\ DOMAIN l2 = ClusterIds
           /\ \A c \in ClusterIds :
                 /\ l2[c].name = clusterList[c].name
                 /\ l2[c] # clusterList[c] => c = t.id \/ clusterList[c].name = t.name
                 /\ l2[c] \in [name : {NameOf[x] : x \in ClusterIds},
                               topology : UNION {[Z -> BOOLEAN \cup {Undef}] :
                                                    Z \in SUBSET Zones}]
                 /\ DOMAIN l2[c].topology = DOMAIN clusterList[c].topology
                 /\ \A x \in DOMAIN clusterList[c].topology :
                       l2[c].topology[x] # clusterList[c].topology[x]
                       => /\ x = z
                          /\ c = t.id \/ clusterList[c].name = t.name
<1> DEFINE l2 == GetNewClusterList(clusterList, z, chk, t)
<1>1. DOMAIN l2 = ClusterIds
  BY DEF GetNewClusterList, NamesKept
<1>2. ASSUME NEW c \in ClusterIds
      PROVE  /\ l2[c].name = clusterList[c].name
             /\ l2[c] # clusterList[c] => c = t.id \/ clusterList[c].name = t.name
             /\ l2[c] \in [name : {NameOf[x] : x \in ClusterIds},
                           topology : UNION {[Z -> BOOLEAN \cup {Undef}] :
                                                Z \in SUBSET Zones}]
             /\ DOMAIN l2[c].topology = DOMAIN clusterList[c].topology
             /\ \A x \in DOMAIN clusterList[c].topology :
                   l2[c].topology[x] # clusterList[c].topology[x]
                   => /\ x = z
                      /\ c = t.id \/ clusterList[c].name = t.name
  <2>0. /\ clusterList[c] \in [name : {NameOf[x] : x \in ClusterIds},
                                topology : UNION {[Z -> BOOLEAN \cup {Undef}] :
                                                    Z \in SUBSET Zones}]
         /\ clusterList[c] = [name |-> clusterList[c].name,
                               topology |-> clusterList[c].topology]
    BY DEF NamesKept
  <2>1. PICK Z \in SUBSET Zones : clusterList[c].topology \in [Z -> BOOLEAN \cup {Undef}]
    BY <2>0
  <2>2. CASE c = t.id \/ clusterList[c].name = t.name
    <3> DEFINE tp == clusterList[c].topology
               tp2 == [x \in DOMAIN tp |-> IF x = z THEN chk ELSE tp[x]]
    <3>1. l2[c] = [clusterList[c] EXCEPT !.topology = tp2]
      BY <2>2 DEF GetNewClusterList, NamesKept
    <3>2. tp2 \in [Z -> BOOLEAN \cup {Undef}]
      BY <2>1
    <3>3. l2[c] = [name |-> clusterList[c].name, topology |-> tp2]
      BY <2>0, <3>1
    <3>4. \A x \in DOMAIN tp : tp2[x] # tp[x] => x = z
      OBVIOUS
    <3>5. QED
      BY <2>0, <2>2, <3>2, <3>3, <3>4
  <2>3. CASE ~(c = t.id \/ clusterList[c].name = t.name)
    <3>1. l2[c] = clusterList[c]
      BY <2>3 DEF GetNewClusterList, NamesKept
    <3>2. QED
      BY <2>0, <2>3, <3>1
  <2>4. QED
    BY <2>2, <2>3
<1>3. QED
  BY <1>1, <1>2

LEMMA NamesKeptStep == NamesKept /\ [Next]_vars => NamesKept'
<1> SUFFICES ASSUME NamesKept, [Next]_vars PROVE NamesKept'
  OBVIOUS
<1>1. ASSUME NEW z \in Zones, NEW chk \in BOOLEAN, NEW t \in Targets,
             ClickZone(z, chk, t)
      PROVE  NamesKept'
  <2> DEFINE l2 == GetNewClusterList(clusterList, z, chk, t)
  <2>1. l2 \in [ClusterIds -> [name : {NameOf[c] : c \in ClusterIds},
                               topology : UNION {[Z -> BOOLEAN \cup {Undef}] :
                                                    Z \in SUBSET Zones}]]
    <3>1. l2 = [c \in ClusterIds |-> l2[c]]
      BY GetNewClusterListShape DEF GetNewClusterList, NamesKept
    <3>2. QED
      BY <3>1, GetNewClusterListShape
  <2>2. clusterList' = l2
    BY <1>1 DEF ClickZone
  <2>3. \A c \in ClusterIds : l2[c].name = NameOf[c]
    BY GetNewClusterListShape DEF NamesKept
  <2>4. QED
    BY <2>1, <2>2, <2>3 DEF NamesKept
<1>2. ASSUME NEW c \in ClusterIds, ComputeBound(c) PROVE NamesKept'
  BY <1>2 DEF ComputeBound, NamesKept
<1>3. CASE UNCHANGED vars
  BY <1>3 DEF vars, NamesKept
<1>4. QED
  BY <1>1, <1>2, <1>3 DEF Next

\* With unique names, a target built from a cluster matches that cluster only
LEMMA TargetMatchesOne ==
    ASSUME UniqueNames, NamesKept, NEW t \in Targets,
           NEW c1 \in ClusterIds, NEW c2 \in ClusterIds,
           c1 = t.id \/ clusterList[c1].name = t.name,
           c2 = t.id \/ clusterList[c2].name = t.name
    PROVE  c1 = c2
<1>1. PICK c0 \in ClusterIds : t = [id |-> c0, name |-> NameOf[c0]]
                               \/ t = [id |-> c0, name |-> Undef]
                               \/ t = [id |-> Undef, name |-> NameOf[c0]]
  BY DEF Targets
<1>2. ASSUME NEW c \in ClusterIds, c = t.id \/ NameOf[c] = t.name
      PROVE  c = c0
  <2>1. CASE t = [id |-> c0, name |-> NameOf[c0]]
    BY <1>2, <2>1 DEF UniqueNames
  <2>2. CASE t = [id |-> c0, name |-> Undef]
    BY <1>2, <2>2, TenantZonesAssumption
  <2>3. CASE t = [id |-> Undef, name |-> NameOf[c0]]
    BY <1>2, <2>3, TenantZonesAssumption DEF UniqueNames
  <2>4. QED
    BY <1>1, <2>1, <2>2, <2>3
<1>3. QED
  BY <1>2 DEF NamesKept

(***************************************************************************)
(* For every value of the constants in which no two clusters share a name, *)
(* a zone click sets one checkbox: at most one zone flag of at most one    *)
(* cluster changes, and names and topologies keep their zones.  The        *)
(* id-or-name match of getNewClusterList is safe exactly then.             *)
(***************************************************************************)
THEOREM OneClusterPerClickUniqueNames ==
    ASSUME UniqueNames
    PROVE  Spec => OneClusterPerClick
<1> DEFINE Kept == \A c \in ClusterIds :
                     /\ clusterList'[c].name = clusterList[c].name
                     /\ DOMAIN clusterList'[c].topology = DOMAIN clusterList[c].topology
           OneFlag == \A c1, c2 \in ClusterIds :
                        \A z1 \in DOMAIN clusterList[c1].topology,
                           z2 \in DOMAIN clusterList[c2].topology :
                          /\ clusterList'[c1].topology[z1] # clusterList[c1].topology[z1]
                          /\ clusterList'[c2].topology[z2] # clusterList[c2].topology[z2]
                          => c1 = c2 /\ z1 = z2
<1>1. NamesKept /\ [Next]_vars => [Kept /\ OneFlag]_vars
  <2> SUFFICES ASSUME NamesKept, [Next]_vars PROVE Kept /\ OneFlag
    OBVIOUS
  <2>1. CASE \E z \in Zones, chk \in BOOLEAN, t \in Targets : ClickZone(z, chk, t)
    <3>1. PICK z \in Zones, chk \in BOOLEAN, t \in Targets : ClickZone(z, chk, t)
      BY <2>1
    <3>2. clusterList' = GetNewClusterList(clusterList, z, chk, t)
      BY <3>1 DEF ClickZone
    <3>3. Kept
      BY <3>2, GetNewClusterListShape
    <3>4. ASSUME NEW c1 \in ClusterIds, NEW c2 \in ClusterIds,
                 NEW z1 \in DOMAIN clusterList[c1].topology,
                 NEW z2 \in DOMAIN clusterList[c2].topology,
                 clusterList'[c1].topology[z1] # clusterList[c1].topology[z1],
                 clusterList'[c2].topology[z2] # clusterList[c2].topology[z2]
          PROVE  c1 = c2 /\ z1 = z2
      <4>1. /\ z1 = z /\ (c1 = t.id \/ clusterList[c1].name = t.name)
            /\ z2 = z /\ (c2 = t.id \/ clusterList[c2].name = t.name)
        BY <3>2, <3>4, GetNewClusterListShape
      <4>2. QED
        BY <4>1, TargetMatchesOne
    <3>5. QED
      BY <3>3, <3>4
  <2>2. CASE \E c \in ClusterIds : ComputeBound(c)
    BY <2>2 DEF ComputeBound
  <2>3. CASE UNCHANGED vars
    BY <2>3 DEF vars
  <2>4. QED
    BY <2>1, <2>2, <2>3 DEF Next
<1>2. QED
  BY <1>1, NamesKeptInit, NamesKeptStep, PTL DEF Spec, OneClusterPerClick
=============================================================================
