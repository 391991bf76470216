------------------------ MODULE ObserverForm_proofs -------------------------
(***************************************************************************)
(* The observer card, for every minimal configuration and every set of     *)
(* images and storage classes: the card keeps its shape, and the minimal-  *)
(* configuration button fills every number without undoing a choice.      *)
(***************************************************************************)
EXTENDS ObserverForm, TLAPS

\* A number typed or written back into a field of minimum m
LEMMA NumValIntro ==
    ASSUME NEW m \in Nat, NEW n \in m..(m + Extra)
    PROVE  n \in NumVal(m)
BY DEF NumVal

\* The button writes values the fields may hold
LEMMA SetMinimalConfigurationType ==
    ASSUME NEW o \in ObserverVal
    PROVE  SetMinimalConfiguration(o) \in ObserverVal
<1>1. \A k \in ResourceKeys \cup Volumes : MinimalConfig[k] \in NumVal(MinimalConfig[k])
  BY ObserverFormAssumption DEF NumVal
<1>2. QED
  BY <1>1 DEF SetMinimalConfiguration, ObserverVal, Volumes, ResourceKeys

LEMMA TypeInit == Init => TypeOK
<1> SUFFICES ASSUME Init PROVE TypeOK
  OBVIOUS
<1>1. \A m \in Nat : Undef \in NumVal(m)
  BY DEF NumVal
<1>2. [v \in Volumes |-> [size |-> Undef, storageClass |-> Undef]]
        = [data |-> [size |-> Undef, storageClass |-> Undef],
           log |-> [size |-> Undef, storageClass |-> Undef],
           redoLog |-> [size |-> Undef, storageClass |-> Undef]]
  BY DEF Volumes
<1>3. QED
  BY <1>1, <1>2, ObserverFormAssumption DEF Init, TypeOK, ObserverVal, Volumes, ResourceKeys

LEMMA TypeStep == TypeOK /\ [Next]_vars => TypeOK'
<1> SUFFICES ASSUME TypeOK, [Next]_vars PROVE TypeOK'
  OBVIOUS
<1>1. CASE LoadClasses
  BY <1>1 DEF LoadClasses, TypeOK
<1>2. CASE \E i \in Images \cup {Empty} : SetImage(i)
  BY <1>2 DEF SetImage, TypeOK, ObserverVal
<1>3. CASE \E k \in ResourceKeys, n \in NumVal(MinimalConfig.cpu) \cup NumVal(MinimalConfig.memory) :
             n \in NumVal(MinimalConfig[k]) /\ SetResource(k, n)
  BY <1>3 DEF SetResource, TypeOK, ObserverVal, ResourceKeys
<1>4. CASE \E v \in Volumes, n \in NumVal(MinimalConfig.data) \cup NumVal(MinimalConfig.log)
                                \cup NumVal(MinimalConfig.redoLog) :
             n \in NumVal(MinimalConfig[v]) /\ SetSize(v, n)
  BY <1>4 DEF SetSize, TypeOK, ObserverVal, Volumes
<1>5. CASE \E v \in Volumes, c \in Classes : SetStorageClass(v, c)
  BY <1>5 DEF SetStorageClass, TypeOK, ObserverVal, Volumes
<1>6. CASE MinimalConfiguration
  BY <1>6, SetMinimalConfigurationType DEF MinimalConfiguration, TypeOK
<1>7. CASE UNCHANGED vars
  BY <1>7 DEF vars, TypeOK
<1>8. QED
  BY <1>1, <1>2, <1>3, <1>4, <1>5, <1>6, <1>7 DEF Next

(***************************************************************************)
(* For every value of the constants, every field of the observer card      *)
(* holds a value its control can hold, whatever order the edits, the      *)
(* arrival of the storage classes and the button come in.                  *)
(***************************************************************************)
THEOREM TypeCorrect == Spec => []TypeOK
BY TypeInit, TypeStep, PTL DEF Spec

\* On a well-shaped card, the button fills the numbers and keeps the rest
LEMMA MinimalStep ==
    ASSUME NEW o \in ObserverVal
    PROVE  LET o2 == SetMinimalConfiguration(o) IN
           /\ \A k \in ResourceKeys : Present(o2.resource[k])
           /\ \A v \in Volumes : Present(o2.storage[v].size)
           /\ Complete(o) => Complete(o2)
<1> DEFINE o2 == SetMinimalConfiguration(o)
<1>1. \A k \in ResourceKeys : o2.resource[k] = MinimalConfig[k]
  BY DEF SetMinimalConfiguration, ObserverVal, ResourceKeys
<1>2. \A v \in Volumes : o2.storage[v].size = MinimalConfig[v]
                         /\ o2.storage[v].storageClass = o.storage[v].storageClass
  BY DEF SetMinimalConfiguration, ObserverVal, Volumes
<1>3. o2.image = o.image
  BY DEF SetMinimalConfiguration, ObserverVal
<1>4. \A k \in ResourceKeys \cup Volumes : Present(MinimalConfig[k])
  BY ObserverFormAssumption DEF Present
<1>5. QED
  BY <1>1, <1>2, <1>3, <1>4 DEF Complete

(***************************************************************************)
(* For every value of the constants, a click on "minimal configuration"    *)
(* leaves every resource and size field passing its required rule, and a   *)
(* card that passed every rule still does: the storage classes survive the *)
(* setFieldsValue merge.                                                   *)
(***************************************************************************)
THEOREM MinimalKeepsChoicesAlways == Spec => MinimalKeepsChoices
<1>1. TypeOK /\ [Next]_vars =>
        [MinimalConfiguration =>
           /\ \A k \in ResourceKeys : Present(observer'.resource[k])
           /\ \A v \in Volumes : Present(observer'.storage[v].size)
           /\ Complete(observer) => Complete(observer')]_vars
  BY MinimalStep DEF TypeOK, MinimalConfiguration
<1>2. QED
  BY <1>1, TypeCorrect, PTL DEF Spec, MinimalKeepsChoices
=============================================================================
