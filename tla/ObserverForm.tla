---------------------------- MODULE ObserverForm ----------------------------
(***************************************************************************)
(* The observer card of the cluster-creation form.  Every field of it is a *)
(* CustomItem, a Form.Item whose only rule is `required`; the numbers are  *)
(* InputNumbers whose `min` is the matching MINIMAL_CONFIG entry, and the  *)
(* storage classes are picked from a list fetched by the page.  The card's *)
(* button, setMinimalConfiguration, writes the minimal resources and sizes *)
(* back through form.setFieldsValue, which merges nested objects into the  *)
(* store.                                                                  *)
(***************************************************************************)
EXTENDS Naturals

CONSTANTS
    MinimalConfig,  \* MINIMAL_CONFIG: [cpu, memory, data, log, redoLog]
    Images,         \* image strings a user may type
    Classes,        \* names of the storage classes
    Extra,          \* how far above its minimum a typed number may go
    Undef,          \* undefined (never set)
    Null,           \* null (a cleared InputNumber)
    Empty           \* "" (an Input typed into and erased)

Volumes == {"data", "log", "redoLog"}
ResourceKeys == {"cpu", "memory"}
\* The value an InputNumber with minimum m may hold: cleared, or m and above
NumVal(m) == {Null, Undef} \cup m..(m + Extra)

ObserverVal ==
    [image : Images \cup {Empty, Undef},
     resource : [cpu : NumVal(MinimalConfig.cpu),
                 memory : NumVal(MinimalConfig.memory)],
     storage : [data : [size : NumVal(MinimalConfig.data),
                        storageClass : Classes \cup {Undef}],
                log : [size : NumVal(MinimalConfig.log),
                       storageClass : Classes \cup {Undef}],
                redoLog : [size : NumVal(MinimalConfig.redoLog),
                           storageClass : Classes \cup {Undef}]]]

ASSUME ObserverFormAssumption ==
    /\ MinimalConfig \in [ResourceKeys \cup Volumes -> Nat]
    /\ Extra \in Nat
    /\ {Undef, Null} \cap (Images \cup Classes \cup Nat \cup {Empty}) = {}
    /\ Empty \notin Classes \cup Nat

VARIABLES
    observer,        \* the form store's `observer` subtree
    classesLoaded    \* storageClasses has arrived (the selects are rendered)

vars == <<observer, classesLoaded>>

-----------------------------------------------------------------------------
\* A `required` rule is met by a value that is not undefined, null or ""
Present(v) == v \notin {Undef, Null, Empty}

\* Every CustomItem of the card passes its required rule
Complete(o) ==
    /\ Present(o.image)
    /\ \A k \in ResourceKeys : Present(o.resource[k])
    /\ \A v \in Volumes : Present(o.storage[v].size)
                          /\ Present(o.storage[v].storageClass)

\* Mutant: memory is given the cpu minimum
SetMinimalConfigurationSwap(o) ==
    [o EXCEPT !.resource = [cpu |-> MinimalConfig.cpu,
                            memory |-> MinimalConfig.cpu],
              !.storage = [v \in Volumes |->
                             [@[v] EXCEPT !.size = MinimalConfig[v]]]]

\* Mutant: the redoLog size is read from a misspelt key (undefined)
SetMinimalConfigurationTypo(o) ==
    [o EXCEPT !.resource = [cpu |-> MinimalConfig.cpu,
                            memory |-> MinimalConfig.memory],
              !.storage = [v \in Volumes |->
                             [@[v] EXCEPT !.size =
                                IF v = "redoLog" THEN Undef
                                ELSE MinimalConfig[v]]]]

\* setMinimalConfiguration: the store merged with
\* {...values, observer: {...observer, resource: {cpu, memory},
\*  storage: {...storage, data: {size}, log: {size}, redoLog: {size}}}}.
\* The merge keeps the keys the patch does not mention (storageClass).
SetMinimalConfiguration(o) ==
    [o EXCEPT !.resource = [cpu |-> MinimalConfig.cpu,
                            memory |-> MinimalConfig.memory],
              !.storage = [v \in Volumes |->
                             [@[v] EXCEPT !.size = MinimalConfig[v]]]]

-----------------------------------------------------------------------------
\* The card as first rendered: no field set
Init ==
    /\ observer = [image |-> Undef,
                   resource |-> [cpu |-> Undef, memory |-> Undef],
                   storage |-> [v \in Volumes |->
                                  [size |-> Undef, storageClass |-> Undef]]]
    /\ classesLoaded = FALSE

\* The storage classes arrive; the ClassSelects are rendered
LoadClasses ==
    /\ ~classesLoaded
    /\ classesLoaded' = TRUE
    /\ UNCHANGED observer

SetImage(i) ==
    /\ observer' = [observer EXCEPT !.image = i]
    /\ UNCHANGED classesLoaded

\* An InputNumber commits a value (it holds no value below its min)
SetResource(k, n) ==
    /\ observer' = [observer EXCEPT !.resource[k] = n]
    /\ UNCHANGED classesLoaded

SetSize(v, n) ==
    /\ observer' = [observer EXCEPT !.storage[v].size = n]
    /\ UNCHANGED classesLoaded

\* A ClassSelect picks a class; it exists once the classes are loaded
SetStorageClass(v, c) ==
    /\ classesLoaded
    /\ observer' = [observer EXCEPT !.storage[v].storageClass = c]
    /\ UNCHANGED classesLoaded

\* The "minimal configuration" button
MinimalConfiguration ==
    /\ observer' = SetMinimalConfiguration(observer)
    /\ UNCHANGED classesLoaded

Next ==
    \/ LoadClasses
    \/ \E i \in Images \cup {Empty} : SetImage(i)
    \/ \E k \in ResourceKeys, n \in NumVal(MinimalConfig.cpu) \cup NumVal(MinimalConfig.memory) :
          n \in NumVal(MinimalConfig[k]) /\ SetResource(k, n)
    \/ \E v \in Volumes, n \in NumVal(MinimalConfig.data) \cup NumVal(MinimalConfig.log)
                                \cup NumVal(MinimalConfig.redoLog) :
          n \in NumVal(MinimalConfig[v]) /\ SetSize(v, n)
    \/ \E v \in Volumes, c \in Classes : SetStorageClass(v, c)
    \/ MinimalConfiguration

Spec == Init /\ [][Next]_vars

-----------------------------------------------------------------------------
TypeOK ==
    /\ observer \in ObserverVal
    /\ classesLoaded \in BOOLEAN

(***************************************************************************)
(* The minimal-configuration button fills the card and never makes a       *)
(* submittable card unsubmittable: after it every resource and size field  *)
(* passes its required rule, and a card whose image and storage classes    *)
(* were chosen still passes every rule.                                    *)
(***************************************************************************)
MinimalKeepsChoices ==
    [][MinimalConfiguration =>
         /\ \A k \in ResourceKeys : Present(observer'.resource[k])
         /\ \A v \in Volumes : Present(observer'.storage[v].size)
         /\ Complete(observer) => Complete(observer')]_vars

=============================================================================
