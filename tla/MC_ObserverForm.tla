--------------------------- MODULE MC_ObserverForm ---------------------------
EXTENDS ObserverForm

\* MINIMAL_CONFIG of the dashboard's constants (cpu cores, sizes in Gi)
MCMinimalConfig == [cpu |-> 2, memory |-> 10, data |-> 30, log |-> 30, redoLog |-> 30]
=============================================================================
