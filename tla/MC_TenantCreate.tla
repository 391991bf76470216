--------------------------- MODULE MC_TenantCreate ---------------------------
EXTENDS TenantCreate

\* Picker values: the date picker's value on day d1 (at some clock), the
\* time picker's value at clock t1 (on some day)
MCDateVal == {[day |-> "d1", clock |-> "t0"]}
MCTimeVal == {[day |-> "d0", clock |-> "t1"]}
=============================================================================
