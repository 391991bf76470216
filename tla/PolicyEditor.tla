---------------------------- MODULE PolicyEditor ----------------------------
(***************************************************************************)
(* What the backup-policy page promises, without forms or wire shapes: the *)
(* user opens the policy the server holds, edits a draft of it, and saves. *)
(* A save either tells the user nothing changed, which it may only do when *)
(* the server already holds the draft, or sends the draft; a sent draft is *)
(* stored when the request succeeds and dropped when it fails.             *)
(***************************************************************************)
CONSTANTS
    Policies,   \* the policies the server may hold when the page opens
    Drafts,     \* the policies a draft may stand for
    None        \* no draft open / no request in flight

VARIABLES
    policy,     \* the server's policy
    draft,      \* the policy the open form stands for, or None
    inflight,   \* the draft being saved, or None
    said        \* what the page last told the user

avars == <<policy, draft, inflight, said>>

Init ==
    /\ policy \in Policies
    /\ draft = None
    /\ inflight = None
    /\ said = "idle"

Open ==
    /\ inflight = None
    /\ draft' = policy
    /\ said' = "idle"
    /\ UNCHANGED <<policy, inflight>>

Edit ==
    /\ draft # None
    /\ draft' \in Drafts
    /\ UNCHANGED <<policy, inflight, said>>

\* A save with nothing to send, allowed only when the server holds the draft
SaveNoChange ==
    /\ draft # None /\ inflight = None
    /\ policy = draft
    /\ said' = "noChange"
    /\ UNCHANGED <<policy, draft, inflight>>

SaveSend ==
    /\ draft # None /\ inflight = None
    /\ inflight' = draft
    /\ said' = "saving"
    /\ UNCHANGED <<policy, draft>>

Stored ==
    /\ inflight # None
    /\ policy' = inflight
    /\ inflight' = None
    /\ said' = "saved"
    /\ UNCHANGED draft

Dropped ==
    /\ inflight # None
    /\ inflight' = None
    /\ said' = "failed"
    /\ UNCHANGED <<policy, draft>>

Next == Open \/ Edit \/ SaveNoChange \/ SaveSend \/ Stored \/ Dropped

Spec == Init /\ [][Next]_avars

=============================================================================
