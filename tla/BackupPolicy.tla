---------------------------- MODULE BackupPolicy ----------------------------
(***************************************************************************)
(* The backup-policy edit workflow of the dashboard.  Each client (a       *)
(* browser tab) fetches the tenant's policy (getBackupPolicy), turns it    *)
(* into the editable form shape (formatBackupPolicyData), lets the user    *)
(* edit it, and on submit formats the form into the wire shape             *)
(* (formatBackupForm), compares it with the policy it fetched              *)
(* (checkIsSame) and only then POSTs it (updatePolicyOfTenant).  The      *)
(* server holds one policy for the tenant; requests complete or fail.     *)
(***************************************************************************)
EXTENDS Naturals, FiniteSets

CONSTANTS
    Clients,      \* browser tabs editing the same tenant's policy
    NDays,        \* schedule day keys are 1..NDays
    Types,        \* backupType values ("Full", "Incremental")
    Modes,        \* scheduleType values ("Weekly", "Monthly")
    HM,           \* "HH:mm" strings
    Secs,         \* seconds component of the time picker's value
    Secrets,      \* plaintext credentials a user may type
    Undef,        \* JavaScript undefined / an absent key
    NaN,          \* Number(key) of a key that is not a numeral
    NoKey,        \* the public key has not been fetched yet
    PubKey,       \* the public key once fetched
    SharedInput   \* the object handed to formatBackupForm is the form's own

Days == 1..NDays
SecretFields == {"bakEncryptionPassword", "ossAccessId", "ossAccessKey"}

\* encryptText(plain, publicKey): the ciphertext is tagged with its plaintext
Enc(v) == <<"enc", v>>
Cipher == {Enc(s) : s \in Secrets}
PlainVal == Secrets \cup {Undef}
SecretVal == PlainVal \cup Cipher

\* One element of API.ScheduleDatesType and the policy returned by the server
DateItem == [day : Days, backupType : Types]
PolicyVal == [scheduleType : Modes \cup {Undef}, scheduleTime : HM,
              scheduleDates : SUBSET DateItem]

\* The editable scheduleDates object: day keys, plus the UI-only keys
\* "days" and "mode" (Undef once deleted)
DayMap == UNION {[D -> Types] : D \in SUBSET Days}
DatesObj == [types : DayMap, days : (SUBSET Days) \cup {Undef},
             mode : Modes \cup {Undef}]
FormVal == [scheduleTime : [hm : HM, ss : Secs], scheduleDates : DatesObj,
            bakEncryptionPassword : PlainVal, ossAccessId : PlainVal,
            ossAccessKey : PlainVal]
BodyVal == [scheduleTime : HM, scheduleType : Modes \cup {Undef},
            scheduleDates : SUBSET DateItem,
            bakEncryptionPassword : SecretVal, ossAccessId : SecretVal,
            ossAccessKey : SecretVal]

ASSUME ConstAssumption ==
    /\ NDays \in Nat \ {0}
    /\ Types # {} /\ Modes # {} /\ HM # {} /\ 0 \in Secs
    /\ Undef \notin Types \cup Modes \cup Secrets \cup HM
    /\ NaN \notin Nat
    /\ Undef \notin PolicyVal \cup FormVal
    /\ NoKey # PubKey
    /\ SharedInput \in BOOLEAN

VARIABLES
    policy,     \* the policy stored by the server
    snapshot,   \* snapshot[c]: the policy client c fetched, or Undef
    form,       \* form[c]: the form store of client c
    key,        \* key[c]: the public key as known to client c
    body,       \* body[c]: the payload of c's submit handler while it runs
                \* (in flight, or just answered "no change"), else Undef
    pending,    \* pending[c]: an update request of c is in flight
    msg         \* msg[c]: what the page last told the user

vars == <<policy, snapshot, form, key, body, pending, msg>>

-----------------------------------------------------------------------------
(* The helpers of helper.ts                                                 *)

DaysOf(S) == {e.day : e \in S}

\* No day occurs twice in a list of schedule entries
DistinctDays(S) == \A e1, e2 \in S : e1.day = e2.day => e1 = e2

\* Mutant: `result.mode = backupPolicy.scheduleType` is forgotten
FormatBackupPolicyDataNoMode(p) ==
    [types |-> [d \in DaysOf(p.scheduleDates) |->
                   (CHOOSE e \in p.scheduleDates : e.day = d).backupType],
     days  |-> DaysOf(p.scheduleDates),
     mode  |-> Undef]

\* formatBackupPolicyData: days from the policy, mode, and result[day] = type
FormatBackupPolicyData(p) ==
    [types |-> [d \in DaysOf(p.scheduleDates) |->
                   (CHOOSE e \in p.scheduleDates : e.day = d).backupType],
     days  |-> DaysOf(p.scheduleDates),
     mode  |-> p.scheduleType]

\* The form as the page fills it from a fetched policy
FormOf(p) ==
    [scheduleTime |-> [hm |-> p.scheduleTime, ss |-> 0],
     scheduleDates |-> FormatBackupPolicyData(p),
     bakEncryptionPassword |-> Undef, ossAccessId |-> Undef,
     ossAccessKey |-> Undef]

\* `publicKey ? encryptText(v, publicKey) : v`, applied only to a truthy v
EncryptIf(v, k) == IF v = Undef THEN v ELSE IF k = NoKey THEN v ELSE Enc(v)

\* delete scheduleDates.days; delete scheduleDates.mode
StripUiKeys(o) == [o EXCEPT !.days = Undef, !.mode = Undef]

\* Object.keys(scheduleDates).map(key => ({day: Number(key), backupType})):
\* a "days" or "mode" key still present becomes an entry with day NaN
ObjectEntries(o) ==
    {[day |-> d, backupType |-> o.types[d]] : d \in DOMAIN o.types}
    \cup {[day |-> NaN, backupType |-> v] : v \in {o.days, o.mode} \ {Undef}}

\* Mutant: the two deletes of the UI-only keys are left out
FormatBackupFormNoStrip(f, k) ==
    [scheduleTime |-> f.scheduleTime.hm,
     scheduleType |-> f.scheduleDates.mode,
     scheduleDates |-> ObjectEntries(f.scheduleDates),
     bakEncryptionPassword |-> EncryptIf(f.bakEncryptionPassword, k),
     ossAccessId |-> EncryptIf(f.ossAccessId, k),
     ossAccessKey |-> IF f.ossAccessKey = Undef THEN f.ossAccessKey
                      ELSE IF k = NoKey THEN f.ossAccessId
                      ELSE Enc(f.ossAccessKey)]

FormatBackupForm(f, k) ==
    [scheduleTime |-> f.scheduleTime.hm,
     scheduleType |-> f.scheduleDates.mode,
     scheduleDates |-> ObjectEntries(StripUiKeys(f.scheduleDates)),
     bakEncryptionPassword |-> EncryptIf(f.bakEncryptionPassword, k),
     ossAccessId |-> EncryptIf(f.ossAccessId, k),
     ossAccessKey |-> IF f.ossAccessKey = Undef THEN f.ossAccessKey
                      ELSE IF k = NoKey THEN f.ossAccessId
                      ELSE Enc(f.ossAccessKey)]

\* Mutant: the length comparison is dropped
CheckDateIsSameNoLen(pre, cur) ==
    \A p \in pre : /\ \E c \in cur : c.day = p.day
                  /\ \A c \in cur : c.day = p.day => c.backupType = p.backupType

CheckDateIsSame(pre, cur) ==
    /\ Cardinality(pre) = Cardinality(cur)
    /\ \A p \in pre : /\ \E c \in cur : c.day = p.day
                      /\ \A c \in cur : c.day = p.day => c.backupType = p.backupType

\* Mutant: the scheduleType key is skipped by the comparison
CheckIsSameNoType(pre, cur) ==
    /\ CheckDateIsSame(pre.scheduleDates, cur.scheduleDates)
    /\ cur.scheduleTime = pre.scheduleTime
    /\ \A f \in SecretFields : cur[f] = Undef

\* Every key of the formatted form is compared with the fetched policy; the
\* policy has no credential keys, so a credential that is set differs.
CheckIsSame(pre, cur) ==
    /\ CheckDateIsSame(pre.scheduleDates, cur.scheduleDates)
    /\ cur.scheduleTime = pre.scheduleTime
    /\ cur.scheduleType = pre.scheduleType
    /\ \A f \in SecretFields : cur[f] = Undef

\* What the server keeps of an update body
PolicyOf(b) == [scheduleType |-> b.scheduleType, scheduleTime |-> b.scheduleTime,
                scheduleDates |-> b.scheduleDates]

-----------------------------------------------------------------------------
(* The workflow                                                             *)

\* Policies the server can hold at start: one entry per day, a known mode
InitPolicies == {p \in PolicyVal : p.scheduleType \in Modes /\ DistinctDays(p.scheduleDates)}

Init ==
    /\ policy \in InitPolicies
    /\ snapshot = [c \in Clients |-> Undef]
    /\ form = [c \in Clients |-> Undef]
    /\ key = [c \in Clients |-> NoKey]
    /\ body = [c \in Clients |-> Undef]
    /\ pending = [c \in Clients |-> FALSE]
    /\ msg = [c \in Clients |-> "idle"]

\* usePublicKey: the key arrives some time after the page opened
KeyLoaded(c) ==
    /\ key[c] = NoKey
    /\ key' = [key EXCEPT ![c] = PubKey]
    /\ UNCHANGED <<policy, snapshot, form, body, pending, msg>>

\* getBackupPolicy succeeds; the page keeps the policy and fills the form
Load(c) ==
    /\ ~pending[c]
    /\ snapshot' = [snapshot EXCEPT ![c] = policy]
    /\ form' = [form EXCEPT ![c] = FormOf(policy)]
    /\ body' = [body EXCEPT ![c] = Undef]
    /\ msg' = [msg EXCEPT ![c] = "idle"]
    /\ UNCHANGED <<policy, key, pending>>

\* The scheduleDates object after the user picks type t for day d (the day
\* joins the checked days), and after the user unchecks day d
AddDay(o, d, t) ==
    [o EXCEPT !.types = [x \in DOMAIN o.types \cup {d} |->
                           IF x = d THEN t ELSE o.types[x]],
              !.days = IF o.days = Undef THEN {d} ELSE o.days \cup {d}]
DropDay(o, d) ==
    [o EXCEPT !.types = [x \in DOMAIN o.types \ {d} |-> o.types[x]],
              !.days = IF o.days = Undef THEN Undef ELSE o.days \ {d}]

SetDay(c, d, t) ==
    /\ form[c] # Undef
    /\ form' = [form EXCEPT ![c].scheduleDates = AddDay(@, d, t)]
    /\ UNCHANGED <<policy, snapshot, key, body, pending, msg>>

RemoveDay(c, d) ==
    /\ form[c] # Undef
    /\ d \in DOMAIN form[c].scheduleDates.types
    /\ form' = [form EXCEPT ![c].scheduleDates = DropDay(@, d)]
    /\ UNCHANGED <<policy, snapshot, key, body, pending, msg>>

SetMode(c, m) ==
    /\ form[c] # Undef
    /\ form' = [form EXCEPT ![c].scheduleDates.mode = m]
    /\ UNCHANGED <<policy, snapshot, key, body, pending, msg>>

SetTime(c, t, s) ==
    /\ form[c] # Undef
    /\ form' = [form EXCEPT ![c].scheduleTime = [hm |-> t, ss |-> s]]
    /\ UNCHANGED <<policy, snapshot, key, body, pending, msg>>

SetSecret(c, f, v) ==
    /\ form[c] # Undef
    /\ form' = [form EXCEPT ![c][f] = v]
    /\ UNCHANGED <<policy, snapshot, key, body, pending, msg>>

\* Submit: formatBackupForm (which deletes "days" and "mode" from the object
\* it was given), then checkIsSame against the fetched policy, then either
\* tell the user nothing changed or send updatePolicyOfTenant.
Submit(c) ==
    /\ form[c] # Undef /\ ~pending[c]
    /\ LET b == FormatBackupForm(form[c], key[c])
           same == CheckIsSame(snapshot[c], b) IN
       /\ body' = [body EXCEPT ![c] = b]
       /\ form' = IF SharedInput
                  THEN [form EXCEPT ![c].scheduleDates = StripUiKeys(@)]
                  ELSE form
       /\ pending' = [pending EXCEPT ![c] = ~same]
       /\ msg' = [msg EXCEPT ![c] = IF same THEN "noChange" ELSE "saving"]
    /\ UNCHANGED <<policy, snapshot, key>>

\* The update succeeds: the server stores the body, the page refetches
UpdateOk(c) ==
    /\ pending[c]
    /\ policy' = PolicyOf(body[c])
    /\ snapshot' = [snapshot EXCEPT ![c] = PolicyOf(body[c])]
    /\ pending' = [pending EXCEPT ![c] = FALSE]
    /\ body' = [body EXCEPT ![c] = Undef]
    /\ msg' = [msg EXCEPT ![c] = "saved"]
    /\ UNCHANGED <<form, key>>

\* The request fails (network, server error): nothing is stored
UpdateFail(c) ==
    /\ pending[c]
    /\ pending' = [pending EXCEPT ![c] = FALSE]
    /\ body' = [body EXCEPT ![c] = Undef]
    /\ msg' = [msg EXCEPT ![c] = "failed"]
    /\ UNCHANGED <<policy, snapshot, form, key>>

Next ==
    \E c \in Clients :
        \/ KeyLoaded(c)
        \/ Load(c)
        \/ \E d \in Days, t \in Types : SetDay(c, d, t)
        \/ \E d \in Days : RemoveDay(c, d)
        \/ \E m \in Modes : SetMode(c, m)
        \/ \E t \in HM, s \in Secs : SetTime(c, t, s)
        \/ \E f \in SecretFields, v \in Secrets \cup {Undef} : SetSecret(c, f, v)
        \/ Submit(c)
        \/ UpdateOk(c)
        \/ UpdateFail(c)

Spec == Init /\ [][Next]_vars

-----------------------------------------------------------------------------
(* Refinement of PolicyEditor by one tab                                    *)

\* The tab whose page is the editor
Editor == CHOOSE c \in Clients : TRUE

\* The policy a form stands for: what the server would keep of its body
\* (the credential fields, which it does not keep, left out)
Meaning(f) ==
    IF f = Undef THEN Undef
    ELSE [scheduleType |-> f.scheduleDates.mode,
          scheduleTime |-> f.scheduleTime.hm,
          scheduleDates |-> ObjectEntries(StripUiKeys(f.scheduleDates))]

Abstract == INSTANCE PolicyEditor
    WITH Policies <- InitPolicies, Drafts <- PolicyVal, None <- Undef,
         draft <- Meaning(form[Editor]),
         inflight <- IF pending[Editor] THEN PolicyOf(body[Editor]) ELSE Undef,
         said <- msg[Editor]

-----------------------------------------------------------------------------
(* Properties                                                               *)

TypeOK ==
    /\ policy \in PolicyVal
    /\ snapshot \in [Clients -> PolicyVal \cup {Undef}]
    /\ form \in [Clients -> FormVal \cup {Undef}]
    /\ key \in [Clients -> {NoKey, PubKey}]
    /\ body \in [Clients -> BodyVal \cup {Undef}]
    /\ pending \in [Clients -> BOOLEAN]
    /\ msg \in [Clients -> {"idle", "noChange", "saving", "saved", "failed"}]

\* The plaintext a credential field of a body carries
Plain(x) == IF x \in Cipher THEN x[2] ELSE x

(***************************************************************************)
(* When a tab tells its user "nothing changed" (checkIsSame held against   *)
(* the policy it fetched), the server really holds what that tab's form    *)
(* formats to.  Violating it takes a fetch, another client's update, and   *)
(* a submit compared against the now stale snapshot.                       *)
(***************************************************************************)
NoChangeIsTrue ==
    \A c \in Clients : msg[c] = "noChange" => policy = PolicyOf(body[c])

(***************************************************************************)
(* Round trip (formatBackupPolicyData, then formatBackupForm, then         *)
(* checkIsSame): submitting a form that still shows exactly the fetched    *)
(* policy tells the user nothing changed and sends no update, whatever    *)
(* the state of the public key.                                            *)
(***************************************************************************)
RoundTrip ==
    [][\A c \in Clients :
         Submit(c) /\ form[c] = FormOf(snapshot[c]) => msg'[c] = "noChange"]_vars

(***************************************************************************)
(* formatBackupForm sends in each credential field the value the user      *)
(* typed in that field, encrypted or (with no public key) as is; it never  *)
(* sends one credential in place of another.                               *)
(***************************************************************************)
CredentialsKept ==
    [][\A c \in Clients :
         Submit(c) => \A f \in SecretFields : Plain(body'[c][f]) = form[c][f]]_vars

(***************************************************************************)
(* The page, seen through one tab, is a policy editor: loading opens the   *)
(* server's policy, form edits change the draft (or nothing it means),    *)
(* a submit says "no change" only when the server holds the draft and     *)
(* otherwise sends it, and the answer stores or drops what was sent.      *)
(***************************************************************************)
ImplementsEditor == Abstract!Spec

(***************************************************************************)
(* Every update request formatBackupForm produces carries a schedule mode: *)
(* a second submit of the same form must not lose it.                      *)
(***************************************************************************)
BodyModeDefined ==
    \A c \in Clients : pending[c] => body[c].scheduleType \in Modes

=============================================================================
