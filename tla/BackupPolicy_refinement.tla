---------------------- MODULE BackupPolicy_refinement -----------------------
(***************************************************************************)
(* The round trip of the backup-policy page, and its refinement of the     *)
(* abstract PolicyEditor.  Both rest on one fact about the helpers: the    *)
(* entries formatBackupForm builds from the form formatBackupPolicyData    *)
(* filled are the fetched policy's own entries, when that policy repeats   *)
(* no day.  The invariant behind it is that no policy the page meets (on   *)
(* the server, in a snapshot, in flight) repeats a day.                    *)
(***************************************************************************)
EXTENDS BackupPolicy_proofs

\* Every policy a tab fetched repeats no day
SnapDistinct ==
    \A c \in Clients : snapshot[c] # Undef => DistinctDays(snapshot[c].scheduleDates)

RInv == IInv /\ FormLoaded /\ PolicyDistinct /\ PendingDistinct /\ SnapDistinct

-----------------------------------------------------------------------------
(* Lemmas on the helpers                                                    *)

(***************************************************************************)
(* formatBackupPolicyData, then the two deletes and Object.keys(..).map of *)
(* formatBackupForm, give back the entries of a policy with no repeated    *)
(* day: each day's entry is the one CHOOSE picks for that day.             *)
(***************************************************************************)
LEMMA EntriesRoundTrip ==
    ASSUME NEW p \in PolicyVal, DistinctDays(p.scheduleDates)
    PROVE  ObjectEntries(StripUiKeys(FormatBackupPolicyData(p))) = p.scheduleDates
<1> DEFINE S == p.scheduleDates
           pick(d) == CHOOSE e \in S : e.day = d
           o == StripUiKeys(FormatBackupPolicyData(p))
<1>1. /\ o.types = [d \in DaysOf(S) |-> pick(d).backupType]
      /\ {o.days, o.mode} \ {Undef} = {}
  BY DEF StripUiKeys, FormatBackupPolicyData
<1>2. ObjectEntries(o) = {[day |-> d, backupType |-> pick(d).backupType] : d \in DaysOf(S)}
  BY <1>1 DEF ObjectEntries
<1>3. \A d \in DaysOf(S) : pick(d) \in S /\ pick(d).day = d
  BY DEF DaysOf
<1>4. \A d \in DaysOf(S) : [day |-> d, backupType |-> pick(d).backupType] = pick(d)
  BY <1>3 DEF PolicyVal, DateItem
<1>5. \A e \in S : e.day \in DaysOf(S) /\ pick(e.day) = e
  BY <1>3 DEF DaysOf, DistinctDays
<1>6. {[day |-> d, backupType |-> pick(d).backupType] : d \in DaysOf(S)} = S
  <2>1. \A d \in DaysOf(S) : [day |-> d, backupType |-> pick(d).backupType] \in S
    BY <1>3, <1>4
  <2>2. \A e \in S : \E d \in DaysOf(S) : e = [day |-> d, backupType |-> pick(d).backupType]
    BY <1>4, <1>5
  <2>3. QED
    BY <2>1, <2>2
<1>7. QED
  BY <1>2, <1>6

\* A policy compares equal to itself under checkDateIsSame when no day repeats
LEMMA CheckDateIsSameRefl ==
    ASSUME NEW S \in SUBSET DateItem, DistinctDays(S)
    PROVE  CheckDateIsSame(S, S)
BY DEF CheckDateIsSame, DistinctDays, DateItem

\* The policy a form stands for is a policy
LEMMA MeaningType ==
    ASSUME NEW f \in FormVal
    PROVE  Meaning(f) \in PolicyVal /\ Meaning(f) # Undef
<1>0. f # Undef
  BY ConstAssumption
<1>1. Meaning(f).scheduleDates = ObjectEntries(StripUiKeys(f.scheduleDates))
  BY <1>0 DEF Meaning
<1>2. ObjectEntries(StripUiKeys(f.scheduleDates)) \in SUBSET DateItem
  BY StripUiKeysType DEF FormVal
<1>3. Meaning(f) \in PolicyVal
  BY <1>0, <1>1, <1>2 DEF Meaning, FormVal, DatesObj, PolicyVal
<1>4. QED
  BY <1>3, ConstAssumption

\* What the server would keep of the body formatBackupForm builds is what
\* the form means, whatever the key
LEMMA PolicyOfFormat ==
    ASSUME NEW f \in FormVal, NEW k
    PROVE  PolicyOf(FormatBackupForm(f, k)) = Meaning(f)
<1>1. f # Undef
  BY ConstAssumption
<1>2. QED
  BY <1>1 DEF PolicyOf, FormatBackupForm, Meaning

\* An untouched form means the policy it was filled from
LEMMA MeaningFormOf ==
    ASSUME NEW p \in PolicyVal, DistinctDays(p.scheduleDates)
    PROVE  Meaning(FormOf(p)) = p
<1>1. FormOf(p) # Undef
  BY FormOfType, ConstAssumption
<1>2. Meaning(FormOf(p)) = [scheduleType |-> p.scheduleType,
                            scheduleTime |-> p.scheduleTime,
                            scheduleDates |-> p.scheduleDates]
  BY <1>1, EntriesRoundTrip DEF Meaning, FormOf, FormatBackupPolicyData
<1>3. QED
  BY <1>2 DEF PolicyVal

(***************************************************************************)
(* checkIsSame accepts the body of an untouched form: the dates round-trip *)
(* and none of the credential fields, empty in the filled form, is sent.   *)
(***************************************************************************)
LEMMA CheckIsSameRoundTrip ==
    ASSUME NEW p \in PolicyVal, DistinctDays(p.scheduleDates), NEW k
    PROVE  CheckIsSame(p, FormatBackupForm(FormOf(p), k))
<1> DEFINE b == FormatBackupForm(FormOf(p), k)
<1>1. b.scheduleDates = p.scheduleDates
  BY EntriesRoundTrip DEF FormatBackupForm, FormOf
<1>2. b.scheduleTime = p.scheduleTime /\ b.scheduleType = p.scheduleType
  BY DEF FormatBackupForm, FormOf, FormatBackupPolicyData
<1>3. \A f \in SecretFields : b[f] = Undef
  BY DEF FormatBackupForm, FormOf, EncryptIf, SecretFields
<1>4. CheckDateIsSame(p.scheduleDates, b.scheduleDates)
  BY <1>1, CheckDateIsSameRefl DEF PolicyVal
<1>5. QED
  BY <1>2, <1>3, <1>4 DEF CheckIsSame
-----------------------------------------------------------------------------
(* The invariant, for any number of tabs                                    *)

LEMMA InitRInv == Init => RInv
<1> SUFFICES ASSUME Init PROVE RInv
  OBVIOUS
<1>1. IInv
  BY InitIInv
<1>2. QED
  BY <1>1 DEF Init, InitPolicies, RInv, FormLoaded, PolicyDistinct, PendingDistinct,
               SnapDistinct

LEMMA NextRInv == RInv /\ [Next]_vars => RInv'
<1> SUFFICES ASSUME RInv, [Next]_vars PROVE RInv'
  OBVIOUS
<1>0. /\ IInv' /\ TypeOK /\ PendingHasBody /\ FormLoaded
      /\ PolicyDistinct /\ PendingDistinct /\ SnapDistinct
  BY NextIInv DEF RInv, IInv
<1> USE DEF RInv
<1>1. CASE UNCHANGED vars
  BY <1>0, <1>1 DEF vars, FormLoaded, PolicyDistinct, PendingDistinct, SnapDistinct
<1>2. ASSUME NEW c \in Clients,
             \/ KeyLoaded(c)
             \/ \E d \in Days, t \in Types : SetDay(c, d, t)
             \/ \E d \in Days : RemoveDay(c, d)
             \/ \E m \in Modes : SetMode(c, m)
             \/ \E t \in HM, x \in Secs : SetTime(c, t, x)
             \/ \E f \in SecretFields, v \in Secrets \cup {Undef} : SetSecret(c, f, v)
      PROVE  RInv'
  <2>1. UNCHANGED <<policy, snapshot, body, pending>>
    BY <1>2 DEF KeyLoaded, SetDay, RemoveDay, SetMode, SetTime, SetSecret
  <2>2. \A x \in Clients : form'[x] # Undef => form[x] # Undef
    BY <1>0, <1>2 DEF KeyLoaded, SetDay, RemoveDay, SetMode, SetTime, SetSecret, TypeOK
  <2>3. QED
    BY <1>0, <2>1, <2>2 DEF FormLoaded, PolicyDistinct, PendingDistinct, SnapDistinct
<1>3. ASSUME NEW c \in Clients, Load(c) PROVE RInv'
  <2>1. snapshot' = [snapshot EXCEPT ![c] = policy] /\ UNCHANGED <<policy, pending>>
    BY <1>3 DEF Load
  <2>2. \A x \in Clients : pending'[x] => body'[x] = body[x]
    BY <1>0, <1>3 DEF Load, TypeOK
  <2>3. FormLoaded'
    <3>1. policy # Undef
      BY <1>0, ConstAssumption DEF TypeOK
    <3>2. \A x \in Clients \ {c} : form'[x] = form[x]
      BY <1>0, <1>3 DEF Load, TypeOK
    <3>3. QED
      BY <1>0, <2>1, <3>1, <3>2 DEF TypeOK, FormLoaded
  <2>4. QED
    BY <1>0, <2>1, <2>2, <2>3 DEF TypeOK, PolicyDistinct, PendingDistinct, SnapDistinct
<1>4. ASSUME NEW c \in Clients, Submit(c) PROVE RInv'
  <2> DEFINE b == FormatBackupForm(form[c], key[c])
  <2>1. form[c] \in FormVal
    BY <1>0, <1>4, ConstAssumption DEF Submit, TypeOK
  <2>2. DistinctDays(b.scheduleDates)
    <3>1. b.scheduleDates = ObjectEntries(StripUiKeys(form[c].scheduleDates))
      BY DEF FormatBackupForm
    <3>2. QED
      BY <2>1, <3>1, ObjectEntriesDistinct DEF FormVal
  <2>3. /\ body' = [body EXCEPT ![c] = b]
        /\ pending' \in [Clients -> BOOLEAN]
        /\ \A x \in Clients \ {c} : pending'[x] = pending[x]
        /\ UNCHANGED <<policy, snapshot>>
    BY <1>0, <1>4 DEF Submit, TypeOK
  <2>4. PendingDistinct'
    BY <1>0, <2>2, <2>3 DEF TypeOK, PendingDistinct
  <2>5. FormLoaded'
    <3>1. \A x \in Clients : form'[x] # Undef => form[x] # Undef
      BY <1>0, <1>4 DEF Submit, TypeOK, StripUiKeys
    <3>2. QED
      BY <1>0, <2>3, <3>1 DEF FormLoaded
  <2>6. QED
    BY <1>0, <2>3, <2>4, <2>5 DEF PolicyDistinct, SnapDistinct
<1>5. ASSUME NEW c \in Clients, UpdateOk(c) PROVE RInv'
  <2>1. DistinctDays(body[c].scheduleDates)
    BY <1>5 DEF UpdateOk, PendingDistinct
  <2>2. PolicyOf(body[c]).scheduleDates = body[c].scheduleDates
    BY DEF PolicyOf
  <2>3. /\ policy' = PolicyOf(body[c])
        /\ snapshot' = [snapshot EXCEPT ![c] = PolicyOf(body[c])]
        /\ pending' = [pending EXCEPT ![c] = FALSE]
        /\ body' = [body EXCEPT ![c] = Undef]
    BY <1>5 DEF UpdateOk
  <2>4. PolicyDistinct' /\ SnapDistinct'
    BY <1>0, <2>1, <2>2, <2>3 DEF TypeOK, PolicyDistinct, SnapDistinct
  <2>5. PendingDistinct'
    BY <1>0, <2>3 DEF TypeOK, PendingDistinct
  <2>6. FormLoaded'
    <3>0. body[c] \in BodyVal
      BY <1>0, <1>5 DEF UpdateOk, PendingHasBody
    <3>1. PolicyOf(body[c]) # Undef
      <4>1. PolicyOf(body[c]) \in PolicyVal
        BY <3>0 DEF PolicyOf, BodyVal, PolicyVal
      <4>2. QED
        BY <4>1, ConstAssumption
    <3>2. QED
      BY <1>0, <1>5, <2>3, <3>1 DEF UpdateOk, TypeOK, FormLoaded
  <2>7. QED
    BY <1>0, <2>4, <2>5, <2>6
<1>6. ASSUME NEW c \in Clients, UpdateFail(c) PROVE RInv'
  BY <1>0, <1>6 DEF UpdateFail, TypeOK, FormLoaded, PolicyDistinct, PendingDistinct,
                    SnapDistinct
<1>7. QED
  BY <1>1, <1>2, <1>3, <1>4, <1>5, <1>6 DEF Next

(***************************************************************************)
(* For any number of tabs and every value of the constants: submitting a   *)
(* form that still shows exactly the policy the tab fetched (the round     *)
(* trip formatBackupPolicyData, formatBackupForm, checkIsSame) tells the   *)
(* user nothing changed and sends no update, whatever the public key.      *)
(***************************************************************************)
THEOREM RoundTripHolds == Spec => RoundTrip
<1>1. RInv /\ [Next]_vars =>
        [\A c \in Clients :
           Submit(c) /\ form[c] = FormOf(snapshot[c]) => msg'[c] = "noChange"]_vars
  <2> SUFFICES ASSUME RInv, NEW c \in Clients, Submit(c),
                      form[c] = FormOf(snapshot[c])
               PROVE  msg'[c] = "noChange"
    OBVIOUS
  <2>1. snapshot[c] # Undef
    BY DEF Submit, RInv, FormLoaded
  <2>2. snapshot[c] \in PolicyVal /\ DistinctDays(snapshot[c].scheduleDates)
    BY <2>1 DEF RInv, IInv, TypeOK, SnapDistinct
  <2>3. CheckIsSame(snapshot[c], FormatBackupForm(form[c], key[c]))
    BY <2>2, CheckIsSameRoundTrip
  <2>4. msg' = [msg EXCEPT ![c] = "noChange"]
    BY <2>3 DEF Submit
  <2>5. QED
    BY <2>4 DEF RInv, IInv, TypeOK
<1>2. QED
  BY <1>1, InitRInv, NextRInv, PTL DEF Spec, RoundTrip
-----------------------------------------------------------------------------
(* The refinement, for one tab                                              *)

\* The abstract state the page stands for
DraftBar == Meaning(form[Editor])
InflightBar == IF pending[Editor] THEN PolicyOf(body[Editor]) ELSE Undef

LEMMA InitRefines ==
    ASSUME NEW c0, Clients = {c0}
    PROVE  Init => Abstract!Init
<1> SUFFICES ASSUME Init PROVE Abstract!Init
  OBVIOUS
<1>1. Editor = c0
  BY DEF Editor
<1>2. form[Editor] = Undef /\ pending[Editor] = FALSE /\ msg[Editor] = "idle"
  BY <1>1 DEF Init
<1>3. QED
  BY <1>2 DEF Init, Abstract!Init, Meaning

(***************************************************************************)
(* Each step of the single-tab page is a step of the policy editor or      *)
(* leaves its state alone: a load opens the server's policy (by the round  *)
(* trip), a form edit changes the draft, a submit is SaveNoChange (by the  *)
(* soundness of checkIsSame against a current snapshot) or SaveSend, and   *)
(* the answer stores or drops what was sent.                               *)
(***************************************************************************)
LEMMA NextRefines ==
    ASSUME NEW c0, Clients = {c0}, SharedInput = FALSE
    PROVE  NInv /\ [Next]_vars => [Abstract!Next]_Abstract!avars
<1> SUFFICES ASSUME NInv, [Next]_vars PROVE [Abstract!Next]_Abstract!avars
  OBVIOUS
<1>0. /\ Editor = c0
      /\ TypeOK /\ PendingHasBody /\ SnapCurrent /\ FormLoaded /\ PolicyDistinct
  BY DEF Editor, NInv, IInv
<1> DEFINE dB == Meaning(form[c0])
           iB == IF pending[c0] THEN PolicyOf(body[c0]) ELSE Undef
<1>1. CASE UNCHANGED vars
  BY <1>0, <1>1 DEF vars, Abstract!avars
<1>2. CASE KeyLoaded(c0)
  BY <1>0, <1>2 DEF KeyLoaded, Abstract!avars
<1>3. CASE Load(c0)
  <2>1. policy \in PolicyVal /\ DistinctDays(policy.scheduleDates)
    BY <1>0 DEF TypeOK, PolicyDistinct
  <2>2. form'[c0] = FormOf(policy)
    BY <1>0, <1>3 DEF Load, TypeOK
  <2>3. Meaning(form'[c0]) = policy
    BY <2>1, <2>2, MeaningFormOf
  <2>4. ~pending[c0] /\ pending' = pending /\ policy' = policy /\ msg'[c0] = "idle"
    BY <1>0, <1>3 DEF Load, TypeOK
  <2>5. Abstract!Open
    BY <1>0, <2>3, <2>4 DEF Abstract!Open
  <2>6. QED
    BY <2>5 DEF Abstract!Next
<1>4. CASE \/ \E d \in Days, t \in Types : SetDay(c0, d, t)
           \/ \E d \in Days : RemoveDay(c0, d)
           \/ \E m \in Modes : SetMode(c0, m)
           \/ \E t \in HM, x \in Secs : SetTime(c0, t, x)
           \/ \E f \in SecretFields, v \in Secrets \cup {Undef} : SetSecret(c0, f, v)
  <2>0. form[c0] \in FormVal
    BY <1>0, <1>4 DEF SetDay, RemoveDay, SetMode, SetTime, SetSecret, TypeOK
  <2>1. form'[c0] \in FormVal
    <3>1. CASE \E d \in Days, t \in Types : SetDay(c0, d, t)
      <4>1. PICK d \in Days, t \in Types : SetDay(c0, d, t)
        BY <3>1
      <4>2. AddDay(form[c0].scheduleDates, d, t) \in DatesObj
        BY <2>0, AddDayType DEF FormVal
      <4>3. QED
        BY <1>0, <2>0, <4>1, <4>2 DEF SetDay, TypeOK, FormVal
    <3>2. CASE \E d \in Days : RemoveDay(c0, d)
      <4>1. PICK d \in Days : RemoveDay(c0, d)
        BY <3>2
      <4>2. DropDay(form[c0].scheduleDates, d) \in DatesObj
        BY <2>0, DropDayType DEF FormVal
      <4>3. QED
        BY <1>0, <2>0, <4>1, <4>2 DEF RemoveDay, TypeOK, FormVal
    <3>3. CASE \E m \in Modes : SetMode(c0, m)
      BY <1>0, <2>0, <3>3 DEF SetMode, TypeOK, FormVal, DatesObj
    <3>4. CASE \E t \in HM, x \in Secs : SetTime(c0, t, x)
      BY <1>0, <2>0, <3>4 DEF SetTime, TypeOK, FormVal
    <3>5. CASE \E f \in SecretFields, v \in Secrets \cup {Undef} : SetSecret(c0, f, v)
      BY <1>0, <2>0, <3>5 DEF SetSecret, TypeOK, FormVal, SecretFields, PlainVal
    <3>6. QED
      BY <1>4, <3>1, <3>2, <3>3, <3>4, <3>5
  <2>2. UNCHANGED <<policy, body, pending, msg>>
    BY <1>4 DEF SetDay, RemoveDay, SetMode, SetTime, SetSecret
  <2>3. Meaning(form[c0]) # Undef /\ Meaning(form'[c0]) \in PolicyVal
    BY <2>0, <2>1, MeaningType
  <2>4. Abstract!Edit
    BY <1>0, <2>2, <2>3 DEF Abstract!Edit
  <2>5. QED
    BY <2>4 DEF Abstract!Next
<1>5. CASE Submit(c0)
  <2> DEFINE b == FormatBackupForm(form[c0], key[c0])
  <2>1. form[c0] \in FormVal /\ key[c0] \in {NoKey, PubKey} /\ ~pending[c0]
    BY <1>0, <1>5, ConstAssumption DEF Submit, TypeOK
  <2>2. snapshot[c0] = policy /\ policy \in PolicyVal /\ DistinctDays(policy.scheduleDates)
    BY <1>0, <1>5 DEF Submit, FormLoaded, SnapCurrent, TypeOK, PolicyDistinct
  <2>3. PolicyOf(b) = dB /\ dB # Undef
    BY <2>1, PolicyOfFormat, MeaningType
  <2>4. /\ body' = [body EXCEPT ![c0] = b]
        /\ form' = form
        /\ pending' = [pending EXCEPT ![c0] = ~CheckIsSame(snapshot[c0], b)]
        /\ msg' = [msg EXCEPT ![c0] = IF CheckIsSame(snapshot[c0], b)
                                      THEN "noChange" ELSE "saving"]
        /\ policy' = policy
    BY <1>5 DEF Submit
  <2>5. CASE CheckIsSame(snapshot[c0], b)
    <3>1. PolicyOf(b) = policy
      BY <2>1, <2>2, <2>5, CheckIsSameSound
    <3>2. Abstract!SaveNoChange
      BY <1>0, <2>1, <2>3, <2>4, <2>5, <3>1 DEF Abstract!SaveNoChange, TypeOK
    <3>3. QED
      BY <3>2 DEF Abstract!Next
  <2>6. CASE ~CheckIsSame(snapshot[c0], b)
    <3>1. Abstract!SaveSend
      BY <1>0, <2>1, <2>3, <2>4, <2>6 DEF Abstract!SaveSend, TypeOK
    <3>2. QED
      BY <3>1 DEF Abstract!Next
  <2>7. QED
    BY <2>5, <2>6
<1>6. CASE UpdateOk(c0)
  <2>1. pending[c0] /\ body[c0] \in BodyVal
    BY <1>0, <1>6 DEF UpdateOk, PendingHasBody
  <2>2. PolicyOf(body[c0]) # Undef
    <3>1. PolicyOf(body[c0]) \in PolicyVal
      BY <2>1 DEF PolicyOf, BodyVal, PolicyVal
    <3>2. QED
      BY <3>1, ConstAssumption
  <2>3. Abstract!Stored
    BY <1>0, <1>6, <2>1, <2>2 DEF UpdateOk, Abstract!Stored, TypeOK
  <2>4. QED
    BY <2>3 DEF Abstract!Next
<1>7. CASE UpdateFail(c0)
  <2>1. pending[c0] /\ body[c0] \in BodyVal
    BY <1>0, <1>7 DEF UpdateFail, PendingHasBody
  <2>2. PolicyOf(body[c0]) # Undef
    <3>1. PolicyOf(body[c0]) \in PolicyVal
      BY <2>1 DEF PolicyOf, BodyVal, PolicyVal
    <3>2. QED
      BY <3>1, ConstAssumption
  <2>3. Abstract!Dropped
    BY <1>0, <1>7, <2>1, <2>2 DEF UpdateFail, Abstract!Dropped, TypeOK
  <2>4. QED
    BY <2>3 DEF Abstract!Next
<1>8. QED
  <2>1. \A c \in Clients : c = c0
    OBVIOUS
  <2>2. QED
    BY <1>1, <1>2, <1>3, <1>4, <1>5, <1>6, <1>7, <2>1 DEF Next

(***************************************************************************)
(* For every value of the constants, a single tab whose submit hands       *)
(* formatBackupForm a copy of the form implements the abstract policy      *)
(* editor under the mapping draft = Meaning(form), inflight = the policy   *)
(* of the body in flight: "no change" is said only when the server holds   *)
(* the draft, and only a sent draft is ever stored.  (With SharedInput the *)
(* second submit changes the draft: run backup_resubmit.)                  *)
(***************************************************************************)
THEOREM Refinement ==
    ASSUME NEW c0, Clients = {c0}, SharedInput = FALSE
    PROVE  Spec => ImplementsEditor
<1>1. Init => Abstract!Init
  BY InitRefines
<1>2. NInv /\ [Next]_vars => [Abstract!Next]_Abstract!avars
  BY NextRefines
<1>3. QED
  BY <1>1, <1>2, InitNInv, NextNInv, PTL DEF Spec, ImplementsEditor, Abstract!Spec
=============================================================================
