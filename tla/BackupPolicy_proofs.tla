------------------------ MODULE BackupPolicy_proofs -------------------------
(***************************************************************************)
(* Type correctness of the backup-policy workflow, for every value of the *)
(* constants.  TypeOK alone is not inductive: UpdateOk stores body[c], so *)
(* the step needs to know a pending request has a formatted body.          *)
(***************************************************************************)
EXTENDS BackupPolicy, FiniteSets, FiniteSetTheorems, Functions, TLAPS

\* An update in flight carries the body its submit formatted
PendingHasBody == \A c \in Clients : pending[c] => body[c] \in BodyVal

IInv == TypeOK /\ PendingHasBody

(***************************************************************************)
(* The strengthening behind NoChangeIsTrue for a single tab: the tab's     *)
(* snapshot is the server's policy, a filled form implies a snapshot, a    *)
(* "no change" answer was checked against that snapshot, and neither the   *)
(* server policy nor a body in flight repeats a day.                       *)
(***************************************************************************)
SnapCurrent == \A c \in Clients : snapshot[c] # Undef => snapshot[c] = policy
FormLoaded == \A c \in Clients : form[c] # Undef => snapshot[c] # Undef
NoChangeSound ==
    \A c \in Clients : msg[c] = "noChange" =>
        body[c] \in BodyVal /\ PolicyOf(body[c]) = snapshot[c]
PolicyDistinct == DistinctDays(policy.scheduleDates)
PendingDistinct == \A c \in Clients : pending[c] => DistinctDays(body[c].scheduleDates)

NInv == /\ IInv /\ SnapCurrent /\ FormLoaded /\ NoChangeSound
        /\ PolicyDistinct /\ PendingDistinct

-----------------------------------------------------------------------------
(* Lemmas on the helpers                                                    *)

LEMMA DayMapIntro ==
    ASSUME NEW D \in SUBSET Days, NEW f \in [D -> Types]
    PROVE  f \in DayMap
BY DEF DayMap

LEMMA FormatBackupPolicyDataType ==
    ASSUME NEW p \in PolicyVal
    PROVE  FormatBackupPolicyData(p) \in DatesObj
<1> DEFINE S == p.scheduleDates
           g == [d \in DaysOf(S) |-> (CHOOSE e \in S : e.day = d).backupType]
<1>1. DaysOf(S) \in SUBSET Days
  BY DEF PolicyVal, DateItem, DaysOf
<1>2. \A d \in DaysOf(S) : (CHOOSE e \in S : e.day = d) \in S
  BY DEF DaysOf
<1>3. g \in [DaysOf(S) -> Types]
  BY <1>2 DEF PolicyVal, DateItem
<1>4. g \in DayMap
  BY <1>1, <1>3, DayMapIntro
<1>5. QED
  BY <1>1, <1>4 DEF FormatBackupPolicyData, DatesObj, PolicyVal

LEMMA FormOfType ==
    ASSUME NEW p \in PolicyVal
    PROVE  FormOf(p) \in FormVal
BY FormatBackupPolicyDataType, ConstAssumption DEF FormOf, FormVal, PolicyVal, PlainVal

LEMMA AddDayType ==
    ASSUME NEW o \in DatesObj, NEW d \in Days, NEW t \in Types
    PROVE  AddDay(o, d, t) \in DatesObj
<1>1. PICK D \in SUBSET Days : o.types \in [D -> Types]
  BY DEF DatesObj, DayMap
<1>2. [x \in D \cup {d} |-> IF x = d THEN t ELSE o.types[x]] \in DayMap
  BY <1>1, DayMapIntro
<1>3. QED
  BY <1>1, <1>2 DEF AddDay, DatesObj

LEMMA DropDayType ==
    ASSUME NEW o \in DatesObj, NEW d \in Days
    PROVE  DropDay(o, d) \in DatesObj
<1>1. PICK D \in SUBSET Days : o.types \in [D -> Types]
  BY DEF DatesObj, DayMap
<1>2. [x \in D \ {d} |-> o.types[x]] \in DayMap
  BY <1>1, DayMapIntro
<1>3. QED
  BY <1>1, <1>2 DEF DropDay, DatesObj

LEMMA StripUiKeysType ==
    ASSUME NEW o \in DatesObj
    PROVE  /\ StripUiKeys(o) \in DatesObj
           /\ ObjectEntries(StripUiKeys(o)) \in SUBSET DateItem
<1>1. PICK D \in SUBSET Days : o.types \in [D -> Types]
  BY DEF DatesObj, DayMap
<1>2. StripUiKeys(o) \in DatesObj
  BY DEF StripUiKeys, DatesObj
<1>3. {StripUiKeys(o).days, StripUiKeys(o).mode} \ {Undef} = {}
  BY DEF StripUiKeys, DatesObj
<1>4. QED
  BY <1>1, <1>2, <1>3 DEF ObjectEntries, StripUiKeys, DateItem

LEMMA FormatBackupFormType ==
    ASSUME NEW f \in FormVal, NEW k \in {NoKey, PubKey}
    PROVE  FormatBackupForm(f, k) \in BodyVal
<1>1. ObjectEntries(StripUiKeys(f.scheduleDates)) \in SUBSET DateItem
  BY StripUiKeysType DEF FormVal
<1>2. \A v \in PlainVal : EncryptIf(v, k) \in SecretVal
  BY DEF EncryptIf, PlainVal, SecretVal, Cipher
<1>3. QED
  BY <1>1, <1>2 DEF FormatBackupForm, FormVal, BodyVal, DatesObj, SecretVal,
                    PlainVal, Cipher

LEMMA ObjectEntriesDistinct ==
    ASSUME NEW o \in DatesObj
    PROVE  DistinctDays(ObjectEntries(StripUiKeys(o)))
<1>1. {StripUiKeys(o).days, StripUiKeys(o).mode} \ {Undef} = {}
  BY DEF StripUiKeys, DatesObj
<1>2. QED
  BY <1>1 DEF DistinctDays, ObjectEntries, StripUiKeys

\* A list of schedule entries with no repeated day is finite
LEMMA DistinctFinite ==
    ASSUME NEW S \in SUBSET DateItem, DistinctDays(S)
    PROVE  IsFiniteSet(S)
<1> DEFINE g == [e \in S |-> e.day]
<1>1. g \in Injection(S, Days)
  BY DEF Injection, IsInjective, DistinctDays, DateItem
<1>2. IsFiniteSet(Days)
  BY FS_Interval, ConstAssumption DEF Days
<1>3. QED
  BY <1>1, <1>2, FS_Injection

(***************************************************************************)
(* checkIsSame is sound on a policy with no repeated day: when it answers  *)
(* "same", the body formatBackupForm built means exactly that policy.      *)
(* The length check of checkDateIsSame is what turns "every old day is in  *)
(* the new list" into equality.                                            *)
(***************************************************************************)
LEMMA CheckIsSameSound ==
    ASSUME NEW pre \in PolicyVal, DistinctDays(pre.scheduleDates),
           NEW f \in FormVal, NEW k \in {NoKey, PubKey},
           CheckIsSame(pre, FormatBackupForm(f, k))
    PROVE  PolicyOf(FormatBackupForm(f, k)) = pre
<1> DEFINE b == FormatBackupForm(f, k)
           cur == b.scheduleDates
           P == pre.scheduleDates
<1>1. cur = ObjectEntries(StripUiKeys(f.scheduleDates))
  BY DEF FormatBackupForm
<1>2. cur \in SUBSET DateItem /\ DistinctDays(cur)
  BY <1>1, StripUiKeysType, ObjectEntriesDistinct DEF FormVal
<1>3. P \in SUBSET DateItem
  BY DEF PolicyVal
<1>4. P \subseteq cur
  <2> SUFFICES ASSUME NEW p \in P PROVE p \in cur
    OBVIOUS
  <2>1. PICK c \in cur : c.day = p.day
    BY DEF CheckIsSame, CheckDateIsSame
  <2>2. c.backupType = p.backupType
    BY <2>1 DEF CheckIsSame, CheckDateIsSame
  <2>3. c = p
    BY <1>2, <1>3, <2>1, <2>2 DEF DateItem
  <2>4. QED
    BY <2>3
<1>5. IsFiniteSet(cur)
  BY <1>2, DistinctFinite
<1>6. Cardinality(P) = Cardinality(cur)
  BY DEF CheckIsSame, CheckDateIsSame
<1>7. P = cur
  BY <1>4, <1>5, <1>6, FS_Subset
<1>8. b.scheduleTime = pre.scheduleTime /\ b.scheduleType = pre.scheduleType
  BY DEF CheckIsSame
<1>9. QED
  BY <1>7, <1>8 DEF PolicyOf, PolicyVal

-----------------------------------------------------------------------------
(* The invariant                                                            *)

LEMMA InitIInv == Init => IInv
<1> SUFFICES ASSUME Init PROVE IInv
  OBVIOUS
<1>1. policy \in PolicyVal
  BY DEF Init, InitPolicies
<1>2. QED
  BY <1>1 DEF Init, IInv, TypeOK, PendingHasBody

LEMMA NextIInv == IInv /\ [Next]_vars => IInv'
<1> SUFFICES ASSUME IInv, [Next]_vars PROVE IInv'
  OBVIOUS
<1>0. TypeOK /\ PendingHasBody
  BY DEF IInv
<1>1. CASE UNCHANGED vars
  BY <1>0, <1>1 DEF vars, IInv, TypeOK, PendingHasBody
<1>2. ASSUME NEW c \in Clients, KeyLoaded(c) PROVE IInv'
  BY <1>0, <1>2 DEF KeyLoaded, IInv, TypeOK, PendingHasBody
<1>3. ASSUME NEW c \in Clients, Load(c) PROVE IInv'
  <2>1. FormOf(policy) \in FormVal
    BY <1>0, FormOfType DEF TypeOK
  <2>2. QED
    BY <1>0, <1>3, <2>1 DEF Load, IInv, TypeOK, PendingHasBody
<1>4. ASSUME NEW c \in Clients, NEW d \in Days, NEW t \in Types, SetDay(c, d, t)
      PROVE IInv'
  <2>1. form[c] \in FormVal
    BY <1>0, <1>4 DEF SetDay, TypeOK
  <2>2. AddDay(form[c].scheduleDates, d, t) \in DatesObj
    BY <2>1, AddDayType DEF FormVal
  <2>3. form' \in [Clients -> FormVal \cup {Undef}]
    BY <1>0, <1>4, <2>1, <2>2 DEF SetDay, TypeOK, FormVal
  <2>4. QED
    BY <1>0, <1>4, <2>3 DEF SetDay, IInv, TypeOK, PendingHasBody
<1>5. ASSUME NEW c \in Clients, NEW d \in Days, RemoveDay(c, d) PROVE IInv'
  <2>1. form[c] \in FormVal
    BY <1>0, <1>5 DEF RemoveDay, TypeOK
  <2>2. DropDay(form[c].scheduleDates, d) \in DatesObj
    BY <2>1, DropDayType DEF FormVal
  <2>3. form' \in [Clients -> FormVal \cup {Undef}]
    BY <1>0, <1>5, <2>1, <2>2 DEF RemoveDay, TypeOK, FormVal
  <2>4. QED
    BY <1>0, <1>5, <2>3 DEF RemoveDay, IInv, TypeOK, PendingHasBody
<1>6. ASSUME NEW c \in Clients, NEW m \in Modes, SetMode(c, m) PROVE IInv'
  <2>1. form[c] \in FormVal
    BY <1>0, <1>6 DEF SetMode, TypeOK
  <2>2. form' \in [Clients -> FormVal \cup {Undef}]
    BY <1>0, <1>6, <2>1 DEF SetMode, TypeOK, FormVal, DatesObj
  <2>3. QED
    BY <1>0, <1>6, <2>2 DEF SetMode, IInv, TypeOK, PendingHasBody
<1>7. ASSUME NEW c \in Clients, NEW t \in HM, NEW x \in Secs, SetTime(c, t, x)
      PROVE IInv'
  <2>1. form[c] \in FormVal
    BY <1>0, <1>7 DEF SetTime, TypeOK
  <2>2. form' \in [Clients -> FormVal \cup {Undef}]
    BY <1>0, <1>7, <2>1 DEF SetTime, TypeOK, FormVal
  <2>3. QED
    BY <1>0, <1>7, <2>2 DEF SetTime, IInv, TypeOK, PendingHasBody
<1>8. ASSUME NEW c \in Clients, NEW f \in SecretFields, NEW v \in Secrets \cup {Undef},
             SetSecret(c, f, v)
      PROVE IInv'
  <2>1. form[c] \in FormVal
    BY <1>0, <1>8 DEF SetSecret, TypeOK
  <2>2. [form[c] EXCEPT ![f] = v] \in FormVal
    BY <2>1 DEF SecretFields, FormVal, PlainVal
  <2>3. form' \in [Clients -> FormVal \cup {Undef}]
    BY <1>0, <1>8, <2>2 DEF SetSecret, TypeOK
  <2>4. QED
    BY <1>0, <1>8, <2>3 DEF SetSecret, IInv, TypeOK, PendingHasBody
<1>9. ASSUME NEW c \in Clients, Submit(c) PROVE IInv'
  <2>1. form[c] \in FormVal
    BY <1>0, <1>9 DEF Submit, TypeOK
  <2>2. FormatBackupForm(form[c], key[c]) \in BodyVal
    BY <1>0, <2>1, FormatBackupFormType DEF TypeOK
  <2>3. StripUiKeys(form[c].scheduleDates) \in DatesObj
    BY <2>1, StripUiKeysType DEF FormVal
  <2>4. form' \in [Clients -> FormVal \cup {Undef}]
    BY <1>0, <1>9, <2>1, <2>3 DEF Submit, TypeOK, FormVal
  <2>5. body' \in [Clients -> BodyVal \cup {Undef}]
    BY <1>0, <1>9, <2>2 DEF Submit, TypeOK
  <2>6. PendingHasBody'
    BY <1>0, <1>9, <2>2 DEF Submit, TypeOK, PendingHasBody
  <2>7. QED
    BY <1>0, <1>9, <2>4, <2>5, <2>6 DEF Submit, IInv, TypeOK
<1>10. ASSUME NEW c \in Clients, UpdateOk(c) PROVE IInv'
  <2>1. body[c] \in BodyVal
    BY <1>0, <1>10 DEF UpdateOk, PendingHasBody
  <2>2. PolicyOf(body[c]) \in PolicyVal
    BY <2>1 DEF PolicyOf, BodyVal, PolicyVal
  <2>3. QED
    BY <1>0, <1>10, <2>2 DEF UpdateOk, IInv, TypeOK, PendingHasBody
<1>11. ASSUME NEW c \in Clients, UpdateFail(c) PROVE IInv'
  BY <1>0, <1>11 DEF UpdateFail, IInv, TypeOK, PendingHasBody
<1>12. QED
  BY <1>1, <1>2, <1>3, <1>4, <1>5, <1>6, <1>7, <1>8, <1>9, <1>10, <1>11 DEF Next

(***************************************************************************)
(* Every state of the workflow is well typed: the server only ever holds  *)
(* policies, the forms only the editable shape, and every payload built by *)
(* formatBackupForm has the wire shape (no "days"/"mode" entry survives).  *)
(***************************************************************************)
THEOREM TypeCorrect == Spec => []TypeOK
<1>1. IInv => TypeOK
  BY DEF IInv
<1>2. QED
  BY <1>1, InitIInv, NextIInv, PTL DEF Spec

-----------------------------------------------------------------------------
(* "No change" is true for a single tab                                     *)

LEMMA InitNInv == Init => NInv
<1> SUFFICES ASSUME Init PROVE NInv
  OBVIOUS
<1>1. IInv
  BY InitIInv
<1>2. PolicyDistinct
  BY DEF Init, InitPolicies, PolicyDistinct
<1>3. QED
  BY <1>1, <1>2 DEF Init, NInv, SnapCurrent, FormLoaded, NoChangeSound,
                    PendingDistinct

LEMMA NextNInv ==
    ASSUME NEW c0, Clients = {c0}
    PROVE  NInv /\ [Next]_vars => NInv'
<1> SUFFICES ASSUME NInv, [Next]_vars PROVE NInv'
  OBVIOUS
<1>0. /\ IInv' /\ TypeOK /\ PendingHasBody /\ SnapCurrent /\ FormLoaded
      /\ NoChangeSound /\ PolicyDistinct /\ PendingDistinct
  BY NextIInv DEF NInv, IInv
<1> USE DEF NInv
<1>1. CASE UNCHANGED vars
  BY <1>0, <1>1 DEF vars, SnapCurrent, FormLoaded, NoChangeSound,
                    PolicyDistinct, PendingDistinct
<1>2. ASSUME NEW c \in Clients, KeyLoaded(c) PROVE NInv'
  BY <1>0, <1>2 DEF KeyLoaded, SnapCurrent, FormLoaded, NoChangeSound,
                    PolicyDistinct, PendingDistinct
<1>3. ASSUME NEW c \in Clients, Load(c) PROVE NInv'
  <2>1. policy # Undef
    BY <1>0, ConstAssumption DEF TypeOK
  <2>2. QED
    BY <1>0, <1>3, <2>1 DEF Load, TypeOK, SnapCurrent, FormLoaded, NoChangeSound,
                            PolicyDistinct, PendingDistinct
<1>4. ASSUME NEW c \in Clients,
             \/ \E d \in Days, t \in Types : SetDay(c, d, t)
             \/ \E d \in Days : RemoveDay(c, d)
             \/ \E m \in Modes : SetMode(c, m)
             \/ \E t \in HM, x \in Secs : SetTime(c, t, x)
             \/ \E f \in SecretFields, v \in Secrets \cup {Undef} : SetSecret(c, f, v)
      PROVE NInv'
  <2>1. /\ form[c] # Undef
        /\ UNCHANGED <<policy, snapshot, key, body, pending, msg>>
        /\ \A x \in Clients \ {c} : form'[x] = form[x]
    BY <1>4, <1>0 DEF SetDay, RemoveDay, SetMode, SetTime, SetSecret, TypeOK
  <2>2. QED
    BY <1>0, <2>1 DEF SnapCurrent, FormLoaded, NoChangeSound, PolicyDistinct,
                      PendingDistinct
<1>5. ASSUME NEW c \in Clients, Submit(c) PROVE NInv'
  <2> DEFINE b == FormatBackupForm(form[c], key[c])
  <2>1. form[c] \in FormVal /\ key[c] \in {NoKey, PubKey}
    BY <1>0, <1>5 DEF Submit, TypeOK
  <2>2. snapshot[c] = policy /\ policy \in PolicyVal
    BY <1>0, <1>5 DEF Submit, FormLoaded, SnapCurrent, TypeOK
  <2>3. b \in BodyVal /\ DistinctDays(b.scheduleDates)
    <3>1. b.scheduleDates = ObjectEntries(StripUiKeys(form[c].scheduleDates))
      BY DEF FormatBackupForm
    <3>2. QED
      BY <2>1, <3>1, FormatBackupFormType, ObjectEntriesDistinct DEF FormVal
  <2>4. CheckIsSame(snapshot[c], b) => PolicyOf(b) = snapshot[c]
    BY <1>0, <2>1, <2>2, CheckIsSameSound DEF PolicyDistinct
  <2>5. /\ body' = [body EXCEPT ![c] = b]
        /\ pending' = [pending EXCEPT ![c] = ~CheckIsSame(snapshot[c], b)]
        /\ msg' = [msg EXCEPT ![c] = IF CheckIsSame(snapshot[c], b)
                                     THEN "noChange" ELSE "saving"]
        /\ \A x \in Clients \ {c} : form'[x] = form[x]
        /\ UNCHANGED <<policy, snapshot, key>>
    BY <1>5, <1>0 DEF Submit, TypeOK
  <2>6. snapshot[c] # Undef
    BY <2>2, ConstAssumption
  <2>7. SnapCurrent' /\ PolicyDistinct'
    BY <1>0, <2>5 DEF SnapCurrent, PolicyDistinct
  <2>8. FormLoaded'
    BY <1>0, <2>5, <2>6 DEF FormLoaded
  <2>9. NoChangeSound'
    <3> SUFFICES ASSUME NEW x \in Clients, msg'[x] = "noChange"
                 PROVE  body'[x] \in BodyVal /\ PolicyOf(body'[x]) = snapshot'[x]
      BY DEF NoChangeSound
    <3>1. CASE x = c
      BY <1>0, <2>3, <2>4, <2>5, <3>1 DEF TypeOK
    <3>2. CASE x # c
      BY <1>0, <2>5, <3>2 DEF TypeOK, NoChangeSound
    <3>3. QED
      BY <3>1, <3>2
  <2>10. PendingDistinct'
    <3> SUFFICES ASSUME NEW x \in Clients, pending'[x]
                 PROVE  DistinctDays(body'[x].scheduleDates)
      BY DEF PendingDistinct
    <3>1. CASE x = c
      BY <1>0, <2>3, <2>5, <3>1 DEF TypeOK
    <3>2. CASE x # c
      BY <1>0, <2>5, <3>2 DEF TypeOK, PendingDistinct
    <3>3. QED
      BY <3>1, <3>2
  <2>11. QED
    BY <1>0, <2>7, <2>8, <2>9, <2>10
<1>6. ASSUME NEW c \in Clients, UpdateOk(c) PROVE NInv'
  <2>1. c = c0
    OBVIOUS
  <2>2. body[c] \in BodyVal /\ DistinctDays(body[c].scheduleDates)
    BY <1>0, <1>6 DEF UpdateOk, PendingHasBody, PendingDistinct
  <2>3. PolicyOf(body[c]) \in PolicyVal
    BY <2>2 DEF PolicyOf, BodyVal, PolicyVal
  <2>4. PolicyOf(body[c]).scheduleDates = body[c].scheduleDates
    BY DEF PolicyOf
  <2>5. /\ policy' = PolicyOf(body[c])
        /\ snapshot' = [snapshot EXCEPT ![c] = PolicyOf(body[c])]
        /\ pending' = [pending EXCEPT ![c] = FALSE]
        /\ msg' = [msg EXCEPT ![c] = "saved"]
    BY <1>6 DEF UpdateOk
  <2>6. \A x \in Clients : x = c
    BY <2>1
  <2>7. PolicyOf(body[c]) # Undef
    BY <2>3, ConstAssumption
  <2>8. SnapCurrent' /\ FormLoaded'
    BY <1>0, <2>5, <2>6, <2>7 DEF TypeOK, SnapCurrent, FormLoaded
  <2>9. NoChangeSound' /\ PendingDistinct'
    BY <1>0, <2>5, <2>6 DEF TypeOK, NoChangeSound, PendingDistinct
  <2>10. PolicyDistinct'
    BY <2>2, <2>4, <2>5 DEF PolicyDistinct
  <2>11. QED
    BY <1>0, <2>8, <2>9, <2>10
<1>7. ASSUME NEW c \in Clients, UpdateFail(c) PROVE NInv'
  BY <1>0, <1>7 DEF UpdateFail, TypeOK, SnapCurrent, FormLoaded, NoChangeSound,
                    PolicyDistinct, PendingDistinct
<1>8. QED
  BY <1>1, <1>2, <1>3, <1>4, <1>5, <1>6, <1>7 DEF Next

(***************************************************************************)
(* With a single tab, whenever the page tells the user that the submitted  *)
(* backup policy is unchanged (checkIsSame held), the server holds exactly *)
(* the policy the form formats to: the skipped updatePolicyOfTenant would  *)
(* have changed nothing.  (With two tabs run backup_two_tabs refutes it.)  *)
(***************************************************************************)
THEOREM NoChangeSingleTab ==
    ASSUME NEW c0, Clients = {c0}
    PROVE  Spec => []NoChangeIsTrue
<1>1. NInv => NoChangeIsTrue
  <2> SUFFICES ASSUME NInv, NEW c \in Clients, msg[c] = "noChange"
               PROVE  policy = PolicyOf(body[c])
    BY DEF NoChangeIsTrue
  <2>1. body[c] \in BodyVal /\ PolicyOf(body[c]) = snapshot[c]
    BY DEF NInv, NoChangeSound
  <2>2. snapshot[c] \in PolicyVal
    BY <2>1 DEF PolicyOf, BodyVal, PolicyVal
  <2>3. snapshot[c] # Undef
    BY <2>2, ConstAssumption
  <2>4. QED
    BY <2>1, <2>3 DEF NInv, SnapCurrent
<1>2. QED
  BY <1>1, InitNInv, NextNInv, PTL DEF Spec
=============================================================================
