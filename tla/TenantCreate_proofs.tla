------------------------ MODULE TenantCreate_proofs -------------------------
(***************************************************************************)
(* The pools of a created tenant, for every value of the constants: the    *)
(* body createTenant sends is always formatNewTenantForm of the form as it *)
(* stands, and the pools formatNewTenantForm builds keep exactly the zones *)
(* that have a priority, 0 included.                                       *)
(***************************************************************************)
EXTENDS TenantCreate, TLAPS

\* The body, once sent, is the formatting of the current form
BodyIsFormatted == body # Absent => body = FormatNewTenantForm(form, ClusterName)

IInv == form \in TenantForm /\ BodyIsFormatted

-----------------------------------------------------------------------------
\* The filter `item.priority || item.priority === 0` over the priorities a
\* pool may hold keeps a zone exactly when its priority is a number
LEMMA FormatPoolsKeepsNumbers ==
    ASSUME NEW Z \in SUBSET Zones, NEW pools \in [Z -> Prio], NEW z \in Zones
    PROVE  (\E p \in FormatPools(pools) : p.zone = z /\ p.priority = pools[z])
           <=> z \in DOMAIN pools /\ pools[z] \in Nat
<1>1. ASSUME NEW p \in FormatPools(pools), p.zone = z
      PROVE  z \in DOMAIN pools /\ pools[z] \in Nat
  <2>1. z \in Z /\ pools[z] \notin {Undef, Null}
    BY <1>1 DEF FormatPools
  <2>2. QED
    BY <2>1 DEF Prio
<1>2. ASSUME z \in DOMAIN pools, pools[z] \in Nat
      PROVE  \E p \in FormatPools(pools) : p.zone = z /\ p.priority = pools[z]
  <2>1. pools[z] \notin {Undef, Null}
    BY <1>2, TenantCreateAssumption
  <2>2. [zone |-> z, priority |-> pools[z], type |-> "Full"] \in FormatPools(pools)
    BY <1>2, <2>1 DEF FormatPools
  <2>3. QED
    BY <2>2
<1>3. QED
  BY <1>1, <1>2

\* Every list of one or two addresses is a white list the form may hold
LEMMA InitFormsAreForms ==
    FormsWith(UNION {[1..n -> Addrs] : n \in 1..2}) \subseteq TenantForm
<1>1. UNION {[1..n -> Addrs] : n \in 1..2} \subseteq Seq(Addrs)
  <2> SUFFICES ASSUME NEW n \in 1..2, NEW s \in [1..n -> Addrs]
               PROVE  s \in Seq(Addrs)
    OBVIOUS
  <2>1. n \in Nat
    OBVIOUS
  <2>2. QED
    BY <2>1
<1>2. QED
  BY <1>1 DEF FormsWith, TenantForm

\* A secret encrypted by encryptText decrypts to its plaintext
LEMMA DecEnc ==
    ASSUME NEW v \in Secrets
    PROVE  Dec(Enc(v)) = v
BY DEF Dec, Enc

\* A size field as formatUnitConfig leaves it stands for the size the form
\* holds, and a number (0 included) is never sent bare
LEMMA SizeFormatted ==
    ASSUME NEW v \in Sizes \cup {Null, Undef}
    PROVE  LET out == IF IsExist(v) THEN Gi(v) ELSE v
           IN  Size(out) = v /\ (v \in Sizes => out # v)
<1>1. CASE v \in Sizes
  <2>1. IsExist(v)
    BY <1>1 DEF IsExist
  <2>2. Size(Gi(v)) = v
    BY <1>1 DEF Size, Gi
  <2>3. Gi(v) # v
    BY <1>1, TenantCreateAssumption
  <2>4. QED
    BY <2>1, <2>2, <2>3
<1>2. CASE v \in {Null, Undef}
  <2>1. ~IsExist(v)
    BY <1>2, TenantCreateAssumption DEF IsExist
  <2>2. v \notin {Gi(n) : n \in Sizes}
    BY <1>2, TenantCreateAssumption
  <2>3. Size(v) = v
    BY <2>2 DEF Size
  <2>4. v \notin Sizes
    BY <1>2, TenantCreateAssumption
  <2>5. QED
    BY <2>1, <2>3, <2>4
<1>3. QED
  BY <1>1, <1>2

\* The restore object formatNewTenantForm sends, before and after the
\* final delete of its until: its secrets as the form's, encrypted
LEMMA RestoreFormatted ==
    ASSUME NEW r \in RestoreIn
    PROVE  LET out == FormatRestore(r)
           IN  /\ Dec(out.ossAccessId) = r.ossAccessId
               /\ Dec(out.ossAccessKey) = r.ossAccessKey
               /\ out.bakEncryptionPassword =
                     IF r.bakEncryptionPassword \in Secrets
                     THEN Enc(r.bakEncryptionPassword) ELSE Absent
<1>1. Dec(FormatRestore(r).ossAccessId) = r.ossAccessId
  BY DecEnc DEF FormatRestore, RestoreIn
<1>2. Dec(FormatRestore(r).ossAccessKey) = r.ossAccessKey
  BY DecEnc DEF FormatRestore, RestoreIn
<1>3. r.bakEncryptionPassword \in Secrets <=> r.bakEncryptionPassword \notin {Undef, ""}
  BY TenantCreateAssumption DEF RestoreIn
<1>4. QED
  BY <1>1, <1>2, <1>3 DEF FormatRestore

-----------------------------------------------------------------------------
LEMMA IInvInit == Init => IInv
BY InitFormsAreForms DEF Init, IInv, BodyIsFormatted

LEMMA IInvStep == IInv /\ [Next]_vars => IInv'
<1> SUFFICES ASSUME IInv, [Next]_vars PROVE IInv'
  OBVIOUS
<1>1. CASE Submit
  BY <1>1 DEF IInv, BodyIsFormatted, Submit
<1>2. CASE UNCHANGED vars
  BY <1>2 DEF IInv, BodyIsFormatted, vars
<1>3. QED
  BY <1>1, <1>2 DEF Next

LEMMA IInvPoolsKept == IInv => PoolsKept
<1> SUFFICES ASSUME IInv, body # Absent, NEW z \in Zones
             PROVE  (\E p \in body.pools : p.zone = z /\ p.priority = form.pools[z])
                    <=> z \in DOMAIN form.pools /\ form.pools[z] \in Nat
  BY DEF PoolsKept
<1>1. body.pools = FormatPools(form.pools)
  BY DEF IInv, BodyIsFormatted, FormatNewTenantForm
<1>2. PICK Z \in SUBSET Zones : form.pools \in [Z -> Prio]
  BY DEF IInv, TenantForm, FormsWith
<1>3. QED
  BY <1>1, <1>2, FormatPoolsKeepsNumbers

(***************************************************************************)
(* For every zone set, priority range and form: the tenant formatNewTenant *)
(* Form sends has a pool for each zone of the form that has a priority, 0  *)
(* included, with that priority, and for no other zone.                    *)
(***************************************************************************)
THEOREM PoolsKeptAlways == Spec => []PoolsKept
<1>1. Init => IInv
  BY IInvInit
<1>2. IInv /\ [Next]_vars => IInv'
  BY IInvStep
<1>3. IInv => PoolsKept
  BY IInvPoolsKept
<1>4. QED
  BY <1>1, <1>2, <1>3, PTL DEF Spec

LEMMA IInvBodyMeansForm == IInv => BodyMeansForm
<1> SUFFICES ASSUME IInv, body # Absent
             PROVE  BodyMeansForm
  BY DEF BodyMeansForm
<1>1. body = FormatNewTenantForm(form, ClusterName) /\ form \in TenantForm
  BY DEF IInv, BodyIsFormatted
<1>2. Dec(body.rootPassword) = form.rootPassword
  BY <1>1, DecEnc DEF FormatNewTenantForm, TenantForm, FormsWith
<1>3. ASSUME NEW d \in {"memorySize", "logDiskSize"}
      PROVE  /\ Size(body.unitConfig[d]) = form.unitConfig[d]
             /\ form.unitConfig[d] \in Sizes => body.unitConfig[d] # form.unitConfig[d]
  <2> DEFINE u == form.unitConfig
  <2>1. u \in UnitIn
    BY <1>1 DEF TenantForm, FormsWith
  <2>2. body.unitConfig[d] = IF IsExist(u[d]) THEN Gi(u[d]) ELSE u[d]
    BY <1>1, <2>1 DEF FormatNewTenantForm, FormatUnitConfig, UnitIn
  <2>3. u[d] \in Sizes \cup {Null, Undef}
    BY <2>1 DEF UnitIn
  <2>4. QED
    BY <2>2, <2>3, SizeFormatted
<1>4. ASSUME form.source # Absent, form.source.restore # Undef
      PROVE  LET in == form.source.restore
                 out == body.source.restore IN
             /\ Dec(out.ossAccessId) = in.ossAccessId
             /\ Dec(out.ossAccessKey) = in.ossAccessKey
             /\ out.bakEncryptionPassword =
                   IF in.bakEncryptionPassword \in Secrets
                   THEN Enc(in.bakEncryptionPassword) ELSE Absent
  <2> DEFINE in == form.source.restore
  <2>1. form.source \in SourceIn /\ in \in RestoreIn
    BY <1>1, <1>4 DEF TenantForm, FormsWith, SourceIn
  <2> DEFINE src == FormatSource(form.source)
  <2>2. src = [tenant |-> IF form.source.tenant # Undef THEN form.source.tenant
                          ELSE Absent,
               restore |-> FormatRestore(in)]
    BY <1>4 DEF FormatSource
  <2>3. body.source = DropUntil(src, in)
    BY <1>1, <1>4 DEF FormatNewTenantForm
  <2>4. DropUntil(src, in) = [src EXCEPT !.restore.until = Absent]
    BY <1>4 DEF DropUntil
  <2>5. body.source.restore = [FormatRestore(in) EXCEPT !.until = Absent]
    BY <2>2, <2>3, <2>4
  <2>6. QED
    BY <2>1, <2>5, RestoreFormatted DEF FormatRestore
<1>5. QED
  BY <1>2, <1>3, <1>4 DEF BodyMeansForm

(***************************************************************************)
(* For every value of the constants, the body createTenant sends means the *)
(* form: the root password and the restore access id and key decrypt to    *)
(* what was typed in their own fields, an empty restore password is left   *)
(* out, and each size is sent with its unit, 0 as "0Gi".                   *)
(***************************************************************************)
THEOREM BodyMeansFormAlways == Spec => []BodyMeansForm
<1>1. Init => IInv
  BY IInvInit
<1>2. IInv /\ [Next]_vars => IInv'
  BY IInvStep
<1>3. IInv => BodyMeansForm
  BY IInvBodyMeansForm
<1>4. QED
  BY <1>1, <1>2, <1>3, PTL DEF Spec

\* formatUnitConfig gives the cpu count as a numeral and each size as a
\* size with its unit, or as the form left it
LEMMA FormatUnitConfigType ==
    ASSUME NEW u \in UnitIn
    PROVE  FormatUnitConfig(u) \in [cpuCount : {Str(n) : n \in Sizes},
                                    memorySize : SizeOut, logDiskSize : SizeOut]
<1>1. \A v \in Sizes \cup {Null, Undef} : (IF IsExist(v) THEN Gi(v) ELSE v) \in SizeOut
  <2> SUFFICES ASSUME NEW v \in Sizes \cup {Null, Undef}
               PROVE  (IF IsExist(v) THEN Gi(v) ELSE v) \in SizeOut
    OBVIOUS
  <2>1. CASE v \in Sizes
    BY <2>1 DEF SizeOut
  <2>2. CASE v \in {Null, Undef}
    <3>1. ~IsExist(v)
      BY <2>2, TenantCreateAssumption DEF IsExist
    <3>2. QED
      BY <2>2, <3>1 DEF SizeOut
  <2>3. QED
    BY <2>1, <2>2
<1>2. QED
  BY <1>1 DEF FormatUnitConfig, UnitIn

(***************************************************************************)
(* For every value of the constants, the form is a new-tenant form and the *)
(* unit config createTenant sends has its cpu count as a string and each   *)
(* size either with the "Gi" unit or as the form left it (null, unset).    *)
(***************************************************************************)
THEOREM TypeCorrect == Spec => []TypeOK
<1>1. IInv => TypeOK
  <2> SUFFICES ASSUME IInv PROVE TypeOK
    OBVIOUS
  <2>1. CASE body = Absent
    BY <2>1 DEF IInv, TypeOK
  <2>2. CASE body # Absent
    <3>1. body.unitConfig = FormatUnitConfig(form.unitConfig)
      BY <2>2 DEF IInv, BodyIsFormatted, FormatNewTenantForm
    <3>2. form.unitConfig \in UnitIn
      BY DEF IInv, TenantForm, FormsWith
    <3>3. QED
      BY <3>1, <3>2, FormatUnitConfigType DEF IInv, TypeOK
  <2>3. QED
    BY <2>1, <2>2
<1>2. QED
  BY <1>1, IInvInit, IInvStep, PTL DEF Spec
=============================================================================
