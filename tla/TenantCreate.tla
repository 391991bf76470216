---------------------------- MODULE TenantCreate ----------------------------
(***************************************************************************)
(* Tenant creation: the values of the new-tenant form are turned into the  *)
(* body of createTenant by formatNewTenantForm(values, clusterName,        *)
(* publicKey), which visits every key of the form: the white list is      *)
(* joined, the cluster name imposed, the pools flattened and filtered, the *)
(* restore source re-encoded with its secrets encrypted, the root password *)
(* encrypted and the unit config given units (formatUnitConfig).           *)
(***************************************************************************)
EXTENDS Naturals, Sequences

CONSTANTS
    Zones,        \* zone names of the pools object
    Addrs,        \* entries of the connect white list
    Secrets,      \* plaintexts of passwords and access ids/keys
    Sizes,        \* numbers an InputNumber of the unit config may hold
    Zero,         \* the number 0 among them
    DateVal,      \* values of the restore date picker
    TimeVal,      \* values of the restore time picker
    ClusterName,  \* the cluster the tenant is created in
    Undef,        \* JavaScript undefined
    Null,         \* null (a cleared InputNumber or priority)
    Absent,       \* a key the object does not have (never set, or deleted)
    Comma         \* the separator join(',') puts between entries

\* encryptText(plain, publicKey): the ciphertext is tagged with its plaintext
Enc(v) == <<"enc", v>>
\* String(n) and n + 'Gi': the numeral of n, with the unit suffix
Str(n) == [num |-> n, unit |-> ""]
Gi(n) == [num |-> n, unit |-> "Gi"]

Prio == {Undef, Null} \cup 0..1
Until == {Undef} \cup [date : DateVal \cup {Undef}, time : TimeVal \cup {Undef}]
RestoreIn == [ossAccessId : Secrets, ossAccessKey : Secrets,
              bakEncryptionPassword : Secrets \cup {Undef, ""}, until : Until]
SourceIn == [tenant : {"standby"} \cup {Undef}, restore : RestoreIn \cup {Undef}]
UnitIn == [cpuCount : Sizes, memorySize : Sizes \cup {Null, Undef},
           logDiskSize : Sizes \cup {Null, Undef}]
\* The form values, with white lists from Lists: a source only when the
\* tenant is restored or a standby
FormsWith(Lists) == [connectWhiteList : Lists, obcluster : {Undef},
               pools : UNION {[Z -> Prio] : Z \in SUBSET Zones},
               source : SourceIn \cup {Absent}, rootPassword : Secrets,
               unitConfig : UnitIn]
TenantForm == FormsWith(Seq(Addrs))

ASSUME TenantCreateAssumption ==
    /\ Zero \in Sizes
    /\ Comma \notin Addrs
    /\ \A v \in {Undef, Null, Absent} : v \notin Sizes \cup Nat \cup Secrets \cup {""}
    /\ Undef # Null /\ Null # Absent /\ Undef # Absent
    /\ "" \notin Secrets
    /\ \A n \in Sizes : Gi(n) \notin Sizes \cup {Null, Undef}

VARIABLES
    form,   \* the values of the new-tenant form
    body    \* the body createTenant sent, or Absent before the submit

vars == <<form, body>>

-----------------------------------------------------------------------------
\* Mutant: isExist written as !!val, which loses 0
IsExistTruthy(v) == v \notin {Undef, Null, "", Zero}

\* isExist: a number (0 and NaN included) or a truthy value
IsExist(v) == v \in Sizes \/ v \notin {Undef, Null, ""}

\* Mutant: String(cpuCount) is forgotten
FormatUnitConfigNoString(u) ==
    [u EXCEPT !.logDiskSize = IF IsExist(@) THEN Gi(@) ELSE @,
              !.memorySize = IF IsExist(@) THEN Gi(@) ELSE @]

\* formatUnitConfig: cpuCount as a string, sizes that exist suffixed "Gi"
FormatUnitConfig(u) ==
    [u EXCEPT !.cpuCount = Str(@),
              !.logDiskSize = IF IsExist(@) THEN Gi(@) ELSE @,
              !.memorySize = IF IsExist(@) THEN Gi(@) ELSE @]

\* connectWhiteList.join(','): the entries with a comma between two of them
Join(s) == [i \in 1..(2 * Len(s) - 1) |->
               IF i % 2 = 1 THEN s[(i + 1) \div 2] ELSE Comma]

\* Mutant: the filter keeps truthy priorities only (item.priority)
FormatPoolsTruthy(pools) ==
    {[zone |-> z, priority |-> pools[z], type |-> "Full"] :
        z \in {x \in DOMAIN pools : pools[x] \notin {Undef, Null, 0}}}

\* pools: one {zone, priority, type: 'Full'} per key, kept when
\* item.priority || item.priority === 0
FormatPools(pools) ==
    {[zone |-> z, priority |-> pools[z], type |-> "Full"] :
        z \in {x \in DOMAIN pools : pools[x] \notin {Undef, Null}}}

\* until && until.date && until.time ? {timestamp: 'YYYY-MM-DD HH:mm:ss'}
\* : {unlimited: true}; the timestamp takes the day of the date picker's
\* value and the clock of the time picker's value
EncodeUntil(u) ==
    IF u # Undef /\ u.date # Undef /\ u.time # Undef
    THEN [timestamp |-> <<u.date.day, u.time.clock>>]
    ELSE [unlimited |-> TRUE]

\* The restore object: its fields, the access id and key encrypted, until
\* encoded, the password encrypted when truthy and deleted otherwise
FormatRestore(r) ==
    [ossAccessId |-> Enc(r.ossAccessId), ossAccessKey |-> Enc(r.ossAccessKey),
     bakEncryptionPassword |-> IF r.bakEncryptionPassword \notin {Undef, ""}
                               THEN Enc(r.bakEncryptionPassword) ELSE Absent,
     until |-> EncodeUntil(r.until)]

\* source: emitted when it names a tenant or a restore
FormatSource(s) ==
    IF s.tenant = Undef /\ s.restore = Undef THEN Absent
    ELSE [tenant |-> IF s.tenant # Undef THEN s.tenant ELSE Absent,
          restore |-> IF s.restore # Undef THEN FormatRestore(s.restore)
                      ELSE Absent]

\* The final `delete result.source?.restore?.until`; result.source.restore
\* was built exactly when the form's restore r is set
DropUntil(src, r) ==
    IF r = Undef THEN src
    ELSE [src EXCEPT !.restore.until = Absent]

\* formatNewTenantForm
FormatNewTenantForm(f, clusterName) ==
    [connectWhiteList |-> Join(f.connectWhiteList),
     obcluster |-> clusterName,
     pools |-> FormatPools(f.pools),
     source |-> IF f.source = Absent THEN Absent
                ELSE DropUntil(FormatSource(f.source), f.source.restore),
     rootPassword |-> Enc(f.rootPassword),
     unitConfig |-> FormatUnitConfig(f.unitConfig)]

-----------------------------------------------------------------------------
\* Every form the page can submit, up to the bounds of the constants
Init ==
    /\ form \in FormsWith(UNION {[1..n -> Addrs] : n \in 1..2})
    /\ body = Absent

\* createTenant({ns, name, ...formatNewTenantForm(values, clusterName, key)})
Submit ==
    /\ body' = FormatNewTenantForm(form, ClusterName)
    /\ UNCHANGED form

Next == Submit

Spec == Init /\ [][Next]_vars

-----------------------------------------------------------------------------
SizeOut == Sizes \cup {Null, Undef} \cup {Gi(n) : n \in Sizes}
TypeOK ==
    /\ form \in TenantForm
    /\ body = Absent \/ body.unitConfig \in [cpuCount : {Str(n) : n \in Sizes},
                                             memorySize : SizeOut,
                                             logDiskSize : SizeOut]

\* The plaintext of a sent secret; the size a sent size field stands for
Dec(x) == IF x \in {Enc(s) : s \in Secrets} THEN x[2] ELSE x
Size(x) == IF x \in {Gi(n) : n \in Sizes} THEN x.num ELSE x

(***************************************************************************)
(* Every zone of the pools object that has a priority, 0 included, is a    *)
(* pool of the created tenant with that priority, and no other zone is:    *)
(* the falsy-but-valid priority 0 is not filtered out.                     *)
(***************************************************************************)
PoolsKept ==
    body # Absent =>
        \A z \in Zones :
            (\E p \in body.pools : p.zone = z /\ p.priority = form.pools[z])
            <=> z \in DOMAIN form.pools /\ form.pools[z] \in Nat

(***************************************************************************)
(* The body means what the form says: every secret decrypts to the value   *)
(* typed in its own field, an empty restore password is left out rather   *)
(* than sent, a size of 0 is sent as "0Gi" and every sent size stands for *)
(* the size the form holds.                                                *)
(***************************************************************************)
BodyMeansForm ==
    body # Absent =>
        /\ Dec(body.rootPassword) = form.rootPassword
        /\ \A d \in {"memorySize", "logDiskSize"} :
              /\ Size(body.unitConfig[d]) = form.unitConfig[d]
              /\ form.unitConfig[d] \in Sizes => body.unitConfig[d] # form.unitConfig[d]
        /\ form.source # Absent /\ form.source.restore # Undef =>
              LET in == form.source.restore
                  out == body.source.restore IN
              /\ Dec(out.ossAccessId) = in.ossAccessId
              /\ Dec(out.ossAccessKey) = in.ossAccessKey
              /\ out.bakEncryptionPassword =
                    IF in.bakEncryptionPassword \in Secrets
                    THEN Enc(in.bakEncryptionPassword) ELSE Absent

(***************************************************************************)
(* The restore window reaches the server encoded: with a date and a time   *)
(* the restore carries {timestamp: "<date> <time>"}, otherwise            *)
(* {unlimited: true} (the spec's data model and its testable property 6). *)
(***************************************************************************)
UntilEncoded ==
    body # Absent /\ form.source # Absent /\ form.source.restore # Undef =>
        body.source.restore.until = EncodeUntil(form.source.restore.until)

=============================================================================
