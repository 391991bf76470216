# Verification of the ob-operator dashboard form layer

This directory holds TLA+ models of the tenant, backup and cluster form logic of the
ob-operator dashboard. The source is `src/ui/src/pages/Tenant/helper.ts`,
`src/ui/src/pages/Cluster/New/Observer.tsx` and
`src/distribution/dashboard/ui/src/services/tenant.ts`. The directory contains:

- TLC runs that check the models on small instances;
- TLAPS proofs that hold for every value of the constants.

## 1. Inventory

The code is a browser front end. It has no threads. It does have **several
actors**, and they interleave:

- each open tab, with its own form store and its own snapshot of the server's data;
- the asynchronous fetch of the public key (`usePublicKey`);
- the HTTP requests, which complete, fail, or complete after the user has moved on;
- the server. Other tabs and users write to it.

| Component | Source | State | Operations | Interacts with |
|---|---|---|---|---|
| Backup-policy edit workflow | helper.ts 94-164, tenant.ts 78-131 | server policy; per tab: fetched policy, form store (`scheduleDates` object with UI keys `days`, `mode`), public key, request in flight | `getBackupPolicy`, `formatBackupPolicyData`, form edits, `formatBackupForm`, `checkIsSame`/`checkDateIsSame`, `updatePolicyOfTenant`, `createPolicyOfTenant`, `deletePolicyOfTenant`, `checkScheduleDatesHaveFull` | server (REST), public-key fetch, the tab's form store (shared object) |
| Tenant creation normalisation | helper.ts 6-88, tenant.ts 58-67 | form values (white list, pools, source/restore, root password, unit config) | `formatNewTenantForm`, `formatUnitConfig`, `isExist`, `createTenant` | public key (`encryptText`), server |
| Resource bound across zones | helper.ts 166-186 | server resources per zone | `findMinParameter`, `findMinValue` | the tenant form's resource limits |
| Cluster zone selection | helper.ts 188-211 | cluster list with per-zone `checked` flags | `getNewClusterList` | the tenant form's zone picker |
| Observer minimal configuration | Observer.tsx 24-72 | the cluster-creation form's `observer` subtree, whose fields are required | `setMinimalConfiguration`, field edits, validation | form store |
| Other REST wrappers | tenant.ts | none | one HTTP call each | server |

### Where the behaviour is hard

- **Shared mutable input.** `formatBackupForm` clones its argument shallowly and
  then deletes `scheduleDates.days` and `scheduleDates.mode`. Those deletes act on
  the caller's object. If that object is the form's own (as with rc-field-form,
  whose values share nested objects with the store), a second submit loses the
  schedule mode.
- **Stale snapshot.** `checkIsSame` compares with the policy fetched at load.
  Another tab's update in between makes its "no change" answer false.
- **Asynchronous public key.** Before the key arrives, credentials go out in
  plaintext. The `ossAccessKey` field then carries the `ossAccessId` value
  (helper.ts:109).
- **Boundaries.** These are:
  - a pool priority of 0 (falsy, but must be kept);
  - `isExist(0)`, and NaN sizes;
  - an empty zone selection in `findMinValue` (it indexes `[0]`).

  `checkDateIsSame` is not a set comparison when days repeat, but the server
  keeps one entry per day and the form controls keep the day keys distinct, so
  repeated days cannot reach it; the model starts from policies with distinct
  days.
- **Erased fields.** `formatNewTenantForm` deletes the restore `until` it has just
  encoded. `setMinimalConfiguration` rebuilds the storage sub-objects with a size
  only; the `storageClass` the user chose survives only because `setFieldsValue`
  merges nested objects into the store.
- **Name matches.** `getNewClusterList` matches a cluster by id *or* by name, and
  names are unique only within a namespace.

### What makes each component correct

- **Backup workflow:**
  - "no change" is only said when the server really holds the form's policy;
  - an untouched form round-trips to "no change";
  - each credential field carries its own value;
  - every request body has a mode and only numeric days.
- **Tenant creation:**
  - pools keep every zone with a defined priority (0 included);
  - every secret is sent encrypted, and decrypts to its own field;
  - `until` is encoded as the spec says.
- **Resource bound:** the result is the minimum of each dimension over the chosen
  zones, and an empty choice is reported.
- **Cluster zones:** exactly the targeted cluster and zone change.
- **Observer form:** a complete form stays complete after "minimal configuration".

## 2. Status

| Component | Modules | Status |
|---|---|---|
| Backup-policy workflow | BackupPolicy, PolicyEditor, BackupPolicy_proofs, BackupPolicy_refinement | partly: create/delete policy and `checkScheduleDatesHaveFull` are not modelled |
| Tenant creation | TenantCreate, TenantCreate_proofs | modelled |
| Resource bound, cluster zones | TenantZones, TenantZones_proofs, TenantZones_bound | modelled |
| Observer card | ObserverForm, ObserverForm_proofs | modelled (layout left out) |
| Other REST wrappers | none | not modelled: no client-side state |

Every invariant and action property of a passing run is also stated by a
theorem (section 4). The properties of the violation runs are checked only by
TLC, and liveness is not stated.

## 3. Modules

### BackupPolicy

**Constants:**

- `Clients`: the tabs.
- `NDays`: day keys are 1..NDays.
- `Types`, `Modes`, `HM`: model values.
- `Secs`: seconds of the time picker's value.
- `Secrets`.
- The sentinels `Undef` (JavaScript undefined or an absent key), `NaN`
  (`Number(key)` of "days" or "mode"), `NoKey` and `PubKey`.
- `SharedInput`: whether the object given to `formatBackupForm` is the form's own.

**Variables:**

- `policy`: the server.
- `snapshot[c]`: the `backupPolicy` the page of tab c fetched.
- `form[c]`: the form store.
- `key[c]`.
- `body[c]`: the submit handler's payload while it runs.
- `pending[c]`.
- `msg[c]`.

**Operators, from the code:**

- `FormatBackupPolicyData` (helper.ts 121-130).
- `FormatBackupForm` (94-119), built from:
  - `EncryptIf` (the `publicKey ? encryptText(..) : ..` branches);
  - the `ossAccessKey` branch, kept as written (line 109);
  - `StripUiKeys` (the two deletes);
  - `ObjectEntries` (`Object.keys(..).map(..)`). A remaining `days`/`mode` key
    becomes an entry whose day is NaN.
- `CheckDateIsSame` (132-143).
- `CheckIsSame` (145-164). The fetched policy has no credential keys, so a
  credential that is set compares unequal.
- The credentials are encrypted as `Enc(v)`, a value tagged with its plaintext.
- The `HH:mm` formatting is the projection of the picker's `[hm, ss]` value to `hm`.

**Actions:**

- `KeyLoaded`: the public key arrives.
- `Load`: `getBackupPolicy` plus filling the form.
- `SetDay`, `RemoveDay`, `SetMode`, `SetTime`, `SetSecret`: the form controls.
  These are not in the repository fragment and are modelled from the spec; they
  keep `days` and the day keys in step.
- `Submit`: format, mutate the input if `SharedInput`, compare, then either say
  "no change" or send. It is enabled only while the tab has no update in
  flight (the page is assumed to block a second submit while saving).
- `UpdateOk`: the server stores `scheduleType`, `scheduleTime` and
  `scheduleDates`, and the page refetches.
- `UpdateFail`.

Loading is taken to succeed atomically. The server is modelled from the spec.

Three assumptions about the backup page, which is not in the repository
fragment, shape what the one-tab run can reach:

- **Refetch after save:** `UpdateOk` also sets the tab's snapshot to the stored
  policy, as if the page refetched it.
- **No reload while saving:** `Load` is disabled while the tab's own update is
  in flight. Without it, one tab could reload the old policy and then compare
  against it after its update lands: the same stale snapshot that the
  `backup_two_tabs` run shows with two tabs.
- **No double submit:** `Submit` is disabled while an update is in flight.

The first two are what let `NoChangeIsTrue` hold with one tab; the pass says
nothing about a page that does not behave this way.

### PolicyEditor (abstract) and the refinement

`PolicyEditor` says what the backup page promises, without forms or wire
shapes. Its variables are the server's `policy`, the `draft` the open form
stands for, the draft `inflight`, and what the page last `said`. Its actions are
`Open`, `Edit`, `SaveNoChange` (allowed only when the server holds the draft),
`SaveSend`, `Stored` and `Dropped`.

`BackupPolicy` instantiates it as `Abstract` for one tab (`Editor`):

- `draft` is `Meaning(form)`: the policy the server would store from the form's
  body (its mode, `HH:mm` and `ObjectEntries` of the stripped day map);
- `inflight` is the policy of the body in flight, when one is;
- `policy` and `said` map to themselves.

`ImplementsEditor == Abstract!Spec` is checked as a property.

### TenantCreate

The state is the new-tenant `form` and the `body` createTenant sent. `Init`
takes every form up to the bounds; `Submit` is `createTenant` of
`FormatNewTenantForm(form, ClusterName)`. The operators follow helper.ts 6-88
key by key: `IsExist`, `FormatUnitConfig`, `Join` (a comma between two
entries), `FormatPools` (the `priority || priority === 0` filter),
`FormatSource`, `FormatRestore`, `EncodeUntil`, and `DropUntil` (the final
`delete`). A key the object lacks is `Absent`; `undefined`, `null` and `""` are
kept apart, because `isExist` and the filters tell them apart. Sizes are model
values with a `Zero` among them, and `n + 'Gi'` is the record `Gi(n)`.

### TenantZones

The state is the page's copy of the cluster list (each topology zone with its
`checked` flag), the server resources, and the last bound with the zones it was
computed for.

- `ClickZone(zone, checked, target)` replaces the list by `GetNewClusterList`.
  Targets name a cluster by id and name, by id, or by name.
- `ComputeBound(c)` sets the bound to `FindMinParameter` of the checked zones of
  c. It computes the bound in three steps:
  - `FilterZones` is the `filter` of line 178. It is a recursive function with
    the same definition as the `SelectSeq` of the Sequences module.
  - `FindMinValue` sorts the selection with `SortArray`.
  - It then reads the first element. On an empty selection the read is of
    `undefined[key]`, which throws (`Thrown`).

`SortArray(s, key)` is the list read through a bijection of `1..Len(s)`
(`Reorderings`) under which no element has a larger key than a later one. This
is TLC's `SortSeq` with `<=`. The model states it because tlapm treats
`SortSeq` and `SelectSeq` as opaque: it cannot unfold either.

The comparator `pre[key] - cur[key]` lets equal keys stand in either order,
hence `<=`. With `<`, no order exists when two servers tie on a key, and
`CHOOSE` would return an arbitrary value.

### ObserverForm

The state is the store's `observer` subtree and whether the storage classes
have arrived. Fields hold `undefined`, `null` (a cleared InputNumber), `""` or
a value; an InputNumber never holds a number below its `min`. The actions are
the field edits, `LoadClasses` (the `ClassSelect`s render only then) and
`MinimalConfiguration`, which applies `setFieldsValue`'s merge: the patch sets
the resources and sizes, and keeps `image` and the `storageClass`es.

### Runs

| Run | Config | Expect | Shows |
|---|---|---|---|
| backup_single_tab | MC_BackupPolicy.cfg | pass | With one tab and `SharedInput = FALSE`, `TypeOK`, `NoChangeIsTrue` and `RoundTrip` hold over every order of loads, edits, key arrival, submits, failures and retries (1.8M states, about 90 s). |
| backup_two_tabs | MC_BackupPolicy_TwoTabs.cfg | violation | Tab 1 loads, edits and submits; while its update is in flight tab 2 loads the old policy; tab 1's update succeeds; tab 2 submits its unedited form and is told "no change", while the server holds tab 1's policy. |
| backup_resubmit | MC_BackupPolicy_Resubmit.cfg | violation | With `SharedInput = TRUE`, load, submit ("no change"), then submit again: the second body has `scheduleType` undefined and is sent. |
| backup_no_public_key | MC_BackupPolicy_NoKey.cfg | violation | Type only an ossAccessKey and submit before the key arrives: the body's ossAccessKey is the (unset) ossAccessId value, so the page answers "no change" and the typed key is lost. With one secret the model cannot show two typed values swapped, only the key replaced. |
| backup_refinement | MC_BackupPolicy_Refine.cfg | pass | With one tab, every behaviour of the page is a behaviour of PolicyEditor under the mapping above (0.9M states, about 100 s). `Secs = {0}` here: the seconds only matter to `RoundTrip`, and with two values the run takes over 7 minutes. |
| tenant_zones | MC_TenantZones.cfg | pass | Two clusters with distinct names (one with two zones) and every server list of up to 3 servers: each click changes at most one zone flag of one cluster and keeps every name and zone set (`OneClusterPerClick`), and `BoundIsTightest` holds: the bound is the per-dimension minimum over the chosen zones, or an error when they hold no server. |
| tenant_zones_same_name | MC_TenantZones_SameName.cfg | violation | Two clusters named alike: one click sets the zone of both. |
| tenant_create | MC_TenantCreate.cfg | pass | Every form up to the bounds (two zones with priority undefined, null, 0 or 1; sizes 0 and 2, null or unset; every restore source): `PoolsKept` and `BodyMeansForm` hold. |
| tenant_create_until | MC_TenantCreate_Until.cfg | violation | A restore with neither date nor time: the encoded `{unlimited: true}` is deleted, and the body has no `until`. A date and time is dropped by the same line. |
| observer_form | MC_ObserverForm.cfg | pass | Every order of edits, class arrival and the button, with values at and one above each minimum: `MinimalKeepsChoices` holds. |

**Bounds:**

- BackupPolicy: 2 day keys and 2 backup types, which gives 9 day maps. This is
  enough for a length difference, a type change and a removed day.
- 2 modes.
- One `HH:mm` value, with seconds {0, 30}. This is enough to show that a
  seconds-only change formats to the same body.
- One secret, in three fields. This is enough to swap fields.
- One or two tabs.
- TenantZones: 2 clusters, 2 zones, free amounts {1, 2} and up to 3 servers. So
  the selection can be empty, hold one zone's servers, or hold servers whose
  minima of different dimensions are on different servers.
- TenantCreate: priorities 0 and 1 (0 is the falsy edge), sizes 0 and 2 as model
  values, one address list of length 1 or 2, two secrets (so that swapped fields
  would show).
- ObserverForm: `Extra = 1` (each number at its minimum or one above).

The runs leave out liveness. Nothing in the code retries on its own; every
further step is a user action or the answer to one, so no fairness is assumed.

### Findings

- helper.ts:112 (run `backup_resubmit`). `formatBackupForm` makes a shallow clone
  and then deletes `scheduleDates.days` and `scheduleDates.mode`, which mutates
  the caller's object. Section 5 of the spec forbids mutating caller-supplied
  input. When the object is the form's own, a second submit (after "no change"
  or after a failed request) sends `scheduleType: undefined`.
- helper.ts:109 (run `backup_no_public_key`). With no public key, `ossAccessKey`
  is set to `ossAccessId`, but the spec says each field's plaintext passes
  through unchanged. In the shortest trace only the key is typed: the body's
  `ossAccessKey` is undefined, the page answers "no change" and the key is
  never sent.
- helper.ts:152 (run `backup_two_tabs`). `checkIsSame` compares the form with the
  policy fetched when the page loaded. In the trace, tab 2 loads while tab 1's
  update is in flight. After tab 1's update it answers
  "unchanged" while the server holds a different policy. The spec defines
  "unchanged" against "previous" and says nothing of concurrent edits.
- helper.ts:86 (run `tenant_create_until`). `until` is encoded and then deleted,
  so neither encoding is sent. The spec's data model and its testable property 6
  expect the encoding to be sent. Its section 4.1 says the opposite.
- helper.ts:200 (run `tenant_zones_same_name`). `getNewClusterList` sets the zone
  of every cluster whose id or name matches the target, so two clusters of one
  name in different namespaces are toggled together. The spec says only the
  targeted pair changes.

## 4. Proofs

Six modules hold proofs. Each one EXTENDS the module it proves things about,
plus TLAPS.

### BackupPolicy_proofs

`TypeCorrect == Spec => []TypeOK` holds for every value of the constants and any
number of tabs. `TypeOK` is not inductive on its own, because `UpdateOk` stores
`body[c]`. The inductive invariant is `IInv == TypeOK /\ PendingHasBody`:
a request in flight has a well-typed body. The step proof has one case per
action and rests on these lemmas:

- `FormatBackupPolicyData` returns a dates object.
- `AddDay` and `DropDay` keep a dates object.
- `FormatBackupForm` returns a body. After the two deletes, `ObjectEntries` has
  no NaN entry.

`NoChangeSingleTab` is `Spec => []NoChangeIsTrue` for `Clients = {c0}`. The
inductive invariant `NInv` strengthens `IInv` with the following conjuncts:

- `SnapCurrent`: the tab's snapshot is the server policy. This needs a single
  tab, and the two-tab run refutes it.
- `FormLoaded`: a filled form implies a snapshot.
- `NoChangeSound`: a "no change" answer was checked against the snapshot.
- `PolicyDistinct` and `PendingDistinct`: no day repeats.

Its central lemma is `CheckIsSameSound`. When `checkIsSame` accepts a body, the
body means exactly the fetched policy, provided the policy repeats no day. The
argument has three steps:

1. Every old entry is in the new list, so the old set is contained in the new
   one.
2. The new list repeats no day, so it is finite (`FS_Injection`).
3. The lengths are equal, so the two sets are equal (`FS_Subset`).

### BackupPolicy_refinement

- `RoundTripHolds == Spec => RoundTrip` holds for any number of tabs. The
  invariant is `RInv`: `IInv`, `FormLoaded`, and no repeated day in the server
  policy, in any body in flight or in any snapshot (`SnapDistinct`). TLC checked
  `RInv` exhaustively on one tab, with `SharedInput` both FALSE and TRUE. It also
  checked it by simulation on two tabs, where the full state space is too large.
  The lemmas are these:
  - `EntriesRoundTrip`: the stripped `ObjectEntries` of
    `FormatBackupPolicyData(p)` is `p.scheduleDates` when no day repeats (each
    day's entry is the one `CHOOSE` picks).
  - `CheckIsSameRoundTrip`: `checkIsSame` accepts the body of an untouched form.
- `Refinement` holds for `Clients = {c0}` and `SharedInput = FALSE`. It says
  `Spec => ImplementsEditor`, that is, `Spec => Abstract!Spec`. The proof takes
  `NInv` and shows:
  - `Init => Abstract!Init`;
  - every step maps to an editor step or a stutter (`NextRefines`):
    - `Load` is `Open`, because `Meaning(FormOf(p)) = p`;
    - the form controls are `Edit`;
    - a submit is `SaveNoChange` (by `CheckIsSameSound` and `SnapCurrent`) or
      `SaveSend` (by `PolicyOfFormat`: the body's policy is the form's meaning);
    - `UpdateOk` and `UpdateFail` are `Stored` and `Dropped`.

  The hypothesis `SharedInput = FALSE` cannot be dropped. With a shared input,
  a submit deletes the form's mode, so the draft changes during a submit; run
  `backup_resubmit` shows where this leads.

The assumption `Undef \notin PolicyVal \cup FormVal` (JavaScript `undefined` is
not an object) lets `Meaning` and the guards tell a filled form from none.

### TenantCreate_proofs

`TypeCorrect`, `PoolsKeptAlways` and `BodyMeansFormAlways`. The inductive
invariant is `IInv`: the form is a form, and a sent body is
`FormatNewTenantForm` of the current form. The lemmas are these:

- `FormatPoolsKeepsNumbers`: the filter keeps a zone exactly when its priority
  is a number.
- `FormatUnitConfigType` gives the shape of the unit config.
- `SizeFormatted`: a formatted size stands for the form's size, and a number
  (0 included) is never sent bare.
- `RestoreFormatted`: the restore's credentials decrypt to their own fields.

These proofs use two assumptions on the constants: `"" \notin Secrets` (a
secret is never empty) and `Gi(n) \notin Sizes \cup {Null, Undef}` (a size is
a number, never a string with a unit).

### ObserverForm_proofs

`TypeCorrect` (`TypeOK` is inductive as it stands) and
`MinimalKeepsChoicesAlways`. The second rests on `MinimalStep`: on a
well-shaped card the merge sets every number to its minimum, a natural number
and so present, and it leaves the image and the storage classes alone.

### TenantZones_proofs

`OneClusterPerClickUniqueNames` holds under the hypothesis that no two clusters
share a name: every step changes at most one zone flag of at most one cluster,
and keeps every name and every topology's set of zones. The proof uses two steps:

- The invariant `NamesKept`: the copy keeps every cluster under its own name.
- `GetNewClusterListShape`: the copy keeps each cluster's name and the zones
  of its topology, and a flag changes only at the clicked zone of a cluster
  that matches the target.
- `TargetMatchesOne`: a target the page builds matches one cluster. This needs
  `Undef` to be no id and no name.

The same-name run shows the hypothesis cannot be dropped.

### TenantZones_bound

These results hold for every value of the constants, for server lists of any
length, and with ties:

- `TypeCorrect`: `Spec => []TypeOK`.
- `BoundTightestAlways`: `Spec => []BoundIsTightest`.

The inductive invariant is `ZInv`. It combines `NamesKept`, `TypeOK`,
"the resources are a sequence of servers", and `BoundComputed`: a bound on
record is `FindMinParameter` of the zones it was computed for. TLC checked
`ZInv` on the `tenant_zones` instance (471,852 states) before it was proved.
The core is `FindMinParameterIsRef`: `FindMinParameter(zones, rs) =
RefBound(zones, rs)` for every list `rs`.

Both halves of that lemma are facts about all sequences. The installed provers
cannot instantiate an induction rule with an operator parameter. Each fact is
therefore proved from `LeastNat`, which says that a non-empty set of naturals
has a least element. `LeastNat` follows from `WFMin` and
`NatLessThanWellFounded`.

- **The filter.** `FilterExists` shows that a function satisfying the
  recursion exists. It extends one on `0..m-1` to `0..m` and takes a least `m`
  that fails. `FilterRange` then shows that the result is a list of servers
  whose range is exactly the servers of the chosen zones. So it is empty
  exactly when no server is in them.
- **The sort.** The proof builds a sorted order instead of inducting. The
  *rank* of an index is one plus the number of indices before it in the order
  "smaller key, or equal key and smaller index":
  - `RankMono`: an earlier index has a smaller rank.
  - `RankBijective`: ranks are injective into `1..n`, and by `FS_Injection`
    onto it.
  - `ByRankSorts`: listing the indices by rank is a member of `Reorderings`
    under which the keys do not decrease.

  So the `CHOOSE` in `SortArray` has a witness, and `SortFirstIsMin` follows:
  the first element has the least key of the list.

Writing this proof uncovered an error in the model's `TypeOK`.
`boundZones \in SUBSET Zones \cup {Undef}` was read by TLC as
`(SUBSET Zones) \cup {Undef}`, but by tlapm as `SUBSET (Zones \cup {Undef})`.
The conjunct is now parenthesised as intended.

### What stays with TLC

- The properties of the violation runs. They are meant to fail.
- Liveness. None is stated, because no fairness is justified. Nothing in the
  code retries on its own.

## 5. Not modelled

- The other REST wrappers: they have no client-side state.
- `createPolicyOfTenant`, `deletePolicyOfTenant` and `checkScheduleDatesHaveFull`:
  the pages that call them are not in the repository fragment.
- A `source` key that is present but `undefined` in the new-tenant form. It
  would make `formatNewTenantForm` throw at helper.ts:42, but whether the page
  registers such a field is decided outside the fragment.
- JSX layout, translations and styles.
- The contents of `encryptText`. It is treated as an injective tagging of the
  plaintext.
