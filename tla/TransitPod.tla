----------------------------- MODULE TransitPod -----------------------------
(***************************************************************************)
(* Reconcile in transit mode (pkg/reconciler/vault_reconciler.go), around   *)
(* one Vault pod: Vault is initialized and its credentials stored, a sealed *)
(* pod is restarted once its boot grace is over, the recovery share is      *)
(* compared with the hash recorded at initialization, and the post-unseal   *)
(* configuration is applied (pkg/configuration).  What a reconcile learns   *)
(* is kept in the resource's status, which one Update at its end stores, or *)
(* not.  The token's own life is in AdminTokenRecovery and TokenRotation.   *)
(***************************************************************************)
EXTENDS Integers, FiniteSets

CONSTANTS
  Operator,    \* operator processes
  Grace,       \* sealedRestartGrace, in ticks
  BootTime,    \* ticks a starting Vault has to unseal itself
  Asked,       \* the values spec.postUnsealConfig is given: sets of features
  MaxFaults,   \* bound: failed calls and crashes
  MaxOutages,  \* bound: seals, restarts and outages of the transit Vault
  MaxEdits     \* bound: edits of the recovery keys and of the resource

\* The grace "comfortably covers transit auto-unseal at boot".
ASSUME TransitPodAssumption ==
  /\ Grace \in Nat /\ BootTime \in Nat /\ BootTime < Grace
  /\ Asked \subseteq SUBSET {"kv", "eso", "bootstrap"}
  /\ {MaxFaults, MaxOutages, MaxEdits} \subseteq Nat

VARIABLES
  initialized,  \* Vault has been initialized
  sealed,       \* seal state of the pod's Vault
  booting,      \* the pod's Vault may still unseal itself
  transit,      \* the transit Vault answers
  pod,          \* the pod of the StatefulSet
  view,         \* each process's cached copy of the pod
  admin,        \* the admin-token Secret
  keys,         \* recovery-key-0 of the recovery-keys Secret
  engine,       \* what is configured inside Vault
  wanted,       \* spec.postUnsealConfig
  status,       \* the status of the resource
  pass,         \* the running Reconcile call of each process
  faults, outages, edits

podVars    == <<sealed, booting, pod, view>>
secretVars == <<admin, keys>>
boundVars  == <<faults, outages, edits>>
vars == <<initialized, sealed, booting, transit, pod, view, admin, keys, engine,
          wanted, status, pass, faults, outages, edits>>

-----------------------------------------------------------------------------
(* The pod, the status, and one Reconcile call.                             *)

Pod == [age : 0..Grace,         \* how long its container runs; Grace is "or longer"
        terminating : BOOLEAN]  \* it has a deletionTimestamp

NewPod == [age |-> 0, terminating |-> FALSE]

\* A cached pod is the pod there is, or one that it replaced.
View == [age : 0..Grace, terminating : BOOLEAN, same : BOOLEAN]

Feature == {"kv", "eso", "bootstrap"}

\* What the configurator leaves in Vault: the KV mount and its settings, the auth
\* method, its config (with the reviewer JWT and the CA or without) and the two
\* roles; and what is mounted in the KV engine's place by somebody else.
Engine == SUBSET {"mount", "kvConfig", "auth", "hostConfig", "reviewerConfig", "esoRole",
                  "bootstrapRole", "otherMount"}

Status == [hash   : BOOLEAN,                        \* recoveryKeysHash is set
           intact : {"unknown", "true", "false"},   \* RecoveryKeysIntact
           flags  : SUBSET Feature]                 \* configurationStatus

NoStatus == [hash |-> FALSE, intact |-> "unknown", flags |-> {}]

PC == {"idle", "recoverAdmin", "recoverKeys", "pod",
       "initialize", "storeAdmin", "storeKeys", "restart", "drift",
       "kv", "kvMeta", "eso", "esoConfig", "esoRole",
       "bootstrap", "bootstrapConfig", "bootstrapRole", "status"}

Pass == [pc    : PC,
         mem   : Status,         \* vtu.Status of the object in hand
         spec  : SUBSET Feature, \* vtu.Spec.PostUnsealConfig of the object in hand
         stale : BOOLEAN]        \* the resource has been written since it was read

NoPass == [pc |-> "idle", mem |-> NoStatus, spec |-> {}, stale |-> FALSE]

Continue(o, r) == pass' = [pass EXCEPT ![o] = r]
Goto(o, pc)    == Continue(o, [pass[o] EXCEPT !.pc = pc])

Fault == faults > 0 /\ faults' = faults - 1

\* The calls under way work with an older resource from now on.
Outdated(f) == [x \in Operator |-> [f[x] EXCEPT !.stale = f[x].pc # "idle"]]

-----------------------------------------------------------------------------
(* Reconcile, up to the pod.                                               *)

\* The controller reads the resource; RecoverSecrets comes first.
Begin(o) ==
  /\ pass[o].pc = "idle"
  /\ Continue(o, [NoPass EXCEPT !.pc = "recoverAdmin", !.mem = status, !.spec = wanted])
  /\ UNCHANGED <<initialized, podVars, transit, secretVars, engine, wanted, status, boundVars>>

\* Mutant: a missing admin token is left to initialization.
LeavesPlaceholderNever == FALSE

\* recoverAdminToken leaves a fresh or sealed Vault alone.
LeavesPlaceholder == initialized /\ ~sealed

\* A missing admin-token Secret becomes a placeholder.  (Where there is a backup
\* it is restored from it: AdminTokenRecovery.)  An error ends the recovery.
RecoverAdmin(o) ==
  /\ pass[o].pc = "recoverAdmin"
  /\ \/ /\ admin' = (IF admin = "none" /\ LeavesPlaceholder THEN "placeholder" ELSE admin)
        /\ Goto(o, "recoverKeys")
        /\ UNCHANGED faults
     \/ Fault /\ Goto(o, "pod") /\ UNCHANGED admin
  /\ UNCHANGED <<initialized, podVars, transit, keys, engine, wanted, status, outages, edits>>

\* recoverRecoveryKeys: so do missing recovery keys, of a sealed Vault too.
RecoverKeys(o) ==
  /\ pass[o].pc = "recoverKeys"
  /\ Goto(o, "pod")
  /\ \/ keys' = (IF keys = "none" /\ initialized THEN "placeholder" ELSE keys) /\ UNCHANGED faults
     \/ Fault /\ UNCHANGED keys
  /\ UNCHANGED <<initialized, podVars, transit, admin, engine, wanted, status, outages, edits>>

-----------------------------------------------------------------------------
(* ProcessPod.                                                              *)

\* Mutant: there is no boot grace.
NoBootGrace(v) == TRUE

\* The cached pod has run for longer than its boot grace.
GraceOver(v) == v.age >= Grace

\* ProcessPod asks Vault for its status, and goes by the answer from then on.  A
\* sealed pod is left alone while it terminates and during its boot grace.
CheckPod(o) ==
  LET v == view[o] IN
  /\ pass[o].pc = "pod"
  /\ \/ ~initialized /\ Goto(o, "initialize") /\ UNCHANGED faults
     \/ /\ initialized /\ sealed
        /\ Goto(o, IF ~v.terminating /\ GraceOver(v) THEN "restart" ELSE "status")
        /\ UNCHANGED faults
     \/ initialized /\ ~sealed /\ Goto(o, "drift") /\ UNCHANGED faults
     \/ Fault /\ Goto(o, "status")
  /\ UNCHANGED <<initialized, podVars, transit, secretVars, engine, wanted, status, outages, edits>>

\* The pod is deleted by its name, whichever pod has it by now.
RestartSealedPod(o) ==
  /\ pass[o].pc = "restart"
  /\ Goto(o, "status")
  /\ \/ pod' = [pod EXCEPT !.terminating = TRUE] /\ UNCHANGED faults
     \/ Fault /\ UNCHANGED pod
  /\ UNCHANGED <<initialized, sealed, booting, view, transit, secretVars, engine, wanted,
                 status, outages, edits>>

-----------------------------------------------------------------------------
(* InitializeVault and StoreSecrets.                                        *)

\* Vault initializes itself once, with the help of the transit Vault, and opens.
\* The answer, with the only copy of the credentials, may never arrive.
Initialize(o) ==
  /\ pass[o].pc = "initialize"
  /\ \/ /\ ~initialized /\ transit
        /\ initialized' = TRUE /\ sealed' = FALSE /\ booting' = FALSE
        /\ \/ Goto(o, "storeAdmin") /\ UNCHANGED faults
           \/ Goto(o, "status") /\ Fault
     \/ /\ initialized \/ ~transit
        /\ Goto(o, "status")
        /\ UNCHANGED <<initialized, sealed, booting, faults>>
  /\ UNCHANGED <<pod, view, transit, secretVars, engine, wanted, status, outages, edits>>

\* CreateOrUpdate of the root token.  After a conflict the whole of
\* InitializeVault is tried again, which Vault refuses; another error ends it.
StoreAdmin(o) ==
  /\ pass[o].pc = "storeAdmin"
  /\ \/ admin' = "root" /\ Goto(o, "storeKeys") /\ UNCHANGED faults
     \/ Fault /\ (Goto(o, "initialize") \/ Goto(o, "status")) /\ UNCHANGED admin
  /\ UNCHANGED <<initialized, podVars, transit, keys, engine, wanted, status, outages, edits>>

\* The recovery keys, and the hash of the first in the object in hand.
StoreKeys(o) ==
  /\ pass[o].pc = "storeKeys"
  /\ \/ /\ keys' = "initial"
        /\ Continue(o, [pass[o] EXCEPT !.pc = "status", !.mem.hash = TRUE])
        /\ UNCHANGED faults
     \/ Fault /\ (Goto(o, "initialize") \/ Goto(o, "status")) /\ UNCHANGED keys
  /\ UNCHANGED <<initialized, podVars, transit, admin, engine, wanted, status, outages, edits>>

-----------------------------------------------------------------------------
(* An open pod.                                                             *)

\* Mutant: the features are an if-else chain.
FirstFeatureOfChain(r) ==
  LET todo == r.spec \ r.mem.flags IN
  IF "kv" \in todo THEN "kv"
  ELSE IF "eso" \in r.spec THEN (IF "eso" \in todo THEN "eso" ELSE "status")
  ELSE IF "bootstrap" \in todo THEN "bootstrap" ELSE "status"

\* The features this call still has to configure, in their order.
FirstFeature(r) ==
  LET todo == r.spec \ r.mem.flags IN
  IF "kv" \in todo THEN "kv" ELSE IF "eso" \in todo THEN "eso"
  ELSE IF "bootstrap" \in todo THEN "bootstrap" ELSE "status"

\* Mutant: a share is compared with itself once it is there.
ObservedPresent(m) == IF m.hash /\ keys # "none" THEN "true" ELSE m.intact

\* Mutant: the condition is set to its reason.
ObservedReason(m) ==
  IF m.hash /\ keys \in {"initial", "other"}
  THEN (IF keys = "initial" THEN "Match" ELSE "RecoveryKeyDrift") ELSE m.intact

\* CheckRecoveryKeyDrift: nothing is concluded without a hash or without a share.
Observed(m) ==
  IF m.hash /\ keys \in {"initial", "other"}
  THEN (IF keys = "initial" THEN "true" ELSE "false") ELSE m.intact

CheckDrift(o) ==
  LET r == pass[o] IN
  /\ pass[o].pc = "drift"
  /\ \E c \in {r.mem.intact, Observed(r.mem)} :
       /\ IF c = Observed(r.mem) THEN UNCHANGED faults ELSE Fault
       /\ Continue(o, [r EXCEPT !.mem.intact = c, !.pc = FirstFeature(r)])
  /\ UNCHANGED <<initialized, podVars, transit, secretVars, engine, wanted, status, outages, edits>>

\* Mutant: the flag is set whether the work was done or not.
GivenUpFlagged(r) ==
  [r EXCEPT !.pc = "status", !.mem.flags = r.mem.flags \cup {FirstFeature(r)}]

\* An error ends the configuration, and only that.
GivenUp(r) == [r EXCEPT !.pc = "status"]

\* The work on the feature at hand is done.
Configured(r) ==
  LET done == [r EXCEPT !.mem.flags = r.mem.flags \cup {FirstFeature(r)}]
  IN [done EXCEPT !.pc = FirstFeature(done)]

\* A call of the configurator that makes e of what is in Vault and goes on with
\* r.  A call that fails may have worked all the same.
ConfigCall(o, pc, e, r) ==
  /\ pass[o].pc = pc
  /\ \/ /\ admin = "root" /\ ~sealed
        /\ \/ engine' = e /\ Continue(o, r) /\ UNCHANGED faults
           \/ engine' \in {engine, e} /\ Continue(o, GivenUp(pass[o])) /\ Fault
     \/ /\ admin # "root" \/ sealed
        /\ Continue(o, GivenUp(pass[o]))
        /\ UNCHANGED <<engine, faults>>
  /\ UNCHANGED <<initialized, podVars, transit, secretVars, wanted, status, outages, edits>>

\* configureKV: the mount, unless it is there already, which ends the work on the
\* engine; a mount of another type or version in its place is an error.
ConfigureKV(o) ==
  \/ /\ engine \cap {"mount", "otherMount"} = {}
     /\ ConfigCall(o, "kv", engine \cup {"mount"}, [pass[o] EXCEPT !.pc = "kvMeta"])
  \/ "mount" \in engine /\ ConfigCall(o, "kv", engine, Configured(pass[o]))
  \/ "otherMount" \in engine /\ ConfigCall(o, "kv", engine, GivenUp(pass[o]))

\* The settings of a mount just made (max_versions, delete_version_after).  Their
\* failure is logged, and the engine counts as configured.
ConfigureKVMetadata(o) ==
  /\ pass[o].pc = "kvMeta"
  /\ Continue(o, Configured(pass[o]))
  /\ \/ admin = "root" /\ ~sealed /\ engine' = engine \cup {"kvConfig"} /\ UNCHANGED faults
     \/ (admin # "root" \/ sealed) /\ UNCHANGED <<engine, faults>>
     \/ Fault /\ engine' \in {engine, engine \cup {"kvConfig"}}
  /\ UNCHANGED <<initialized, podVars, transit, secretVars, wanted, status, outages, edits>>

\* configureExternalSecretsOperator: the policy and the auth method, ...
ConfigureESO(o) ==
  ConfigCall(o, "eso", engine \cup {"auth"}, [pass[o] EXCEPT !.pc = "esoConfig"])

\* ... the method's config, of the host alone, ...
ConfigureESOAuth(o) ==
  ConfigCall(o, "esoConfig", (engine \ {"reviewerConfig"}) \cup {"hostConfig"},
             [pass[o] EXCEPT !.pc = "esoRole"])

\* ... and the role.
ConfigureESORole(o) ==
  ConfigCall(o, "esoRole", engine \cup {"esoRole"}, Configured(pass[o]))

\* configureVaultConfigOperatorBootstrap: the auth method, ...
ConfigureBootstrap(o) ==
  ConfigCall(o, "bootstrap", engine \cup {"auth"}, [pass[o] EXCEPT !.pc = "bootstrapConfig"])

\* Mutant: the JWT and the CA are left out of the config.
ConfigureBootstrapAuthHost(o) ==
  ConfigCall(o, "bootstrapConfig", (engine \ {"reviewerConfig"}) \cup {"hostConfig"},
             [pass[o] EXCEPT !.pc = "bootstrapRole"])

\* ... its config with the operator's JWT and CA, ...
ConfigureBootstrapAuth(o) ==
  ConfigCall(o, "bootstrapConfig", (engine \ {"hostConfig"}) \cup {"reviewerConfig"},
             [pass[o] EXCEPT !.pc = "bootstrapRole"])

\* ... the policy and the role.
ConfigureBootstrapRole(o) ==
  ConfigCall(o, "bootstrapRole", engine \cup {"bootstrapRole"}, Configured(pass[o]))

-----------------------------------------------------------------------------
(* The end of the call.                                                     *)

\* The deferred updateStatus: it is refused if the resource was written since this
\* call read it, and nobody retries it.
UpdateStatus(o) ==
  LET r == pass[o] IN
  /\ r.pc = "status"
  /\ \/ /\ ~r.stale
        /\ status' = r.mem
        /\ pass' = [Outdated(pass) EXCEPT ![o] = NoPass]
        /\ UNCHANGED faults
     \/ r.stale /\ Continue(o, NoPass) /\ UNCHANGED <<status, faults>>
     \/ Fault /\ Continue(o, NoPass) /\ UNCHANGED status
  /\ UNCHANGED <<initialized, podVars, transit, secretVars, engine, wanted, outages, edits>>

Crash(o) ==
  /\ pass[o].pc # "idle"
  /\ Fault
  /\ Continue(o, NoPass)
  /\ UNCHANGED <<initialized, podVars, transit, secretVars, engine, wanted, status,
                 outages, edits>>

-----------------------------------------------------------------------------
(* The pod, its StatefulSet, and the transit Vault.                         *)

\* What a cache holds once it has caught up.
Seen == [age |-> pod.age, terminating |-> pod.terminating, same |-> TRUE]

Synced == \A o \in Operator : view[o] = Seen

\* A tick, far longer than a watch takes.  A starting Vault has made up its mind
\* before its boot time is over.
Tick ==
  LET older(x) == [x EXCEPT !.age = x.age + 1] IN
  /\ Synced
  /\ pod.age < Grace
  /\ booting => pod.age < BootTime
  /\ pod' = older(pod)
  /\ view' = [o \in Operator |-> older(view[o])]
  /\ UNCHANGED <<initialized, sealed, booting, transit, secretVars, engine, wanted, status,
                 pass, boundVars>>

\* A starting Vault unseals itself through the transit Vault, or fails to.
Boot ==
  /\ booting
  /\ booting' = FALSE /\ sealed' = ~transit
  /\ UNCHANGED <<initialized, pod, view, transit, secretVars, engine, wanted, status, pass,
                 boundVars>>

\* A Vault process starts, and the cached pods are not that of this process.  It
\* takes long enough for the watches to have told of the one before.
Start(x) ==
  /\ Synced
  /\ pod' = x
  /\ sealed' = TRUE /\ booting' = initialized
  /\ view' = [o \in Operator |-> [view[o] EXCEPT !.same = FALSE]]

\* The StatefulSet replaces a deleted pod.
ReplacePod ==
  /\ pod.terminating
  /\ Start(NewPod)
  /\ UNCHANGED <<initialized, transit, secretVars, engine, wanted, status, pass, boundVars>>

\* The container of the pod is restarted in place.
RestartContainer ==
  /\ outages > 0 /\ outages' = outages - 1
  /\ Start([pod EXCEPT !.age = 0])
  /\ UNCHANGED <<initialized, transit, secretVars, engine, wanted, status, pass, faults, edits>>

\* Somebody seals Vault.
Seal ==
  /\ outages > 0 /\ outages' = outages - 1
  /\ initialized /\ ~sealed /\ sealed' = TRUE
  /\ UNCHANGED <<initialized, booting, pod, view, transit, secretVars, engine, wanted, status,
                 pass, faults, edits>>

TransitDown ==
  /\ outages > 0 /\ outages' = outages - 1
  /\ transit /\ transit' = FALSE
  /\ UNCHANGED <<initialized, podVars, secretVars, engine, wanted, status, pass, faults, edits>>

TransitUp ==
  /\ ~transit /\ transit' = TRUE
  /\ UNCHANGED <<initialized, podVars, secretVars, engine, wanted, status, pass, boundVars>>

SyncView(o) ==
  /\ view[o] # Seen
  /\ view' = [view EXCEPT ![o] = Seen]
  /\ UNCHANGED <<initialized, sealed, booting, pod, transit, secretVars, engine, wanted, status,
                 pass, boundVars>>

-----------------------------------------------------------------------------
(* Everybody else.                                                          *)

\* The recovery keys are overwritten, restored or deleted.
EditKeys(k) ==
  /\ edits > 0 /\ edits' = edits - 1
  /\ initialized /\ keys # k /\ keys' = k
  /\ UNCHANGED <<initialized, podVars, transit, admin, engine, wanted, status, pass, faults,
                 outages>>

\* The admin token is deleted, or recovered by hand.
EditAdmin(a) ==
  /\ edits > 0 /\ edits' = edits - 1
  /\ initialized /\ admin # a /\ admin' = a
  /\ UNCHANGED <<initialized, podVars, transit, keys, engine, wanted, status, pass, faults,
                 outages>>

\* Somebody mounts an engine of another type or version in the KV engine's place,
\* or takes it away again.
MountOther ==
  /\ edits > 0 /\ edits' = edits - 1
  /\ initialized /\ ~sealed /\ engine \cap {"mount", "otherMount"} = {}
  /\ engine' = engine \cup {"otherMount"}
  /\ UNCHANGED <<initialized, podVars, transit, secretVars, wanted, status, pass, faults, outages>>

UnmountOther ==
  /\ initialized /\ ~sealed /\ "otherMount" \in engine
  /\ engine' = engine \ {"otherMount"}
  /\ UNCHANGED <<initialized, podVars, transit, secretVars, wanted, status, pass, boundVars>>

\* The resource is edited: features are added, or anything else changes.
EditResource(w) ==
  /\ edits > 0 /\ edits' = edits - 1
  /\ wanted \subseteq w /\ wanted' = w
  /\ pass' = Outdated(pass)
  /\ UNCHANGED <<initialized, podVars, transit, secretVars, engine, status, faults, outages>>

-----------------------------------------------------------------------------
Init ==
  /\ initialized = FALSE /\ sealed = TRUE /\ booting = FALSE /\ transit = TRUE
  /\ pod = NewPod
  /\ view = [o \in Operator |-> Seen]
  /\ admin = "none" /\ keys = "none" /\ engine = {}
  /\ wanted \in Asked
  /\ status = NoStatus
  /\ pass = [o \in Operator |-> NoPass]
  /\ faults = MaxFaults /\ outages = MaxOutages /\ edits = MaxEdits

ReconcileStep(o) ==
  \/ Begin(o) \/ RecoverAdmin(o) \/ RecoverKeys(o) \/ CheckPod(o)
  \/ Initialize(o) \/ StoreAdmin(o) \/ StoreKeys(o)
  \/ RestartSealedPod(o) \/ CheckDrift(o)
  \/ ConfigureKV(o) \/ ConfigureKVMetadata(o)
  \/ ConfigureESO(o) \/ ConfigureESOAuth(o) \/ ConfigureESORole(o)
  \/ ConfigureBootstrap(o) \/ ConfigureBootstrapAuth(o) \/ ConfigureBootstrapRole(o)
  \/ UpdateStatus(o)

Next ==
  \/ \E o \in Operator : ReconcileStep(o) \/ Crash(o) \/ SyncView(o)
  \/ Tick \/ Boot \/ ReplacePod \/ RestartContainer \/ Seal \/ TransitDown \/ TransitUp
  \/ \E k \in {"none", "initial", "other"} : EditKeys(k)
  \/ \E a \in {"none", "root"} : EditAdmin(a)
  \/ \E w \in Asked : EditResource(w)
  \/ MountOther \/ UnmountOther

Spec == Init /\ [][Next]_vars

\* The resource is reconciled again and again and every call returns; time
\* passes; Kubernetes replaces deleted pods and delivers watches; an outage of
\* the transit Vault ends.
Fairness ==
  /\ \A o \in Operator : WF_vars(ReconcileStep(o)) /\ WF_vars(SyncView(o))
  /\ WF_vars(Tick) /\ WF_vars(Boot) /\ WF_vars(ReplacePod) /\ WF_vars(TransitUp)

FairSpec == Spec /\ Fairness

-----------------------------------------------------------------------------
(* Properties.                                                              *)

TypeOK ==
  /\ {initialized, sealed, booting, transit} \subseteq BOOLEAN
  /\ pod \in Pod /\ view \in [Operator -> View]
  /\ admin \in {"none", "root", "placeholder"}
  /\ keys \in {"none", "initial", "other", "placeholder"}
  /\ engine \in Engine /\ wanted \subseteq Feature
  /\ status \in Status /\ pass \in [Operator -> Pass]
  /\ {faults, outages, edits} \subseteq Nat

\* Once the outages are over Vault is open for good: restarts by the operator, which
\* goes by a cached pod, do not keep up with the boots they cause
\* (vault_reconciler.go:320).
StaysOpen == <>[](initialized /\ ~sealed)

\* Initialization is never repeated, so credentials it failed to store are gone;
\* a placeholder says so, for the admin token and for the recovery keys.
LossShown ==
  /\ initialized /\ admin = "none" ~> admin # "none"
  /\ initialized /\ keys = "none" ~> keys # "none"

\* Once the hash is recorded, an overwritten recovery share is reported
\* (the outage CheckRecoveryKeyDrift is there for), though status updates get lost.
DriftReported ==
  status.hash /\ keys = "other" ~> status.intact = "false" \/ keys # "other"

\* What the flags of a status claim is in Vault: the KV mount (not its settings, the
\* failure of which the code tolerates), an auth method with a config and the roles.
\* The JWT and the CA of the bootstrap are there too, unless External Secrets are
\* also asked for, whose configuration may overwrite them.
Done(flags) ==
  /\ "kv" \in flags => "mount" \in engine
  /\ "eso" \in flags => {"auth", "esoRole"} \subseteq engine
  /\ "bootstrap" \in flags => {"auth", "bootstrapRole"} \subseteq engine
  /\ flags \cap {"eso", "bootstrap"} # {} =>
       engine \cap {"hostConfig", "reviewerConfig"} # {}
  /\ "bootstrap" \in flags => "reviewerConfig" \in engine \/ "eso" \in wanted

\* The status never claims a feature that Vault does not have, whatever calls
\* failed or worked unseen and whichever updates of the status were lost.
FlagsTruthful == Done(status.flags)

\* A call at some point of a feature's work has done what comes before it, the flag
\* it will set is that feature's, and it works on nothing that is not asked for.
AtWork(r) ==
  /\ r.spec \subseteq wanted
  /\ r.pc \in {"kv", "kvMeta"} => FirstFeature(r) = "kv"
  /\ r.pc \in {"eso", "esoConfig", "esoRole"} => FirstFeature(r) = "eso"
  /\ r.pc \in {"bootstrap", "bootstrapConfig", "bootstrapRole"} =>
       FirstFeature(r) = "bootstrap"
  /\ r.pc = "kvMeta" => "mount" \in engine
  /\ r.pc \in {"esoConfig", "esoRole", "bootstrapConfig", "bootstrapRole"} => "auth" \in engine
  /\ r.pc \in {"esoRole", "bootstrapRole"} =>
       engine \cap {"hostConfig", "reviewerConfig"} # {}
  /\ r.pc = "bootstrapRole" => "reviewerConfig" \in engine \/ "eso" \in wanted

\* Why FlagsTruthful holds: the status, and every call's copy of it, flags only what
\* is done, and each call is where its copy says (configurator.go:33).
FlagsInv ==
  /\ Done(status.flags)
  /\ \A o \in Operator : Done(pass[o].mem.flags) /\ AtWork(pass[o])

\* A mount of another type or version in the KV engine's place stops the
\* configuration for as long as it is there, of the other features too.
Blocked == "otherMount" \in engine /\ "kv" \in wanted

\* As long as the admin token works and nothing is in the way of the KV engine,
\* everything asked for gets configured.
FeaturesConfigured == <>[](admin = "root" /\ ~Blocked => wanted \subseteq status.flags)
=============================================================================
