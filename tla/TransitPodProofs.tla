-------------------------- MODULE TransitPodProofs --------------------------
(***************************************************************************)
(* Proofs about TransitPod: the status flags only what is configured in     *)
(* Vault.  That a call flags the feature it has worked on, and not another, *)
(* is needed for its types already, so both are proved together.            *)
(***************************************************************************)
EXTENDS TransitPod, TLAPS

Inv == TypeOK /\ FlagsInv

\* What is asked for, and what is in Vault, stays there; the auth method's config is
\* at most replaced, and loses the JWT and the CA only if External Secrets are wanted.
Keeps ==
  /\ wanted \subseteq wanted'
  /\ engine \cap {"mount", "auth", "esoRole", "bootstrapRole"} \subseteq engine'
  /\ engine \cap {"hostConfig", "reviewerConfig"} # {} =>
       engine' \cap {"hostConfig", "reviewerConfig"} # {}
  /\ "reviewerConfig" \in engine => "reviewerConfig" \in engine' \/ "eso" \in wanted

\* The states a call may be in without having done anything for a feature.
Apart == PC \ {"kv", "kvMeta", "eso", "esoConfig", "esoRole",
               "bootstrap", "bootstrapConfig", "bootstrapRole"}

-----------------------------------------------------------------------------
(* Steps, by what they do to a call.                                       *)

LEMMA DoneKept == ASSUME NEW f, Done(f), Keeps PROVE Done(f)'
  BY DEF Done, Keeps

LEMMA AtWorkKept == ASSUME NEW r, AtWork(r), Keeps PROVE AtWork(r)'
  BY DEF AtWork, Keeps, FirstFeature

LEMMA PassFacts ==
  ASSUME Inv, NEW o \in Operator
  PROVE  /\ pass[o] \in Pass /\ pass[o].mem \in Status /\ pass[o].mem.flags \subseteq Feature
         /\ pass[o].spec \subseteq wanted
         /\ Done(pass[o].mem.flags) /\ AtWork(pass[o])
  BY DEF Inv, TypeOK, FlagsInv, AtWork, Pass, Status

LEMMA NoPassOK ==
  /\ NoPass \in Pass /\ NoPass.mem = NoStatus /\ NoPass.pc = "idle" /\ NoPass.pc \in Apart
  /\ NoPass.spec = {}
  /\ NoStatus \in Status /\ NoStatus.flags = {} /\ Done(NoStatus.flags)
  BY DEF NoPass, Pass, PC, NoStatus, Status, Done, Apart

\* The types of what a step of a call leaves alone.
RestOK ==
  /\ {initialized', sealed', booting', transit'} \subseteq BOOLEAN
  /\ pod' \in Pod /\ view' \in [Operator -> View]
  /\ admin' \in {"none", "root", "placeholder"}
  /\ keys' \in {"none", "initial", "other", "placeholder"}
  /\ engine' \in Engine /\ wanted' \subseteq Feature
  /\ {faults', outages', edits'} \subseteq Nat

LEMMA RestUnchanged ==
  ASSUME TypeOK, UNCHANGED <<initialized, podVars, transit, secretVars, engine, wanted,
                             outages, edits>>,
         Fault \/ UNCHANGED faults
  PROVE  RestOK
  BY DEF TypeOK, RestOK, podVars, secretVars, Fault

\* A call goes on with r.
LEMMA CallInv ==
  ASSUME Inv, NEW o \in Operator, NEW r \in Pass, Continue(o, r),
         RestOK, Keeps, UNCHANGED status, Done(r.mem.flags), AtWork(r)'
  PROVE  Inv'
<1>1. pass' \in [Operator -> Pass] /\ pass'[o] = r /\ \A x \in Operator \ {o} : pass'[x] = pass[x]
  BY DEF Inv, TypeOK, Continue
<1>2. TypeOK'
  BY <1>1 DEF Inv, TypeOK, RestOK
<1>3. Done(status.flags)'
  BY DoneKept DEF Inv, FlagsInv
<1>4. ASSUME NEW x \in Operator PROVE Done(pass[x].mem.flags)' /\ AtWork(pass[x])'
  BY <1>1, DoneKept, AtWorkKept DEF Inv, FlagsInv
<1> QED BY <1>2, <1>3, <1>4 DEF Inv, FlagsInv

\* A call moves to a point outside the configuration, with the flags it had.
LEMMA ApartInv ==
  ASSUME Inv, NEW o \in Operator, NEW r \in Pass, Continue(o, r), r.pc \in Apart,
         r.mem.flags = pass[o].mem.flags, r.spec = pass[o].spec, RestOK, Keeps,
         UNCHANGED status
  PROVE  Inv'
<1>1. AtWork(r)'
  BY PassFacts DEF AtWork, Apart, Keeps
<1> QED BY <1>1, PassFacts, CallInv

LEMMA GotoInv ==
  ASSUME Inv, NEW o \in Operator, NEW c \in Apart, Goto(o, c), RestOK, Keeps,
         UNCHANGED status
  PROVE  Inv'
<1>1. PICK r : r = [pass[o] EXCEPT !.pc = c]
  OBVIOUS
<1>2. r \in Pass /\ r.pc = c /\ r.mem.flags = pass[o].mem.flags /\ r.spec = pass[o].spec
  BY <1>1, PassFacts DEF Pass, Apart
<1> QED BY <1>1, <1>2, ApartInv DEF Goto

LEMMA ReturnInv ==
  ASSUME Inv, NEW o \in Operator, Continue(o, NoPass), RestOK, Keeps, UNCHANGED status
  PROVE  Inv'
<1>1. AtWork(NoPass)'
  BY NoPassOK DEF AtWork
<1> QED BY <1>1, NoPassOK, CallInv

\* The calls under way are as they were, but for being outdated.
LEMMA OutdatedFacts ==
  ASSUME TypeOK
  PROVE  /\ Outdated(pass) \in [Operator -> Pass]
         /\ \A o \in Operator : /\ Outdated(pass)[o].mem = pass[o].mem
                                /\ Outdated(pass)[o].spec = pass[o].spec
                                /\ Outdated(pass)[o].pc = pass[o].pc
<1> SUFFICES ASSUME NEW o \in Operator
             PROVE  LET r == [pass[o] EXCEPT !.stale = pass[o].pc # "idle"]
                    IN  r \in Pass /\ r.mem = pass[o].mem /\ r.spec = pass[o].spec
                          /\ r.pc = pass[o].pc
  BY DEF Outdated
<1> QED BY DEF TypeOK, Pass

LEMMA AtWorkAgain ==
  ASSUME NEW r, NEW x, AtWork(r), x.mem = r.mem, x.spec = r.spec, x.pc = r.pc
  PROVE  AtWork(x)
  BY DEF AtWork, FirstFeature

\* No call makes a step: the pod, the transit Vault, the Secrets, the spec or what
\* others keep in Vault changes.
LEMMA ElsewhereInv ==
  ASSUME Inv, RestOK, Keeps, UNCHANGED status,
         pass' = pass \/ pass' = Outdated(pass)
  PROVE  Inv'
<1>1. /\ pass' \in [Operator -> Pass]
      /\ \A o \in Operator : pass'[o].mem = pass[o].mem /\ pass'[o].spec = pass[o].spec
                               /\ pass'[o].pc = pass[o].pc
  BY OutdatedFacts DEF Inv, TypeOK
<1>2. TypeOK'
  BY <1>1 DEF Inv, TypeOK, RestOK
<1>3. Done(status.flags)'
  BY DoneKept DEF Inv, FlagsInv
<1>4. ASSUME NEW o \in Operator PROVE Done(pass[o].mem.flags)' /\ AtWork(pass[o])'
  <2>1. PICK r : r = pass'[o]
    OBVIOUS
  <2>2. r.mem = pass[o].mem /\ r.spec = pass[o].spec /\ r.pc = pass[o].pc
    BY <1>1, <2>1
  <2>3. Done(r.mem.flags) /\ AtWork(r)
    BY <2>2, PassFacts, AtWorkAgain
  <2>4. Done(r.mem.flags)' /\ AtWork(r)'
    BY <2>3, DoneKept, AtWorkKept
  <2> QED BY <2>1, <2>4
<1> QED BY <1>2, <1>3, <1>4 DEF Inv, FlagsInv

-----------------------------------------------------------------------------
(* Reconcile, up to the pod.                                               *)

LEMMA KeepsSame == ASSUME UNCHANGED <<engine, wanted>> PROVE Keeps
  BY DEF Keeps

LEMMA BeginInv == ASSUME Inv, NEW o \in Operator, Begin(o) PROVE Inv'
<1>1. PICK r : r = [NoPass EXCEPT !.pc = "recoverAdmin", !.mem = status, !.spec = wanted]
  OBVIOUS
<1>2. r \in Pass /\ r.pc = "recoverAdmin" /\ r.mem = status /\ r.spec = wanted
  BY <1>1, NoPassOK DEF Inv, TypeOK, Pass, PC
<1>3. AtWork(r)'
  BY <1>2 DEF AtWork, Begin
<1>4. RestOK
  BY RestUnchanged DEF Begin, boundVars, Inv
<1>5. Continue(o, r) /\ UNCHANGED <<engine, wanted, status>>
  BY <1>1 DEF Begin
<1> QED BY <1>2, <1>3, <1>4, <1>5, KeepsSame, CallInv DEF Inv, FlagsInv

LEMMA RecoverAdminInv == ASSUME Inv, NEW o \in Operator, RecoverAdmin(o) PROVE Inv'
<1>1. RestOK
  BY DEF RecoverAdmin, RestOK, Inv, TypeOK, podVars, Fault
<1>2. PICK c \in {"recoverKeys", "pod"} : Goto(o, c) /\ UNCHANGED <<engine, wanted, status>>
  BY DEF RecoverAdmin
<1>3. c \in Apart
  BY DEF Apart, PC
<1> QED BY <1>1, <1>2, <1>3, KeepsSame, GotoInv

LEMMA RecoverKeysInv == ASSUME Inv, NEW o \in Operator, RecoverKeys(o) PROVE Inv'
<1>1. RestOK
  BY DEF RecoverKeys, RestOK, Inv, TypeOK, podVars, Fault
<1>2. Goto(o, "pod") /\ UNCHANGED <<engine, wanted, status>> /\ "pod" \in Apart
  BY DEF RecoverKeys, Apart, PC
<1> QED BY <1>1, <1>2, KeepsSame, GotoInv

-----------------------------------------------------------------------------
(* ProcessPod, InitializeVault and StoreSecrets.                            *)

LEMMA CheckPodInv == ASSUME Inv, NEW o \in Operator, CheckPod(o) PROVE Inv'
<1>1. RestOK
  BY RestUnchanged DEF CheckPod, Inv
<1>2. PICK c \in {"initialize", "restart", "status", "drift"} :
        Goto(o, c) /\ UNCHANGED <<engine, wanted, status>>
  BY DEF CheckPod
<1>3. c \in Apart
  BY DEF Apart, PC
<1> QED BY <1>1, <1>2, <1>3, KeepsSame, GotoInv

LEMMA RestartSealedPodInv ==
  ASSUME Inv, NEW o \in Operator, RestartSealedPod(o) PROVE Inv'
<1>1. pod' \in Pod
  BY DEF RestartSealedPod, Inv, TypeOK, Pod
<1>2. RestOK
  BY <1>1 DEF RestartSealedPod, RestOK, Inv, TypeOK, secretVars, Fault
<1>3. Goto(o, "status") /\ UNCHANGED <<engine, wanted, status>> /\ "status" \in Apart
  BY DEF RestartSealedPod, Apart, PC
<1> QED BY <1>2, <1>3, KeepsSame, GotoInv

LEMMA InitializeInv == ASSUME Inv, NEW o \in Operator, Initialize(o) PROVE Inv'
<1>1. RestOK
  <2>1. {initialized', sealed', booting'} \subseteq BOOLEAN
    BY DEF Initialize, Inv, TypeOK
  <2>2. faults' \in Nat
    BY DEF Initialize, Inv, TypeOK, Fault
  <2> QED BY <2>1, <2>2 DEF Initialize, RestOK, Inv, TypeOK, secretVars
<1>2. PICK c \in {"storeAdmin", "status"} : Goto(o, c) /\ UNCHANGED <<engine, wanted, status>>
  BY DEF Initialize
<1>3. c \in Apart
  BY DEF Apart, PC
<1> QED BY <1>1, <1>2, <1>3, KeepsSame, GotoInv

LEMMA StoreAdminInv == ASSUME Inv, NEW o \in Operator, StoreAdmin(o) PROVE Inv'
<1>1. RestOK
  BY DEF StoreAdmin, RestOK, Inv, TypeOK, podVars, Fault
<1>2. PICK c \in {"storeKeys", "initialize", "status"} :
        Goto(o, c) /\ UNCHANGED <<engine, wanted, status>>
  BY DEF StoreAdmin
<1>3. c \in Apart
  BY DEF Apart, PC
<1> QED BY <1>1, <1>2, <1>3, KeepsSame, GotoInv

LEMMA StoreKeysInv == ASSUME Inv, NEW o \in Operator, StoreKeys(o) PROVE Inv'
<1>1. RestOK /\ UNCHANGED <<engine, wanted, status>>
  BY DEF StoreKeys, RestOK, Inv, TypeOK, podVars, Fault
<1>2. CASE Continue(o, [pass[o] EXCEPT !.pc = "status", !.mem.hash = TRUE])
  <2>1. PICK r : r = [pass[o] EXCEPT !.pc = "status", !.mem.hash = TRUE]
    OBVIOUS
  <2>2. /\ r \in Pass /\ r.pc = "status" /\ r.mem.flags = pass[o].mem.flags
        /\ r.spec = pass[o].spec
    BY <2>1, PassFacts DEF Pass, PC, Status
  <2>3. r.pc \in Apart
    BY <2>2 DEF Apart, PC
  <2> QED BY <1>1, <1>2, <2>1, <2>2, <2>3, KeepsSame, ApartInv
<1>3. ASSUME NEW c \in {"initialize", "status"}, Goto(o, c) PROVE Inv'
  <2>1. c \in Apart
    BY DEF Apart, PC
  <2> QED BY <1>1, <1>3, <2>1, KeepsSame, GotoInv
<1> QED BY <1>2, <1>3 DEF StoreKeys

-----------------------------------------------------------------------------
(* An open pod: drift and configuration.                                    *)

LEMMA FirstFeatureFacts ==
  ASSUME NEW r, NEW c, c = FirstFeature(r)
  PROVE  /\ c \in PC /\ c \in {"kv", "eso", "bootstrap", "status"}
         /\ \A x : x.mem.flags = r.mem.flags /\ x.spec = r.spec => FirstFeature(x) = c
  BY DEF FirstFeature, PC

\* A call that goes to its next feature is where its flags say.
LEMMA NextFeatureAtWork ==
  ASSUME NEW r, r.pc = FirstFeature(r), r.spec \subseteq wanted'
  PROVE  AtWork(r)'
  BY FirstFeatureFacts DEF AtWork, FirstFeature

LEMMA CheckDriftInv == ASSUME Inv, NEW o \in Operator, CheckDrift(o) PROVE Inv'
<1>1. RestOK /\ UNCHANGED <<engine, wanted, status>>
  BY RestUnchanged DEF CheckDrift, Inv
<1>2. PICK c \in {pass[o].mem.intact, Observed(pass[o].mem)} :
        Continue(o, [pass[o] EXCEPT !.mem.intact = c, !.pc = FirstFeature(pass[o])])
  BY DEF CheckDrift
<1>3. c \in {"unknown", "true", "false"}
  BY PassFacts DEF Observed, Status
<1>4. PICK r : r = [pass[o] EXCEPT !.mem.intact = c, !.pc = FirstFeature(pass[o])]
  OBVIOUS
<1>5. /\ r \in Pass /\ r.mem.flags = pass[o].mem.flags /\ r.spec = pass[o].spec
      /\ r.pc = FirstFeature(pass[o])
  <2>1. pass[o] \in Pass
    BY PassFacts
  <2>2. PICK pc : pc = FirstFeature(pass[o]) /\ pc \in PC
    BY FirstFeatureFacts
  <2>3. PICK mem \in Status : mem = [pass[o].mem EXCEPT !.intact = c]
    BY <1>3, <2>1 DEF Pass, Status
  <2>4. mem.flags = pass[o].mem.flags
    BY <2>1, <2>3 DEF Pass, Status
  <2>5. r = [pass[o] EXCEPT !.mem = mem, !.pc = pc]
    BY <1>4, <2>1, <2>2, <2>3 DEF Pass
  <2> QED BY <2>1, <2>2, <2>3, <2>4, <2>5 DEF Pass
<1>6. r.pc = FirstFeature(r) /\ r.spec \subseteq wanted'
  BY <1>1, <1>5, FirstFeatureFacts, PassFacts
<1> QED BY <1>1, <1>2, <1>4, <1>5, <1>6, PassFacts, NextFeatureAtWork, KeepsSame, CallInv

\* A call of the configurator: it stops, or it goes on with r and Vault has e.
LEMMA ConfigCallInv ==
  ASSUME Inv, NEW o \in Operator, NEW c, NEW e \in Engine, NEW r \in Pass,
         ConfigCall(o, c, e, r), engine' = e => Keeps,
         engine' = e => Done(r.mem.flags)' /\ AtWork(r)'
  PROVE  Inv'
<1>1. engine' \in {engine, e} /\ UNCHANGED <<wanted, status>>
  BY DEF ConfigCall
<1>2. Keeps /\ engine' \in Engine
  BY <1>1, KeepsSame DEF Inv, TypeOK
<1>3. RestOK
  BY <1>2 DEF ConfigCall, RestOK, Inv, TypeOK, podVars, secretVars, Fault
<1>4. CASE Continue(o, GivenUp(pass[o]))
  BY <1>1, <1>2, <1>3, <1>4, GotoInv DEF GivenUp, Goto, Apart, PC
<1>5. CASE engine' = e /\ Continue(o, r)
  <2>1. pass' \in [Operator -> Pass] /\ pass'[o] = r
        /\ \A x \in Operator \ {o} : pass'[x] = pass[x]
    BY <1>5 DEF Inv, TypeOK, Continue
  <2>2. TypeOK'
    BY <1>1, <1>3, <2>1 DEF Inv, TypeOK, RestOK
  <2>3. Done(status.flags)'
    BY <1>1, <1>2, DoneKept DEF Inv, FlagsInv
  <2>4. Done(r.mem.flags)' /\ AtWork(r)'
    BY <1>5
  <2>5. ASSUME NEW x \in Operator PROVE Done(pass[x].mem.flags)' /\ AtWork(pass[x])'
    BY <1>2, <2>1, <2>4, DoneKept, AtWorkKept DEF Inv, FlagsInv
  <2> QED BY <2>2, <2>3, <2>5 DEF Inv, FlagsInv
<1> QED BY <1>4, <1>5 DEF ConfigCall

\* The work on a feature done, its flag is set.
LEMMA ConfiguredFacts ==
  ASSUME Inv, NEW o \in Operator, NEW f \in Feature, FirstFeature(pass[o]) = f,
         NEW r, r = Configured(pass[o]), UNCHANGED wanted
  PROVE  r \in Pass /\ r.mem.flags = pass[o].mem.flags \cup {f} /\ AtWork(r)'
<1>1. PICK done : done = [pass[o] EXCEPT !.mem.flags = pass[o].mem.flags \cup {f}]
  OBVIOUS
<1>2. /\ done \in Pass /\ done.mem.flags = pass[o].mem.flags \cup {f} /\ done.mem \in Status
      /\ done.spec = pass[o].spec
  BY <1>1, PassFacts DEF Pass, Status
<1>3. r = [done EXCEPT !.pc = FirstFeature(done)]
  BY <1>1 DEF Configured
<1>4. /\ r \in Pass /\ r.mem = done.mem /\ r.spec = done.spec
      /\ r.pc = FirstFeature(done)
  BY <1>2, <1>3, FirstFeatureFacts DEF Pass
<1>5. r.pc = FirstFeature(r) /\ r.spec \subseteq wanted'
  BY <1>2, <1>4, FirstFeatureFacts, PassFacts
<1>6. AtWork(r)'
  BY <1>5, NextFeatureAtWork
<1> QED BY <1>2, <1>4, <1>6

\* A further step of the work on the same feature.
LEMMA MoveOnFacts ==
  ASSUME Inv, NEW o \in Operator, NEW c \in PC, NEW r, r = [pass[o] EXCEPT !.pc = c]
  PROVE  /\ r \in Pass /\ r.pc = c /\ r.mem = pass[o].mem /\ r.spec = pass[o].spec
         /\ FirstFeature(r) = FirstFeature(pass[o]) /\ r.spec \subseteq wanted
         /\ Done(r.mem.flags)
  BY PassFacts DEF Pass, FirstFeature

LEMMA ConfigureKVInv == ASSUME Inv, NEW o \in Operator, ConfigureKV(o) PROVE Inv'
<1>1. pass[o].pc = "kv" /\ UNCHANGED wanted
  BY DEF ConfigureKV, ConfigCall
<1>2. FirstFeature(pass[o]) = "kv" /\ "kv" \in Feature /\ engine \in Engine
  BY <1>1, PassFacts DEF AtWork, Feature, Inv, TypeOK
\* the engine is mounted
<1>3. CASE ConfigCall(o, "kv", engine \cup {"mount"}, [pass[o] EXCEPT !.pc = "kvMeta"])
  <2>1. PICK e, r : e = engine \cup {"mount"} /\ r = [pass[o] EXCEPT !.pc = "kvMeta"]
    OBVIOUS
  <2>2. e \in Engine /\ "kvMeta" \in PC
    BY <1>2, <2>1 DEF Engine, PC
  <2>3. /\ r \in Pass /\ r.pc = "kvMeta" /\ r.mem = pass[o].mem /\ r.spec \subseteq wanted
        /\ FirstFeature(r) = "kv" /\ Done(r.mem.flags)
    BY <1>2, <2>1, <2>2, MoveOnFacts
  <2>4. engine' = e => Keeps
    BY <1>1, <2>1 DEF Keeps
  <2>5. engine' = e => Done(r.mem.flags)' /\ AtWork(r)'
    BY <1>1, <2>1, <2>3, <2>4, DoneKept DEF AtWork, FirstFeature
  <2> QED BY <1>3, <2>1, <2>2, <2>3, <2>4, <2>5, ConfigCallInv
\* it is mounted already
<1>4. CASE "mount" \in engine /\ ConfigCall(o, "kv", engine, Configured(pass[o]))
  <2>1. PICK r : r = Configured(pass[o])
    OBVIOUS
  <2>2. r \in Pass /\ r.mem.flags = pass[o].mem.flags \cup {"kv"} /\ AtWork(r)'
    BY <1>1, <1>2, <2>1, ConfiguredFacts
  <2>3. engine' = engine => Keeps /\ Done(r.mem.flags)'
    BY <1>1, <1>4, <2>2, PassFacts, KeepsSame DEF Done
  <2> QED BY <1>2, <1>4, <2>1, <2>2, <2>3, ConfigCallInv
\* something else is in its place
<1>5. CASE ConfigCall(o, "kv", engine, GivenUp(pass[o]))
  <2>1. UNCHANGED <<engine, wanted, status>> /\ Continue(o, GivenUp(pass[o]))
    BY <1>5 DEF ConfigCall
  <2>2. RestOK
    BY <1>5, <2>1 DEF ConfigCall, RestOK, Inv, TypeOK, podVars, secretVars, Fault
  <2> QED BY <2>1, <2>2, KeepsSame, GotoInv DEF GivenUp, Goto, Apart, PC
<1> QED BY <1>3, <1>4, <1>5 DEF ConfigureKV

LEMMA ConfigureKVMetadataInv ==
  ASSUME Inv, NEW o \in Operator, ConfigureKVMetadata(o) PROVE Inv'
<1>1. /\ pass[o].pc = "kvMeta" /\ UNCHANGED <<wanted, status>>
      /\ engine' \in {engine, engine \cup {"kvConfig"}}
  BY DEF ConfigureKVMetadata
<1>2. PICK r : r = Configured(pass[o]) /\ Continue(o, r)
  BY DEF ConfigureKVMetadata
<1>3. FirstFeature(pass[o]) = "kv" /\ "kv" \in Feature /\ "mount" \in engine
  BY <1>1, PassFacts DEF AtWork, Feature
<1>4. r \in Pass /\ r.mem.flags = pass[o].mem.flags \cup {"kv"} /\ AtWork(r)'
  BY <1>1, <1>2, <1>3, ConfiguredFacts
<1>5. Keeps /\ engine' \in Engine
  BY <1>1 DEF Keeps, Inv, TypeOK, Engine
<1>6. RestOK
  BY <1>5 DEF ConfigureKVMetadata, RestOK, Inv, TypeOK, podVars, secretVars, Fault
<1>7. Done(r.mem.flags)
  BY <1>3, <1>4, PassFacts DEF Done
<1> QED BY <1>1, <1>2, <1>4, <1>5, <1>6, <1>7, CallInv

LEMMA ConfigureESOInv == ASSUME Inv, NEW o \in Operator, ConfigureESO(o) PROVE Inv'
<1>1. pass[o].pc = "eso" /\ UNCHANGED wanted
  BY DEF ConfigureESO, ConfigCall
<1>2. PICK e, r : e = engine \cup {"auth"} /\ r = [pass[o] EXCEPT !.pc = "esoConfig"]
  OBVIOUS
<1>3. FirstFeature(pass[o]) = "eso" /\ e \in Engine /\ "esoConfig" \in PC
  BY <1>1, <1>2, PassFacts DEF AtWork, Inv, TypeOK, Engine, PC
<1>4. /\ r \in Pass /\ r.pc = "esoConfig" /\ r.mem = pass[o].mem /\ r.spec \subseteq wanted
      /\ FirstFeature(r) = "eso" /\ Done(r.mem.flags)
  BY <1>2, <1>3, MoveOnFacts
<1>5. engine' = e => Keeps
  BY <1>1, <1>2 DEF Keeps
<1>6. engine' = e => Done(r.mem.flags)' /\ AtWork(r)'
  BY <1>1, <1>2, <1>4, <1>5, DoneKept DEF AtWork, FirstFeature
<1> QED BY <1>2, <1>3, <1>4, <1>5, <1>6, ConfigCallInv DEF ConfigureESO

LEMMA ConfigureESOAuthInv == ASSUME Inv, NEW o \in Operator, ConfigureESOAuth(o) PROVE Inv'
<1>1. pass[o].pc = "esoConfig" /\ UNCHANGED wanted
  BY DEF ConfigureESOAuth, ConfigCall
<1>2. PICK e, r : /\ e = (engine \ {"reviewerConfig"}) \cup {"hostConfig"}
                  /\ r = [pass[o] EXCEPT !.pc = "esoRole"]
  OBVIOUS
<1>3. /\ FirstFeature(pass[o]) = "eso" /\ "auth" \in engine
      /\ e \in Engine /\ "esoRole" \in PC /\ "eso" \in wanted
  BY <1>1, <1>2, PassFacts DEF AtWork, FirstFeature, Inv, TypeOK, Engine, PC
<1>4. /\ r \in Pass /\ r.pc = "esoRole" /\ r.mem = pass[o].mem /\ r.spec \subseteq wanted
      /\ FirstFeature(r) = "eso" /\ Done(r.mem.flags)
  BY <1>2, <1>3, MoveOnFacts
<1>5. engine' = e => Keeps
  BY <1>1, <1>2, <1>3 DEF Keeps
<1>6. engine' = e => Done(r.mem.flags)' /\ AtWork(r)'
  BY <1>1, <1>2, <1>3, <1>4, <1>5, DoneKept DEF AtWork, FirstFeature
<1> QED BY <1>2, <1>3, <1>4, <1>5, <1>6, ConfigCallInv DEF ConfigureESOAuth

LEMMA ConfigureESORoleInv == ASSUME Inv, NEW o \in Operator, ConfigureESORole(o) PROVE Inv'
<1>1. pass[o].pc = "esoRole" /\ UNCHANGED wanted
  BY DEF ConfigureESORole, ConfigCall
<1>2. PICK e, r : e = engine \cup {"esoRole"} /\ r = Configured(pass[o])
  OBVIOUS
<1>3. /\ FirstFeature(pass[o]) = "eso" /\ "eso" \in Feature /\ e \in Engine
      /\ "auth" \in engine /\ engine \cap {"hostConfig", "reviewerConfig"} # {}
  BY <1>1, <1>2, PassFacts DEF AtWork, Feature, Inv, TypeOK, Engine
<1>4. r \in Pass /\ r.mem.flags = pass[o].mem.flags \cup {"eso"} /\ AtWork(r)'
  BY <1>1, <1>2, <1>3, ConfiguredFacts
<1>5. engine' = e => Keeps
  BY <1>1, <1>2 DEF Keeps
<1>6. engine' = e => Done(r.mem.flags)'
  BY <1>1, <1>2, <1>3, <1>4, PassFacts DEF Done
<1> QED BY <1>2, <1>3, <1>4, <1>5, <1>6, ConfigCallInv DEF ConfigureESORole

LEMMA ConfigureBootstrapInv ==
  ASSUME Inv, NEW o \in Operator, ConfigureBootstrap(o) PROVE Inv'
<1>1. pass[o].pc = "bootstrap" /\ UNCHANGED wanted
  BY DEF ConfigureBootstrap, ConfigCall
<1>2. PICK e, r : e = engine \cup {"auth"} /\ r = [pass[o] EXCEPT !.pc = "bootstrapConfig"]
  OBVIOUS
<1>3. FirstFeature(pass[o]) = "bootstrap" /\ e \in Engine /\ "bootstrapConfig" \in PC
  BY <1>1, <1>2, PassFacts DEF AtWork, Inv, TypeOK, Engine, PC
<1>4. /\ r \in Pass /\ r.pc = "bootstrapConfig" /\ r.mem = pass[o].mem /\ r.spec \subseteq wanted
      /\ FirstFeature(r) = "bootstrap" /\ Done(r.mem.flags)
  BY <1>2, <1>3, MoveOnFacts
<1>5. engine' = e => Keeps
  BY <1>1, <1>2 DEF Keeps
<1>6. engine' = e => Done(r.mem.flags)' /\ AtWork(r)'
  BY <1>1, <1>2, <1>4, <1>5, DoneKept DEF AtWork, FirstFeature
<1> QED BY <1>2, <1>3, <1>4, <1>5, <1>6, ConfigCallInv DEF ConfigureBootstrap

LEMMA ConfigureBootstrapAuthInv ==
  ASSUME Inv, NEW o \in Operator, ConfigureBootstrapAuth(o) PROVE Inv'
<1>1. pass[o].pc = "bootstrapConfig" /\ UNCHANGED wanted
  BY DEF ConfigureBootstrapAuth, ConfigCall
<1>2. PICK e, r : /\ e = (engine \ {"hostConfig"}) \cup {"reviewerConfig"}
                  /\ r = [pass[o] EXCEPT !.pc = "bootstrapRole"]
  OBVIOUS
<1>3. /\ FirstFeature(pass[o]) = "bootstrap" /\ "auth" \in engine
      /\ e \in Engine /\ "bootstrapRole" \in PC
  BY <1>1, <1>2, PassFacts DEF AtWork, Inv, TypeOK, Engine, PC
<1>4. /\ r \in Pass /\ r.pc = "bootstrapRole" /\ r.mem = pass[o].mem /\ r.spec \subseteq wanted
      /\ FirstFeature(r) = "bootstrap" /\ Done(r.mem.flags)
  BY <1>2, <1>3, MoveOnFacts
<1>5. engine' = e => Keeps
  BY <1>1, <1>2 DEF Keeps
<1>6. engine' = e => Done(r.mem.flags)' /\ AtWork(r)'
  BY <1>1, <1>2, <1>3, <1>4, <1>5, DoneKept DEF AtWork, FirstFeature
<1> QED BY <1>2, <1>3, <1>4, <1>5, <1>6, ConfigCallInv DEF ConfigureBootstrapAuth

LEMMA ConfigureBootstrapRoleInv ==
  ASSUME Inv, NEW o \in Operator, ConfigureBootstrapRole(o) PROVE Inv'
<1>1. pass[o].pc = "bootstrapRole" /\ UNCHANGED wanted
  BY DEF ConfigureBootstrapRole, ConfigCall
<1>2. PICK e, r : e = engine \cup {"bootstrapRole"} /\ r = Configured(pass[o])
  OBVIOUS
<1>3. /\ FirstFeature(pass[o]) = "bootstrap" /\ "bootstrap" \in Feature /\ e \in Engine
      /\ "auth" \in engine /\ engine \cap {"hostConfig", "reviewerConfig"} # {}
      /\ "reviewerConfig" \in engine \/ "eso" \in wanted
  BY <1>1, <1>2, PassFacts DEF AtWork, Feature, Inv, TypeOK, Engine
<1>4. r \in Pass /\ r.mem.flags = pass[o].mem.flags \cup {"bootstrap"} /\ AtWork(r)'
  BY <1>1, <1>2, <1>3, ConfiguredFacts
<1>5. engine' = e => Keeps
  BY <1>1, <1>2 DEF Keeps
<1>6. engine' = e => Done(r.mem.flags)'
  BY <1>1, <1>2, <1>3, <1>4, PassFacts DEF Done
<1> QED BY <1>2, <1>3, <1>4, <1>5, <1>6, ConfigCallInv DEF ConfigureBootstrapRole

-----------------------------------------------------------------------------
(* The end of the call.                                                     *)

LEMMA UpdateStatusInv == ASSUME Inv, NEW o \in Operator, UpdateStatus(o) PROVE Inv'
<1>1. RestOK /\ UNCHANGED <<engine, wanted>>
  BY RestUnchanged DEF UpdateStatus, Inv
<1>2. CASE Continue(o, NoPass) /\ UNCHANGED status
  BY <1>1, <1>2, KeepsSame, ReturnInv
<1>3. CASE status' = pass[o].mem /\ pass' = [Outdated(pass) EXCEPT ![o] = NoPass]
  <2>1. /\ pass' \in [Operator -> Pass] /\ pass'[o] = NoPass
        /\ \A x \in Operator \ {o} : /\ pass'[x].mem = pass[x].mem
                                     /\ pass'[x].spec = pass[x].spec
                                     /\ pass'[x].pc = pass[x].pc
    BY <1>3, NoPassOK, OutdatedFacts DEF Inv
  <2>2. status' \in Status /\ Done(pass[o].mem.flags)
    BY <1>3, PassFacts
  <2>3. TypeOK'
    BY <1>1, <2>1, <2>2 DEF TypeOK, RestOK
  <2>4. Done(status.flags)'
    BY <1>1, <1>3, <2>2 DEF Done
  <2>5. ASSUME NEW x \in Operator, x # o PROVE Done(pass[x].mem.flags)' /\ AtWork(pass[x])'
    <3>1. Done(pass[x].mem.flags)'
      BY <1>1, <2>1, <2>5 DEF Inv, FlagsInv, Done
    <3>2. AtWork(pass[x])'
      BY <1>1, <2>1, <2>5 DEF Inv, FlagsInv, AtWork, FirstFeature
    <3> QED BY <3>1, <3>2
  <2>6. Done(pass[o].mem.flags)' /\ AtWork(pass[o])'
    BY <2>1, NoPassOK DEF Done, AtWork
  <2> QED BY <2>3, <2>4, <2>5, <2>6 DEF Inv, FlagsInv
<1> QED BY <1>2, <1>3 DEF UpdateStatus

LEMMA CrashInv == ASSUME Inv, NEW o \in Operator, Crash(o) PROVE Inv'
<1>1. RestOK /\ UNCHANGED <<engine, wanted, status>> /\ Continue(o, NoPass)
  BY RestUnchanged DEF Crash, Inv
<1> QED BY <1>1, KeepsSame, ReturnInv

-----------------------------------------------------------------------------
(* The pod, the transit Vault, and everybody else.                          *)

LEMMA TickInv == ASSUME Inv, Tick PROVE Inv'
<1>1. pod.age + 1 \in 0..Grace
  BY TransitPodAssumption DEF Tick, Inv, TypeOK, Pod
<1>2. pod' \in Pod
  BY <1>1 DEF Tick, Inv, TypeOK, Pod
<1>3. ASSUME NEW o \in Operator PROVE view'[o] \in View
  <2>1. view[o] \in View /\ view[o].age = pod.age
    BY DEF Tick, Synced, Seen, Inv, TypeOK
  <2> QED BY <1>1, <2>1 DEF Tick, View
<1>4. view' \in [Operator -> View]
  BY <1>3 DEF Tick
<1>5. RestOK
  BY <1>2, <1>4 DEF Tick, RestOK, Inv, TypeOK, secretVars, boundVars
<1> QED BY <1>5, KeepsSame, ElsewhereInv DEF Tick

LEMMA StartFacts ==
  ASSUME TypeOK, NEW x \in Pod, Start(x)
  PROVE  pod' \in Pod /\ sealed' \in BOOLEAN /\ booting' \in BOOLEAN
           /\ view' \in [Operator -> View]
<1>1. ASSUME NEW o \in Operator PROVE [view[o] EXCEPT !.same = FALSE] \in View
  BY DEF TypeOK, View
<1> QED BY <1>1 DEF Start, TypeOK

LEMMA PodInv ==
  ASSUME Inv, Boot \/ ReplacePod \/ RestartContainer \/ Seal \/ TransitDown \/ TransitUp
  PROVE  Inv'
<1>1. CASE ReplacePod \/ RestartContainer
  <2>1. NewPod \in Pod /\ [pod EXCEPT !.age = 0] \in Pod
    BY TransitPodAssumption DEF NewPod, Pod, Inv, TypeOK
  <2>2. pod' \in Pod /\ sealed' \in BOOLEAN /\ booting' \in BOOLEAN
          /\ view' \in [Operator -> View]
    BY <1>1, <2>1, StartFacts DEF ReplacePod, RestartContainer, Inv
  <2>3. outages' \in Nat /\ faults' = faults /\ edits' = edits
    BY <1>1 DEF ReplacePod, RestartContainer, boundVars, Inv, TypeOK
  <2>4. RestOK /\ UNCHANGED <<engine, wanted, status, pass>>
    BY <1>1, <2>2, <2>3 DEF ReplacePod, RestartContainer, RestOK, Inv, TypeOK, secretVars
  <2> QED BY <2>4, KeepsSame, ElsewhereInv
<1>2. CASE Boot \/ Seal \/ TransitDown \/ TransitUp
  <2>1. {sealed', booting', transit'} \subseteq BOOLEAN /\ UNCHANGED <<pod, view>>
    BY <1>2 DEF Boot, Seal, TransitDown, TransitUp, podVars, Inv, TypeOK
  <2>2. {faults', outages', edits'} \subseteq Nat
    BY <1>2 DEF Boot, Seal, TransitDown, TransitUp, boundVars, Inv, TypeOK
  <2>3. UNCHANGED <<initialized, admin, keys, engine, wanted, status, pass>>
    BY <1>2 DEF Boot, Seal, TransitDown, TransitUp, secretVars
  <2>4. RestOK
    BY <2>1, <2>2, <2>3 DEF RestOK, Inv, TypeOK
  <2> QED BY <2>3, <2>4, KeepsSame, ElsewhereInv
<1> QED BY <1>1, <1>2

LEMMA SyncViewInv == ASSUME Inv, NEW o \in Operator, SyncView(o) PROVE Inv'
<1>1. Seen \in View
  BY DEF Seen, View, Pod, Inv, TypeOK
<1>2. view' \in [Operator -> View]
  BY <1>1 DEF SyncView, Inv, TypeOK
<1>3. RestOK
  BY <1>2 DEF SyncView, RestOK, Inv, TypeOK, secretVars, boundVars
<1> QED BY <1>3, KeepsSame, ElsewhereInv DEF SyncView

LEMMA EditInv ==
  ASSUME Inv,
         \/ \E k \in {"none", "initial", "other"} : EditKeys(k)
         \/ \E a \in {"none", "root"} : EditAdmin(a)
         \/ \E w \in Asked : EditResource(w)
  PROVE  Inv'
<1>1. /\ keys' \in {"none", "initial", "other", "placeholder"}
      /\ admin' \in {"none", "root", "placeholder"}
  BY DEF EditKeys, EditAdmin, EditResource, secretVars, Inv, TypeOK
<1>2. wanted' \subseteq Feature /\ wanted \subseteq wanted'
  <2>1. \A w \in Asked : w \subseteq Feature
    BY TransitPodAssumption DEF Feature
  <2>2. wanted' = wanted \/ (wanted' \in Asked /\ wanted \subseteq wanted')
    BY DEF EditKeys, EditAdmin, EditResource
  <2> QED BY <2>1, <2>2 DEF Inv, TypeOK
<1>3. {faults', outages', edits'} \subseteq Nat
  BY DEF EditKeys, EditAdmin, EditResource, Inv, TypeOK
<1>4. /\ UNCHANGED <<initialized, sealed, booting, pod, view, transit, engine, status>>
      /\ pass' = pass \/ pass' = Outdated(pass)
  BY DEF EditKeys, EditAdmin, EditResource, podVars
<1>5. RestOK
  BY <1>1, <1>2, <1>3, <1>4 DEF RestOK, Inv, TypeOK
<1>6. Keeps
  BY <1>2, <1>4 DEF Keeps
<1> QED BY <1>4, <1>5, <1>6, ElsewhereInv

LEMMA MountInv == ASSUME Inv, MountOther \/ UnmountOther PROVE Inv'
<1>1. Keeps /\ engine' \in Engine
  BY DEF MountOther, UnmountOther, Keeps, Engine, Inv, TypeOK
<1>2. /\ UNCHANGED <<initialized, sealed, booting, pod, view, transit, admin, keys, wanted>>
      /\ UNCHANGED <<status, pass>>
  BY DEF MountOther, UnmountOther, podVars, secretVars
<1>3. {faults', outages', edits'} \subseteq Nat
  BY DEF MountOther, UnmountOther, boundVars, Inv, TypeOK
<1>4. RestOK
  BY <1>1, <1>2, <1>3 DEF RestOK, Inv, TypeOK
<1> QED BY <1>1, <1>2, <1>4, ElsewhereInv

-----------------------------------------------------------------------------
(* The invariant.                                                           *)

LEMMA InitInv == Init => Inv
<1> SUFFICES ASSUME Init PROVE Inv
  OBVIOUS
<1>1. NewPod \in Pod /\ pod = NewPod
  BY TransitPodAssumption DEF Init, NewPod, Pod
<1>2. Seen \in View
  BY <1>1 DEF Seen, View, Pod
<1>3. wanted \subseteq Feature
  BY TransitPodAssumption DEF Init, Feature
<1>4. TypeOK
  BY <1>1, <1>2, <1>3, NoPassOK, TransitPodAssumption DEF Init, TypeOK, Engine
<1>5. FlagsInv
  BY NoPassOK DEF Init, FlagsInv, AtWork
<1> QED BY <1>4, <1>5 DEF Inv

\* One step per action.
LEMMA NextInv == ASSUME Inv, [Next]_vars PROVE Inv'
<1>1. ASSUME NEW o \in Operator, ReconcileStep(o) PROVE Inv'
  BY <1>1, BeginInv, RecoverAdminInv, RecoverKeysInv, CheckPodInv, InitializeInv,
     StoreAdminInv, StoreKeysInv, RestartSealedPodInv, CheckDriftInv, ConfigureKVInv,
     ConfigureKVMetadataInv, ConfigureESOInv, ConfigureESOAuthInv, ConfigureESORoleInv, ConfigureBootstrapInv,
     ConfigureBootstrapAuthInv, ConfigureBootstrapRoleInv, UpdateStatusInv
  DEF ReconcileStep
<1>2. CASE UNCHANGED vars
  <2>1. RestOK
    BY <1>2 DEF vars, podVars, secretVars, boundVars, RestOK, Inv, TypeOK
  <2> QED BY <1>2, <2>1, KeepsSame, ElsewhereInv DEF vars
<1> QED
  BY <1>1, <1>2, CrashInv, SyncViewInv, TickInv, PodInv, EditInv, MountInv DEF Next

\* Types, and the flags of the status and of every call's copy of it, together: each
\* flag stands for the mount or the auth method, config and role it was set after,
\* and each call in the middle of a feature has done what comes before.
THEOREM PodInvariant == Spec => [](TypeOK /\ FlagsInv)
<1>1. Init => Inv
  BY InitInv
<1>2. Inv /\ [Next]_vars => Inv'
  BY NextInv
<1>3. Inv <=> TypeOK /\ FlagsInv
  BY DEF Inv
<1> QED BY <1>1, <1>2, <1>3, PTL DEF Spec

\* Every state is well typed, for any number of processes and any grace and boot
\* time: a call only ever works on a pod, flags and a status that there can be.
THEOREM TypeCorrect == Spec => []TypeOK
BY PodInvariant, PTL

\* For any number of processes: no flag of the status outruns what it stands for in
\* Vault (Done), whatever is sealed, restarted, edited, mounted or lost in between.
\* A bootstrap flag means the JWT and the CA too where no External Secrets are
\* asked for; where they are, nothing is claimed about which config stands.
THEOREM FlagsStayTruthful == Spec => []FlagsTruthful
<1>1. FlagsInv => FlagsTruthful
  BY DEF FlagsInv, FlagsTruthful
<1> QED BY <1>1, PodInvariant, PTL
=============================================================================
