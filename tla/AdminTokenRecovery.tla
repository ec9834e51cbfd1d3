------------------------ MODULE AdminTokenRecovery ------------------------
(***************************************************************************)
(* How a lost, placeholder, root or dead admin token is replaced by a       *)
(* working scoped one, on an initialized and unsealed Vault in transit      *)
(* mode.  A reconcile first verifies the Secrets and carries out a recovery *)
(* plan (pkg/secrets), then serves forceReinitialize (pkg/reconciler), then *)
(* runs ReconcileInitialToken (pkg/token).  All three write the same        *)
(* Secret.  Every call to the apiserver or to a Vault is a step, reads of   *)
(* Secrets come from a cache that may lag, and several processes may        *)
(* overlap.  Rotation is one step here; TokenRotation has its calls.        *)
(***************************************************************************)
EXTENDS Integers, FiniteSets

CONSTANTS
  Operator,          \* operator processes
  Token,             \* Vault tokens (and their accessors)
  Root,              \* the token Vault was initialized with
  NoToken,           \* no token: the key, the backup or the Secret has none
  Manual,            \* placeholders the operator writes ("...PLACEHOLDER-...")
  Temporary,         \* placeholders a person writes ("placeholder-...")
  ManageTokens,      \* spec.tokenManagement.enabled
  TokenRecovery,     \* spec.initialization.tokenRecovery.enabled
  BackupToTransit,   \* spec.initialization.tokenRecovery.backupToTransit
  StoreRecoveryKeys, \* spec.initialization.secretNames.storeRecoveryKeys
  SelfHealRole,      \* the role vtu-token-selfheal is bound in Vault
  MaxFaults,         \* bound: failed calls and crashes
  MaxEdits           \* bound: what people, expiry and other controllers do

ASSUME RecoveryAssumption ==
  /\ Root \in Token
  /\ Cardinality({NoToken, Manual, Temporary}) = 3
  /\ {NoToken, Manual, Temporary} \cap Token = {}
  /\ {ManageTokens, TokenRecovery, BackupToTransit, StoreRecoveryKeys,
      SelfHealRole} \subseteq BOOLEAN
  /\ {MaxFaults, MaxEdits} \subseteq Nat

VARIABLES
  secret,       \* the admin-token Secret
  keys,         \* the recovery-keys Secret
  backup,       \* the token in the transit Vault's KV store
  valid,        \* tokens Vault accepts
  bootstrapped, \* the annotation bootstrap-complete of the resource
  force,        \* spec.initialization.forceReinitialize
  status,       \* status.tokenStatus.state
  cache,        \* each process's cached copy of the admin-token Secret
  current,      \* the copies, cached or read, that have the Secret's version
  pass,         \* the running reconcile of each process
  faults,       \* calls that may still fail
  edits         \* edits left to everybody else

crVars    == <<bootstrapped, force, status>>
store     == <<secret, current>>
vars == <<secret, keys, backup, valid, bootstrapped, force, status,
          cache, current, pass, faults, edits>>

-----------------------------------------------------------------------------
(* The Secrets.                                                            *)

Secret ==
  [exists           : BOOLEAN,
   token            : Token \cup {NoToken, Manual, Temporary},
   ledger           : SUBSET Token, \* accessors in vault.homelab.io/revoke-ledger
   recoveryRequired : BOOLEAN,  \* vault.homelab.io/recovery-required
   incomplete       : BOOLEAN,  \* vault.homelab.io/incomplete
   rootToken        : BOOLEAN,  \* vault.homelab.io/root-token
   needsReplacement : BOOLEAN]  \* vault.homelab.io/needs-replacement

NewSecret(t) ==
  [exists |-> TRUE, token |-> t, ledger |-> {},
   recoveryRequired |-> FALSE, incomplete |-> FALSE,
   rootToken |-> FALSE, needsReplacement |-> FALSE]

NoSecret == [NewSecret(NoToken) EXCEPT !.exists = FALSE]

\* StoreSecrets marks the root token it stores.
RootSecret == [NewSecret(Root) EXCEPT !.rootToken = ManageTokens,
                                      !.needsReplacement = ManageTokens]

\* The recovery-keys Secret: its root-token, its recovery shares, and the
\* annotation root-token-revoked.
Keys == [exists : BOOLEAN, root : Token \cup {NoToken}, shares : BOOLEAN,
         revoked : BOOLEAN]

\* The verifier's isUsableToken.
IsUsableToken(s) ==
  /\ ~s.recoveryRequired /\ ~s.incomplete /\ ~s.rootToken
  /\ s.token # Temporary

\* The token manager's isPlaceholderToken.
IsPlaceholderToken(s) ==
  s.recoveryRequired \/ s.incomplete \/ s.token \in {Manual, Temporary}

\* What restoreAdminToken takes for a token worth keeping.
LooksValid(t) == t \notin {NoToken, Temporary}

\* Every write gives the Secret a new version, so no copy of it is current.
Write(s) == secret' = s /\ current' = {}

\* An Update lands when the copy it was made from has the Secret's version.
Update(copy, s) == secret.exists /\ copy \in current /\ Write(s)

Create(s) == ~secret.exists /\ Write(s)

\* The write is refused: the Secret is gone, has moved on, or is there already.
Stale(copy) == (~secret.exists \/ copy \notin current) /\ UNCHANGED store
Exists      == secret.exists /\ UNCHANGED store

Cached(p) == <<p, "cache">>
Read(p)   == <<p, "read">>
Copies    == Operator \X {"cache", "read"}

-----------------------------------------------------------------------------
(* One reconcile.                                                          *)

PC == {"idle",
       "recover", "scopeRecovered", "restore", "createRestored", "placeholder",
       "incomplete", "keys",                          \* RecoverSecrets
       "forcedPlaceholder", "clearForce",             \* GenerateRootToken
       "check",                                       \* ReconcileInitialToken
       "recoverBackup", "lookupBackup", "checkLedger", "installBackup",
       "login", "installMinted", "backupMinted", "rootFromKeys", "installScoped",
       "replaceRoot", "scopeRoot", "revokeRoot", "installReplaced",
       "backupReplaced", "markRevoked"}

Pass ==
  [pc       : PC,
   keysPlan : BOOLEAN,               \* the plan goes on with the recovery keys
   reinit   : BOOLEAN,               \* forceReinitialize as the reconcile read it
   forced   : BOOLEAN,               \* RecoverSecrets runs inside GenerateRootToken
   complete : BOOLEAN,               \* bootstrap-complete as the reconcile read it
   tok      : Token \cup {NoToken},  \* the token at hand
   snap     : Secret]                \* the Secret read for a later Update

NoPass == [pc |-> "idle", keysPlan |-> FALSE, reinit |-> FALSE, forced |-> FALSE,
           complete |-> FALSE, tok |-> NoToken, snap |-> NoSecret]

Continue(p, r) == pass' = [pass EXCEPT ![p] = r]

\* Process p goes on at pc; at "idle" its reconcile is over.
Goto(p, pc) ==
  Continue(p, IF pc = "idle" THEN NoPass ELSE [pass[p] EXCEPT !.pc = pc])

\* A call fails that only its caller notices.
Fault == faults > 0 /\ faults' = faults - 1

BackupConfigured == TokenRecovery /\ BackupToTransit

\* Mutant: what the Secret holds by now is backed up.
BackUpSecret(t) ==
  \/ backup' = (IF BackupConfigured THEN secret.token ELSE backup) /\ UNCHANGED faults
  \/ BackupConfigured /\ Fault /\ UNCHANGED backup

\* A best-effort backup of t.
BackUp(t) ==
  \/ backup' = (IF BackupConfigured THEN t ELSE backup) /\ UNCHANGED faults
  \/ BackupConfigured /\ Fault /\ UNCHANGED backup

\* Who may still name a token: the Secrets, the backup, and every process.
KnownTokens ==
  {Root, keys.root, backup, secret.token} \cup secret.ledger \cup
  UNION {{pass[p].tok, pass[p].snap.token, cache[p].token}
         \cup pass[p].snap.ledger \cup cache[p].ledger : p \in Operator}

\* Vault creates a token that nobody knows.  A token everybody has forgotten is
\* renewed by nobody and expires: the model uses its name again.
Fresh    == Token \ KnownTokens
NewToken == CHOOSE t \in Fresh : TRUE

IssueToken == Fresh # {} /\ valid' = (valid \ Fresh) \cup {NewToken}

\* A token is created and looked up before it is used.  It may also be refused,
\* or be created and never reach the caller, or fail its lookup.
Mint(p, allowed, good, bad) ==
  \/ /\ allowed /\ IssueToken
     /\ \/ Continue(p, [pass[p] EXCEPT !.pc = good, !.tok = NewToken]) /\ UNCHANGED faults
        \/ Goto(p, bad) /\ Fault
  \/ /\ ~allowed \/ Fresh = {}
     /\ Goto(p, bad)
     /\ UNCHANGED <<valid, faults>>
  \/ Goto(p, bad) /\ Fault /\ UNCHANGED valid

-----------------------------------------------------------------------------
(* Verification and the recovery plan.                                     *)

\* ProcessPod starts: a forced re-initialization comes before the token.
ProcessPod(p) ==
  LET r == pass[p] IN
  Continue(p, IF ~r.reinit THEN [r EXCEPT !.pc = "check"]
              ELSE IF TokenRecovery THEN [r EXCEPT !.pc = "recover", !.forced = TRUE]
              ELSE [r EXCEPT !.pc = "forcedPlaceholder", !.forced = TRUE])

\* Mutant: a forced re-initialization that cannot recover gives up.
NextActionOrGiveUp(p, ok) ==
  IF pass[p].forced THEN Goto(p, IF ok THEN "clearForce" ELSE "idle")
  ELSE IF ok /\ pass[p].keysPlan THEN Goto(p, "keys") ELSE ProcessPod(p)

\* RecoverSecrets goes on with its plan, or stops at the first error.
NextAction(p, ok) ==
  IF pass[p].forced THEN Goto(p, IF ok THEN "clearForce" ELSE "forcedPlaceholder")
  ELSE IF ok /\ pass[p].keysPlan THEN Goto(p, "keys") ELSE ProcessPod(p)

\* VerifyExpectedSecrets: what the plan does about the admin token.
AdminPlan(s) ==
  IF ~s.exists THEN "recover"
  ELSE IF s.token # NoToken /\ ~IsUsableToken(s) THEN "recover"
  ELSE IF s.token = NoToken THEN "incomplete" ELSE "none"

\* A reconcile starts.  The resource is read once, here.
Verify(p) ==
  LET plan == AdminPlan(cache[p])
      r == [NoPass EXCEPT !.keysPlan = StoreRecoveryKeys /\ ~keys.exists,
                          !.reinit = force, !.complete = bootstrapped]
  IN
  /\ pass[p].pc = "idle"
  /\ Continue(p, [r EXCEPT !.pc =
       IF plan # "none" THEN plan
       ELSE IF r.keysPlan THEN "keys"
       ELSE IF ~r.reinit THEN "check"
       ELSE IF TokenRecovery THEN "recover" ELSE "forcedPlaceholder",
       !.forced = plan = "none" /\ ~r.keysPlan /\ r.reinit])
  /\ UNCHANGED <<store, keys, backup, valid, crVars, cache, faults, edits>>

\* recoverAdminToken: the health of Vault, then the backup.
RecoverAdminToken(p) ==
  /\ pass[p].pc = "recover"
  /\ \/ NextAction(p, TRUE) /\ Fault
     \/ Goto(p, "placeholder") /\ (IF BackupConfigured /\ backup # NoToken
                                   THEN Fault ELSE UNCHANGED faults)
     \/ /\ BackupConfigured /\ backup # NoToken
        /\ Continue(p, [pass[p] EXCEPT !.tok = backup,
             !.pc = IF ManageTokens THEN "scopeRecovered" ELSE "restore"])
        /\ UNCHANGED faults
  /\ UNCHANGED <<store, keys, backup, valid, crVars, cache, edits>>

\* A recovered root token, or one whose lookup fails, is exchanged for a scoped
\* one; when that fails it is restored as it is.
ScopeRecovered(p) ==
  LET t == pass[p].tok IN
  /\ pass[p].pc = "scopeRecovered"
  /\ \/ /\ t \in valid \ {Root}
        /\ Goto(p, "restore")
        /\ UNCHANGED <<valid, faults>>
     \/ /\ t \notin valid \ {Root}
        /\ Mint(p, t \in valid, "restore", "restore")
     \/ /\ t \in valid \ {Root} /\ Fault
        /\ IssueToken
        /\ Continue(p, [pass[p] EXCEPT !.pc = "restore", !.tok = NewToken])
  /\ UNCHANGED <<store, keys, backup, crVars, cache, edits>>

\* cleanupMixedStateSecret: the markers of a Secret whose token looks valid go.
Cleaned(s) == [s EXCEPT !.recoveryRequired = FALSE, !.incomplete = FALSE]

\* restoreAdminToken: a token that looks valid is kept, and the recovered one
\* dropped; otherwise the Secret is deleted, whatever its version.
Restore(p) ==
  LET s == cache[p] IN
  /\ pass[p].pc = "restore"
  /\ \/ /\ s.exists /\ LooksValid(s.token)
        /\ NextAction(p, TRUE)
        /\ \/ Cleaned(s) # s /\ Update(Cached(p), Cleaned(s)) /\ UNCHANGED faults
           \/ Cleaned(s) = s /\ UNCHANGED <<store, faults>>
           \/ Cleaned(s) # s /\ Stale(Cached(p)) /\ UNCHANGED faults
           \/ Cleaned(s) # s /\ Fault /\ UNCHANGED store
     \/ /\ s.exists /\ ~LooksValid(s.token)
        /\ \/ secret.exists /\ Write(NoSecret) /\ Goto(p, "createRestored") /\ UNCHANGED faults
           \/ ~secret.exists /\ NextAction(p, FALSE) /\ UNCHANGED <<store, faults>>
           \/ Fault /\ NextAction(p, FALSE) /\ UNCHANGED store
     \/ /\ ~s.exists
        /\ Goto(p, "createRestored")
        /\ UNCHANGED <<store, faults>>
     \/ Fault /\ Goto(p, "createRestored") /\ UNCHANGED store
  /\ UNCHANGED <<keys, backup, valid, crVars, cache, edits>>

\* The recovered token gets a Secret of its own, with an empty ledger.
CreateRestored(p) ==
  /\ pass[p].pc = "createRestored"
  /\ \/ Create(NewSecret(pass[p].tok)) /\ NextAction(p, TRUE) /\ UNCHANGED faults
     \/ Exists /\ NextAction(p, FALSE) /\ UNCHANGED faults
     \/ Fault /\ NextAction(p, FALSE) /\ UNCHANGED store
  /\ UNCHANGED <<keys, backup, valid, crVars, cache, edits>>

\* createRecoveryPlaceholder for the admin token.
RecoveryPlaceholder == [NewSecret(Manual) EXCEPT !.recoveryRequired = TRUE]

CreateRecoveryPlaceholder(p) ==
  /\ pass[p].pc = "placeholder"
  /\ \/ Create(RecoveryPlaceholder) /\ NextAction(p, TRUE) /\ UNCHANGED faults
     \/ Exists /\ NextAction(p, FALSE) /\ UNCHANGED faults
     \/ Fault /\ NextAction(p, FALSE) /\ UNCHANGED store
  /\ UNCHANGED <<keys, backup, valid, crVars, cache, edits>>

\* updateIncompleteSecret marks the Secret, each time with a new timestamp: the
\* Secret gets a new version whether it was marked or not.
UpdateIncompleteSecret(p) ==
  LET s == cache[p] IN
  /\ pass[p].pc = "incomplete"
  /\ \/ /\ s.exists
        /\ Update(Cached(p), [s EXCEPT !.incomplete = TRUE])
        /\ NextAction(p, TRUE)
        /\ UNCHANGED faults
     \/ s.exists /\ Stale(Cached(p)) /\ NextAction(p, FALSE) /\ UNCHANGED faults
     \/ ~s.exists /\ NextAction(p, FALSE) /\ UNCHANGED <<store, faults>>
     \/ Fault /\ NextAction(p, FALSE) /\ UNCHANGED store
  /\ UNCHANGED <<keys, backup, valid, crVars, cache, edits>>

\* recoverRecoveryKeys: lost recovery keys leave a placeholder, without shares.
RecoverRecoveryKeys(p) ==
  /\ pass[p].pc = "keys"
  /\ \/ keys' = (IF keys.exists THEN keys ELSE [keys EXCEPT !.exists = TRUE]) /\ UNCHANGED faults
     \/ Fault /\ UNCHANGED keys
  /\ ProcessPod(p)
  /\ UNCHANGED <<store, backup, valid, crVars, cache, edits>>

-----------------------------------------------------------------------------
(* GenerateRootToken: a forced re-initialization.                           *)

\* The placeholder replaces the data and keeps the annotations.
ForcedSecret(s) == [s EXCEPT !.token = Manual, !.exists = TRUE]

\* When the recovery plan failed or is switched off, a placeholder is written
\* whatever the Secret holds.  An error here ends the work on the pod.
ForcedPlaceholder(p) ==
  LET s == cache[p] IN
  /\ pass[p].pc = "forcedPlaceholder"
  /\ \/ s.exists /\ ForcedSecret(s) = s /\ Goto(p, "clearForce") /\ UNCHANGED <<store, faults>>
     \/ /\ s.exists /\ ForcedSecret(s) # s
        /\ \/ Update(Cached(p), ForcedSecret(s)) /\ Goto(p, "clearForce") /\ UNCHANGED faults
           \/ Stale(Cached(p)) /\ Goto(p, "idle") /\ UNCHANGED faults
     \/ ~s.exists /\ Create(ForcedSecret(NoSecret)) /\ Goto(p, "clearForce") /\ UNCHANGED faults
     \/ ~s.exists /\ Exists /\ Goto(p, "idle") /\ UNCHANGED faults
     \/ Fault /\ Goto(p, "idle") /\ UNCHANGED store
  /\ UNCHANGED <<keys, backup, valid, crVars, cache, edits>>

\* clearForceReinitializeFlag: its failure is only logged.
ClearForce(p) ==
  /\ pass[p].pc = "clearForce"
  /\ Goto(p, "check")
  /\ \/ force' = FALSE /\ UNCHANGED faults
     \/ Fault /\ UNCHANGED force
  /\ UNCHANGED <<store, keys, backup, valid, bootstrapped, status, cache, edits>>

-----------------------------------------------------------------------------
(* ReconcileInitialToken.                                                  *)

\* checkTokenStatus.  A missing Secret is left to createInitialToken, whose
\* client has no token: Vault refuses its first call.  A lookup that fails with
\* a 400, 401 or 403 of any cause condemns the token, another error ends the
\* reconcile.
CheckTokenStatus(p) ==
  LET s == cache[p]
      dead == s.token = NoToken \/ IsPlaceholderToken(s) \/ s.token \notin valid
  IN
  /\ pass[p].pc = "check"
  /\ \/ /\ ~ManageTokens \/ ~s.exists
        /\ Goto(p, "idle")
        /\ UNCHANGED <<status, faults>>
     \/ /\ ManageTokens /\ s.exists /\ dead
        /\ Goto(p, "recoverBackup")
        /\ UNCHANGED <<status, faults>>
     \/ /\ ManageTokens /\ s.exists /\ ~dead
        /\ IF s.rootToken \/ s.needsReplacement
           THEN Goto(p, "replaceRoot") /\ UNCHANGED status
           ELSE Goto(p, "idle") /\ status' = "Active"
        /\ UNCHANGED faults
     \/ /\ ManageTokens /\ Fault
        /\ \/ Goto(p, "idle")
           \/ s.exists /\ Goto(p, "recoverBackup")
        /\ UNCHANGED status
  /\ UNCHANGED <<store, keys, backup, valid, bootstrapped, force, cache, edits>>

\* tryRecoverFromTransitBackup reads the backup.
RecoverBackup(p) ==
  /\ pass[p].pc = "recoverBackup"
  /\ \/ /\ BackupConfigured /\ backup # NoToken
        /\ Continue(p, [pass[p] EXCEPT !.pc = "lookupBackup", !.tok = backup])
        /\ UNCHANGED faults
     \/ /\ Goto(p, "login")
        /\ IF BackupConfigured /\ backup # NoToken THEN Fault ELSE UNCHANGED faults
  /\ UNCHANGED <<store, keys, backup, valid, crVars, cache, edits>>


\* Vault still accepts the backed-up token.
BackupWorks(t) == t \in valid

LookupBackup(p) ==
  /\ pass[p].pc = "lookupBackup"
  /\ \/ BackupWorks(pass[p].tok) /\ Goto(p, "checkLedger") /\ UNCHANGED faults
     \/ ~BackupWorks(pass[p].tok) /\ Goto(p, "login") /\ UNCHANGED faults
     \/ Goto(p, "login") /\ Fault
  /\ UNCHANGED <<store, keys, backup, valid, crVars, cache, edits>>

\* Mutant: the ledger is not consulted.
NeverRetired(t, s) == FALSE

\* The ledger of s has an entry for the token.
Retired(t, s) == t \in s.ledger

\* getAdminSecret reads the Secret from the apiserver; a token that its ledger
\* retires is not brought back.
CheckLedger(p) ==
  LET r == pass[p] IN
  /\ r.pc = "checkLedger"
  /\ \/ /\ secret.exists /\ ~Retired(r.tok, secret)
        /\ Continue(p, [r EXCEPT !.pc = "installBackup", !.snap = secret])
        /\ current' = current \cup {Read(p)}
        /\ UNCHANGED faults
     \/ /\ ~secret.exists \/ Retired(r.tok, secret)
        /\ Goto(p, "login")
        /\ UNCHANGED <<current, faults>>
     \/ Goto(p, "login") /\ Fault /\ UNCHANGED current
  /\ UNCHANGED <<secret, keys, backup, valid, crVars, cache, edits>>

\* Mutant: the healed Secret is written from scratch.
HealedFromScratch(s, t) == NewSecret(t)

\* What transit recovery and self-heal make of the Secret s.
Healed(s, t) == [s EXCEPT !.token = t, !.recoveryRequired = FALSE,
                          !.incomplete = FALSE, !.needsReplacement = FALSE]

\* The last step of a path: the Update lands, or the next path is tried.
Install(p, copy, s, next, otherwise, done) ==
  \/ Update(copy, s) /\ Goto(p, next) /\ status' = done /\ UNCHANGED faults
  \/ Stale(copy) /\ Goto(p, otherwise) /\ UNCHANGED <<status, faults>>
  \/ /\ Fault /\ Goto(p, otherwise)
     /\ current' = current \ {Read(p)}
     /\ UNCHANGED <<secret, status>>

InstallBackup(p) ==
  LET r == pass[p] IN
  /\ r.pc = "installBackup"
  /\ Install(p, Read(p), Healed(r.snap, r.tok), "idle", "login", "Active")
  /\ UNCHANGED <<keys, backup, valid, bootstrapped, force, cache, edits>>

\* tryRecoverViaK8sAuth: the operator logs in as its own ServiceAccount and
\* mints.
Login(p) ==
  /\ pass[p].pc = "login"
  /\ Mint(p, SelfHealRole, "installMinted", "rootFromKeys")
  /\ UNCHANGED <<store, keys, backup, crVars, cache, edits>>

\* The token replaces whatever the Secret holds, unless it moved since it was
\* last read; a token that is not installed is forgotten.
InstallMinted(p) ==
  /\ pass[p].pc = "installMinted"
  /\ Install(p, Cached(p), Healed(cache[p], pass[p].tok), "backupMinted", "rootFromKeys", status)
  /\ UNCHANGED <<keys, backup, valid, bootstrapped, force, cache, edits>>

BackupMinted(p) ==
  /\ pass[p].pc = "backupMinted"
  /\ BackUp(pass[p].tok)
  /\ Goto(p, "idle")
  /\ status' = "Active"
  /\ UNCHANGED <<store, keys, valid, bootstrapped, force, cache, edits>>

\* replaceInvalidToken ends with the root token of the recovery keys.  Only two
\* of its errors, those that ask for manual recovery, reach the status.
RootFromKeys(p) ==
  LET manual == keys.revoked \/ (keys.root = NoToken /\ keys.shares) IN
  /\ pass[p].pc = "rootFromKeys"
  /\ \/ /\ StoreRecoveryKeys /\ keys.exists /\ ~keys.revoked /\ keys.root # NoToken
        /\ Mint(p, keys.root \in valid, "installScoped", "idle")
        /\ UNCHANGED status
     \/ /\ StoreRecoveryKeys /\ keys.exists /\ manual
        /\ Goto(p, "idle")
        /\ status' = "Failed"
        /\ UNCHANGED <<valid, faults>>
     \/ /\ StoreRecoveryKeys /\ keys.exists => ~manual /\ keys.root = NoToken
        /\ Goto(p, "idle")
        /\ UNCHANGED <<valid, status, faults>>
     \/ Fault /\ Goto(p, "idle") /\ UNCHANGED <<valid, status>>
  /\ UNCHANGED <<store, keys, backup, bootstrapped, force, cache, edits>>

\* Every marker goes with the scoped token.
Scoped(s, t) == [Healed(s, t) EXCEPT !.rootToken = FALSE]

InstallScoped(p) ==
  /\ pass[p].pc = "installScoped"
  /\ Install(p, Cached(p), Scoped(cache[p], pass[p].tok), "idle", "idle", "Active")
  /\ UNCHANGED <<keys, backup, valid, bootstrapped, force, cache, edits>>

-----------------------------------------------------------------------------
(* replaceRootToken.                                                       *)

\* The token of the Secret is taken for the root token, whatever its markers
\* say by now.
ReplaceRootToken(p) ==
  LET s == cache[p] IN
  /\ pass[p].pc = "replaceRoot"
  /\ \/ /\ s.exists /\ s.token # NoToken
        /\ Continue(p, [pass[p] EXCEPT !.pc = "scopeRoot", !.snap = s])
        /\ current' = IF Cached(p) \in current THEN current \cup {Read(p)}
                      ELSE current \ {Read(p)}
        /\ UNCHANGED faults
     \/ /\ ~s.exists \/ s.token = NoToken
        /\ Goto(p, "idle")
        /\ UNCHANGED <<current, faults>>
     \/ Goto(p, "idle") /\ Fault /\ UNCHANGED current
  /\ UNCHANGED <<secret, keys, backup, valid, crVars, cache, edits>>

\* The root token is revoked once bootstrap has said it is complete.
AfterScoping(r) == IF r.complete THEN "revokeRoot" ELSE "installReplaced"

\* CreateScopedTokenFromRoot creates the scoped token and sees that it works...
ScopeRoot(p) ==
  LET r == pass[p] IN
  /\ r.pc = "scopeRoot"
  /\ Mint(p, r.snap.token \in valid, AfterScoping(r), "idle")
  /\ UNCHANGED <<store, keys, backup, crVars, cache, edits>>

\* ...and revokes the token it worked with; a failure is only logged.
RevokeRoot(p) ==
  LET t == pass[p].snap.token IN
  /\ pass[p].pc = "revokeRoot"
  /\ Goto(p, "installReplaced")
  /\ \/ t \in valid /\ valid' = valid \ {t} /\ UNCHANGED faults
     \/ t \notin valid /\ UNCHANGED <<valid, faults>>
     \/ Fault /\ valid' \in {valid, valid \ {t}}
  /\ UNCHANGED <<store, keys, backup, crVars, cache, edits>>

\* replaceRootToken leaves the markers of recovery alone.
Replaced(s, t) == [s EXCEPT !.token = t, !.rootToken = FALSE, !.needsReplacement = FALSE]

InstallReplaced(p) ==
  LET r == pass[p] IN
  /\ r.pc = "installReplaced"
  /\ Install(p, Read(p), Replaced(r.snap, r.tok), "backupReplaced", "idle", status)
  /\ UNCHANGED <<keys, backup, valid, bootstrapped, force, cache, edits>>

BackupReplaced(p) ==
  LET r == pass[p] IN
  /\ r.pc = "backupReplaced"
  /\ BackUp(r.tok)
  /\ Goto(p, IF r.complete THEN "markRevoked" ELSE "idle")
  /\ status' = IF r.complete THEN status ELSE "Active"
  /\ UNCHANGED <<store, keys, valid, bootstrapped, force, cache, edits>>

\* markRootTokenRevoked: the recovery keys lose their root token; a failure is
\* only logged.
MarkRootTokenRevoked(p) ==
  /\ pass[p].pc = "markRevoked"
  /\ \/ /\ keys' = (IF StoreRecoveryKeys /\ keys.exists
                    THEN [keys EXCEPT !.root = NoToken, !.revoked = TRUE] ELSE keys)
        /\ UNCHANGED faults
     \/ Fault /\ UNCHANGED keys
  /\ Goto(p, "idle")
  /\ status' = "Active"
  /\ UNCHANGED <<store, backup, valid, bootstrapped, force, cache, edits>>

-----------------------------------------------------------------------------
(* Everybody else.                                                         *)

\* The process dies and is started again.
Crash(p) ==
  /\ pass[p].pc # "idle"
  /\ Fault
  /\ Goto(p, "idle")
  /\ current' = current \ {Read(p)}
  /\ UNCHANGED <<secret, keys, backup, valid, crVars, cache, edits>>

\* The watch catches up with the apiserver.
SyncCache(p) ==
  /\ Cached(p) \notin current
  /\ cache' = [cache EXCEPT ![p] = secret]
  /\ current' = current \cup {Cached(p)}
  /\ UNCHANGED <<secret, keys, backup, valid, crVars, pass, faults, edits>>

\* RotateIfDue works only on a Secret with a token of its own that works.
RotationPossible == secret.exists /\ ~IsPlaceholderToken(secret) /\ secret.token \in valid

\* A rotation: the old token goes to the ledger, the backup may fail.
Rotate ==
  /\ edits > 0 /\ edits' = edits - 1
  /\ ManageTokens /\ RotationPossible
  /\ IssueToken
  /\ Write([secret EXCEPT !.token = NewToken, !.ledger = secret.ledger \cup {secret.token}])
  /\ backup' \in {backup} \cup (IF BackupConfigured THEN {NewToken} ELSE {})
  /\ UNCHANGED <<keys, crVars, cache, pass, faults>>

\* The retired tokens are revoked and leave the ledger.
RevokeRetired ==
  /\ RotationPossible /\ secret.ledger # {}
  /\ valid' = valid \ (secret.ledger \ {secret.token})
  /\ Write([secret EXCEPT !.ledger = {}])
  /\ UNCHANGED <<keys, backup, crVars, cache, pass, faults, edits>>

\* A token expires, or somebody revokes it.
Expire(t) ==
  /\ edits > 0 /\ edits' = edits - 1
  /\ t \in valid \ {Root}
  /\ valid' = valid \ {t}
  /\ UNCHANGED <<store, keys, backup, crVars, cache, pass, faults>>

\* The Secret is deleted, its ledger with it.
DeleteSecret ==
  /\ edits > 0 /\ edits' = edits - 1
  /\ secret.exists /\ Write(NoSecret)
  /\ UNCHANGED <<keys, backup, valid, crVars, cache, pass, faults>>

\* Somebody puts a placeholder of their own in the Secret, or takes its token.
Deface(v) ==
  /\ edits > 0 /\ edits' = edits - 1
  /\ secret.exists /\ Write([secret EXCEPT !.token = v])
  /\ UNCHANGED <<keys, backup, valid, crVars, cache, pass, faults>>

\* The manual recovery: a new token is applied over the Secret, annotations and all.
RecoverByHand ==
  /\ edits > 0 /\ edits' = edits - 1
  /\ IssueToken
  /\ Write([secret EXCEPT !.exists = TRUE, !.token = NewToken])
  /\ UNCHANGED <<keys, backup, crVars, cache, pass, faults>>

\* The recovery-keys Secret is deleted.
DeleteKeys ==
  /\ edits > 0 /\ edits' = edits - 1
  /\ keys.exists
  /\ keys' = [exists |-> FALSE, root |-> NoToken, shares |-> FALSE, revoked |-> FALSE]
  /\ UNCHANGED <<store, backup, valid, crVars, cache, pass, faults>>

\* Bootstrap signals completion.
CompleteBootstrap ==
  /\ ~bootstrapped /\ bootstrapped' = TRUE
  /\ UNCHANGED <<store, keys, backup, valid, force, status, cache, pass, faults, edits>>

\* Somebody sets forceReinitialize.
RequestForce ==
  /\ edits > 0 /\ edits' = edits - 1
  /\ ~force /\ force' = TRUE
  /\ UNCHANGED <<store, keys, backup, valid, bootstrapped, status, cache, pass, faults>>

-----------------------------------------------------------------------------
\* What StoreSecrets left behind: the root token in the Secret, in the recovery
\* keys if they are stored, and in the backup if that worked.
Init ==
  /\ secret = RootSecret
  /\ keys = [exists |-> StoreRecoveryKeys, root |-> IF StoreRecoveryKeys THEN Root ELSE NoToken,
             shares |-> StoreRecoveryKeys, revoked |-> FALSE]
  /\ backup \in {NoToken} \cup (IF BackupConfigured THEN {Root} ELSE {})
  /\ valid = {Root}
  /\ bootstrapped = FALSE /\ force \in BOOLEAN /\ status = "Pending"
  /\ cache = [p \in Operator |-> secret]
  /\ current = {Cached(p) : p \in Operator}
  /\ pass = [p \in Operator |-> NoPass]
  /\ faults = MaxFaults /\ edits = MaxEdits

\* The steps of a reconcile in process p.
PassStep(p) ==
  \/ Verify(p) \/ RecoverAdminToken(p) \/ ScopeRecovered(p) \/ Restore(p)
  \/ CreateRestored(p) \/ CreateRecoveryPlaceholder(p) \/ UpdateIncompleteSecret(p)
  \/ RecoverRecoveryKeys(p) \/ ForcedPlaceholder(p) \/ ClearForce(p)
  \/ CheckTokenStatus(p)
  \/ RecoverBackup(p) \/ LookupBackup(p) \/ CheckLedger(p) \/ InstallBackup(p)
  \/ Login(p) \/ InstallMinted(p) \/ BackupMinted(p)
  \/ RootFromKeys(p) \/ InstallScoped(p)
  \/ ReplaceRootToken(p) \/ ScopeRoot(p) \/ RevokeRoot(p) \/ InstallReplaced(p)
  \/ BackupReplaced(p) \/ MarkRootTokenRevoked(p)

Others ==
  \/ Rotate \/ RevokeRetired \/ DeleteSecret \/ RecoverByHand \/ DeleteKeys
  \/ CompleteBootstrap \/ RequestForce
  \/ \E t \in Token : Expire(t)
  \/ \E v \in {Temporary, NoToken} : Deface(v)

Next ==
  \/ \E p \in Operator : PassStep(p) \/ Crash(p) \/ SyncCache(p)
  \/ Others

Spec == Init /\ [][Next]_vars

\* Where a stale copy of the Secret undoes the work of a reconcile that has itself,
\* or just before, moved the Secret on.
LagPC == {"forcedPlaceholder", "installMinted", "replaceRoot"}

\* The resource is reconciled again and again, every call returns, and watches
\* deliver.  Of all the reconciles that come to a place where a stale copy hurts,
\* some find that the watch has delivered in the meantime.
Fairness ==
  \A p \in Operator :
    /\ WF_vars(PassStep(p)) /\ WF_vars(SyncCache(p))
    /\ \A pc \in LagPC : SF_vars(SyncCache(p) /\ pass[p].pc = pc)

FairSpec == Spec /\ Fairness

-----------------------------------------------------------------------------
(* Properties.                                                             *)

TypeOK ==
  /\ secret \in Secret /\ cache \in [Operator -> Secret]
  /\ current \subseteq Copies
  /\ keys \in Keys
  /\ backup \in Token \cup {NoToken}
  /\ valid \subseteq Token
  /\ bootstrapped \in BOOLEAN /\ force \in BOOLEAN
  /\ status \in {"Pending", "Active", "Failed"}
  /\ pass \in [Operator -> Pass]
  /\ faults \in Nat /\ edits \in Nat

\* No path that writes the Secret ever installs a token its ledger is about to
\* revoke: the backup that predates a rotation is refused (the promise of
\* tryRecoverFromTransitBackup).
LiveTokenNotLedgered == secret.exists => secret.token \notin secret.ledger

\* Why: a pass that has minted a token is the only one to know it, a copy that is
\* still current is the Secret itself, and a backup that predates a rotation is in
\* the ledger the pass has read.
MintedPC == {"installMinted", "installScoped", "revokeRoot", "installReplaced"}
ReadPC   == {"installBackup", "scopeRoot", "revokeRoot", "installReplaced"}

CopyOK(p) ==
  /\ Cached(p) \in current => cache[p] = secret
  /\ Read(p) \in current /\ pass[p].pc \in ReadPC => pass[p].snap = secret

MintedOK(p) ==
  pass[p].pc \in MintedPC =>
    /\ pass[p].tok \in Token \ secret.ledger
    /\ pass[p].tok \notin {secret.token, backup}
    /\ \A q \in Operator \ {p} : pass[q].tok # pass[p].tok

BackupOK(p) == pass[p].pc = "installBackup" => pass[p].tok \notin pass[p].snap.ledger

\* The inductive invariant behind LiveTokenNotLedgered and LedgerSurvives: whoever
\* installs a token knows the ledger it goes with (manager_simple.go:306).
RecoveryInv ==
  /\ \A p \in Operator : CopyOK(p) /\ MintedOK(p) /\ BackupOK(p)
  /\ LiveTokenNotLedgered

\* No heal, replacement or placeholder forgets a retired token that still works:
\* as long as the Secret is there, its ledger loses dead tokens only.
LedgerSurvives ==
  [][secret.exists /\ secret'.exists => (secret.ledger \ secret'.ledger) \cap valid' \subseteq {secret'.token}]_vars

\* Whatever was lost, the Secret ends up with a working token of the operator's
\* and none of the markers of recovery, once calls stop failing and edits end.
Healthy ==
  /\ secret.exists /\ secret.token \in valid
  /\ ~secret.recoveryRequired /\ ~secret.incomplete
  /\ ~secret.rootToken /\ ~secret.needsReplacement


\* A forced re-initialization is served once and cleared.
ForceCleared == force ~> ~force

\* Once bootstrap is complete the root token is revoked: root tokens are created
\* transiently (docs/RE-INITIALIZATION.md:131).
RootRevoked == bootstrapped ~> Root \notin valid
=============================================================================
