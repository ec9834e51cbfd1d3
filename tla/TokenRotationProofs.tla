------------------------ MODULE TokenRotationProofs ------------------------
(***************************************************************************)
(* Proofs about TokenRotation: types first, then the safety of revocation.  *)
(***************************************************************************)
EXTENDS TokenRotationInvariant, TLAPS

-----------------------------------------------------------------------------
(* Types.                                                                  *)

LEMMA StoredType == ASSUME NEW s \in Secret PROVE Stored(s) \in Secret
  BY DEF Stored, Secret

LEMMA NoPassType == NoPass \in Pass
  BY DEF NoPass, Pass, PC, NoSecret, NewSecret, Secret

\* Every outcome of an Update, and a late write, keep the store well typed.
LEMMA StoreType ==
  ASSUME StoreTypeOK, NEW s \in Secret,
         \/ Landed(s) \/ Failed(s) \/ Refused \/ Uncertain(s) \/ Conflict(s)
         \/ Edit(s) \/ Land(s)
  PROVE  StoreTypeOK'
  BY StoredType
  DEF StoreTypeOK, Landed, Failed, DefinitelyRejected, Refused, Uncertain,
      Conflict, Edit, Land, storeVars

LEMMA FaultType ==
  ASSUME StoreTypeOK, UNCHANGED <<secret, writes>>, Fault \/ UNCHANGED faults
  PROVE  StoreTypeOK'
  BY DEF StoreTypeOK, Fault

LEMMA ContinueType ==
  ASSUME TypeOK, NEW p \in Operator, NEW r \in Pass, Continue(p, r)
  PROVE  pass' \in [Operator -> Pass]
  BY DEF TypeOK, Continue

LEMMA ReturnType ==
  ASSUME TypeOK, NEW p \in Operator, Return(p)
  PROVE  pass' \in [Operator -> Pass]
  BY NoPassType, ContinueType DEF Return

LEMMA PassType == ASSUME TypeOK, NEW p \in Operator PROVE pass[p] \in Pass
  BY DEF TypeOK

LEMMA SecretType ==
  ASSUME TypeOK PROVE secret \in Secret /\ owned \in BOOLEAN /\ clock \in Nat
  BY DEF TypeOK, StoreTypeOK

LEMMA StopFencingType ==
  ASSUME TypeOK, NEW p \in Operator, StopFencing(p)
  PROVE  pass' \in [Operator -> Pass]
<1>1. [pass[p] EXCEPT !.pc = "fail"] \in Pass
  BY PassType DEF Pass, PC
<1> QED BY <1>1, NoPassType, ContinueType DEF StopFencing

LEMMA PassPcType ==
  ASSUME NEW r \in Pass, NEW c \in PC
  PROVE  [r EXCEPT !.pc = c] \in Pass
  BY DEF Pass

LEMMA RevokeType ==
  ASSUME TypeOK, UNCHANGED <<secret, writes, issued>>,
         NEW p, NEW t, NEW ok \in BOOLEAN, RevokeAndVerify(p, t, ok)
  PROVE  StoreTypeOK' /\ valid' \subseteq issued'
  BY DEF TypeOK, StoreTypeOK, RevokeAndVerify, Fault

LEMMA CreateType ==
  ASSUME TypeOK, NEW t \in Token, CreateToken(t)
  PROVE  issued' \subseteq Token /\ valid' \subseteq issued' /\ created' \in [Token -> Nat]
  BY DEF TypeOK, CreateToken

LEMMA InitType == Init => TypeOK
  BY RotationAssumption, NoPassType
  DEF Init, TypeOK, StoreTypeOK, NewSecret, Secret, NoBackoff

\* Reading the Secret and the token.
LEMMA ReadSecretType ==
  ASSUME TypeOK, NEW p \in Operator, ReadSecret(p) PROVE TypeOK'
<1>1. [NoPass EXCEPT !.pc = "lookup", !.snap = secret, !.own = owned] \in Pass
  BY NoPassType, SecretType DEF Pass, PC
<1> QED
  BY <1>1, ContinueType DEF ReadSecret, TypeOK, StoreTypeOK, storeVars, vaultVars, ghosts

LEMMA LookupSelfType ==
  ASSUME TypeOK, NEW p \in Operator, LookupSelf(p) PROVE TypeOK'
<1> DEFINE r == [pass[p] EXCEPT !.now = clock]
           mints == UnresolvedMints(pass[p].snap.ledger)
<1>1. r \in Pass
  BY PassType, SecretType DEF Pass
<1>2. \A e \in mints : e.swapID \in Token
  BY DEF TypeOK, Pass, Secret, UnresolvedMints, Entry
<1>3. [r EXCEPT !.pc = "revoke"] \in Pass
  BY <1>1, PassPcType DEF PC
<1>4. ASSUME NEW e \in mints
      PROVE  [r EXCEPT !.pc = "fenceRead", !.swap = e.swapID] \in Pass
  BY <1>1, <1>2 DEF Pass, PC
<1> QED
  BY <1>3, <1>4, ContinueType
  DEF LookupSelf, SwapsInDoubt, TypeOK, StoreTypeOK, storeVars, vaultVars, ghosts

LEMMA LookupFailsType ==
  ASSUME TypeOK, NEW p \in Operator, LookupFails(p) PROVE TypeOK'
  BY ReturnType, FaultType DEF LookupFails, TypeOK, vaultVars, ghosts

\* The fence.
LEMMA FenceReadType ==
  ASSUME TypeOK, NEW p \in Operator, FenceRead(p) PROVE TypeOK'
<1> DEFINE r == pass[p]
<1>1. [r EXCEPT !.pc = "fenceWrite", !.fresh = secret] \in Pass
  BY PassType, SecretType DEF Pass, PC
<1>2. pass' \in [Operator -> Pass]
  BY <1>1, ContinueType, StopFencingType DEF FenceRead
<1>3. StoreTypeOK'
  BY FaultType DEF FenceRead, TypeOK
<1> QED
  BY <1>2, <1>3 DEF FenceRead, TypeOK, vaultVars, ghosts

LEMMA FenceWriteType ==
  ASSUME TypeOK, NEW p \in Operator, FenceWrite(p) PROVE TypeOK'
<1> DEFINE r == pass[p]
<1>1. r \in Pass /\ r.fresh \in Secret /\ r.tries + 1 \in Nat
  BY DEF TypeOK, Pass
<1>2. [r EXCEPT !.pc = "settle", !.fresh = Stored(r.fresh)] \in Pass
  BY <1>1, StoredType DEF Pass, PC
<1>3. [r EXCEPT !.pc = "fenceRead", !.tries = r.tries + 1] \in Pass
  BY <1>1 DEF Pass, PC
<1>4. pass' \in [Operator -> Pass]
  BY <1>2, <1>3, ContinueType, StopFencingType DEF FenceWrite
<1>5. StoreTypeOK'
  BY <1>1, StoreType DEF FenceWrite, TypeOK
<1> QED
  BY <1>4, <1>5 DEF FenceWrite, TypeOK, vaultVars, ghosts

LEMMA SettledLedgerType ==
  ASSUME NEW r \in Pass PROVE SettledLedger(r) \subseteq Entry
<1>1. r.fresh.ledger \subseteq Entry /\ r.now \in Nat
  BY DEF Pass, Secret
<1>2. ASSUME NEW e \in Entry
      PROVE  [e EXCEPT !.state = Scheduled, !.notBefore = r.now] \in Entry
  BY <1>1 DEF Entry
<1> QED BY <1>1, <1>2 DEF SettledLedger

LEMMA SettleType ==
  ASSUME TypeOK, NEW p \in Operator, Settle(p) PROVE TypeOK'
<1> DEFINE r == pass[p]
           settled == [r.fresh EXCEPT !.ledger = SettledLedger(r)]
<1>1. r \in Pass /\ r.fresh \in Secret
  BY DEF TypeOK, Pass
<1>2. settled \in Secret
  BY <1>1, SettledLedgerType DEF Secret
<1>3. ASSUME NEW c \in PC
      PROVE  [r EXCEPT !.snap = Stored(settled), !.pc = c] \in Pass
  BY <1>1, <1>2, StoredType DEF Pass
<1>4. "fail" \in PC /\ "revoke" \in PC
  BY DEF PC
<1>5. pass' \in [Operator -> Pass]
  BY <1>3, <1>4, ContinueType, StopFencingType DEF Settle
<1>6. StoreTypeOK'
  BY <1>2, StoreType DEF Settle, TypeOK, StoreTypeOK, storeVars
<1> QED
  BY <1>5, <1>6 DEF Settle, TypeOK, vaultVars, ghosts

\* revokeDue.
LEMMA StartRevokeType ==
  ASSUME TypeOK, NEW p \in Operator, StartRevoke(p) PROVE TypeOK'
<1> DEFINE r == pass[p]
<1>1. r \in Pass /\ r.snap.ledger \subseteq Entry
  BY DEF TypeOK, Pass, Secret
<1>2. ASSUME NEW t \in SUBSET Entry, NEW k \in SUBSET Entry
      PROVE  [r EXCEPT !.pc = "revoking", !.todo = t, !.kept = k] \in Pass
  BY <1>1 DEF Pass, PC
<1>3. PICK t \in SUBSET Entry, k \in SUBSET Entry :
        Continue(p, [r EXCEPT !.pc = "revoking", !.todo = t, !.kept = k])
  BY <1>1 DEF StartRevoke, Due
<1> QED
  BY <1>2, <1>3, ContinueType
  DEF StartRevoke, TypeOK, StoreTypeOK, storeVars, vaultVars, ghosts

LEMMA RevokeEntryType ==
  ASSUME TypeOK, NEW p \in Operator, RevokeEntry(p) PROVE TypeOK'
<1> DEFINE r == pass[p]
<1>1. r \in Pass /\ r.kept \subseteq Entry /\ r.todo \subseteq Entry
  BY DEF TypeOK, Pass
<1>2. ASSUME NEW t \in SUBSET Entry, NEW k \in SUBSET Entry
      PROVE  [r EXCEPT !.todo = t, !.kept = k] \in Pass
  BY <1>1 DEF Pass
<1>3. PICK e \in r.todo, ok \in BOOLEAN :
        /\ RevokeAndVerify(p, e.accessor, ok)
        /\ Continue(p, [r EXCEPT !.todo = r.todo \ {e},
                                 !.kept = IF ok THEN r.kept \ {e} ELSE r.kept])
  BY DEF RevokeEntry
<1>4. pass' \in [Operator -> Pass]
  BY <1>1, <1>2, <1>3, ContinueType
<1>5. StoreTypeOK' /\ valid' \subseteq issued'
  BY <1>3, RevokeType DEF RevokeEntry
<1> QED
  BY <1>4, <1>5 DEF RevokeEntry, TypeOK, ghosts

LEMMA RevokeWriteType ==
  ASSUME TypeOK, NEW p \in Operator, RevokeWrite(p) PROVE TypeOK'
<1> DEFINE r == pass[p]
           revoked == [r.snap EXCEPT !.ledger = r.kept, !.cancel = NoToken,
                                     !.autoRotate = AutoRotate]
           rotate == [r EXCEPT !.pc = "rotate", !.kept = {}]
<1>1. r \in Pass /\ r.snap \in Secret /\ r.kept \subseteq Entry
  BY DEF TypeOK, Pass
<1>2. revoked \in Secret
  BY <1>1, RotationAssumption DEF Secret
<1>3. rotate \in Pass
  BY <1>1 DEF Pass, PC
<1>4. [rotate EXCEPT !.snap = Stored(revoked)] \in Pass
  BY <1>2, <1>3, StoredType DEF Pass
<1>5. pass' \in [Operator -> Pass]
  BY <1>3, <1>4, ContinueType DEF RevokeWrite
<1>6. StoreTypeOK'
  BY <1>2, StoreType DEF RevokeWrite, TypeOK, StoreTypeOK, storeVars
<1> QED
  BY <1>5, <1>6 DEF RevokeWrite, TypeOK, vaultVars, ghosts

\* rotateIfDue and mintAndSwap.
LEMMA SkipRotationType ==
  ASSUME TypeOK, NEW p \in Operator, SkipRotation(p) PROVE TypeOK'
  BY ReturnType DEF SkipRotation, TypeOK, StoreTypeOK, storeVars, vaultVars, ghosts

LEMMA MintType ==
  ASSUME TypeOK, NEW p \in Operator, Mint(p) PROVE TypeOK'
<1> DEFINE r == pass[p]
<1>1. r \in Pass
  BY DEF TypeOK
<1>2. ASSUME NEW t \in Token, NEW c \in PC
      PROVE  [r EXCEPT !.pc = c, !.swap = t] \in Pass
  BY <1>1 DEF Pass
<1>3. "ledger" \in PC /\ "dropMint" \in PC /\ "fail" \in PC
  BY DEF PC
<1>4. PICK t \in Token :
        /\ CreateToken(t)
        /\ \/ /\ Continue(p, [r EXCEPT !.pc = "ledger", !.swap = t])
              /\ UNCHANGED <<faults, orphans>>
           \/ /\ Continue(p, [r EXCEPT !.pc = "dropMint", !.swap = t])
              /\ Fault
              /\ UNCHANGED orphans
           \/ /\ Continue(p, [r EXCEPT !.pc = "fail"])
              /\ Fault
              /\ orphans' = orphans \cup {t}
  BY DEF Mint
<1>5. pass' \in [Operator -> Pass]
  BY <1>1, <1>2, <1>3, <1>4, PassPcType, ContinueType
<1>6. StoreTypeOK'
  BY <1>4, FaultType DEF Mint, TypeOK
<1>7. orphans' \subseteq Token
  BY <1>4 DEF TypeOK
<1> QED
  BY <1>4, <1>5, <1>6, <1>7, CreateType DEF Mint, TypeOK

LEMMA MintRefusedType ==
  ASSUME TypeOK, NEW p \in Operator, MintRefused(p) PROVE TypeOK'
<1>1. [pass[p] EXCEPT !.pc = "fail"] \in Pass
  BY PassPcType DEF TypeOK, PC
<1>2. pass' \in [Operator -> Pass]
  BY <1>1, ContinueType DEF MintRefused
<1>3. StoreTypeOK'
  BY FaultType DEF MintRefused, TypeOK
<1> QED
  BY <1>2, <1>3 DEF MintRefused, TypeOK, vaultVars, ghosts

LEMMA EntriesType ==
  ASSUME NEW r \in Pass, r.swap \in Token, r.snap.token \in Token
  PROVE  MintEntry(r) \in Entry /\ OldEntry(r) \in Entry
<1>1. r.now \in Nat /\ r.now + Grace \in Nat
  BY RotationAssumption DEF Pass
<1> QED BY <1>1 DEF MintEntry, OldEntry, Entry, Scheduled, Unresolved

LEMMA LedgerWriteType ==
  ASSUME TypeOK, NamesOK, NEW p \in Operator, LedgerWrite(p) PROVE TypeOK'
<1> DEFINE r == pass[p]
           recorded == [r.snap EXCEPT !.ledger =
                          r.snap.ledger \cup {MintEntry(r), OldEntry(r)}]
<1>1. r \in Pass /\ r.snap \in Secret /\ r.swap \in Token /\ r.snap.token \in Token
  BY DEF TypeOK, Pass, NamesOK, HasMinted, LedgerWrite
<1>2. recorded \in Secret
  BY <1>1, EntriesType DEF Secret
<1>3. [r EXCEPT !.pc = "swap", !.snap = Stored(recorded)] \in Pass
  BY <1>1, <1>2, StoredType DEF Pass, PC
<1>4. [r EXCEPT !.pc = "dropMint"] \in Pass
  BY <1>1, PassPcType DEF PC
<1>5. pass' \in [Operator -> Pass]
  BY <1>3, <1>4, ContinueType DEF LedgerWrite
<1>6. StoreTypeOK'
  BY <1>2, StoreType DEF LedgerWrite, TypeOK
<1> QED
  BY <1>5, <1>6 DEF LedgerWrite, TypeOK, vaultVars, ghosts

LEMMA DropMintType ==
  ASSUME TypeOK, NamesOK, NEW p \in Operator, DropMint(p) PROVE TypeOK'
<1>1. [pass[p] EXCEPT !.pc = "fail"] \in Pass
  BY PassPcType DEF TypeOK, PC
<1>2. pass' \in [Operator -> Pass]
  BY <1>1, ContinueType DEF DropMint
<1>3. PICK ok \in BOOLEAN :
        /\ RevokeAndVerify(p, pass[p].swap, ok)
        /\ orphans' = IF ok THEN orphans ELSE orphans \cup {pass[p].swap}
  BY DEF DropMint
<1>4. StoreTypeOK' /\ valid' \subseteq issued'
  BY <1>3, RevokeType DEF DropMint
<1>5. orphans' \subseteq Token
  BY <1>3 DEF TypeOK, NamesOK, HasMinted, DropMint
<1> QED
  BY <1>2, <1>4, <1>5 DEF DropMint, TypeOK

LEMMA SwapWriteType ==
  ASSUME TypeOK, NEW p \in Operator, SwapWrite(p) PROVE TypeOK'
<1> DEFINE r == pass[p]
           swapped == [r.snap EXCEPT
                         !.token = r.swap, !.rotateNow = "none",
                         !.backoff = 0, !.backoffOn = NoToken,
                         !.ledger = InstalledLedger(r)]
<1>1. r \in Pass /\ r.snap \in Secret /\ r.swap \in Token \cup {NoToken}
  BY DEF TypeOK, Pass
<1>2. InstalledLedger(r) \subseteq Entry
  BY <1>1 DEF InstalledLedger, Secret
<1>3. swapped \in Secret
  BY <1>1, <1>2 DEF Secret
<1>4. [r EXCEPT !.pc = "backup"] \in Pass /\ UncertainSwap(r) \in Pass
  BY <1>1, PassPcType DEF PC, UncertainSwap
<1>5. [r EXCEPT !.pc = "fenceRead", !.failing = TRUE, !.tries = 0] \in Pass
  BY <1>1 DEF Pass, PC
<1>6. pass' \in [Operator -> Pass]
  BY <1>4, <1>5, ContinueType DEF SwapWrite
<1>7. StoreTypeOK'
  BY <1>3, StoreType DEF SwapWrite, TypeOK, Failed
<1> QED
  BY <1>6, <1>7 DEF SwapWrite, TypeOK, vaultVars, ghosts

LEMMA BackupType ==
  ASSUME TypeOK, NEW p \in Operator, Backup(p) PROVE TypeOK'
<1>1. pass' \in [Operator -> Pass]
  BY ReturnType DEF Backup
<1>2. backup' \in Token \cup {NoToken}
  BY DEF Backup, TypeOK, Pass
<1>3. mem' \in [Operator -> [wait : Nat, until : Nat]]
  BY DEF Backup, TypeOK, NoBackoff
<1>4. StoreTypeOK'
  BY FaultType DEF Backup, TypeOK
<1> QED
  BY <1>1, <1>2, <1>3, <1>4 DEF Backup, TypeOK, vaultVars, ghosts

\* fail.
LEMMA NextWaitType ==
  ASSUME NEW w \in Nat PROVE NextWait(w) \in Nat
  BY RotationAssumption DEF NextWait

LEMMA FailType ==
  ASSUME TypeOK, NEW p \in Operator, Fail(p) PROVE TypeOK'
<1> DEFINE r == pass[p]
           wait == NextWait(mem[p].wait)
           noted == [secret EXCEPT !.backoff = r.now + wait, !.backoffOn = r.snap.token]
<1>1. r \in Pass /\ r.now \in Nat /\ r.snap.token \in Token \cup {NoToken}
  BY DEF TypeOK, Pass, Secret
<1>2. wait \in Nat
  BY NextWaitType DEF TypeOK
<1>3. r.now + wait \in Nat
  BY <1>1, <1>2
<1> HIDE DEF wait
<1>4. noted \in Secret
  BY <1>1, <1>3 DEF TypeOK, StoreTypeOK, Secret
<1>5. [r EXCEPT !.pc = "backoffWrite", !.fresh = noted] \in Pass
  BY <1>1, <1>4 DEF Pass, PC
<1>6. pass' \in [Operator -> Pass]
  BY <1>5, ContinueType, ReturnType DEF Fail, wait
<1>7. mem' \in [Operator -> [wait : Nat, until : Nat]]
  BY <1>2, <1>3 DEF Fail, TypeOK, wait
<1>8. StoreTypeOK'
  BY FaultType DEF Fail, TypeOK
<1> QED
  BY <1>6, <1>7, <1>8 DEF Fail, TypeOK, vaultVars, ghosts

LEMMA BackoffWriteType ==
  ASSUME TypeOK, NEW p \in Operator, BackoffWrite(p) PROVE TypeOK'
<1>1. pass' \in [Operator -> Pass]
  BY ReturnType DEF BackoffWrite
<1>2. StoreTypeOK'
  BY StoreType DEF BackoffWrite, TypeOK, Pass
<1> QED
  BY <1>1, <1>2 DEF BackoffWrite, TypeOK, vaultVars, ghosts

\* Restarts, late writes and the other writers.
LEMMA CrashType ==
  ASSUME TypeOK, NamesOK, NEW p \in Operator, Crash(p) PROVE TypeOK'
<1>1. pass' \in [Operator -> Pass]
  BY ReturnType DEF Crash
<1>2. mem' \in [Operator -> [wait : Nat, until : Nat]]
  BY DEF Crash, TypeOK, NoBackoff
<1>3. orphans' \subseteq Token
  BY DEF Crash, TypeOK, NamesOK, HasMinted
<1>4. StoreTypeOK'
  BY FaultType DEF Crash, TypeOK
<1> QED
  BY <1>1, <1>2, <1>3, <1>4 DEF Crash, TypeOK, vaultVars

LEMMA LateWriteType ==
  ASSUME TypeOK, NEW w \in writes, LateWrite(w) PROVE TypeOK'
<1>1. StoreTypeOK'
  BY StoreType DEF LateWrite, TypeOK, StoreTypeOK
<1> QED
  BY <1>1 DEF LateWrite, TypeOK, vaultVars, ghosts

LEMMA EditType ==
  ASSUME TypeOK, NEW s \in Secret, Edit(s) PROVE StoreTypeOK'
  BY StoreType DEF TypeOK

LEMMA RequestRotationType ==
  ASSUME TypeOK, NEW v \in {"true", "immediate"}, RequestRotation(v) PROVE TypeOK'
<1>1. [secret EXCEPT !.rotateNow = v] \in Secret
  BY DEF TypeOK, StoreTypeOK, Secret
<1>2. StoreTypeOK'
  BY <1>1, EditType DEF RequestRotation
<1> QED
  BY <1>2 DEF RequestRotation, TypeOK, vaultVars, ghosts

LEMMA RequestCancelType ==
  ASSUME TypeOK, NEW t \in Token, RequestCancel(t) PROVE TypeOK'
<1>1. [secret EXCEPT !.cancel = t] \in Secret
  BY DEF TypeOK, StoreTypeOK, Secret
<1>2. StoreTypeOK'
  BY <1>1, EditType DEF RequestCancel
<1> QED
  BY <1>2 DEF RequestCancel, TypeOK, vaultVars

LEMMA InstallType ==
  ASSUME TypeOK, NamesOK, NEW t \in Token, Install(t) PROVE TypeOK'
<1>1. [secret EXCEPT !.token = t] \in Secret
  BY DEF TypeOK, StoreTypeOK, Secret
<1>2. StoreTypeOK'
  BY <1>1, EditType DEF Install
<1>3. released' \subseteq Token
  BY DEF Install, TypeOK, NamesOK
<1>4. issued' \subseteq Token /\ valid' \subseteq issued' /\ created' \in [Token -> Nat]
  BY CreateType DEF Install
<1> QED
  BY <1>2, <1>3, <1>4 DEF Install, TypeOK

LEMMA ReinstallType ==
  ASSUME TypeOK, NamesOK, NEW t \in Token, Reinstall(t) PROVE TypeOK'
<1>1. [secret EXCEPT !.token = t] \in Secret
  BY DEF TypeOK, StoreTypeOK, Secret
<1>2. StoreTypeOK'
  BY <1>1, EditType DEF Reinstall
<1>3. released' \subseteq Token
  BY DEF Reinstall, TypeOK, NamesOK
<1> QED
  BY <1>2, <1>3 DEF Reinstall, TypeOK, vaultVars

LEMMA ChangeOwnershipType ==
  ASSUME TypeOK, ChangeOwnership PROVE TypeOK'
  BY DEF ChangeOwnership, TypeOK, StoreTypeOK, storeVars, vaultVars, ghosts

LEMMA TickType == ASSUME TypeOK, Tick PROVE TypeOK'
  BY DEF Tick, TypeOK, StoreTypeOK, storeVars, vaultVars, ghosts

\* One step per action.
LEMMA NextType ==
  ASSUME TypeOK, NamesOK, [Next]_vars PROVE TypeOK'
<1>1. ASSUME NEW p \in Operator, PassStep(p) PROVE TypeOK'
  BY <1>1, ReadSecretType, LookupSelfType, LookupFailsType, FenceReadType,
     FenceWriteType, SettleType, StartRevokeType, RevokeEntryType,
     RevokeWriteType, SkipRotationType, MintType, MintRefusedType,
     LedgerWriteType, DropMintType, SwapWriteType, BackupType, FailType,
     BackoffWriteType
  DEF PassStep
<1>2. ASSUME NEW p \in Operator, Crash(p) PROVE TypeOK'
  BY <1>2, CrashType
<1>3. ASSUME NEW w \in writes, LateWrite(w) PROVE TypeOK'
  BY <1>3, LateWriteType
<1>4. ASSUME OtherWriter PROVE TypeOK'
  BY <1>4, RequestRotationType, RequestCancelType, InstallType, ReinstallType,
     ChangeOwnershipType
  DEF OtherWriter
<1>5. CASE UNCHANGED vars
  BY <1>5 DEF vars, TypeOK, StoreTypeOK
<1> QED
  BY <1>1, <1>2, <1>3, <1>4, <1>5, TickType DEF Next

-----------------------------------------------------------------------------
(* Names: a token is issued before anything names it.                      *)

\* The tokens a pass names are issued, as of the state the pass continues in.
PassNames(r, known) ==
  /\ r.pc # "idle" => r.snap.token \in known
  /\ r.pc \in {"fenceWrite", "settle", "backoffWrite"} => r.fresh.token \in known
  /\ r.pc \in {"ledger", "dropMint", "swap", "backup"} => r.swap \in known

\* So are the tokens the store names.
StoreNames == secret.token \in issued /\ \A w \in writes : w.token \in issued

LEMMA NamesSplit ==
  NamesOK <=> StoreNames /\ \A p \in Operator : PassNames(pass[p], issued)
  BY DEF NamesOK, StoreNames, PassNames, UsesFresh, HasMinted

LEMMA StoreNamesStep ==
  ASSUME StoreNames, NEW s \in Secret, s.token \in issued, issued \subseteq issued',
         \/ Landed(s) \/ Failed(s) \/ Refused \/ Uncertain(s) \/ Conflict(s)
         \/ UNCHANGED storeVars \/ UNCHANGED <<secret, writes>>
  PROVE  StoreNames'
  BY DEF StoreNames, Landed, Failed, DefinitelyRejected, Refused, Uncertain,
         Conflict, Stored, storeVars, Secret

\* One pass goes on, every other one stays as it is.
LEMMA NamesStep ==
  ASSUME TypeOK, NamesOK, NEW p \in Operator, NEW r \in Pass, Continue(p, r),
         issued \subseteq issued', StoreNames', PassNames(r, issued')
  PROVE  NamesOK'
<1>1. ASSUME NEW q \in Operator PROVE PassNames(pass'[q], issued')
  <2>1. CASE q = p
    BY <2>1 DEF Continue, TypeOK
  <2>2. CASE q # p
    BY <2>2, NamesSplit DEF Continue, TypeOK, PassNames
  <2> QED BY <2>1, <2>2
<1> QED BY <1>1 DEF NamesOK, StoreNames, PassNames, UsesFresh, HasMinted

LEMMA NamesReturn ==
  ASSUME TypeOK, NamesOK, NEW p \in Operator, Return(p),
         issued \subseteq issued', StoreNames'
  PROVE  NamesOK'
<1>1. PassNames(NoPass, issued')
  BY DEF PassNames, NoPass
<1> QED BY <1>1, NoPassType, NamesStep DEF Return

\* The pass goes on to a point where it names less than before.
LEMMA NamesMove ==
  ASSUME TypeOK, NamesOK, NEW p \in Operator, pass[p].pc # "idle",
         NEW c \in PC \ {"fenceWrite", "settle", "backoffWrite", "ledger",
                         "dropMint", "swap", "backup"},
         Continue(p, [pass[p] EXCEPT !.pc = c]),
         issued \subseteq issued', StoreNames'
  PROVE  NamesOK'
<1> DEFINE r == [pass[p] EXCEPT !.pc = c]
<1>1. r \in Pass /\ r.pc = c /\ r.snap = pass[p].snap
  BY PassPcType, PassType DEF Pass
<1>2. pass[p].snap.token \in issued
  BY DEF NamesOK
<1>3. PassNames(r, issued')
  BY <1>1, <1>2 DEF PassNames
<1> QED BY <1>1, <1>3, NamesStep

LEMMA NamesStopFencing ==
  ASSUME TypeOK, NamesOK, NEW p \in Operator, pass[p].pc # "idle", StopFencing(p),
         issued \subseteq issued', StoreNames'
  PROVE  NamesOK'
  BY NamesReturn, NamesMove DEF StopFencing, Return, PC

LEMMA ReadNames ==
  ASSUME TypeOK, NamesOK, NEW p \in Operator,
         ReadSecret(p) \/ LookupSelf(p) \/ LookupFails(p)
  PROVE  NamesOK'
<1>1. StoreNames' /\ issued \subseteq issued'
  BY NamesSplit
  DEF ReadSecret, LookupSelf, LookupFails, StoreNames, storeVars, vaultVars
<1>2. CASE ReadSecret(p)
  <2> DEFINE r == [NoPass EXCEPT !.pc = "lookup", !.snap = secret, !.own = owned]
  <2>1. r \in Pass
    BY NoPassType, SecretType DEF Pass, PC
  <2>2. PassNames(r, issued')
    BY <1>1, NamesSplit DEF PassNames, NoPass, StoreNames
  <2> QED BY <1>1, <1>2, <2>1, <2>2, NamesStep DEF ReadSecret
<1>3. CASE LookupSelf(p)
  <2> DEFINE r == [pass[p] EXCEPT !.now = clock]
             mints == UnresolvedMints(pass[p].snap.ledger)
  <2>1. r \in Pass
    BY PassType, SecretType DEF Pass
  <2>2. pass[p].snap.token \in issued
    BY <1>3 DEF NamesOK, LookupSelf
  <2>3. \A e \in mints : e.swapID \in Token
    BY PassType DEF Pass, Secret, UnresolvedMints, Entry
  <2>4. [r EXCEPT !.pc = "revoke"] \in Pass /\ PassNames([r EXCEPT !.pc = "revoke"], issued')
    BY <1>1, <2>1, <2>2 DEF Pass, PC, PassNames
  <2>5. ASSUME NEW e \in mints
        PROVE  /\ [r EXCEPT !.pc = "fenceRead", !.swap = e.swapID] \in Pass
               /\ PassNames([r EXCEPT !.pc = "fenceRead", !.swap = e.swapID], issued')
    BY <1>1, <2>1, <2>2, <2>3 DEF Pass, PC, PassNames
  <2> QED BY <1>1, <1>3, <2>4, <2>5, NamesStep DEF LookupSelf, SwapsInDoubt
<1>4. CASE LookupFails(p)
  BY <1>1, <1>4, NamesReturn DEF LookupFails
<1> QED BY <1>2, <1>3, <1>4

LEMMA FenceNames ==
  ASSUME TypeOK, NamesOK, NEW p \in Operator,
         FenceRead(p) \/ FenceWrite(p) \/ Settle(p)
  PROVE  NamesOK'
<1> DEFINE r == pass[p]
<1>1. r \in Pass /\ r.fresh \in Secret /\ r.tries + 1 \in Nat
  BY DEF TypeOK, Pass
<1>2. issued' = issued /\ r.pc # "idle" /\ r.snap.token \in issued /\ StoreNames
  BY NamesSplit DEF FenceRead, FenceWrite, Settle, vaultVars, NamesOK
<1>3. CASE FenceRead(p)
  <2>1. StoreNames'
    BY <1>2, <1>3 DEF FenceRead, StoreNames
  <2>2. [r EXCEPT !.pc = "fenceWrite", !.fresh = secret] \in Pass
    BY <1>1, PassType, SecretType DEF Pass, PC
  <2>3. PassNames([r EXCEPT !.pc = "fenceWrite", !.fresh = secret], issued')
    BY <1>1, <1>2 DEF PassNames, Pass, StoreNames
  <2> QED BY <1>2, <1>3, <2>1, <2>2, <2>3, NamesStep, NamesStopFencing DEF FenceRead
<1>4. CASE FenceWrite(p)
  <2>1. r.fresh.token \in issued
    BY <1>4 DEF NamesOK, UsesFresh, FenceWrite
  <2>2. StoreNames'
    BY <1>1, <1>2, <1>4, <2>1, StoreNamesStep DEF FenceWrite
  <2>3. [r EXCEPT !.pc = "settle", !.fresh = Stored(r.fresh)] \in Pass
    BY <1>1, StoredType DEF Pass, PC
  <2>4. PassNames([r EXCEPT !.pc = "settle", !.fresh = Stored(r.fresh)], issued')
    BY <1>1, <1>2, <2>1 DEF PassNames, Pass, Stored, Secret
  <2>5. /\ [r EXCEPT !.pc = "fenceRead", !.tries = r.tries + 1] \in Pass
        /\ PassNames([r EXCEPT !.pc = "fenceRead", !.tries = r.tries + 1], issued')
    BY <1>1, <1>2 DEF Pass, PC, PassNames
  <2> QED BY <1>2, <1>4, <2>2, <2>3, <2>4, <2>5, NamesStep, NamesStopFencing DEF FenceWrite
<1>5. CASE Settle(p)
  <2> DEFINE settled == [r.fresh EXCEPT !.ledger = SettledLedger(r)]
  <2>1. r.fresh.token \in issued
    BY <1>5 DEF NamesOK, UsesFresh, Settle
  <2>2. settled \in Secret /\ settled.token \in issued
    BY <1>1, <2>1, SettledLedgerType DEF Secret
  <2>3. StoreNames'
    BY <1>2, <1>5, <2>2, StoreNamesStep DEF Settle
  <2>4. ASSUME NEW c \in {"fail", "revoke"}
        PROVE  /\ [r EXCEPT !.snap = Stored(settled), !.pc = c] \in Pass
               /\ PassNames([r EXCEPT !.snap = Stored(settled), !.pc = c], issued')
    <3>1. Stored(settled) \in Secret /\ Stored(settled).token \in issued
      BY <2>2, StoredType DEF Stored, Secret
    <3> HIDE DEF settled
    <3> QED BY <1>1, <1>2, <3>1 DEF Pass, PC, PassNames
  <2> QED BY <1>2, <1>5, <2>3, <2>4, NamesStep, NamesStopFencing DEF Settle
<1> QED BY <1>3, <1>4, <1>5

LEMMA RevokeNames ==
  ASSUME TypeOK, NamesOK, NEW p \in Operator,
         StartRevoke(p) \/ RevokeEntry(p) \/ RevokeWrite(p)
  PROVE  NamesOK'
<1> DEFINE r == pass[p]
<1>1. r \in Pass /\ r.snap \in Secret /\ r.kept \subseteq Entry /\ r.todo \subseteq Entry
  BY DEF TypeOK, Pass
<1>2. issued' = issued /\ r.pc # "idle" /\ r.snap.token \in issued /\ StoreNames
  BY NamesSplit DEF StartRevoke, RevokeEntry, RevokeWrite, vaultVars, NamesOK
<1>3. CASE StartRevoke(p)
  <2>1. r.snap.ledger \subseteq Entry
    BY <1>1 DEF Secret
  <2>2. ASSUME NEW t \in SUBSET Entry, NEW k \in SUBSET Entry
        PROVE  /\ [r EXCEPT !.pc = "revoking", !.todo = t, !.kept = k] \in Pass
               /\ PassNames([r EXCEPT !.pc = "revoking", !.todo = t, !.kept = k], issued')
    BY <1>1, <1>2 DEF Pass, PC, PassNames
  <2>3. PICK t \in SUBSET Entry, k \in SUBSET Entry :
          Continue(p, [r EXCEPT !.pc = "revoking", !.todo = t, !.kept = k])
    BY <1>3, <2>1 DEF StartRevoke, Due
  <2>4. StoreNames'
    BY <1>2, <1>3 DEF StartRevoke, StoreNames, storeVars
  <2> QED BY <1>2, <2>2, <2>3, <2>4, NamesStep
<1>4. CASE RevokeEntry(p)
  <2>1. ASSUME NEW t \in SUBSET Entry, NEW k \in SUBSET Entry
        PROVE  /\ [r EXCEPT !.todo = t, !.kept = k] \in Pass
               /\ PassNames([r EXCEPT !.todo = t, !.kept = k], issued')
    BY <1>1, <1>2, <1>4 DEF Pass, PassNames, RevokeEntry
  <2>2. PICK e \in r.todo, ok \in BOOLEAN :
          Continue(p, [r EXCEPT !.todo = r.todo \ {e},
                                !.kept = IF ok THEN r.kept \ {e} ELSE r.kept])
    BY <1>4 DEF RevokeEntry
  <2>3. StoreNames'
    BY <1>2, <1>4 DEF RevokeEntry, StoreNames
  <2> QED BY <1>1, <1>2, <2>1, <2>2, <2>3, NamesStep
<1>5. CASE RevokeWrite(p)
  <2> DEFINE revoked == [r.snap EXCEPT !.ledger = r.kept, !.cancel = NoToken,
                                       !.autoRotate = AutoRotate]
             rotate == [r EXCEPT !.pc = "rotate", !.kept = {}]
  <2>1. revoked \in Secret /\ revoked.token \in issued
    BY <1>1, <1>2, RotationAssumption DEF Secret
  <2>2. StoreNames'
    BY <1>2, <1>5, <2>1, StoreNamesStep DEF RevokeWrite
  <2>3. rotate \in Pass /\ PassNames(rotate, issued')
    BY <1>1, <1>2 DEF Pass, PC, PassNames
  <2>4. Stored(revoked) \in Secret /\ Stored(revoked).token \in issued
    BY <2>1, StoredType DEF Stored, Secret
  <2>5. /\ [rotate EXCEPT !.snap = Stored(revoked)] \in Pass
        /\ PassNames([rotate EXCEPT !.snap = Stored(revoked)], issued')
    <3> HIDE DEF revoked
    <3> QED BY <1>1, <1>2, <2>4 DEF Pass, PC, PassNames
  <2> QED BY <1>2, <1>5, <2>2, <2>3, <2>5, NamesStep DEF RevokeWrite
<1> QED BY <1>3, <1>4, <1>5

LEMMA MintNames ==
  ASSUME TypeOK, NamesOK, NEW p \in Operator,
         SkipRotation(p) \/ Mint(p) \/ MintRefused(p)
  PROVE  NamesOK'
<1> DEFINE r == pass[p]
<1>1. r \in Pass /\ r.pc # "idle" /\ r.snap.token \in issued /\ StoreNames
  BY NamesSplit DEF TypeOK, NamesOK, SkipRotation, Mint, MintRefused
<1>2. issued \subseteq issued'
  BY DEF SkipRotation, Mint, CreateToken, MintRefused, vaultVars
<1>3. StoreNames'
  BY <1>1, <1>2 DEF SkipRotation, Mint, MintRefused, StoreNames, storeVars
<1>4. CASE SkipRotation(p)
  BY <1>2, <1>3, <1>4, NamesReturn DEF SkipRotation
<1>5. CASE Mint(p)
  <2>1. PICK t \in Token :
          /\ CreateToken(t)
          /\ \/ Continue(p, [r EXCEPT !.pc = "ledger", !.swap = t])
             \/ Continue(p, [r EXCEPT !.pc = "dropMint", !.swap = t])
             \/ Continue(p, [r EXCEPT !.pc = "fail"])
    BY <1>5 DEF Mint
  <2>2. t \in issued'
    BY <2>1 DEF CreateToken
  <2>3. ASSUME NEW c \in {"ledger", "dropMint"}
        PROVE  /\ [r EXCEPT !.pc = c, !.swap = t] \in Pass
               /\ PassNames([r EXCEPT !.pc = c, !.swap = t], issued')
    BY <1>1, <1>2, <2>2 DEF Pass, PC, PassNames
  <2> QED BY <1>1, <1>2, <1>3, <2>1, <2>3, NamesStep, NamesMove DEF PC
<1>6. CASE MintRefused(p)
  BY <1>1, <1>2, <1>3, <1>6, NamesMove DEF MintRefused, PC
<1> QED BY <1>4, <1>5, <1>6

LEMMA SwapNames ==
  ASSUME TypeOK, NamesOK, NEW p \in Operator,
         LedgerWrite(p) \/ DropMint(p) \/ SwapWrite(p) \/ Backup(p)
  PROVE  NamesOK'
<1> DEFINE r == pass[p]
<1>1. r \in Pass /\ r.snap \in Secret
  BY DEF TypeOK, Pass
<1>2. /\ issued' = issued /\ r.pc # "idle"
      /\ r.snap.token \in issued /\ r.swap \in issued /\ r.swap \in Token
      /\ r.snap.token \in Token /\ StoreNames
  BY NamesSplit
  DEF LedgerWrite, DropMint, SwapWrite, Backup, vaultVars, NamesOK, HasMinted, TypeOK
<1>3. CASE LedgerWrite(p)
  <2> DEFINE recorded == [r.snap EXCEPT !.ledger =
                            r.snap.ledger \cup {MintEntry(r), OldEntry(r)}]
  <2>1. recorded \in Secret /\ recorded.token \in issued
    BY <1>1, <1>2, EntriesType DEF Secret
  <2>2. StoreNames'
    BY <1>2, <1>3, <2>1, StoreNamesStep DEF LedgerWrite
  <2>3. Stored(recorded) \in Secret /\ Stored(recorded).token \in issued
    BY <2>1, StoredType DEF Stored, Secret
  <2>4. /\ [r EXCEPT !.pc = "swap", !.snap = Stored(recorded)] \in Pass
        /\ PassNames([r EXCEPT !.pc = "swap", !.snap = Stored(recorded)], issued')
    <3> HIDE DEF recorded
    <3> QED BY <1>1, <1>2, <2>3 DEF Pass, PC, PassNames
  <2>5. /\ [r EXCEPT !.pc = "dropMint"] \in Pass
        /\ PassNames([r EXCEPT !.pc = "dropMint"], issued')
    BY <1>1, <1>2 DEF Pass, PC, PassNames
  <2> QED BY <1>2, <1>3, <2>2, <2>4, <2>5, NamesStep DEF LedgerWrite
<1>4. CASE DropMint(p)
  <2>1. StoreNames'
    BY <1>2, <1>4 DEF DropMint, StoreNames
  <2> QED BY <1>2, <1>4, <2>1, NamesMove DEF DropMint, PC
<1>5. CASE SwapWrite(p)
  <2> DEFINE swapped == [r.snap EXCEPT
                           !.token = r.swap, !.rotateNow = "none",
                           !.backoff = 0, !.backoffOn = NoToken,
                           !.ledger = InstalledLedger(r)]
  <2>1. InstalledLedger(r) \subseteq Entry
    BY <1>1 DEF InstalledLedger, Secret
  <2>2. swapped \in Secret /\ swapped.token \in issued
    BY <1>1, <1>2, <2>1 DEF Secret
  <2>3. StoreNames'
    BY <1>2, <1>5, <2>2, StoreNamesStep DEF SwapWrite, Failed
  <2>4. ASSUME NEW c \in {"backup", "fail"}
        PROVE  [r EXCEPT !.pc = c] \in Pass /\ PassNames([r EXCEPT !.pc = c], issued')
    BY <1>1, <1>2 DEF Pass, PC, PassNames
  <2>5. /\ [r EXCEPT !.pc = "fenceRead", !.failing = TRUE, !.tries = 0] \in Pass
        /\ PassNames([r EXCEPT !.pc = "fenceRead", !.failing = TRUE, !.tries = 0], issued')
    BY <1>1, <1>2 DEF Pass, PC, PassNames
  <2> QED BY <1>2, <1>5, <2>3, <2>4, <2>5, NamesStep DEF SwapWrite, UncertainSwap
<1>6. CASE Backup(p)
  <2>1. StoreNames'
    BY <1>2, <1>6 DEF Backup, StoreNames
  <2> QED BY <1>2, <1>6, <2>1, NamesReturn DEF Backup
<1> QED BY <1>3, <1>4, <1>5, <1>6

LEMMA FailNames ==
  ASSUME TypeOK, NamesOK, NEW p \in Operator,
         Fail(p) \/ BackoffWrite(p) \/ Crash(p)
  PROVE  NamesOK'
<1> DEFINE r == pass[p]
<1>1. r \in Pass /\ issued' = issued /\ StoreNames /\ r.snap.token \in issued
  BY NamesSplit DEF TypeOK, Fail, BackoffWrite, Crash, vaultVars, NamesOK
<1>2. CASE Fail(p)
  <2> DEFINE wait == NextWait(mem[p].wait)
             noted == [secret EXCEPT !.backoff = r.now + wait, !.backoffOn = r.snap.token]
  <2>1. wait \in Nat /\ r.now \in Nat /\ r.snap.token \in Token
    BY <1>1, NextWaitType DEF TypeOK, Pass
  <2>2. r.now + wait \in Nat
    BY <2>1
  <2>3. noted \in Secret /\ noted.token = secret.token
    <3> HIDE DEF wait
    <3> QED BY <2>1, <2>2 DEF TypeOK, StoreTypeOK, Secret
  <2>4. StoreNames'
    BY <1>1, <1>2 DEF Fail, StoreNames
  <2>5. noted.token \in issued
    BY <1>1, <2>3 DEF StoreNames
  <2>6. /\ [r EXCEPT !.pc = "backoffWrite", !.fresh = noted] \in Pass
        /\ PassNames([r EXCEPT !.pc = "backoffWrite", !.fresh = noted], issued')
    <3> HIDE DEF noted
    <3> QED BY <1>1, <2>3, <2>5 DEF Pass, PC, PassNames
  <2> QED BY <1>1, <1>2, <2>4, <2>6, NamesStep, NamesReturn DEF Fail
<1>3. CASE BackoffWrite(p)
  <2>1. r.fresh \in Secret /\ r.fresh.token \in issued
    BY <1>1, <1>3 DEF NamesOK, UsesFresh, BackoffWrite, Pass
  <2>2. StoreNames'
    BY <1>1, <1>3, <2>1, StoreNamesStep DEF BackoffWrite
  <2> QED BY <1>1, <1>3, <2>2, NamesReturn DEF BackoffWrite
<1>4. CASE Crash(p)
  <2>1. StoreNames'
    BY <1>1, <1>4 DEF Crash, StoreNames
  <2> QED BY <1>1, <1>4, <2>1, NamesReturn DEF Crash
<1> QED BY <1>2, <1>3, <1>4

\* No pass moves: only the store and what Vault issued may grow.
LEMMA NamesElsewhere ==
  ASSUME NamesOK, StoreNames', issued \subseteq issued', UNCHANGED pass
  PROVE  NamesOK'
  BY DEF NamesOK, StoreNames, UsesFresh, HasMinted

LEMMA EditNames ==
  ASSUME TypeOK, NamesOK, NEW s \in Secret, Edit(s), s.token \in issued',
         issued \subseteq issued'
  PROVE  StoreNames'
  BY NamesSplit DEF Edit, Stored, StoreNames, Secret

LEMMA OtherNames ==
  ASSUME TypeOK, NamesOK,
         OtherWriter \/ Tick \/ (\E w \in writes : LateWrite(w)) \/ UNCHANGED vars
  PROVE  NamesOK'
<1>1. secret \in Secret /\ secret.token \in issued
  BY DEF TypeOK, StoreTypeOK, NamesOK
<1>2. ASSUME NEW v \in {"true", "immediate"}, RequestRotation(v) PROVE NamesOK'
  <2> DEFINE s == [secret EXCEPT !.rotateNow = v]
  <2>1. s \in Secret /\ s.token = secret.token
    BY <1>1 DEF Secret
  <2>2. Edit(s) /\ UNCHANGED <<issued, pass>>
    BY <1>2 DEF RequestRotation, vaultVars
  <2> HIDE DEF s
  <2> QED BY <1>1, <2>1, <2>2, EditNames, NamesElsewhere
<1>3. ASSUME NEW t \in Token, RequestCancel(t) PROVE NamesOK'
  <2> DEFINE s == [secret EXCEPT !.cancel = t]
  <2>1. s \in Secret /\ s.token = secret.token
    BY <1>1 DEF Secret
  <2>2. Edit(s) /\ UNCHANGED <<issued, pass>>
    BY <1>3 DEF RequestCancel, vaultVars
  <2> HIDE DEF s
  <2> QED BY <1>1, <2>1, <2>2, EditNames, NamesElsewhere
<1>4. ASSUME NEW t \in Token, t \in issued', issued \subseteq issued', UNCHANGED pass,
             Edit([secret EXCEPT !.token = t])
      PROVE  NamesOK'
  <2> DEFINE s == [secret EXCEPT !.token = t]
  <2>1. s \in Secret /\ s.token = t /\ Edit(s)
    BY <1>1, <1>4 DEF Secret
  <2> HIDE DEF s
  <2> QED BY <1>4, <2>1, EditNames, NamesElsewhere
<1>5. ASSUME NEW t \in Token, Install(t) PROVE NamesOK'
  BY <1>4, <1>5 DEF Install, CreateToken
<1>6. ASSUME NEW t \in Token, Reinstall(t) PROVE NamesOK'
  BY <1>4, <1>6 DEF Reinstall, TypeOK, vaultVars
<1>7. ASSUME NEW w \in writes, LateWrite(w) PROVE NamesOK'
  <2>1. w \in Secret /\ w.token \in issued
    BY DEF TypeOK, StoreTypeOK, NamesOK
  <2>2. StoreNames'
    BY <1>7, <2>1, NamesSplit DEF LateWrite, Land, Stored, StoreNames, Secret, vaultVars
  <2> QED BY <1>7, <2>2, NamesElsewhere DEF LateWrite, vaultVars
<1>8. ASSUME ChangeOwnership \/ Tick \/ UNCHANGED vars PROVE NamesOK'
  BY <1>8 DEF ChangeOwnership, Tick, vars, storeVars, vaultVars, NamesOK, UsesFresh, HasMinted
<1> QED BY <1>2, <1>3, <1>5, <1>6, <1>7, <1>8 DEF OtherWriter

LEMMA NextNames == ASSUME TypeOK, NamesOK, [Next]_vars PROVE NamesOK'
<1>1. ASSUME NEW p \in Operator, PassStep(p) \/ Crash(p) PROVE NamesOK'
  BY <1>1, ReadNames, FenceNames, RevokeNames, MintNames, SwapNames, FailNames
  DEF PassStep
<1> QED BY <1>1, OtherNames DEF Next

LEMMA InitNames == Init => NamesOK
  BY DEF Init, NamesOK, NewSecret, NoPass, UsesFresh, HasMinted

\* TypeOK is not inductive by itself: that a ledger entry names a token rests on
\* the Secret of a running pass holding one, and on its mint having one.
THEOREM TypeCorrect == Spec => [](TypeOK /\ NamesOK)
<1>1. Init => TypeOK /\ NamesOK
  BY InitType, InitNames
<1>2. TypeOK /\ NamesOK /\ [Next]_vars => (TypeOK /\ NamesOK)'
  BY NextType, NextNames
<1> QED BY <1>1, <1>2, PTL DEF Spec
=============================================================================
