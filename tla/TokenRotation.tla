--------------------------- MODULE TokenRotation ---------------------------
(***************************************************************************)
(* RotateIfDue (pkg/token/rotate.go): the rotation of the Vault admin token *)
(* and its revoke ledger.  Each operator process runs passes, one at a      *)
(* time; every call a pass makes to the apiserver or to Vault is a step of  *)
(* its own, so that other processes, other writers of the Secret, crashes   *)
(* and late writes come in between.  Several processes may overlap: leader  *)
(* election is off by default (main.go) and the Deployment keeps the        *)
(* default rolling-update strategy.                                         *)
(***************************************************************************)
EXTENDS AdminSecret

CONSTANTS
  Operator,       \* operator processes
  Grace,          \* rotationGracePeriod
  Period,         \* rotationPeriod
  BackoffBase,    \* backoffBase
  BackoffMax,     \* backoffMax
  LedgerCap,      \* ledgerCap
  FenceAttempts,  \* attempts of one fence
  AutoRotate,     \* spec.tokenManagement.autoRotate
  BackupEnabled,  \* a transit backup of the admin token is configured
  MayReinstall,   \* another writer may put a retired token back
  MaxClock,       \* bound: the last instant
  MaxFaults,      \* bound: failed calls and crashes
  MaxEdits        \* bound: writes by others than RotateIfDue

ASSUME RotationAssumption ==
  /\ {Grace, Period, BackoffBase, BackoffMax} \subseteq Nat
  /\ 0 < BackoffBase /\ BackoffBase <= BackoffMax
  /\ LedgerCap \in Nat \ {0}
  /\ FenceAttempts \in Nat \ {0}
  /\ {AutoRotate, BackupEnabled, MayReinstall} \subseteq BOOLEAN
  /\ {MaxClock, MaxFaults, MaxEdits} \subseteq Nat

VARIABLES
  clock,    \* the time every process reads
  issued,   \* tokens Vault has created
  valid,    \* tokens Vault still accepts
  created,  \* creation time of each token, as a lookup reports it
  backup,   \* the token kept in the transit backup
  owned,    \* spec: enabled and strategy is not external
  pass,     \* the running RotateIfDue call of each process
  mem,      \* the in-memory backoff of each process
  edits,    \* edits left to the other writers
  orphans,  \* ghost: minted tokens nobody will ever record
  released  \* ghost: tokens a user or another writer took off the operator's hands

vaultVars == <<issued, valid, created>>
ghosts    == <<orphans, released>>
vars == <<secret, writes, faults, clock, issued, valid, created, backup,
          owned, pass, mem, edits, orphans, released>>

-----------------------------------------------------------------------------
(* One pass.                                                               *)

PC == {"idle", "lookup", "fenceRead", "fenceWrite", "settle", "revoke",
       "revoking", "rotate", "ledger", "dropMint", "swap", "backup", "fail",
       "backoffWrite"}

Pass ==
  [pc      : PC,
   snap    : Secret,                   \* p.secret, p.ledger, p.token, p.accessor
   fresh   : Secret,                   \* what fence or persistBackoff read
   now     : Nat,                      \* p.now
   own     : BOOLEAN,                  \* the CR as the pass read it
   swap    : Token \cup {NoToken},     \* swapID of the swap at hand
   failing : BOOLEAN,                  \* the fence runs inside a failed mintAndSwap
   tries   : Nat,                      \* fence attempts made
   kept    : SUBSET Entry,             \* the ledger revokeDue will write
   todo    : SUBSET Entry]             \* due entries revokeDue has not tried yet

NoPass ==
  [pc |-> "idle", snap |-> NoSecret, fresh |-> NoSecret, now |-> 0,
   own |-> FALSE, swap |-> NoToken, failing |-> FALSE, tries |-> 0,
   kept |-> {}, todo |-> {}]

NoBackoff == [wait |-> 0, until |-> 0]

\* Process p goes on with the pass r.
Continue(p, r) == pass' = [pass EXCEPT ![p] = r]

\* Process p's call returns.
Return(p) == Continue(p, NoPass)

\* The fence gives up, or finds nothing left to settle: the pass stops, or
\* goes on reporting the failed rotation the fence was part of.
StopFencing(p) ==
  Continue(p, IF pass[p].failing THEN [pass[p] EXCEPT !.pc = "fail"] ELSE NoPass)

\* A call fails that only its caller notices.
Fault == faults > 0 /\ faults' = faults - 1

\* Mutant: a revocation that was acknowledged is not verified.
RevokeWithoutVerifying(p, t, ok) ==
  /\ ok
  /\ valid' \in {valid, valid \ {t}}
  /\ UNCHANGED faults

\* revokeAndVerify(t) with the pass's token: TRUE when Vault confirmed that t
\* is gone.  Otherwise the revocation may have happened, but is not known to.
RevokeAndVerify(p, t, ok) ==
  LET allowed == pass[p].snap.token \in valid IN
  \/ /\ ok /\ allowed
     /\ valid' = valid \ {t}
     /\ UNCHANGED faults
  \/ /\ ~ok /\ ~allowed
     /\ UNCHANGED <<valid, faults>>
  \/ /\ ~ok /\ allowed
     /\ valid' \in {valid, valid \ {t}}
     /\ Fault

-----------------------------------------------------------------------------
(* Reading the Secret and the current token.                               *)

\* getAdminSecret.  A missing Secret, an unreadable one and a placeholder
\* token end the call before anything happens.
ReadSecret(p) ==
  /\ pass[p].pc = "idle"
  /\ Continue(p, [NoPass EXCEPT !.pc = "lookup", !.snap = secret, !.own = owned])
  /\ UNCHANGED <<storeVars, clock, vaultVars, backup, owned, mem, edits, ghosts>>

\* Mutant: swaps are settled only while the operator owns the credential.
SwapsInDoubtWhenOwned(r) == {e \in UnresolvedMints(r.snap.ledger) : r.own}

\* The minted tokens resolveUnresolved looks at.
SwapsInDoubt(r) == UnresolvedMints(r.snap.ledger)

\* LookupSelf succeeds: the pass has its accessor and its instant, and
\* starts with the swap whose outcome is unknown.  Its list of unresolved
\* swaps never has a second element (OneSwapInDoubt).
LookupSelf(p) ==
  /\ pass[p].pc = "lookup"
  /\ pass[p].snap.token \in valid
  /\ LET r == [pass[p] EXCEPT !.now = clock]
         mints == SwapsInDoubt(pass[p])
     IN  \/ /\ mints = {}
            /\ Continue(p, [r EXCEPT !.pc = "revoke"])
         \/ \E e \in mints :
              Continue(p, [r EXCEPT !.pc = "fenceRead", !.swap = e.swapID])
  /\ UNCHANGED <<storeVars, clock, vaultVars, backup, owned, mem, edits, ghosts>>

\* The lookup fails, or Vault no longer knows the token: self-heal's job.
LookupFails(p) ==
  /\ pass[p].pc = "lookup"
  /\ \/ pass[p].snap.token \notin valid /\ UNCHANGED faults
     \/ Fault
  /\ Return(p)
  /\ UNCHANGED <<secret, writes, clock, vaultVars, backup, owned, mem, edits, ghosts>>

-----------------------------------------------------------------------------
(* resolveSwap and fence.                                                  *)

\* fence reads the Secret: the mint is still unresolved there, or the swap
\* landed (or another pass settled it).
FenceRead(p) ==
  /\ pass[p].pc = "fenceRead"
  /\ \/ /\ \E e \in UnresolvedMints(secret.ledger) : e.swapID = pass[p].swap
        /\ Continue(p, [pass[p] EXCEPT !.pc = "fenceWrite", !.fresh = secret])
        /\ UNCHANGED faults
     \/ /\ \A e \in UnresolvedMints(secret.ledger) : e.swapID # pass[p].swap
        /\ StopFencing(p)
        /\ UNCHANGED faults
     \/ /\ StopFencing(p)
        /\ Fault
  /\ UNCHANGED <<secret, writes, clock, vaultVars, backup, owned, mem, edits, ghosts>>

\* fence writes the object it read back: only the version moves.
FenceWrite(p) ==
  LET r == pass[p] IN
  /\ r.pc = "fenceWrite"
  /\ \/ /\ Landed(r.fresh)
        /\ Continue(p, [r EXCEPT !.pc = "settle", !.fresh = Stored(r.fresh)])
     \/ /\ Conflict(r.fresh)
        /\ r.tries + 1 < FenceAttempts
        /\ Continue(p, [r EXCEPT !.pc = "fenceRead", !.tries = r.tries + 1])
     \/ /\ Conflict(r.fresh)
        /\ r.tries + 1 >= FenceAttempts
        /\ StopFencing(p)
     \/ /\ Refused \/ Uncertain(r.fresh)
        /\ StopFencing(p)
  /\ UNCHANGED <<clock, vaultVars, backup, owned, mem, edits, ghosts>>

\* The ledger after a swap that did not land: its minted token is due now,
\* and the token it would have replaced leaves if it is still the live one.
SettledLedger(r) ==
  LET mine == {e \in r.fresh.ledger : e.swapID = r.swap}
  IN  (r.fresh.ledger \ mine)
      \cup {[e EXCEPT !.state = Scheduled, !.notBefore = r.now] :
              e \in {x \in mine : IsMint(x)}}
      \cup {e \in mine : ~IsMint(e) /\ e.accessor # r.snap.token}

Settle(p) ==
  LET r == pass[p]
      settled == [r.fresh EXCEPT !.ledger = SettledLedger(r)]
  IN
  /\ r.pc = "settle"
  /\ \/ /\ r.fresh.token # r.snap.token
        /\ StopFencing(p)
        /\ UNCHANGED storeVars
     \/ /\ r.fresh.token = r.snap.token
        /\ Landed(settled)
        /\ Continue(p, [r EXCEPT !.snap = Stored(settled),
                                 !.pc = IF r.failing THEN "fail" ELSE "revoke"])
     \/ /\ r.fresh.token = r.snap.token
        /\ Failed(settled)
        /\ StopFencing(p)
  /\ UNCHANGED <<clock, vaultVars, backup, owned, mem, edits, ghosts>>

-----------------------------------------------------------------------------
(* revokeDue.                                                              *)

\* Mutant: nothing is revoked while the operator does not own the credential.
DueWhenOwned(r, ledger) ==
  {e \in ledger : r.own /\ e.state = Scheduled /\ e.notBefore <= r.now}

\* The retired tokens whose grace period is over.
Due(r, ledger) ==
  {e \in ledger : e.state = Scheduled /\ e.notBefore <= r.now}

\* The cancelled entry (if any) and the entry of the live token leave the
\* ledger; the other due entries are to be revoked.
StartRevoke(p) ==
  LET r == pass[p]
      matching == {e \in r.snap.ledger :
                     e.accessor = r.snap.cancel /\ e.state = Scheduled}
  IN
  /\ r.pc = "revoke"
  /\ \E dropped \in IF matching = {} THEN {{}} ELSE {{e} : e \in matching} :
       LET due  == Due(r, r.snap.ledger \ dropped)
           live == {e \in due : e.accessor = r.snap.token}
       IN  Continue(p, [r EXCEPT !.pc = "revoking", !.todo = due \ live,
                                 !.kept = (r.snap.ledger \ dropped) \ live])
  /\ UNCHANGED <<storeVars, clock, vaultVars, backup, owned, mem, edits, ghosts>>

\* One due entry: dropped when its revocation is verified, kept otherwise.
RevokeEntry(p) ==
  LET r == pass[p] IN
  /\ r.pc = "revoking"
  /\ \E e \in r.todo, ok \in BOOLEAN :
       /\ RevokeAndVerify(p, e.accessor, ok)
       /\ Continue(p, [r EXCEPT !.todo = r.todo \ {e},
                                !.kept = IF ok THEN r.kept \ {e} ELSE r.kept])
  /\ UNCHANGED <<secret, writes, clock, issued, created, backup, owned, mem,
                 edits, ghosts>>

\* One write records the revocations, the served cancel-revoke and the
\* lifecycle annotations.  If it fails, the pass goes on with what it had.
RevokeWrite(p) ==
  LET r == pass[p]
      revoked == [r.snap EXCEPT !.ledger = r.kept, !.cancel = NoToken,
                                !.autoRotate = AutoRotate]
      rotate == [r EXCEPT !.pc = "rotate", !.kept = {}]
  IN
  /\ r.pc = "revoking" /\ r.todo = {}
  /\ \/ /\ revoked = r.snap
        /\ Continue(p, rotate)
        /\ UNCHANGED storeVars
     \/ /\ revoked # r.snap
        /\ Landed(revoked)
        /\ Continue(p, [rotate EXCEPT !.snap = Stored(revoked)])
     \/ /\ revoked # r.snap
        /\ Failed(revoked)
        /\ Continue(p, rotate)
  /\ UNCHANGED <<clock, vaultVars, backup, owned, mem, edits, ghosts>>

-----------------------------------------------------------------------------
(* rotateIfDue and mintAndSwap.                                            *)

\* Mutant: the boundary of ledgerFull forgets that a rotation adds two entries.
LedgerFullAtCap == LedgerCap

LedgerFull == LedgerCap - 1

\* Mutant: rotate-now does not override autoRotate.
RotationWantedByAge(r) == AutoRotate /\ r.now - created[r.snap.token] >= Period

\* Rotation is forced, or the token is old enough.
RotationWanted(r) ==
  \/ r.snap.rotateNow # "none"
  \/ AutoRotate /\ r.now - created[r.snap.token] >= Period

\* The operator owns the credential, and neither a swap in doubt, nor a full
\* ledger, nor the backoff holds minting back.
MayMint(p) ==
  LET r == pass[p] IN
  /\ r.own
  /\ \A e \in r.snap.ledger : e.state # Unresolved
  /\ Cardinality(r.snap.ledger) < LedgerFull
  /\ mem[p].until <= r.now /\ r.snap.backoff <= r.now

\* No rotation this time (or the model has run out of tokens).
SkipRotation(p) ==
  /\ pass[p].pc = "rotate"
  /\ ~RotationWanted(pass[p]) \/ ~MayMint(p) \/ issued = Token
  /\ Return(p)
  /\ UNCHANGED <<storeVars, clock, vaultVars, backup, owned, mem, edits, ghosts>>

\* Vault creates t for a mint.
CreateToken(t) ==
  /\ t \in Token \ issued
  /\ issued' = issued \cup {t}
  /\ valid' = valid \cup {t}
  /\ created' = [created EXCEPT ![t] = clock]

\* mintAdminToken creates a token and sees that it works, sees it fail its
\* validation, or never hears of it.
Mint(p) ==
  LET r == pass[p] IN
  /\ r.pc = "rotate"
  /\ RotationWanted(r) /\ MayMint(p)
  /\ r.snap.token \in valid
  /\ \E t \in Token :
       /\ CreateToken(t)
       /\ \/ /\ Continue(p, [r EXCEPT !.pc = "ledger", !.swap = t])
             /\ UNCHANGED <<faults, orphans>>
          \/ /\ Continue(p, [r EXCEPT !.pc = "dropMint", !.swap = t])
             /\ Fault
             /\ UNCHANGED orphans
          \/ /\ Continue(p, [r EXCEPT !.pc = "fail"])
             /\ Fault
             /\ orphans' = orphans \cup {t}
  /\ UNCHANGED <<secret, writes, clock, backup, owned, mem, edits, released>>

\* Vault refuses to create a token.
MintRefused(p) ==
  LET r == pass[p] IN
  /\ r.pc = "rotate"
  /\ RotationWanted(r) /\ MayMint(p)
  /\ \/ r.snap.token \notin valid /\ UNCHANGED faults
     \/ Fault
  /\ Continue(p, [r EXCEPT !.pc = "fail"])
  /\ UNCHANGED <<secret, writes, clock, vaultVars, backup, owned, mem, edits, ghosts>>

\* Mutant: an empty accessor in Vault's answer goes unnoticed.
MintEntryWithoutAccessor(r) ==
  [accessor |-> NoToken, swapID |-> r.swap, state |-> Unresolved, notBefore |-> 0]

\* Mutant: the minted token is recorded as a retired one.
MintEntryScheduled(r) ==
  [accessor |-> r.swap, swapID |-> r.swap, state |-> Scheduled, notBefore |-> 0]

\* The two entries of a rotation.
MintEntry(r) ==
  [accessor |-> r.swap, swapID |-> r.swap, state |-> Unresolved, notBefore |-> 0]

\* Mutant: the replaced token is recorded as one in doubt.
OldEntryInDoubt(r) ==
  [accessor |-> r.snap.token, swapID |-> r.swap, state |-> Unresolved,
   notBefore |-> r.now + Grace]

\* Mutant: "immediate" gets the grace period too.
OldEntryWithGrace(r) ==
  [accessor |-> r.snap.token, swapID |-> r.swap, state |-> Scheduled,
   notBefore |-> r.now + Grace]

OldEntry(r) ==
  [accessor |-> r.snap.token, swapID |-> r.swap, state |-> Scheduled,
   notBefore |-> IF r.snap.rotateNow = "immediate" THEN r.now ELSE r.now + Grace]

\* The ledger write: both tokens are recorded before the swap is sent.
LedgerWrite(p) ==
  LET r == pass[p]
      recorded == [r.snap EXCEPT !.ledger = r.snap.ledger \cup {MintEntry(r), OldEntry(r)}]
  IN
  /\ r.pc = "ledger"
  /\ \/ /\ Landed(recorded)
        /\ Continue(p, [r EXCEPT !.pc = "swap", !.snap = Stored(recorded)])
     \/ /\ Failed(recorded)
        /\ Continue(p, [r EXCEPT !.pc = "dropMint"])
  /\ UNCHANGED <<clock, vaultVars, backup, owned, mem, edits, ghosts>>

\* A minted token that will never be swapped in is revoked; if that fails,
\* nobody holds it.
DropMint(p) ==
  LET r == pass[p] IN
  /\ r.pc = "dropMint"
  /\ \E ok \in BOOLEAN :
       /\ RevokeAndVerify(p, r.swap, ok)
       /\ orphans' = IF ok THEN orphans ELSE orphans \cup {r.swap}
  /\ Continue(p, [r EXCEPT !.pc = "fail"])
  /\ UNCHANGED <<secret, writes, clock, issued, created, backup, owned, mem,
                 edits, released>>

\* Mutant: every entry of the swap leaves the ledger with it.
InstalledLedgerWithoutOld(r) == {e \in r.snap.ledger : e.swapID # r.swap}

\* The ledger the swap writes: its minted token is no longer in doubt.
InstalledLedger(r) == {e \in r.snap.ledger : ~(e.swapID = r.swap /\ IsMint(e))}

\* Mutant: a swap that failed is taken for one that will never land.
RevokeUncertainSwap(r) == [r EXCEPT !.pc = "dropMint"]

\* The outcome of the swap is unknown: the minted token is kept.
UncertainSwap(r) == [r EXCEPT !.pc = "fail"]

\* The swap: it installs the minted token, drops its entry, and serves the
\* rotate-now request.
SwapWrite(p) ==
  LET r == pass[p]
      swapped == [r.snap EXCEPT
                    !.token = r.swap, !.rotateNow = "none",
                    !.backoff = 0, !.backoffOn = NoToken,
                    !.ledger = InstalledLedger(r)]
  IN
  /\ r.pc = "swap"
  /\ \/ /\ Landed(swapped)
        /\ Continue(p, [r EXCEPT !.pc = "backup"])
     \/ /\ DefinitelyRejected(swapped)
        /\ Continue(p, [r EXCEPT !.pc = "fenceRead", !.failing = TRUE, !.tries = 0])
     \/ /\ Uncertain(swapped)
        /\ Continue(p, UncertainSwap(r))
  /\ UNCHANGED <<clock, vaultVars, backup, owned, mem, edits, ghosts>>

\* backupRotatedToken, best effort, and clearBackoff.
Backup(p) ==
  /\ pass[p].pc = "backup"
  /\ \/ backup' = (IF BackupEnabled THEN pass[p].swap ELSE backup) /\ UNCHANGED faults
     \/ BackupEnabled /\ Fault /\ UNCHANGED backup
  /\ mem' = [mem EXCEPT ![p] = NoBackoff]
  /\ Return(p)
  /\ UNCHANGED <<secret, writes, clock, vaultVars, owned, edits, ghosts>>

-----------------------------------------------------------------------------
(* fail: extendBackoff and persistBackoff.                                 *)

NextWait(w) ==
  IF w = 0 THEN BackoffBase
  ELSE IF 2 * w > BackoffMax THEN BackoffMax ELSE 2 * w

\* Mutant: the backoff is recorded whatever token the Secret holds.
StillHoldsAny(r) == TRUE

\* The Secret holds the token the failed pass worked from: no swap landed late.
StillHolds(r) == secret.token = r.snap.token

\* extendBackoff, and the read of persistBackoff.
Fail(p) ==
  LET r == pass[p]
      wait == NextWait(mem[p].wait)
  IN
  /\ r.pc = "fail"
  /\ mem' = [mem EXCEPT ![p] = [wait |-> wait, until |-> r.now + wait]]
  /\ \/ /\ StillHolds(r)
        /\ Continue(p, [r EXCEPT
             !.pc = "backoffWrite",
             !.fresh = [secret EXCEPT !.backoff = r.now + wait, !.backoffOn = r.snap.token]])
        /\ UNCHANGED faults
     \/ ~StillHolds(r) /\ Return(p) /\ UNCHANGED faults
     \/ Return(p) /\ Fault
  /\ UNCHANGED <<secret, writes, clock, vaultVars, backup, owned, edits, ghosts>>

BackoffWrite(p) ==
  /\ pass[p].pc = "backoffWrite"
  /\ Landed(pass[p].fresh) \/ Failed(pass[p].fresh)
  /\ Return(p)
  /\ UNCHANGED <<clock, vaultVars, backup, owned, mem, edits, ghosts>>

-----------------------------------------------------------------------------
(* Restarts, other writers, time.                                          *)

\* The process dies and is started again: its pass and its in-memory backoff
\* are gone.  A token minted and not yet in the ledger is lost with them.
Crash(p) ==
  /\ pass[p].pc # "idle"
  /\ Fault
  /\ Return(p)
  /\ mem' = [mem EXCEPT ![p] = NoBackoff]
  /\ orphans' = IF pass[p].pc \in {"ledger", "dropMint"}
                THEN orphans \cup {pass[p].swap} ELSE orphans
  /\ UNCHANGED <<secret, writes, clock, vaultVars, backup, owned, edits, released>>

\* An Update whose outcome its sender never learned is applied after all.
LateWrite(w) ==
  /\ Land(w)
  /\ UNCHANGED <<clock, vaultVars, backup, owned, pass, mem, edits, ghosts>>

\* A user annotates the Secret with rotate-now.
RequestRotation(v) ==
  /\ edits > 0 /\ edits' = edits - 1
  /\ secret.rotateNow # v
  /\ Edit([secret EXCEPT !.rotateNow = v])
  /\ UNCHANGED <<clock, vaultVars, backup, owned, pass, mem, ghosts>>

\* A user annotates the Secret with cancel-revoke: t is theirs from now on.
RequestCancel(t) ==
  /\ edits > 0 /\ edits' = edits - 1
  /\ secret.cancel = NoToken
  /\ Edit([secret EXCEPT !.cancel = t])
  /\ released' = released \cup {t}
  /\ UNCHANGED <<clock, vaultVars, backup, owned, pass, mem, orphans>>

\* Self-heal, root replacement or a user puts a token of its own in place.
Install(t) ==
  /\ edits > 0 /\ edits' = edits - 1
  /\ CreateToken(t)
  /\ Edit([secret EXCEPT !.token = t])
  /\ released' = released \cup {secret.token}
  /\ UNCHANGED <<clock, backup, owned, pass, mem, orphans>>

\* A restored backup or a user brings back a token that a swap has retired.
Reinstall(t) ==
  /\ MayReinstall
  /\ edits > 0 /\ edits' = edits - 1
  /\ t \in valid \ {secret.token}
  /\ \E e \in secret.ledger : e.accessor = t /\ ~IsMint(e)
  /\ Edit([secret EXCEPT !.token = t])
  /\ released' = released \cup {secret.token}
  /\ UNCHANGED <<clock, vaultVars, backup, owned, pass, mem, orphans>>

\* The spec's enabled or strategy changes.
ChangeOwnership ==
  /\ edits > 0 /\ edits' = edits - 1
  /\ owned' = ~owned
  /\ UNCHANGED <<storeVars, clock, vaultVars, backup, pass, mem, ghosts>>

Tick ==
  /\ clock < MaxClock
  /\ clock' = clock + 1
  /\ UNCHANGED <<storeVars, vaultVars, backup, owned, pass, mem, edits, ghosts>>

-----------------------------------------------------------------------------
Init ==
  /\ \E t \in Token :
       /\ secret = NewSecret(t)
       /\ issued = {t} /\ valid = {t}
  /\ writes = {}
  /\ faults = MaxFaults
  /\ clock = 0
  /\ created = [t \in Token |-> 0]
  /\ backup = NoToken
  /\ owned = TRUE
  /\ pass = [p \in Operator |-> NoPass]
  /\ mem = [p \in Operator |-> NoBackoff]
  /\ edits = MaxEdits
  /\ orphans = {} /\ released = {}

\* The steps of RotateIfDue in process p.
PassStep(p) ==
  \/ ReadSecret(p) \/ LookupSelf(p) \/ LookupFails(p)
  \/ FenceRead(p) \/ FenceWrite(p) \/ Settle(p)
  \/ StartRevoke(p) \/ RevokeEntry(p) \/ RevokeWrite(p)
  \/ SkipRotation(p) \/ Mint(p) \/ MintRefused(p)
  \/ LedgerWrite(p) \/ DropMint(p) \/ SwapWrite(p) \/ Backup(p)
  \/ Fail(p) \/ BackoffWrite(p)

\* Everything that happens to the Secret without a running pass.
OtherWriter ==
  \/ \E v \in {"true", "immediate"} : RequestRotation(v)
  \/ \E t \in Token : RequestCancel(t) \/ Install(t) \/ Reinstall(t)
  \/ ChangeOwnership

Next ==
  \/ \E p \in Operator : PassStep(p) \/ Crash(p)
  \/ \E w \in writes : LateWrite(w)
  \/ OtherWriter
  \/ Tick

Spec == Init /\ [][Next]_vars

\* Every process is reconciled again and again (each checkInterval and on
\* every change of the Secret), every call returns, and time passes.
Fairness ==
  /\ \A p \in Operator : WF_vars(PassStep(p))
  /\ WF_vars(Tick)

FairSpec == Spec /\ Fairness

-----------------------------------------------------------------------------
(* Properties.                                                             *)

TypeOK ==
  /\ StoreTypeOK
  /\ clock \in Nat
  /\ issued \subseteq Token /\ valid \subseteq issued
  /\ created \in [Token -> Nat]
  /\ backup \in Token \cup {NoToken}
  /\ owned \in BOOLEAN
  /\ pass \in [Operator -> Pass]
  /\ mem \in [Operator -> [wait : Nat, until : Nat]]
  /\ edits \in Nat
  /\ orphans \subseteq Token /\ released \subseteq Token

\* No pass ever revokes the token the Secret holds (the promise of RotateIfDue),
\* however stale the Secret and the lookup it works from.
LiveTokenValid == secret.token \in valid

\* Nothing revokes a minted token while its swap may still land: every write
\* the apiserver would still apply carries a token that works.
LandableWriteValid ==
  \A w \in writes : w.rv = secret.rv => w.token \in valid

\* The ledger forgets no credential: a token that still works is the live one,
\* is in the ledger, is being recorded or revoked by the pass that minted it,
\* was lost before it could be recorded, or is no longer the operator's.
NoLostCredential ==
  valid \subseteq
    {secret.token} \cup Accessors(secret.ledger) \cup orphans \cup released
    \cup {pass[p].swap : p \in {q \in Operator : pass[q].pc \in {"ledger", "dropMint"}}}

\* A swap in doubt is settled before any other mint, whichever process started
\* it: resolveUnresolved never meets two.
OneSwapInDoubt == Cardinality({e \in secret.ledger : e.state = Unresolved}) <= 1

\* A stuck revocation or a failing swap never grows the ledger past ledgerCap.
LedgerBounded == Cardinality(secret.ledger) <= LedgerCap

\* persistBackoff never holds back a token whose swap landed late: the recorded
\* backoff is about the token the Secret holds, unless another writer replaced it.
BackoffOfLiveToken ==
  secret.backoffOn \in {NoToken, secret.token} \cup released

\* rotate-now is removed by the swap that honours it and by no other write: the
\* token it was about is replaced and retired, at once if it said so.
RotateNowHonoured ==
  [][secret.rotateNow # "none" /\ secret'.rotateNow = "none" =>
       /\ secret'.token # secret.token
       /\ \E e \in secret'.ledger :
            /\ e.accessor = secret.token /\ e.state = Scheduled
            /\ secret.rotateNow = "immediate" => e.notBefore <= clock]_vars

\* Every swap in doubt is settled, as soon as calls stop failing.
SwapSettles ==
  UnresolvedMints(secret.ledger) # {} ~> UnresolvedMints(secret.ledger) = {}

\* Every retired token leaves the ledger once it is due, whatever becomes of
\* enabled, strategy and autoRotate.
RetiredTokenRevoked ==
  \A t \in Token :
    (\E e \in secret.ledger : /\ e.accessor = t /\ e.state = Scheduled
                              /\ e.notBefore <= MaxClock)
      ~> t \notin Accessors(secret.ledger)

\* A forced rotation happens, unless nothing may mint until the end of time.
ForcedRotationHappens ==
  secret.rotateNow # "none" ~>
    \/ secret.rotateNow = "none"
    \/ issued = Token \/ ~owned
    \/ secret.backoff > MaxClock \/ \E p \in Operator : mem[p].until > MaxClock
=============================================================================
