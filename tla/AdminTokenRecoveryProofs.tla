---------------------- MODULE AdminTokenRecoveryProofs ----------------------
(***************************************************************************)
(* No path to a new admin token installs one that the Secret's ledger is    *)
(* about to revoke, and none forgets a retired token that still works, for  *)
(* any number of operator processes, tokens, faults and edits: RecoveryInv  *)
(* is inductive.                                                           *)
(*                                                                         *)
(* A reconcile writes the Secret only over a copy that has its version, or  *)
(* where there is none.  What such a step preserves is proved once          *)
(* (PassMove); each action is then shown to be one.                        *)
(***************************************************************************)
EXTENDS AdminTokenRecovery, TLAPS

\* The points of a reconcile at which the invariant says nothing of it.
PlainPC == PC \ (MintedPC \cup ReadPC)

\* One step of LedgerSurvives.
LedgerKept ==
  secret.exists /\ secret'.exists =>
    (secret.ledger \ secret'.ledger) \cap valid' \subseteq {secret'.token}

\* What every step has to show.
StepOK == TypeOK' /\ RecoveryInv' /\ LedgerKept

\* The types of what is neither the Secret nor a pass.
RestOK ==
  /\ cache' = cache /\ keys' \in Keys
  /\ valid' \subseteq Token
  /\ bootstrapped' \in BOOLEAN /\ force' \in BOOLEAN
  /\ status' \in {"Pending", "Active", "Failed"}
  /\ faults' \in Nat /\ edits' \in Nat

\* The Secret stays, or is written by p.
StoreMove(p) ==
  \/ secret' = secret /\ current' \subseteq current \cup {Read(p)}
  \/ /\ secret' \in Secret /\ current' = {}
     /\ secret'.ledger = secret.ledger \/ secret'.ledger = {}
     /\ secret'.ledger # secret.ledger => ~secret.exists \/ ~secret'.exists
     /\ secret'.token \in {secret.token, pass[p].tok, NoToken, Manual}
     /\ LiveTokenNotLedgered'

LEMMA Placeholders ==
  /\ NoToken \notin Token /\ Manual \notin Token /\ Temporary \notin Token
  BY RecoveryAssumption

LEMMA NoPassFacts ==
  /\ NoPass \in Pass /\ NoPass.pc = "idle" /\ NoPass.tok = NoToken /\ "idle" \in PlainPC
  /\ NoSecret \in Secret /\ NoSecret.ledger = {} /\ ~NoSecret.exists /\ NoSecret.token = NoToken
  BY DEF NoPass, Pass, PC, PlainPC, MintedPC, ReadPC, NoSecret, NewSecret, Secret

LEMMA NewSecretFacts ==
  ASSUME NEW t \in Token \cup {NoToken, Manual, Temporary}
  PROVE  /\ NewSecret(t) \in Secret /\ NewSecret(t).token = t
         /\ NewSecret(t).ledger = {} /\ NewSecret(t).exists
  BY DEF NewSecret, Secret

\* A fresh token is nobody's yet.
LEMMA FreshFacts ==
  ASSUME NEW t \in Fresh
  PROVE  /\ t \in Token /\ t \notin secret.ledger /\ t # secret.token /\ t # backup
         /\ \A q \in Operator : t # pass[q].tok
  BY DEF Fresh, KnownTokens

LEMMA IssueFacts ==
  ASSUME TypeOK, IssueToken
  PROVE  NewToken \in Fresh /\ NewToken \in Token /\ valid' \subseteq Token
<1>1. \E t \in Fresh : TRUE
  BY DEF IssueToken
<1>2. NewToken \in Fresh
  BY <1>1 DEF NewToken
<1> QED BY <1>2 DEF IssueToken, Fresh, TypeOK

\* The step of a reconcile: it goes on as r.
LEMMA PassMove ==
  ASSUME TypeOK, RecoveryInv, RestOK,
         NEW p \in Operator, NEW r \in Pass, Continue(p, r), StoreMove(p),
         backup' \in {backup, pass[p].tok},
         r.tok \in {pass[p].tok, backup, NoToken} \cup Fresh,
         r.pc \in MintedPC =>
           /\ secret' = secret /\ backup' = backup
           /\ \/ r.tok \in Fresh
              \/ pass[p].pc \in MintedPC /\ r.tok = pass[p].tok,
         r.pc \in ReadPC /\ Read(p) \in current' => r.snap = secret',
         r.pc = "installBackup" => r.tok \notin r.snap.ledger
  PROVE  StepOK
<1>1. /\ pass'[p] = r /\ \A q \in Operator \ {p} : pass'[q] = pass[q]
      /\ pass' \in [Operator -> Pass]
  BY DEF Continue, TypeOK
<1>2. /\ secret.ledger \subseteq Token /\ LiveTokenNotLedgered
      /\ \A q \in Operator : pass[q].tok \in Token \cup {NoToken}
  BY DEF TypeOK, Secret, Pass, RecoveryInv
<1>3. TypeOK'
  BY <1>1, <1>2 DEF TypeOK, RestOK, StoreMove, Copies, Read
<1>4. LiveTokenNotLedgered'
  BY <1>2 DEF StoreMove, LiveTokenNotLedgered
<1>5. LedgerKept
  BY DEF StoreMove, LedgerKept
<1>6. ASSUME NEW q \in Operator PROVE CopyOK(q)'
  <2>1. CopyOK(q)
    BY DEF RecoveryInv
  <2>2. Cached(q) # Read(p) /\ (q # p => Read(q) # Read(p))
    BY DEF Cached, Read
  <2>3. Cached(q)' = Cached(q) /\ Read(q)' = Read(q)
    BY DEF Cached, Read
  <2>4. CASE q = p
    BY <1>1, <2>1, <2>2, <2>4 DEF CopyOK, StoreMove, RestOK, Cached, Read
  <2>5. CASE q # p
    BY <1>1, <2>1, <2>2, <2>5 DEF CopyOK, StoreMove, RestOK, Cached, Read
  <2> QED BY <2>4, <2>5
<1>7. ASSUME NEW q \in Operator PROVE MintedOK(q)'
  <2>1. \A o \in Operator : MintedOK(o)
    BY DEF RecoveryInv
  <2>2. CASE q = p
    BY <1>1, <1>2, <2>1, <2>2, FreshFacts, Placeholders DEF MintedOK, RestOK
  <2>3. CASE q # p
    <3>1. ASSUME pass[q].pc \in MintedPC
          PROVE  /\ pass[q].tok \in Token \ secret'.ledger
                 /\ pass[q].tok \notin {secret'.token, backup'}
                 /\ r.tok # pass[q].tok
      BY <1>2, <2>1, <2>3, <3>1, FreshFacts, Placeholders DEF MintedOK, RestOK, StoreMove
    <3>2. ASSUME pass[q].pc \in MintedPC, NEW o \in Operator \ {q}
          PROVE  pass'[o].tok # pass[q].tok
      BY <1>1, <2>1, <3>1, <3>2 DEF MintedOK
    <3> QED BY <1>1, <2>3, <3>1, <3>2 DEF MintedOK
  <2> QED BY <2>2, <2>3
<1>8. ASSUME NEW q \in Operator PROVE BackupOK(q)'
  BY <1>1 DEF BackupOK, RecoveryInv
<1> QED BY <1>3, <1>4, <1>5, <1>6, <1>7, <1>8 DEF StepOK, RecoveryInv

-----------------------------------------------------------------------------
(* The ways a reconcile goes on.                                           *)

\* With the token and the copy it has, or not at all.
Leaves(p) ==
  \E r \in Pass :
    /\ Continue(p, r) /\ r.pc \in PlainPC
    /\ r.tok \in {pass[p].tok, NoToken}

LEMMA GotoFacts ==
  ASSUME TypeOK, NEW p \in Operator, NEW c \in PlainPC, Goto(p, c)
  PROVE  Leaves(p)
<1>1. pass[p] \in Pass /\ c \in PC
  BY DEF TypeOK, PlainPC
<1> DEFINE r == [pass[p] EXCEPT !.pc = c]
<1>2. r \in Pass /\ r.pc = c /\ r.tok = pass[p].tok
  BY <1>1 DEF Pass
<1>3. Continue(p, NoPass) \/ Continue(p, r)
  BY DEF Goto
<1> HIDE DEF r
<1> QED BY <1>2, <1>3, NoPassFacts DEF Leaves

LEMMA PlainPoints ==
  {"idle", "recover", "scopeRecovered", "restore", "createRestored", "placeholder",
   "incomplete", "keys", "forcedPlaceholder", "clearForce", "check", "recoverBackup",
   "lookupBackup", "checkLedger", "login", "backupMinted", "rootFromKeys",
   "replaceRoot", "backupReplaced", "markRevoked"} \subseteq PlainPC
  BY DEF PlainPC, PC, MintedPC, ReadPC

LEMMA ProcessPodFacts ==
  ASSUME TypeOK, NEW p \in Operator, ProcessPod(p) PROVE Leaves(p)
<1> DEFINE r == pass[p]
           a == [r EXCEPT !.pc = "check"]
           b == [r EXCEPT !.pc = "recover", !.forced = TRUE]
           c == [r EXCEPT !.pc = "forcedPlaceholder", !.forced = TRUE]
<1>1. r \in Pass
  BY DEF TypeOK
<1>2. /\ "check" \in PlainPC /\ "recover" \in PlainPC /\ "forcedPlaceholder" \in PlainPC
      /\ PlainPC \subseteq PC
  BY PlainPoints DEF PlainPC
<1>3. /\ a \in Pass /\ a.pc = "check" /\ a.tok = r.tok
      /\ b \in Pass /\ b.pc = "recover" /\ b.tok = r.tok
      /\ c \in Pass /\ c.pc = "forcedPlaceholder" /\ c.tok = r.tok
  BY <1>1, <1>2 DEF Pass
<1>4. Continue(p, a) \/ Continue(p, b) \/ Continue(p, c)
  BY DEF ProcessPod
<1> HIDE DEF a, b, c
<1> QED BY <1>2, <1>3, <1>4 DEF Leaves

LEMMA NextActionFacts ==
  ASSUME TypeOK, NEW p \in Operator, NEW ok, NextAction(p, ok) PROVE Leaves(p)
<1>1. \/ Goto(p, "clearForce") \/ Goto(p, "forcedPlaceholder") \/ Goto(p, "keys")
      \/ ProcessPod(p)
  BY DEF NextAction
<1> QED BY <1>1, PlainPoints, GotoFacts, ProcessPodFacts

\* Vault may create a token on the way.
LEMMA MintFacts ==
  ASSUME TypeOK, NEW p \in Operator, NEW allowed, NEW good \in PC, NEW bad \in PlainPC,
         Mint(p, allowed, good, bad)
  PROVE  /\ IssueToken \/ UNCHANGED valid
         /\ faults' \in Nat
         /\ \/ Leaves(p)
            \/ \E r \in Pass : /\ Continue(p, r) /\ r.pc = good
                               /\ r.tok \in Fresh /\ r.snap = pass[p].snap
<1>1. faults' \in Nat
  BY DEF Mint, Fault, TypeOK
<1>2. IssueToken \/ UNCHANGED valid
  BY DEF Mint
<1>3. CASE Goto(p, bad)
  BY <1>1, <1>2, <1>3, GotoFacts
<1>4. CASE IssueToken /\ Continue(p, [pass[p] EXCEPT !.pc = good, !.tok = NewToken])
  <2> DEFINE r == [pass[p] EXCEPT !.pc = good, !.tok = NewToken]
  <2>1. NewToken \in Fresh /\ NewToken \in Token
    BY <1>4, IssueFacts
  <2>2. pass[p] \in Pass
    BY DEF TypeOK
  <2>3. r \in Pass /\ r.pc = good /\ r.tok = NewToken /\ r.snap = pass[p].snap
    BY <2>1, <2>2 DEF Pass
  <2>4. Continue(p, r)
    BY <1>4
  <2> HIDE DEF r
  <2> QED BY <1>1, <1>2, <2>1, <2>3, <2>4
<1> QED BY <1>3, <1>4 DEF Mint

-----------------------------------------------------------------------------
(* The kinds of steps.                                                     *)

\* The pass leaves: it writes the Secret or leaves it, and may back its token up.
LEMMA LeaveStep ==
  ASSUME TypeOK, RecoveryInv, RestOK, NEW p \in Operator, Leaves(p), StoreMove(p),
         backup' \in {backup, pass[p].tok}
  PROVE  StepOK
<1>1. PICK r \in Pass : Continue(p, r) /\ r.pc \in PlainPC /\ r.tok \in {pass[p].tok, NoToken}
  BY DEF Leaves
<1>2. r.pc \notin MintedPC \cup ReadPC /\ "installBackup" \in ReadPC
  BY <1>1 DEF PlainPC, ReadPC
<1> QED BY <1>1, <1>2, PassMove

LEMMA SameStore == ASSUME NEW p, UNCHANGED store PROVE StoreMove(p)
  BY DEF StoreMove, store

LEMMA FaultFacts == ASSUME TypeOK, Fault \/ UNCHANGED faults PROVE faults' \in Nat
  BY DEF TypeOK, Fault

\* A token was minted on the way, for the point good.
LEMMA MintStep ==
  ASSUME TypeOK, RecoveryInv, NEW p \in Operator, NEW allowed, NEW good \in PC,
         NEW bad \in PlainPC, Mint(p, allowed, good, bad), good # "installBackup",
         good \in ReadPC => pass[p].pc \in ReadPC,
         UNCHANGED <<store, keys, backup, bootstrapped, force, cache, edits>>,
         status' \in {"Pending", "Active", "Failed"}
  PROVE  StepOK
<1>0. /\ keys' = keys /\ backup' = backup /\ bootstrapped' = bootstrapped
      /\ force' = force /\ cache' = cache /\ edits' = edits /\ UNCHANGED store
  OBVIOUS
<1>1. RestOK /\ StoreMove(p)
  <2>1. faults' \in Nat /\ (IssueToken \/ UNCHANGED valid)
    BY MintFacts
  <2>2. valid' \subseteq Token
    BY <2>1, IssueFacts DEF TypeOK
  <2> QED BY <1>0, <2>1, <2>2, SameStore DEF RestOK, TypeOK
<1>2. CASE Leaves(p)
  BY <1>0, <1>1, <1>2, LeaveStep
<1>3. ASSUME NEW r \in Pass, Continue(p, r), r.pc = good, r.tok \in Fresh,
             r.snap = pass[p].snap
      PROVE  StepOK
  <2>1. r.pc \in ReadPC /\ Read(p) \in current' => r.snap = secret'
    BY <1>0, <1>3 DEF RecoveryInv, CopyOK, store
  <2>2. secret' = secret
    BY <1>0 DEF store
  <2>3. /\ backup' \in {backup, pass[p].tok}
        /\ r.tok \in {pass[p].tok, backup, NoToken} \cup Fresh
        /\ r.pc # "installBackup"
    BY <1>0, <1>3
  <2>4. r.pc \in MintedPC =>
          /\ secret' = secret /\ backup' = backup
          /\ \/ r.tok \in Fresh
             \/ pass[p].pc \in MintedPC /\ r.tok = pass[p].tok
    BY <1>0, <1>3, <2>2
  <2>5. r.pc = "installBackup" => r.tok \notin r.snap.ledger
    BY <2>3
  <2> QED BY <1>1, <1>3, <2>1, <2>3, <2>4, <2>5, PassMove
<1> QED BY <1>2, <1>3, MintFacts

\* Nothing but the pass, and what the pass does not tell, changes.
LEMMA QuietStep ==
  ASSUME TypeOK, RecoveryInv, NEW p \in Operator, Leaves(p), UNCHANGED store,
         UNCHANGED <<backup, cache, edits>>,
         keys' \in Keys, valid' \subseteq valid,
         bootstrapped' \in BOOLEAN, force' \in BOOLEAN,
         status' \in {"Pending", "Active", "Failed"}, Fault \/ UNCHANGED faults
  PROVE  StepOK
<1>1. RestOK
  BY FaultFacts DEF RestOK, TypeOK
<1> QED BY <1>1, SameStore, LeaveStep

\* The pass writes s over a copy that is the Secret.
LEMMA WriteOver ==
  ASSUME TypeOK, RecoveryInv, NEW p \in Operator, NEW s \in Secret, Write(s),
         secret.exists, s.ledger = secret.ledger,
         s.token \in {secret.token, pass[p].tok, NoToken, Manual},
         s.token = pass[p].tok => pass[p].tok \notin secret.ledger
  PROVE  StoreMove(p)
<1>1. secret.token \notin secret.ledger
  BY DEF RecoveryInv, LiveTokenNotLedgered
<1>2. secret.ledger \subseteq Token
  BY DEF TypeOK, Secret
<1> QED BY <1>1, <1>2, Placeholders DEF StoreMove, Write, LiveTokenNotLedgered

LEMMA UpdateCached ==
  ASSUME TypeOK, RecoveryInv, NEW p \in Operator, NEW s \in Secret, Update(Cached(p), s),
         s.ledger = cache[p].ledger,
         s.token \in {cache[p].token, pass[p].tok, NoToken, Manual},
         s.token = pass[p].tok => pass[p].tok \notin secret.ledger
  PROVE  StoreMove(p)
<1>1. cache[p] = secret /\ secret.exists /\ Write(s)
  BY DEF Update, RecoveryInv, CopyOK
<1> QED BY <1>1, WriteOver

\* The Secret is created with an empty ledger.
LEMMA CreateFacts ==
  ASSUME NEW p \in Operator, NEW s \in Secret, Create(s), s.ledger = {},
         s.token \in {pass[p].tok, NoToken, Manual}
  PROVE  StoreMove(p)
  BY DEF Create, Write, StoreMove, LiveTokenNotLedgered

\* The pass writes the Secret, or does not, and leaves.
LEMMA WriteStep ==
  ASSUME TypeOK, RecoveryInv, NEW p \in Operator, Leaves(p), StoreMove(p),
         UNCHANGED <<keys, backup, valid, bootstrapped, force, cache, edits>>,
         status' \in {"Pending", "Active", "Failed"}, Fault \/ UNCHANGED faults
  PROVE  StepOK
<1>1. RestOK
  BY FaultFacts DEF RestOK, TypeOK
<1> QED BY <1>1, LeaveStep

-----------------------------------------------------------------------------
(* Verification and the recovery plan.                                     *)

LEMMA VerifyOK ==
  ASSUME TypeOK, RecoveryInv, NEW p \in Operator, Verify(p) PROVE StepOK
<1>1. PICK c \in {"recover", "incomplete", "keys", "check", "forcedPlaceholder"},
           k \in BOOLEAN, f \in BOOLEAN :
        Continue(p, [[NoPass EXCEPT !.keysPlan = k, !.reinit = force, !.complete = bootstrapped]
                       EXCEPT !.pc = c, !.forced = f])
  BY DEF Verify, AdminPlan
<1> DEFINE r == [[NoPass EXCEPT !.keysPlan = k, !.reinit = force, !.complete = bootstrapped]
                    EXCEPT !.pc = c, !.forced = f]
<1>2. c \in PlainPC /\ c \in PC
  BY PlainPoints DEF PlainPC
<1>3. force \in BOOLEAN /\ bootstrapped \in BOOLEAN
  BY DEF TypeOK
<1>4. r \in Pass /\ r.pc = c /\ r.tok = NoToken
  <2> DEFINE n == [NoPass EXCEPT !.keysPlan = k, !.reinit = force, !.complete = bootstrapped]
  <2>1. n \in Pass /\ n.tok = NoToken
    BY <1>3, NoPassFacts DEF Pass
  <2>2. r = [n EXCEPT !.pc = c, !.forced = f]
    OBVIOUS
  <2> HIDE DEF n, r
  <2> QED BY <1>2, <2>1, <2>2 DEF Pass
<1>5. Leaves(p)
  <2> HIDE DEF r
  <2> QED BY <1>1, <1>2, <1>4 DEF Leaves, r
<1> QED BY <1>5, QuietStep DEF Verify, store, crVars, TypeOK

LEMMA RecoverAdminTokenOK ==
  ASSUME TypeOK, RecoveryInv, NEW p \in Operator, RecoverAdminToken(p) PROVE StepOK
<1>1. /\ UNCHANGED store
      /\ UNCHANGED <<keys, backup, valid, bootstrapped, force, status, cache, edits>>
      /\ Fault \/ UNCHANGED faults
  BY DEF RecoverAdminToken, crVars
<1>2. CASE NextAction(p, TRUE) \/ Goto(p, "placeholder")
  <2>1. Leaves(p)
    BY <1>2, NextActionFacts, GotoFacts, PlainPoints
  <2> QED BY <1>1, <2>1, SameStore, WriteStep DEF TypeOK
<1>3. ASSUME NEW c \in {"scopeRecovered", "restore"},
             Continue(p, [pass[p] EXCEPT !.tok = backup, !.pc = c])
      PROVE  StepOK
  <2> DEFINE r == [pass[p] EXCEPT !.tok = backup, !.pc = c]
  <2>1. c \in PlainPC /\ c \in PC
    BY PlainPoints DEF PlainPC
  <2>2. r \in Pass /\ r.tok = backup /\ r.pc = c
    BY <2>1 DEF Pass, TypeOK
  <2>3. Continue(p, r)
    BY <1>3
  <2>4. RestOK /\ StoreMove(p)
    BY <1>1, FaultFacts, SameStore DEF RestOK, TypeOK
  <2>5. r.pc \notin MintedPC \cup ReadPC /\ "installBackup" \in ReadPC
    BY <2>1, <2>2 DEF PlainPC, ReadPC
  <2> HIDE DEF r
  <2> QED BY <1>1, <2>2, <2>3, <2>4, <2>5, PassMove
<1> QED BY <1>2, <1>3 DEF RecoverAdminToken

LEMMA ScopeRecoveredOK ==
  ASSUME TypeOK, RecoveryInv, NEW p \in Operator, ScopeRecovered(p) PROVE StepOK
<1>1. /\ UNCHANGED store /\ pass[p] \in Pass
      /\ UNCHANGED <<keys, backup, bootstrapped, force, status, cache, edits>>
  BY DEF ScopeRecovered, crVars, TypeOK
<1>2. "restore" \in PlainPC /\ "restore" \in PC /\ "restore" \notin MintedPC \cup ReadPC
      /\ "installBackup" # "restore"
  BY PlainPoints DEF PlainPC, MintedPC, ReadPC
<1>3. CASE Goto(p, "restore") /\ UNCHANGED <<valid, faults>>
  <2>1. Leaves(p)
    BY <1>2, <1>3, GotoFacts
  <2> QED BY <1>1, <1>3, <2>1, SameStore, WriteStep DEF TypeOK
<1>4. CASE Mint(p, pass[p].tok \in valid, "restore", "restore")
  BY <1>1, <1>2, <1>4, MintStep DEF TypeOK
<1>5. CASE /\ Fault /\ IssueToken
           /\ Continue(p, [pass[p] EXCEPT !.pc = "restore", !.tok = NewToken])
  <2> DEFINE r == [pass[p] EXCEPT !.pc = "restore", !.tok = NewToken]
  <2>1. NewToken \in Token /\ NewToken \in Fresh
    BY <1>5, IssueFacts
  <2>2. r \in Pass /\ r.tok = NewToken /\ r.pc = "restore"
    BY <1>1, <1>2, <2>1 DEF Pass
  <2>3. Continue(p, r)
    BY <1>5
  <2>4. RestOK /\ StoreMove(p)
    BY <1>1, <1>5, FaultFacts, IssueFacts, SameStore DEF RestOK, TypeOK
  <2> HIDE DEF r
  <2> QED BY <1>1, <1>2, <2>1, <2>2, <2>3, <2>4, PassMove
<1> QED BY <1>3, <1>4, <1>5 DEF ScopeRecovered

LEMMA RestoreOK ==
  ASSUME TypeOK, RecoveryInv, NEW p \in Operator, Restore(p) PROVE StepOK
<1> DEFINE s == cache[p]
<1>1. /\ UNCHANGED <<keys, backup, valid, bootstrapped, force, status, cache, edits>>
      /\ Fault \/ UNCHANGED faults
      /\ s \in Secret
  BY DEF Restore, crVars, TypeOK
<1>2. Leaves(p)
  BY NextActionFacts, GotoFacts, PlainPoints DEF Restore
<1>3. \/ Update(Cached(p), Cleaned(s)) \/ UNCHANGED store
      \/ Write(NoSecret)
  BY DEF Restore, Stale
<1>4. Cleaned(s) \in Secret /\ Cleaned(s).ledger = s.ledger /\ Cleaned(s).token = s.token
  BY <1>1 DEF Cleaned, Secret
<1>5. StoreMove(p)
  <2>1. CASE Update(Cached(p), Cleaned(s))
    <3>1. s = secret /\ secret.exists
      BY <2>1 DEF Update, RecoveryInv, CopyOK
    <3>2. s.token \notin secret.ledger
      BY <3>1 DEF RecoveryInv, LiveTokenNotLedgered
    <3> QED BY <1>4, <2>1, <3>2, UpdateCached
  <2>2. CASE Write(NoSecret)
    BY <2>2, NoPassFacts DEF Write, StoreMove, LiveTokenNotLedgered
  <2> QED BY <1>3, <2>1, <2>2, SameStore
<1> QED BY <1>1, <1>2, <1>5, WriteStep DEF TypeOK

LEMMA CreateSteps ==
  ASSUME TypeOK, RecoveryInv, NEW p \in Operator,
         CreateRestored(p) \/ CreateRecoveryPlaceholder(p)
  PROVE  StepOK
<1>1. /\ UNCHANGED <<keys, backup, valid, bootstrapped, force, status, cache, edits>>
      /\ Fault \/ UNCHANGED faults
  BY DEF CreateRestored, CreateRecoveryPlaceholder, crVars
<1>2. Leaves(p)
  BY NextActionFacts DEF CreateRestored, CreateRecoveryPlaceholder
<1>3. Create(NewSecret(pass[p].tok)) \/ Create(RecoveryPlaceholder) \/ UNCHANGED store
  BY DEF CreateRestored, CreateRecoveryPlaceholder, Exists
<1>4. pass[p].tok \in Token \cup {NoToken}
  BY DEF TypeOK, Pass
<1>5. /\ RecoveryPlaceholder \in Secret /\ RecoveryPlaceholder.ledger = {}
      /\ RecoveryPlaceholder.token = Manual
  BY DEF RecoveryPlaceholder, NewSecret, Secret
<1>6. StoreMove(p)
  BY <1>3, <1>4, <1>5, NewSecretFacts, CreateFacts, SameStore
<1> QED BY <1>1, <1>2, <1>6, WriteStep DEF TypeOK

LEMMA UpdateIncompleteOK ==
  ASSUME TypeOK, RecoveryInv, NEW p \in Operator, UpdateIncompleteSecret(p) PROVE StepOK
<1> DEFINE s == cache[p]
           marked == [s EXCEPT !.incomplete = TRUE]
<1>1. /\ UNCHANGED <<keys, backup, valid, bootstrapped, force, status, cache, edits>>
      /\ Fault \/ UNCHANGED faults
      /\ s \in Secret
  BY DEF UpdateIncompleteSecret, crVars, TypeOK
<1>2. Leaves(p)
  BY NextActionFacts DEF UpdateIncompleteSecret
<1>3. Update(Cached(p), marked) \/ UNCHANGED store
  BY DEF UpdateIncompleteSecret, Stale
<1>4. marked \in Secret /\ marked.ledger = s.ledger /\ marked.token = s.token
  BY <1>1 DEF Secret
<1> HIDE DEF marked
<1>5. CASE Update(Cached(p), marked)
  <2>1. s = secret /\ secret.exists
    BY <1>5 DEF Update, RecoveryInv, CopyOK
  <2>2. s.token \notin secret.ledger
    BY <2>1 DEF RecoveryInv, LiveTokenNotLedgered
  <2>3. StoreMove(p)
    BY <1>4, <1>5, <2>2, UpdateCached
  <2> QED BY <1>1, <1>2, <2>3, WriteStep DEF TypeOK
<1>6. CASE UNCHANGED store
  BY <1>1, <1>2, <1>6, SameStore, WriteStep DEF TypeOK
<1> QED BY <1>3, <1>5, <1>6

LEMMA RecoverRecoveryKeysOK ==
  ASSUME TypeOK, RecoveryInv, NEW p \in Operator, RecoverRecoveryKeys(p) PROVE StepOK
<1>1. /\ UNCHANGED store /\ UNCHANGED <<backup, cache, edits>>
      /\ UNCHANGED <<valid, bootstrapped, force, status>>
      /\ Fault \/ UNCHANGED faults
  BY DEF RecoverRecoveryKeys, crVars
<1>2. keys' \in Keys
  BY DEF RecoverRecoveryKeys, TypeOK, Keys
<1>3. Leaves(p)
  BY ProcessPodFacts DEF RecoverRecoveryKeys
<1> QED BY <1>1, <1>2, <1>3, QuietStep DEF TypeOK

LEMMA ForcedPlaceholderOK ==
  ASSUME TypeOK, RecoveryInv, NEW p \in Operator, ForcedPlaceholder(p) PROVE StepOK
<1> DEFINE s == cache[p]
<1>1. /\ UNCHANGED <<keys, backup, valid, bootstrapped, force, status, cache, edits>>
      /\ Fault \/ UNCHANGED faults
      /\ s \in Secret
  BY DEF ForcedPlaceholder, crVars, TypeOK
<1>2. Leaves(p)
  BY GotoFacts, PlainPoints DEF ForcedPlaceholder
<1>3. \/ Update(Cached(p), ForcedSecret(s)) \/ Create(ForcedSecret(NoSecret))
      \/ UNCHANGED store
  BY DEF ForcedPlaceholder, Stale, Exists
<1>4. \A x \in Secret : /\ ForcedSecret(x) \in Secret /\ ForcedSecret(x).token = Manual
                        /\ ForcedSecret(x).ledger = x.ledger
  BY DEF ForcedSecret, Secret
<1>5. Manual = pass[p].tok => pass[p].tok \notin secret.ledger
  BY Placeholders DEF TypeOK, Secret
<1>6. StoreMove(p)
  BY <1>1, <1>3, <1>4, <1>5, NoPassFacts, UpdateCached, CreateFacts, SameStore
<1> QED BY <1>1, <1>2, <1>6, WriteStep DEF TypeOK

-----------------------------------------------------------------------------
(* The token manager.                                                      *)

LEMMA StatusSteps ==
  ASSUME TypeOK, RecoveryInv, NEW p \in Operator,
         ClearForce(p) \/ CheckTokenStatus(p) \/ LookupBackup(p) \/ MarkRootTokenRevoked(p)
  PROVE  StepOK
<1>1. /\ UNCHANGED store
      /\ UNCHANGED <<backup, cache, edits>>
      /\ UNCHANGED <<valid, bootstrapped>>
      /\ Fault \/ UNCHANGED faults
  BY DEF ClearForce, CheckTokenStatus, LookupBackup, MarkRootTokenRevoked, crVars
<1>2. /\ keys' \in Keys /\ force' \in BOOLEAN
      /\ status' \in {"Pending", "Active", "Failed"}
  BY DEF ClearForce, CheckTokenStatus, LookupBackup, MarkRootTokenRevoked, crVars, TypeOK, Keys
<1>3. Leaves(p)
  BY GotoFacts, PlainPoints
  DEF ClearForce, CheckTokenStatus, LookupBackup, MarkRootTokenRevoked
<1> QED BY <1>1, <1>2, <1>3, QuietStep DEF TypeOK

LEMMA RecoverBackupOK ==
  ASSUME TypeOK, RecoveryInv, NEW p \in Operator, RecoverBackup(p) PROVE StepOK
<1>1. /\ UNCHANGED store
      /\ UNCHANGED <<keys, backup, valid, bootstrapped, force, status, cache, edits>>
      /\ Fault \/ UNCHANGED faults
  BY DEF RecoverBackup, crVars
<1>2. CASE Goto(p, "login")
  BY <1>1, <1>2, GotoFacts, PlainPoints, SameStore, WriteStep DEF TypeOK
<1>3. CASE Continue(p, [pass[p] EXCEPT !.pc = "lookupBackup", !.tok = backup])
  <2> DEFINE r == [pass[p] EXCEPT !.pc = "lookupBackup", !.tok = backup]
  <2>1. "lookupBackup" \in PC /\ "lookupBackup" \notin MintedPC \cup ReadPC
    BY PlainPoints DEF PlainPC
  <2>2. r \in Pass /\ r.tok = backup /\ r.pc = "lookupBackup"
    BY <2>1 DEF Pass, TypeOK
  <2>3. Continue(p, r)
    BY <1>3
  <2>4. RestOK /\ StoreMove(p)
    BY <1>1, FaultFacts, SameStore DEF RestOK, TypeOK
  <2> HIDE DEF r
  <2> QED BY <1>1, <2>1, <2>2, <2>3, <2>4, PassMove
<1> QED BY <1>2, <1>3 DEF RecoverBackup

LEMMA BackUpSteps ==
  ASSUME TypeOK, RecoveryInv, NEW p \in Operator, BackupMinted(p) \/ BackupReplaced(p)
  PROVE  StepOK
<1>1. /\ UNCHANGED store
      /\ UNCHANGED <<keys, valid, bootstrapped, force, cache, edits>>
      /\ status' \in {"Pending", "Active", "Failed"}
  BY DEF BackupMinted, BackupReplaced, TypeOK
<1>2. backup' \in {backup, pass[p].tok} /\ (Fault \/ UNCHANGED faults)
  BY DEF BackupMinted, BackupReplaced, BackUp
<1>3. Leaves(p)
  BY GotoFacts, PlainPoints DEF BackupMinted, BackupReplaced
<1>4. RestOK
  BY <1>1, <1>2, FaultFacts DEF RestOK, TypeOK
<1> QED BY <1>1, <1>2, <1>3, <1>4, SameStore, LeaveStep

LEMMA MintSteps ==
  ASSUME TypeOK, RecoveryInv, NEW p \in Operator, Login(p) \/ ScopeRoot(p) PROVE StepOK
<1>1. /\ UNCHANGED <<store, keys, backup, bootstrapped, force, cache, edits>>
      /\ status' \in {"Pending", "Active", "Failed"}
  BY DEF Login, ScopeRoot, crVars, TypeOK
<1>2. /\ {"installMinted", "revokeRoot", "installReplaced"} \subseteq PC \ {"installBackup"}
      /\ "installMinted" \notin ReadPC
      /\ "rootFromKeys" \in PlainPC /\ "idle" \in PlainPC
  BY PlainPoints DEF PC, ReadPC
<1>3. CASE Login(p)
  BY <1>1, <1>2, <1>3, MintStep DEF Login
<1>4. CASE ScopeRoot(p)
  <2>1. pass[p].pc = "scopeRoot" /\ "scopeRoot" \in ReadPC
    BY <1>4 DEF ScopeRoot, ReadPC
  <2>2. AfterScoping(pass[p]) \in {"revokeRoot", "installReplaced"}
    BY DEF AfterScoping
  <2>3. Mint(p, pass[p].snap.token \in valid, AfterScoping(pass[p]), "idle")
    BY <1>4 DEF ScopeRoot
  <2> QED BY <1>1, <1>2, <2>1, <2>2, <2>3, MintStep
<1> QED BY <1>3, <1>4

LEMMA RootFromKeysOK ==
  ASSUME TypeOK, RecoveryInv, NEW p \in Operator, RootFromKeys(p) PROVE StepOK
<1>1. /\ UNCHANGED <<store, keys, backup, bootstrapped, force, cache, edits>>
      /\ UNCHANGED store
      /\ UNCHANGED <<keys, backup, bootstrapped, force, cache, edits>>
      /\ status' \in {"Pending", "Active", "Failed"}
  BY DEF RootFromKeys, TypeOK
<1>2. /\ "installScoped" \in PC /\ "installScoped" # "installBackup"
      /\ "installScoped" \notin ReadPC /\ "idle" \in PlainPC
  BY PlainPoints DEF PC, ReadPC
<1>3. CASE Mint(p, keys.root \in valid, "installScoped", "idle")
  BY <1>1, <1>2, <1>3, MintStep
<1>4. CASE /\ Goto(p, "idle") /\ UNCHANGED valid
           /\ Fault \/ UNCHANGED faults
  BY <1>1, <1>2, <1>4, GotoFacts, SameStore, WriteStep
<1> QED BY <1>3, <1>4 DEF RootFromKeys

LEMMA RevokeRootOK ==
  ASSUME TypeOK, RecoveryInv, NEW p \in Operator, RevokeRoot(p) PROVE StepOK
<1> DEFINE r == [pass[p] EXCEPT !.pc = "installReplaced"]
<1>1. /\ UNCHANGED store
      /\ UNCHANGED <<keys, backup, bootstrapped, force, status, cache, edits>>
      /\ Fault \/ UNCHANGED faults
      /\ valid' \subseteq valid
  BY DEF RevokeRoot, crVars
<1>2. pass[p].pc = "revokeRoot" /\ Continue(p, r)
  BY DEF RevokeRoot, Goto
<1>3. "installReplaced" \in PC /\ {"revokeRoot", "installReplaced"} \subseteq MintedPC \cap ReadPC
      /\ "installBackup" # "installReplaced"
  BY DEF PC, MintedPC, ReadPC
<1>4. /\ r \in Pass /\ r.pc = "installReplaced" /\ r.tok = pass[p].tok
      /\ r.snap = pass[p].snap
  BY <1>3 DEF Pass, TypeOK
<1> HIDE DEF r
<1>5. RestOK /\ StoreMove(p)
  BY <1>1, FaultFacts, SameStore DEF RestOK, TypeOK
<1>6. secret' = secret /\ (Read(p) \in current' => r.snap = secret')
  BY <1>1, <1>2, <1>3, <1>4 DEF RecoveryInv, CopyOK, store
<1> QED BY <1>1, <1>2, <1>3, <1>4, <1>5, <1>6, PassMove

\* The last step of a path, which installs the token at hand.
LEMMA InstallStep ==
  ASSUME TypeOK, RecoveryInv, NEW p \in Operator, NEW copy, NEW s \in Secret,
         NEW next \in PlainPC, NEW otherwise \in PlainPC,
         NEW done \in {"Pending", "Active", "Failed"},
         Install(p, copy, s, next, otherwise, done),
         UNCHANGED <<keys, backup, valid, bootstrapped, force, cache, edits>>,
         copy \in current => s.ledger = secret.ledger /\ pass[p].tok \notin secret.ledger,
         s.token = pass[p].tok
  PROVE  StepOK
<1>1. Leaves(p)
  BY GotoFacts DEF Install
<1>2. StoreMove(p)
  <2>1. CASE Update(copy, s)
    BY <2>1, WriteOver DEF Update
  <2>2. CASE ~Update(copy, s)
    BY <2>2 DEF Install, Stale, store, StoreMove
  <2> QED BY <2>1, <2>2
<1>3. status' \in {"Pending", "Active", "Failed"} /\ (Fault \/ UNCHANGED faults)
  BY DEF Install, TypeOK
<1> QED BY <1>1, <1>2, <1>3, WriteStep

LEMMA WrittenFacts ==
  ASSUME NEW s \in Secret, NEW t \in Token \cup {NoToken}
  PROVE  \A x \in {Healed(s, t), Scoped(s, t), Replaced(s, t)} :
           x \in Secret /\ x.token = t /\ x.ledger = s.ledger
<1>1. Healed(s, t) \in Secret /\ Healed(s, t).token = t /\ Healed(s, t).ledger = s.ledger
  BY DEF Healed, Secret
<1>2. Scoped(s, t) \in Secret /\ Scoped(s, t).token = t /\ Scoped(s, t).ledger = s.ledger
  BY <1>1 DEF Scoped, Secret
<1>3. Replaced(s, t) \in Secret /\ Replaced(s, t).token = t /\ Replaced(s, t).ledger = s.ledger
  BY DEF Replaced, Secret
<1> QED BY <1>1, <1>2, <1>3

LEMMA InstallSteps ==
  ASSUME TypeOK, RecoveryInv, NEW p \in Operator,
         InstallBackup(p) \/ InstallMinted(p) \/ InstallScoped(p) \/ InstallReplaced(p)
  PROVE  StepOK
<1> DEFINE t == pass[p].tok
           others == UNCHANGED <<keys, backup, valid, bootstrapped, force, cache, edits>>
<1>1. /\ pass[p].snap \in Secret /\ cache[p] \in Secret /\ t \in Token \cup {NoToken}
      /\ status \in {"Pending", "Active", "Failed"}
  BY DEF TypeOK, Pass
<1>2. /\ "idle" \in PlainPC /\ "login" \in PlainPC /\ "backupMinted" \in PlainPC
      /\ "rootFromKeys" \in PlainPC /\ "backupReplaced" \in PlainPC
  BY PlainPoints
<1>3. CopyOK(p) /\ MintedOK(p) /\ BackupOK(p)
  BY DEF RecoveryInv
<1>4. /\ {"installBackup", "installReplaced"} \subseteq ReadPC
      /\ {"installMinted", "installScoped", "installReplaced"} \subseteq MintedPC
  BY DEF ReadPC, MintedPC
<1>5. CASE InstallBackup(p)
  <2> DEFINE s == Healed(pass[p].snap, t)
  <2>1. pass[p].pc = "installBackup" /\ others
    BY <1>5 DEF InstallBackup
  <2>2. Install(p, Read(p), s, "idle", "login", "Active")
    BY <1>5 DEF InstallBackup
  <2>3. Read(p) \in current => pass[p].snap = secret /\ t \notin secret.ledger
    BY <1>3, <1>4, <2>1 DEF CopyOK, BackupOK
  <2>4. s \in Secret /\ s.token = t /\ s.ledger = pass[p].snap.ledger
    BY <1>1, WrittenFacts
  <2> HIDE DEF s
  <2> QED BY <1>1, <1>2, <2>1, <2>2, <2>3, <2>4, InstallStep
<1>6. CASE InstallMinted(p)
  <2> DEFINE s == Healed(cache[p], t)
  <2>1. pass[p].pc = "installMinted" /\ others
    BY <1>6 DEF InstallMinted
  <2>2. Install(p, Cached(p), s, "backupMinted", "rootFromKeys", status)
    BY <1>6 DEF InstallMinted
  <2>3. /\ t \notin secret.ledger
        /\ Cached(p) \in current => cache[p] = secret
    BY <1>3, <1>4, <2>1 DEF CopyOK, MintedOK
  <2>4. s \in Secret /\ s.token = t /\ s.ledger = cache[p].ledger
    BY <1>1, WrittenFacts
  <2> HIDE DEF s
  <2> QED BY <1>1, <1>2, <2>1, <2>2, <2>3, <2>4, InstallStep
<1>7. CASE InstallScoped(p)
  <2> DEFINE s == Scoped(cache[p], t)
  <2>1. pass[p].pc = "installScoped" /\ others
    BY <1>7 DEF InstallScoped
  <2>2. Install(p, Cached(p), s, "idle", "idle", "Active")
    BY <1>7 DEF InstallScoped
  <2>3. /\ t \notin secret.ledger
        /\ Cached(p) \in current => cache[p] = secret
    BY <1>3, <1>4, <2>1 DEF CopyOK, MintedOK
  <2>4. s \in Secret /\ s.token = t /\ s.ledger = cache[p].ledger
    BY <1>1, WrittenFacts
  <2> HIDE DEF s
  <2> QED BY <1>1, <1>2, <2>1, <2>2, <2>3, <2>4, InstallStep
<1>8. CASE InstallReplaced(p)
  <2> DEFINE s == Replaced(pass[p].snap, t)
  <2>1. pass[p].pc = "installReplaced" /\ others
    BY <1>8 DEF InstallReplaced
  <2>2. Install(p, Read(p), s, "backupReplaced", "idle", status)
    BY <1>8 DEF InstallReplaced
  <2>3. /\ t \notin secret.ledger
        /\ Read(p) \in current => pass[p].snap = secret
    BY <1>3, <1>4, <2>1 DEF CopyOK, MintedOK
  <2>4. s \in Secret /\ s.token = t /\ s.ledger = pass[p].snap.ledger
    BY <1>1, WrittenFacts
  <2> HIDE DEF s
  <2> QED BY <1>1, <1>2, <2>1, <2>2, <2>3, <2>4, InstallStep
<1> QED BY <1>5, <1>6, <1>7, <1>8

\* The reads for a later Update.
LEMMA CheckLedgerOK ==
  ASSUME TypeOK, RecoveryInv, NEW p \in Operator, CheckLedger(p) PROVE StepOK
<1> DEFINE r == [pass[p] EXCEPT !.pc = "installBackup", !.snap = secret]
<1>1. /\ UNCHANGED <<secret, keys, backup, valid, bootstrapped, force, status,
                     cache, edits>>
      /\ Fault \/ UNCHANGED faults
      /\ current' \subseteq current \cup {Read(p)}
  BY DEF CheckLedger, crVars
<1>2. RestOK /\ StoreMove(p)
  BY <1>1, FaultFacts DEF RestOK, StoreMove, TypeOK
<1>3. CASE Goto(p, "login")
  BY <1>1, <1>2, <1>3, GotoFacts, PlainPoints, LeaveStep
<1>4. CASE Continue(p, r) /\ ~Retired(pass[p].tok, secret)
  <2>1. "installBackup" \in PC /\ "installBackup" \notin MintedPC
    BY DEF PC, MintedPC
  <2>2. /\ r \in Pass /\ r.pc = "installBackup" /\ r.tok = pass[p].tok
        /\ r.snap = secret
    BY <2>1 DEF Pass, TypeOK
  <2> HIDE DEF r
  <2>3. r.snap = secret' /\ r.tok \notin r.snap.ledger
    BY <1>1, <1>4, <2>2 DEF Retired
  <2> QED BY <1>1, <1>2, <1>4, <2>1, <2>2, <2>3, PassMove
<1> QED BY <1>3, <1>4 DEF CheckLedger

LEMMA ReplaceRootTokenOK ==
  ASSUME TypeOK, RecoveryInv, NEW p \in Operator, ReplaceRootToken(p) PROVE StepOK
<1> DEFINE r == [pass[p] EXCEPT !.pc = "scopeRoot", !.snap = cache[p]]
<1>1. /\ UNCHANGED <<secret, keys, backup, valid, bootstrapped, force, status,
                     cache, edits>>
      /\ Fault \/ UNCHANGED faults
      /\ current' \subseteq current \cup {Read(p)}
  BY DEF ReplaceRootToken, crVars
<1>2. RestOK /\ StoreMove(p)
  BY <1>1, FaultFacts DEF RestOK, StoreMove, TypeOK
<1>3. CASE Goto(p, "idle")
  BY <1>1, <1>2, <1>3, GotoFacts, PlainPoints, LeaveStep
<1>4. CASE /\ Continue(p, r)
           /\ current' = IF Cached(p) \in current THEN current \cup {Read(p)}
                         ELSE current \ {Read(p)}
  <2>1. "scopeRoot" \in PC /\ "scopeRoot" \notin MintedPC /\ "scopeRoot" # "installBackup"
    BY DEF PC, MintedPC
  <2>2. /\ r \in Pass /\ r.pc = "scopeRoot" /\ r.tok = pass[p].tok
        /\ r.snap = cache[p]
    BY <2>1 DEF Pass, TypeOK
  <2> HIDE DEF r
  <2>3. Read(p) \in current' => r.snap = secret'
    BY <1>1, <1>4, <2>2 DEF RecoveryInv, CopyOK
  <2> QED BY <1>1, <1>2, <1>4, <2>1, <2>2, <2>3, PassMove
<1> QED BY <1>3, <1>4 DEF ReplaceRootToken

LEMMA CrashOK ==
  ASSUME TypeOK, RecoveryInv, NEW p \in Operator, Crash(p) PROVE StepOK
<1>1. /\ UNCHANGED <<secret, keys, backup, valid, bootstrapped, force, status,
                     cache, edits>>
      /\ Fault /\ current' = current \ {Read(p)}
  BY DEF Crash, crVars
<1>2. RestOK /\ StoreMove(p)
  BY <1>1, FaultFacts DEF RestOK, StoreMove, TypeOK
<1>3. Leaves(p)
  BY GotoFacts, PlainPoints DEF Crash
<1> QED BY <1>1, <1>2, <1>3, LeaveStep

LEMMA PassStepOK ==
  ASSUME TypeOK, RecoveryInv, NEW p \in Operator, PassStep(p) PROVE StepOK
  BY VerifyOK, RecoverAdminTokenOK, ScopeRecoveredOK, RestoreOK, CreateSteps,
     UpdateIncompleteOK, RecoverRecoveryKeysOK, ForcedPlaceholderOK, StatusSteps,
     RecoverBackupOK, BackUpSteps, MintSteps, RootFromKeysOK, RevokeRootOK,
     InstallSteps, CheckLedgerOK, ReplaceRootTokenOK
  DEF PassStep

-----------------------------------------------------------------------------
(* The watch, and everybody else.                                          *)

LEMMA SyncCacheOK ==
  ASSUME TypeOK, RecoveryInv, NEW p \in Operator, SyncCache(p) PROVE StepOK
<1>1. /\ secret' = secret /\ pass' = pass /\ cache' = [cache EXCEPT ![p] = secret]
      /\ current' = current \cup {Cached(p)}
      /\ UNCHANGED <<keys, backup, valid, bootstrapped, force, status, faults, edits>>
  BY DEF SyncCache, crVars
<1>2. \A q \in Operator : Read(q) # Cached(p) /\ (q # p => Cached(q) # Cached(p))
  BY DEF Read, Cached
<1>3. TypeOK'
  BY <1>1 DEF TypeOK, Copies, Cached
<1>4. LiveTokenNotLedgered' /\ LedgerKept
  BY <1>1 DEF RecoveryInv, LiveTokenNotLedgered, LedgerKept
<1>5. ASSUME NEW q \in Operator PROVE CopyOK(q)' /\ MintedOK(q)' /\ BackupOK(q)'
  <2>1. CopyOK(q) /\ MintedOK(q) /\ BackupOK(q)
    BY DEF RecoveryInv
  <2>2. Cached(q)' = Cached(q) /\ Read(q)' = Read(q)
    BY DEF Cached, Read
  <2>3. cache'[q] = (IF q = p THEN secret ELSE cache[q])
    BY <1>1 DEF TypeOK
  <2>4. CopyOK(q)'
    BY <1>1, <1>2, <2>1, <2>2, <2>3 DEF CopyOK
  <2> QED BY <1>1, <2>1, <2>4 DEF MintedOK, BackupOK
<1> QED BY <1>3, <1>4, <1>5 DEF StepOK, RecoveryInv

\* The Secret stays, or is written by somebody who brings no token but a new one.
LEMMA OtherMove ==
  ASSUME TypeOK, RecoveryInv, RestOK, pass' = pass, LedgerKept,
         backup' \in {backup} \cup Fresh,
         \/ secret' = secret /\ current' = current
         \/ /\ secret' \in Secret /\ current' = {} /\ LiveTokenNotLedgered'
            /\ secret'.ledger \subseteq secret.ledger \cup {secret.token}
            /\ secret'.token \in {secret.token, NoToken, Temporary} \cup Fresh
  PROVE  StepOK
<1>1. LiveTokenNotLedgered
  BY DEF RecoveryInv
<1>2. TypeOK'
  BY FreshFacts DEF TypeOK, RestOK
<1>3. LiveTokenNotLedgered'
  BY <1>1 DEF LiveTokenNotLedgered
<1>4. ASSUME NEW q \in Operator PROVE CopyOK(q)' /\ MintedOK(q)' /\ BackupOK(q)'
  <2>1. CopyOK(q) /\ MintedOK(q) /\ BackupOK(q)
    BY DEF RecoveryInv
  <2>2. Cached(q)' = Cached(q) /\ Read(q)' = Read(q)
    BY DEF Cached, Read
  <2>3. CopyOK(q)'
    BY <2>1, <2>2 DEF CopyOK, RestOK
  <2>4. MintedOK(q)'
    BY <2>1, FreshFacts, Placeholders DEF MintedOK
  <2> QED BY <2>1, <2>3, <2>4 DEF BackupOK
<1> QED BY <1>2, <1>3, <1>4 DEF StepOK, RecoveryInv

LEMMA RotateOK ==
  ASSUME TypeOK, RecoveryInv, Rotate PROVE StepOK
<1> DEFINE s == [secret EXCEPT !.token = NewToken, !.ledger = secret.ledger \cup {secret.token}]
<1>1. /\ NewToken \in Fresh /\ NewToken \in Token /\ NewToken # secret.token
      /\ NewToken \notin secret.ledger
  BY IssueFacts, FreshFacts DEF Rotate
<1>2. secret \in Secret /\ secret.token \in Token /\ secret.ledger \subseteq Token /\ secret.exists
  BY DEF Rotate, RotationPossible, TypeOK, Secret
<1>3. /\ s \in Secret /\ s.token = NewToken /\ s.ledger = secret.ledger \cup {secret.token}
  BY <1>1, <1>2 DEF Secret
<1>4. secret' = s /\ current' = {}
  BY DEF Rotate, Write
<1>5. RestOK /\ pass' = pass
  BY IssueFacts DEF Rotate, RestOK, TypeOK, crVars
<1>6. backup' \in {backup} \cup Fresh
  BY <1>1 DEF Rotate
<1> HIDE DEF s
<1>7. LiveTokenNotLedgered' /\ LedgerKept
  BY <1>1, <1>2, <1>3, <1>4 DEF LiveTokenNotLedgered, LedgerKept
<1> QED BY <1>1, <1>2, <1>3, <1>4, <1>5, <1>6, <1>7, OtherMove

LEMMA RevokeRetiredOK ==
  ASSUME TypeOK, RecoveryInv, RevokeRetired PROVE StepOK
<1> DEFINE s == [secret EXCEPT !.ledger = {}]
<1>1. s \in Secret /\ s.token = secret.token /\ s.ledger = {}
  BY DEF TypeOK, Secret
<1>2. secret' = s /\ current' = {} /\ valid' = valid \ (secret.ledger \ {secret.token})
  BY DEF RevokeRetired, Write
<1>3. RestOK /\ pass' = pass /\ backup' = backup
  BY DEF RevokeRetired, RestOK, TypeOK, crVars
<1> HIDE DEF s
<1>4. LiveTokenNotLedgered' /\ LedgerKept
  BY <1>1, <1>2 DEF LiveTokenNotLedgered, LedgerKept
<1> QED BY <1>1, <1>2, <1>3, <1>4, OtherMove

LEMMA DeleteSecretOK ==
  ASSUME TypeOK, RecoveryInv, DeleteSecret PROVE StepOK
<1>1. secret' = NoSecret /\ current' = {}
  BY DEF DeleteSecret, Write
<1>2. RestOK /\ pass' = pass /\ backup' = backup
  BY DEF DeleteSecret, RestOK, TypeOK, crVars
<1>3. LiveTokenNotLedgered' /\ LedgerKept
  BY <1>1, NoPassFacts DEF LiveTokenNotLedgered, LedgerKept
<1> QED BY <1>1, <1>2, <1>3, NoPassFacts, OtherMove

LEMMA DefaceOK ==
  ASSUME TypeOK, RecoveryInv, NEW v \in {Temporary, NoToken}, Deface(v) PROVE StepOK
<1> DEFINE s == [secret EXCEPT !.token = v]
<1>1. s \in Secret /\ s.token = v /\ s.ledger = secret.ledger
  BY DEF TypeOK, Secret
<1>2. secret' = s /\ current' = {} /\ secret.ledger \subseteq Token
  BY DEF Deface, Write, TypeOK, Secret
<1>3. RestOK /\ pass' = pass /\ backup' = backup
  BY DEF Deface, RestOK, TypeOK, crVars
<1> HIDE DEF s
<1>4. LiveTokenNotLedgered' /\ LedgerKept
  BY <1>1, <1>2, Placeholders DEF LiveTokenNotLedgered, LedgerKept
<1> QED BY <1>1, <1>2, <1>3, <1>4, OtherMove

LEMMA RecoverByHandOK ==
  ASSUME TypeOK, RecoveryInv, RecoverByHand PROVE StepOK
<1> DEFINE s == [secret EXCEPT !.exists = TRUE, !.token = NewToken]
<1>1. NewToken \in Token /\ NewToken \in Fresh /\ NewToken \notin secret.ledger
  BY IssueFacts, FreshFacts DEF RecoverByHand
<1>2. s \in Secret /\ s.token = NewToken /\ s.ledger = secret.ledger
  BY <1>1 DEF TypeOK, Secret
<1>3. secret' = s /\ current' = {}
  BY DEF RecoverByHand, Write
<1>4. RestOK /\ pass' = pass /\ backup' = backup
  BY IssueFacts DEF RecoverByHand, RestOK, TypeOK, crVars
<1> HIDE DEF s
<1>5. LiveTokenNotLedgered' /\ LedgerKept
  BY <1>1, <1>2, <1>3 DEF LiveTokenNotLedgered, LedgerKept
<1> QED BY <1>1, <1>2, <1>3, <1>4, <1>5, OtherMove

\* What leaves the Secret alone.
LEMMA NoKeysOK ==
  [exists |-> FALSE, root |-> NoToken, shares |-> FALSE, revoked |-> FALSE] \in Keys
  BY DEF Keys

LEMMA ElsewhereOK ==
  ASSUME TypeOK, RecoveryInv,
         \/ \E t \in Token : Expire(t)
         \/ DeleteKeys \/ CompleteBootstrap \/ RequestForce \/ UNCHANGED vars
  PROVE  StepOK
<1>1. /\ secret' = secret /\ current' = current /\ pass' = pass /\ backup' = backup
      /\ valid' \subseteq valid /\ cache' = cache /\ faults' = faults
  BY DEF Expire, DeleteKeys, CompleteBootstrap, RequestForce, vars, store, crVars
<1>2. keys' \in Keys
  <2>1. CASE DeleteKeys
    BY <2>1, NoKeysOK DEF DeleteKeys
  <2>2. CASE ~DeleteKeys
    <3>1. keys' = keys
      BY <2>2 DEF Expire, CompleteBootstrap, RequestForce, vars
    <3> QED BY <3>1 DEF TypeOK
  <2> QED BY <2>1, <2>2
<1>3. bootstrapped' \in BOOLEAN /\ force' \in BOOLEAN
  <2>1. CASE \E t \in Token : Expire(t)
    BY <2>1 DEF Expire, crVars, TypeOK
  <2>2. CASE DeleteKeys
    BY <2>2 DEF DeleteKeys, crVars, TypeOK
  <2>3. CASE CompleteBootstrap
    BY <2>3 DEF CompleteBootstrap, TypeOK
  <2>4. CASE RequestForce
    BY <2>4 DEF RequestForce, TypeOK
  <2>5. CASE UNCHANGED vars
    BY <2>5 DEF vars, TypeOK
  <2> QED BY <2>1, <2>2, <2>3, <2>4, <2>5
<1>4. status' \in {"Pending", "Active", "Failed"}
  <2>1. status' = status
    BY DEF Expire, DeleteKeys, CompleteBootstrap, RequestForce, vars, crVars
  <2> QED BY <2>1 DEF TypeOK
<1>5. edits' \in Nat
  <2>1. edits' = edits \/ (edits > 0 /\ edits' = edits - 1)
    BY DEF Expire, DeleteKeys, CompleteBootstrap, RequestForce, vars
  <2> QED BY <2>1 DEF TypeOK
<1>6. RestOK /\ LedgerKept
  BY <1>1, <1>2, <1>3, <1>4, <1>5 DEF RestOK, LedgerKept, TypeOK
<1> QED BY <1>1, <1>6, OtherMove

-----------------------------------------------------------------------------
(* The theorems.                                                           *)

LEMMA RecoveryInit == ASSUME Init PROVE TypeOK /\ RecoveryInv
<1>1. /\ RootSecret \in Secret /\ RootSecret.token = Root /\ RootSecret.ledger = {}
      /\ Root \in Token
  BY RecoveryAssumption DEF RootSecret, NewSecret, Secret
<1>2. /\ secret = RootSecret /\ valid = {Root}
      /\ cache = [p \in Operator |-> secret] /\ pass = [p \in Operator |-> NoPass]
      /\ backup \in {NoToken, Root} /\ current = {Cached(p) : p \in Operator}
      /\ current \subseteq Copies
  BY DEF Init, Cached, Copies
<1>3. keys \in Keys
  BY RecoveryAssumption DEF Init, Keys
<1>4. TypeOK
  <2>1. secret \in Secret /\ cache \in [Operator -> Secret] /\ pass \in [Operator -> Pass]
    BY <1>1, <1>2, NoPassFacts
  <2>2. backup \in Token \cup {NoToken} /\ valid \subseteq Token
    BY <1>1, <1>2
  <2>3. bootstrapped \in BOOLEAN /\ force \in BOOLEAN /\ status \in {"Pending", "Active", "Failed"}
    BY DEF Init
  <2>4. faults \in Nat /\ edits \in Nat
    BY RecoveryAssumption DEF Init
  <2> QED BY <1>2, <1>3, <2>1, <2>2, <2>3, <2>4 DEF TypeOK
<1>5. LiveTokenNotLedgered
  BY <1>1, <1>2, NoPassFacts DEF LiveTokenNotLedgered
<1>6. ASSUME NEW p \in Operator PROVE CopyOK(p) /\ MintedOK(p) /\ BackupOK(p)
  BY <1>2, NoPassFacts DEF CopyOK, MintedOK, BackupOK, MintedPC, ReadPC
<1> QED BY <1>4, <1>5, <1>6 DEF RecoveryInv

LEMMA RecoveryNext == ASSUME TypeOK, RecoveryInv, [Next]_vars PROVE StepOK
  BY PassStepOK, CrashOK, SyncCacheOK, RotateOK, RevokeRetiredOK, DeleteSecretOK,
     DefaceOK, RecoverByHandOK, ElsewhereOK
  DEF Next, Others

\* Every process that is to install a token has read the ledger the token goes with,
\* and names the tokens it holds from the Secret, Vault or the backup: the inductive
\* invariant of the other theorems, on well-typed states (manager_simple.go:306).
THEOREM RecoveryInvariant == Spec => [](TypeOK /\ RecoveryInv)
<1>1. Init => TypeOK /\ RecoveryInv
  BY RecoveryInit
<1>2. TypeOK /\ RecoveryInv /\ [Next]_vars => (TypeOK /\ RecoveryInv)'
  BY RecoveryNext DEF StepOK
<1> QED BY <1>1, <1>2, PTL DEF Spec

\* Every state is well typed, whichever process reads, writes, restores or crashes
\* next: the tokens held, backed up and valid are Vault's.
THEOREM TypeCorrect == Spec => []TypeOK
BY RecoveryInvariant, PTL

\* Whatever overlaps, fails, is lost or edited: a path of recovery, self-heal or
\* root replacement never leaves a token in the Secret that the Secret's own ledger
\* is about to revoke (manager_simple.go:306).
THEOREM NeverInstallsRetired == Spec => []LiveTokenNotLedgered
<1>1. RecoveryInv => LiveTokenNotLedgered
  BY DEF RecoveryInv
<1> QED BY <1>1, RecoveryInvariant, PTL

\* None of those paths rewrites the Secret from an old copy or from scratch: as long
\* as it is there, only dead tokens leave its ledger (manager_simple.go:941).
THEOREM RetiredNeverForgotten == Spec => LedgerSurvives
<1>1. Init => TypeOK /\ RecoveryInv
  BY RecoveryInit
<1>2. TypeOK /\ RecoveryInv /\ [Next]_vars => (TypeOK /\ RecoveryInv)' /\ LedgerKept
  BY RecoveryNext DEF StepOK
<1> QED BY <1>1, <1>2, PTL DEF Spec, LedgerSurvives, LedgerKept
=============================================================================
