---------------------------- MODULE CustodyProofs ----------------------------
(***************************************************************************)
(* Rotation implements TokenCustody, as long as no other writer puts a      *)
(* retired token back: every step is one of the abstract steps under the    *)
(* mapping of TokenRotationInvariant, which retires what is clear.          *)
(***************************************************************************)
EXTENDS RevocationProofs

\* No write and no pass carries a token that was clear before the step.
NoneReturns ==
  /\ \A w \in Landable' : ~Clear(w.token, Operator)
  /\ \A q \in Operator : \A t : Installing(q, t)' => ~Clear(t, Operator)

\* No write can land any more, and no pass will send one that could.
AllEnded ==
  /\ Landable' = {}
  /\ \A q \in Operator : \A t : ~Installing(q, t)'

LEMMA ClearStays ==
  ASSUME NoneReturns, issued \subseteq issued', ~Clear(secret'.token, Operator),
         NEW t, Clear(t, Operator)
  PROVE  Clear(t, Operator)'
  BY DEF NoneReturns, Clear

\* The live token stays: swaps are given up, or nothing happens.
LEMMA Withdrawal ==
  ASSUME TypeOK, NoneReturns, secret'.token = secret.token, UNCHANGED <<issued, valid>>
  PROVE  Custody!Next
<1> DEFINE S == {t \in Token : Clear(t, Operator)' /\ ~Clear(t, Operator)}
<1>1. \A t : Clear(t, Operator) => Clear(t, Operator)'
  BY ClearStays DEF Clear
<1>2. S \subseteq Custody!Candidate
  BY DEF Clear, Custody!Candidate
<1>3. Custody!Withdraw(S)
  BY <1>1 DEF Custody!Withdraw
<1> HIDE DEF S
<1> QED BY <1>2, <1>3 DEF Custody!Next

\* A token that was on its way takes over, and no other is on its way then.
LEMMA Takeover ==
  ASSUME TypeOK, AllEnded, UNCHANGED <<issued, valid>>, secret'.token \in issued,
         secret'.token = secret.token \/ ~Clear(secret'.token, Operator)
  PROVE  Custody!Next
<1>1. CASE secret'.token = secret.token
  BY <1>1, Withdrawal DEF AllEnded, NoneReturns
<1>2. CASE secret'.token # secret.token
  <2>1. secret'.token \in Token /\ secret'.token \in Custody!Candidate
    BY <1>2 DEF TypeOK, Custody!Candidate
  <2>2. \A t \in Token : Clear(t, Operator)' <=> t \in issued /\ t # secret'.token
    BY DEF AllEnded, Clear
  <2>3. Custody!Handover(secret'.token)
    BY <2>1, <2>2 DEF Custody!Handover, TypeOK
  <2> QED BY <2>1, <2>3 DEF Custody!Next
<1> QED BY <1>1, <1>2

\* A call that does not concern the Secret leaves every other swap alone.
LEMMA QuietCustody ==
  ASSUME TypeOK, NEW p \in Operator, NEW r, Continue(p, r),
         r.pc \notin {"ledger", "swap"}, UNCHANGED <<secret, writes>>
  PROVE  NoneReturns
<1>1. pass'[p] = r /\ \A q \in Operator \ {p} : pass'[q] = pass[q]
  BY DEF Continue, TypeOK
<1>2. \A q \in Operator : \A t : Installing(q, t)' => Installing(q, t)
  BY <1>1 DEF Installing
<1> QED BY <1>2 DEF NoneReturns, Landable, Clear

LEMMA QuietStep ==
  ASSUME TypeOK, NEW p \in Operator, NEW r, Continue(p, r),
         r.pc \notin {"ledger", "swap"}, UNCHANGED <<secret, writes, issued, valid>>
  PROVE  Custody!Next
  BY QuietCustody, Withdrawal

\* A write that keeps the live token, whatever its outcome.
LEMMA WriteStep ==
  ASSUME TypeOK, RevocationInv, NEW p \in Operator, NEW r, Continue(p, r),
         NEW s \in Secret, Landed(s) \/ Failed(s),
         s.rv = secret.rv => s.token = secret.token,
         r.pc \notin {"ledger", "swap"} \/ ~Clear(r.swap, Operator),
         UNCHANGED <<issued, valid>>
  PROVE  Custody!Next
<1>1. /\ pass'[p] = r
      /\ \A q \in Operator \ {p} : pass'[q] = pass[q] /\ pass[q].snap.rv \in Nat
  BY DEF Continue, TypeOK, Pass, Secret
<1>2. /\ secret.rv \in Nat /\ Stored(s).rv = s.rv + 1 /\ Stored(s).token = s.token
      /\ \A w \in writes : w.rv \in Nat /\ w.rv <= secret.rv
  BY DEF TypeOK, StoreTypeOK, Secret, Stored, RevocationInv, VersionsOK
<1>3. \/ secret' = secret /\ writes' = writes
      \/ secret' = secret /\ writes' = writes \cup {s}
      \/ s.rv = secret.rv /\ secret' = Stored(s) /\ writes' = writes
  BY DEF Landed, Failed, DefinitelyRejected, Refused, Uncertain, Conflict, storeVars
<1>4. secret'.token = secret.token
  BY <1>2, <1>3
<1>5. \A w \in Landable' : ~Clear(w.token, Operator)
  BY <1>2, <1>3 DEF Landable, Clear
<1>6. ASSUME NEW q \in Operator, NEW t, Installing(q, t)' PROVE ~Clear(t, Operator)
  <2>1. CASE q = p
    BY <1>1, <1>6, <2>1 DEF Installing
  <2>2. CASE q # p
    <3>1. pass[q].pc # "idle" => pass[q].snap.rv <= secret.rv
      BY DEF RevocationInv, VersionsOK
    <3>2. Installing(q, t)
      BY <1>1, <1>2, <1>3, <1>6, <2>2, <3>1 DEF Installing
    <3> QED BY <3>2 DEF Clear
  <2> QED BY <2>1, <2>2
<1> QED BY <1>4, <1>5, <1>6, Withdrawal DEF NoneReturns

-----------------------------------------------------------------------------
(* The steps of a pass.                                                    *)

LEMMA ReturnStep ==
  ASSUME TypeOK, NEW p \in Operator, Return(p),
         UNCHANGED <<secret, writes, issued, valid>>
  PROVE  Custody!Next
<1>1. NoPass.pc = "idle"
  BY DEF NoPass
<1> QED BY <1>1, QuietStep DEF Return

LEMMA StopFencingStep ==
  ASSUME TypeOK, NEW p \in Operator, StopFencing(p)
  PROVE  \E r : Continue(p, r) /\ r.pc \notin {"ledger", "swap"}
<1>1. NoPass.pc = "idle" /\ [pass[p] EXCEPT !.pc = "fail"].pc = "fail"
  BY DEF NoPass, TypeOK, Pass
<1> QED BY <1>1 DEF StopFencing

\* The calls that read, or talk to Vault without an effect there.
LEMMA ReadSteps ==
  ASSUME TypeOK, NEW p \in Operator,
         \/ ReadSecret(p) \/ LookupSelf(p) \/ LookupFails(p) \/ FenceRead(p)
         \/ StartRevoke(p) \/ SkipRotation(p) \/ MintRefused(p) \/ Backup(p)
         \/ Fail(p) \/ Crash(p)
  PROVE  Custody!Next
<1> DEFINE quiet == UNCHANGED <<secret, writes, issued, valid>>
<1>1. NoPass \in Pass /\ pass[p] \in Pass
  BY NoPassType DEF TypeOK
<1>2. ASSUME ReadSecret(p) PROVE Custody!Next
  <2>1. [NoPass EXCEPT !.pc = "lookup", !.snap = secret, !.own = owned].pc = "lookup"
    BY <1>1 DEF Pass
  <2> QED BY <1>2, <2>1, QuietStep DEF ReadSecret, storeVars, vaultVars
<1>3. ASSUME LookupSelf(p) PROVE Custody!Next
  <2> DEFINE r == [pass[p] EXCEPT !.now = clock]
             v == [r EXCEPT !.pc = "revoke"]
             f(e) == [r EXCEPT !.pc = "fenceRead", !.swap = e.swapID]
  <2>1. v.pc = "revoke" /\ \A e : f(e).pc = "fenceRead"
    BY <1>1 DEF Pass
  <2>2. Continue(p, v) \/ \E e : Continue(p, f(e))
    BY <1>3 DEF LookupSelf
  <2>3. quiet
    BY <1>3 DEF LookupSelf, storeVars, vaultVars
  <2> HIDE DEF v, f
  <2> QED BY <2>1, <2>2, <2>3, QuietStep
<1>4. ASSUME FenceRead(p) PROVE Custody!Next
  <2> DEFINE r == [pass[p] EXCEPT !.pc = "fenceWrite", !.fresh = secret]
  <2>1. r.pc = "fenceWrite"
    BY <1>1 DEF Pass
  <2>2. Continue(p, r) \/ StopFencing(p)
    BY <1>4 DEF FenceRead
  <2>3. quiet
    BY <1>4 DEF FenceRead, vaultVars
  <2> HIDE DEF r
  <2> QED BY <2>1, <2>2, <2>3, StopFencingStep, QuietStep
<1>5. ASSUME StartRevoke(p) PROVE Custody!Next
  <2>1. PICK T, K : Continue(p, [pass[p] EXCEPT !.pc = "revoking", !.todo = T, !.kept = K])
    BY <1>5 DEF StartRevoke
  <2>2. [pass[p] EXCEPT !.pc = "revoking", !.todo = T, !.kept = K].pc = "revoking"
    BY <1>1 DEF Pass
  <2>3. quiet
    BY <1>5 DEF StartRevoke, storeVars, vaultVars
  <2> QED BY <2>1, <2>2, <2>3, QuietStep
<1>6. ASSUME MintRefused(p) PROVE Custody!Next
  <2>1. [pass[p] EXCEPT !.pc = "fail"].pc = "fail"
    BY <1>1 DEF Pass
  <2> QED BY <1>6, <2>1, QuietStep DEF MintRefused, vaultVars
<1>7. ASSUME Fail(p) PROVE Custody!Next
  <2>1. PICK f : \/ Continue(p, [pass[p] EXCEPT !.pc = "backoffWrite", !.fresh = f])
                 \/ Return(p)
    BY <1>7 DEF Fail
  <2>2. [pass[p] EXCEPT !.pc = "backoffWrite", !.fresh = f].pc = "backoffWrite"
    BY <1>1 DEF Pass
  <2>3. quiet
    BY <1>7 DEF Fail, vaultVars
  <2> QED BY <2>1, <2>2, <2>3, QuietStep, ReturnStep
<1>8. ASSUME LookupFails(p) \/ SkipRotation(p) \/ Backup(p) \/ Crash(p)
      PROVE  Custody!Next
  BY <1>8, ReturnStep DEF LookupFails, SkipRotation, Backup, Crash, storeVars, vaultVars
<1> QED BY <1>2, <1>3, <1>4, <1>5, <1>6, <1>7, <1>8

\* The calls that write the Secret and leave its token alone.
LEMMA WriteSteps ==
  ASSUME TypeOK, RevocationInv, NEW p \in Operator,
         \/ FenceWrite(p) \/ Settle(p) \/ RevokeWrite(p) \/ LedgerWrite(p)
         \/ BackoffWrite(p)
  PROVE  Custody!Next
<1> DEFINE r == pass[p]
           quiet == UNCHANGED <<secret, writes, issued, valid>>
<1>1. /\ r \in Pass /\ r.snap \in Secret
      /\ r.pc # "idle" /\ r.snap.rv = secret.rv => r.snap.token = secret.token
      /\ UsesFresh(p) => /\ r.fresh \in Secret
                         /\ r.fresh.rv = secret.rv => r.fresh.token = secret.token
  BY SnapFacts, FreshFacts DEF TypeOK, Pass
<1>2. ASSUME FenceWrite(p) PROVE Custody!Next
  <2> DEFINE s == r.fresh
             x == [r EXCEPT !.pc = "settle", !.fresh = Stored(s)]
             y == [r EXCEPT !.pc = "fenceRead", !.tries = r.tries + 1]
  <2>1. UsesFresh(p) /\ UNCHANGED <<issued, valid>>
    BY <1>2 DEF FenceWrite, UsesFresh, vaultVars
  <2>2. x.pc = "settle" /\ y.pc = "fenceRead"
    BY <1>1 DEF Pass
  <2>3. /\ Landed(s) \/ Failed(s)
        /\ Continue(p, x) \/ Continue(p, y) \/ StopFencing(p)
    BY <1>2 DEF FenceWrite, Failed, DefinitelyRejected
  <2> HIDE DEF x, y
  <2>4. PICK z : Continue(p, z) /\ z.pc \notin {"ledger", "swap"}
    BY <2>2, <2>3, StopFencingStep
  <2> QED BY <1>1, <2>1, <2>3, <2>4, WriteStep
<1>3. ASSUME Settle(p) PROVE Custody!Next
  <2> DEFINE s == [r.fresh EXCEPT !.ledger = SettledLedger(r)]
             c == IF r.failing THEN "fail" ELSE "revoke"
             x == [r EXCEPT !.snap = Stored(s), !.pc = c]
  <2>1. UsesFresh(p) /\ r.pc # "idle" /\ UNCHANGED <<issued, valid>>
    BY <1>3 DEF Settle, UsesFresh, vaultVars
  <2>2. c \in {"fail", "revoke"} /\ x.pc = c
    BY <1>1 DEF Pass
  <2>3. /\ s \in Secret /\ s.rv = r.fresh.rv /\ s.token = r.fresh.token
    BY <1>1, <2>1, SettledLedgerType DEF Secret, TypeOK
  <2>4. \/ StopFencing(p) /\ UNCHANGED storeVars
        \/ Landed(s) /\ Continue(p, x)
        \/ Failed(s) /\ StopFencing(p)
    BY <1>3 DEF Settle
  <2> HIDE DEF c, s, x
  <2>5. PICK z : Continue(p, z) /\ z.pc \notin {"ledger", "swap"}
    BY <2>2, <2>4, StopFencingStep
  <2>6. CASE UNCHANGED storeVars
    BY <2>1, <2>5, <2>6, QuietStep DEF storeVars
  <2>7. CASE Landed(s) \/ Failed(s)
    BY <1>1, <2>1, <2>3, <2>5, <2>7, WriteStep
  <2> QED BY <2>4, <2>6, <2>7
<1>4. ASSUME RevokeWrite(p) PROVE Custody!Next
  <2> DEFINE s == [r.snap EXCEPT !.ledger = r.kept, !.cancel = NoToken,
                                 !.autoRotate = AutoRotate]
             x == [r EXCEPT !.pc = "rotate", !.kept = {}]
             y == [x EXCEPT !.snap = Stored(s)]
  <2>1. r.pc = "revoking" /\ UNCHANGED <<issued, valid>>
    BY <1>4 DEF RevokeWrite, vaultVars
  <2>2. x.pc = "rotate" /\ y.pc = "rotate"
    BY <1>1 DEF Pass
  <2>3. r.kept \subseteq Entry
    BY <1>1 DEF Pass
  <2>4. s \in Secret /\ s.rv = r.snap.rv /\ s.token = r.snap.token
    BY <1>1, <2>3, RotationAssumption DEF Secret
  <2>5. /\ Continue(p, x) \/ Continue(p, y)
        /\ UNCHANGED storeVars \/ Landed(s) \/ Failed(s)
    BY <1>4 DEF RevokeWrite
  <2> HIDE DEF s, x, y
  <2>6. PICK z : Continue(p, z) /\ z.pc \notin {"ledger", "swap"}
    BY <2>2, <2>5
  <2>7. CASE UNCHANGED storeVars
    BY <2>1, <2>6, <2>7, QuietStep DEF storeVars
  <2>8. CASE Landed(s) \/ Failed(s)
    BY <1>1, <2>1, <2>4, <2>6, <2>8, WriteStep
  <2> QED BY <2>5, <2>7, <2>8
<1>5. ASSUME LedgerWrite(p) PROVE Custody!Next
  <2> DEFINE s == [r.snap EXCEPT !.ledger = r.snap.ledger \cup {MintEntry(r), OldEntry(r)}]
             x == [r EXCEPT !.pc = "swap", !.snap = Stored(s)]
             y == [r EXCEPT !.pc = "dropMint"]
  <2>1. r.pc = "ledger" /\ UNCHANGED <<issued, valid>>
    BY <1>5 DEF LedgerWrite, vaultVars
  <2>2. x.pc = "swap" /\ x.swap = r.swap /\ y.pc = "dropMint"
    BY <1>1 DEF Pass
  <2>3. MintEntry(r) \in Entry /\ OldEntry(r) \in Entry
    BY <2>1, EntriesType, SnapFacts DEF TypeOK, RevocationInv, NamesOK, HasMinted
  <2>4. s \in Secret /\ s.rv = r.snap.rv /\ s.token = r.snap.token
    BY <1>1, <2>3 DEF Secret
  <2>5. \/ Landed(s) /\ Continue(p, x)
        \/ Failed(s) /\ Continue(p, y)
    BY <1>5 DEF LedgerWrite
  <2>6. CASE Landed(s) /\ Continue(p, x)
    <3>1. ~Clear(x.swap, Operator)
      BY <2>1, <2>2, <2>4, <2>6 DEF Landed, Clear, Installing
    <3> HIDE DEF s, x
    <3> QED BY <1>1, <2>1, <2>4, <2>6, <3>1, WriteStep
  <2>7. CASE Failed(s) /\ Continue(p, y)
    <3> HIDE DEF s, y
    <3> QED BY <1>1, <2>1, <2>2, <2>4, <2>7, WriteStep
  <2> QED BY <2>5, <2>6, <2>7
<1>6. ASSUME BackoffWrite(p) PROVE Custody!Next
  <2>1. NoPass.pc = "idle" /\ UsesFresh(p)
    BY <1>6 DEF NoPass, BackoffWrite, UsesFresh
  <2> QED BY <1>1, <1>6, <2>1, WriteStep DEF BackoffWrite, Return, vaultVars
<1> QED BY <1>2, <1>3, <1>4, <1>5, <1>6

-----------------------------------------------------------------------------
(* Revocations, mints and handovers.                                       *)

\* Neither before nor after the step is p on its way to a swap.
LEMMA SameSwaps ==
  ASSUME TypeOK, NEW p \in Operator, NEW r, Continue(p, r),
         pass[p].pc \notin {"ledger", "swap"}, UNCHANGED <<secret, writes>>,
         NEW t, r.pc \notin {"ledger", "swap"} \/ r.swap # t, t \in issued' <=> t \in issued
  PROVE  Clear(t, Operator)' <=> Clear(t, Operator)
<1>1. pass'[p] = r /\ \A q \in Operator \ {p} : pass'[q] = pass[q]
  BY DEF Continue, TypeOK
<1>2. \A q \in Operator : Installing(q, t)' <=> Installing(q, t)
  BY <1>1 DEF Installing
<1> QED BY <1>2 DEF Clear, Landable

\* Whatever the verification says, at most a clear token is revoked.
LEMMA RevokeStep ==
  ASSUME TypeOK, NEW p \in Operator, NEW r, Continue(p, r),
         pass[p].pc \notin {"ledger", "swap"}, r.pc \notin {"ledger", "swap"},
         UNCHANGED <<secret, writes, issued>>,
         NEW t \in Token, Clear(t, Operator), NEW ok, RevokeAndVerify(p, t, ok)
  PROVE  Custody!Next
<1>1. \A x : Clear(x, Operator)' <=> Clear(x, Operator)
  BY SameSwaps
<1>2. CASE valid' = valid
  BY <1>2, QuietStep
<1>3. CASE valid' = valid \ {t}
  <2>1. Custody!Revoke(t)
    BY <1>1, <1>3 DEF Custody!Revoke
  <2> QED BY <2>1 DEF Custody!Next
<1> QED BY <1>2, <1>3 DEF RevokeAndVerify

LEMMA RevokeSteps ==
  ASSUME TypeOK, RevocationInv, NEW p \in Operator, RevokeEntry(p) \/ DropMint(p)
  PROVE  Custody!Next
<1> DEFINE r == pass[p]
<1>1. r \in Pass
  BY DEF TypeOK
<1>2. ASSUME RevokeEntry(p) PROVE Custody!Next
  <2>1. PICK e \in r.todo, ok \in BOOLEAN :
          /\ RevokeAndVerify(p, e.accessor, ok)
          /\ Continue(p, [r EXCEPT !.todo = r.todo \ {e},
                                   !.kept = IF ok THEN r.kept \ {e} ELSE r.kept])
    BY <1>2 DEF RevokeEntry
  <2>2. r.pc = "revoking" /\ UNCHANGED <<secret, writes, issued>>
    BY <1>2 DEF RevokeEntry
  <2>3. Clear(e.accessor, Operator) /\ e.accessor \in Token
    BY <2>2 DEF RevocationInv, PassInv, Clear, TypeOK
  <2> DEFINE K == IF ok THEN r.kept \ {e} ELSE r.kept
             x == [r EXCEPT !.todo = r.todo \ {e}, !.kept = K]
  <2>4. x.pc = r.pc /\ Continue(p, x)
    BY <1>1, <2>1 DEF Pass
  <2> HIDE DEF x
  <2> QED BY <2>1, <2>2, <2>3, <2>4, RevokeStep
<1>3. ASSUME DropMint(p) PROVE Custody!Next
  <2>1. PICK ok \in BOOLEAN : RevokeAndVerify(p, r.swap, ok)
    BY <1>3 DEF DropMint
  <2>2. /\ r.pc = "dropMint" /\ UNCHANGED <<secret, writes, issued>>
        /\ Continue(p, [r EXCEPT !.pc = "fail"])
    BY <1>3 DEF DropMint
  <2>3. Clear(r.swap, Operator) /\ r.swap \in Token
    BY <2>2 DEF RevocationInv, PassInv, Clear, TypeOK
  <2>4. [r EXCEPT !.pc = "fail"].pc = "fail"
    BY <1>1 DEF Pass
  <2> QED BY <2>1, <2>2, <2>3, <2>4, RevokeStep
<1> QED BY <1>2, <1>3

LEMMA MintStep ==
  ASSUME TypeOK, NEW p \in Operator, Mint(p)
  PROVE  Custody!Next
<1> DEFINE r == pass[p]
           x(t) == [r EXCEPT !.pc = "ledger", !.swap = t]
           y(t) == [r EXCEPT !.pc = "dropMint", !.swap = t]
           z == [r EXCEPT !.pc = "fail"]
<1>1. PICK t \in Token :
        CreateToken(t) /\ (Continue(p, x(t)) \/ Continue(p, y(t)) \/ Continue(p, z))
  BY DEF Mint
<1>2. r.pc = "rotate" /\ UNCHANGED <<secret, writes>>
  BY DEF Mint
<1>3. x(t).pc = "ledger" /\ x(t).swap = t /\ y(t).pc = "dropMint" /\ z.pc = "fail"
  BY DEF TypeOK, Pass
<1> HIDE DEF x, y, z
<1>4. PICK v : Continue(p, v) /\ (v.pc \notin {"ledger", "swap"} \/ v.swap = t)
  BY <1>1, <1>3
<1>5. t \notin issued /\ issued' = issued \cup {t} /\ valid' = valid \cup {t}
  BY <1>1 DEF CreateToken
<1>6. \A u : u # t => (Clear(u, Operator)' <=> Clear(u, Operator))
  BY <1>2, <1>4, <1>5, SameSwaps
<1>7. ~Clear(t, Operator)
  BY <1>5 DEF Clear
<1> DEFINE C == {u \in Token : Clear(u, Operator)}
           D == {u \in Token : Clear(u, Operator)'}
<1>8. D = C \/ D = C \cup {t}
  BY <1>6, <1>7
<1>9. Custody!Mint(t)
  BY <1>2, <1>5, <1>8 DEF Custody!Mint
<1> QED BY <1>9 DEF Custody!Next

LEMMA WriteEnds ==
  ASSUME TypeOK, RevocationInv, secret'.rv = secret.rv + 1, writes' \subseteq writes,
         \A q \in Operator : pass'[q] = pass[q] \/ pass'[q].pc \notin {"ledger", "swap"}
  PROVE  AllEnded
<1>1. secret.rv \in Nat /\ \A w \in writes : w.rv \in Nat /\ w.rv <= secret.rv
  BY DEF TypeOK, StoreTypeOK, Secret, RevocationInv, VersionsOK
<1>2. ASSUME NEW q \in Operator, NEW t, Installing(q, t)' PROVE FALSE
  <2>1. pass'[q] = pass[q] /\ pass[q].pc # "idle" /\ pass[q].snap.rv \in Nat
    BY <1>2 DEF Installing, TypeOK, Pass, Secret
  <2>2. pass[q].snap.rv <= secret.rv
    BY <2>1 DEF RevocationInv, VersionsOK
  <2> QED BY <1>1, <1>2, <2>1, <2>2 DEF Installing
<1> QED BY <1>1, <1>2 DEF AllEnded, Landable

\* The swap hands over if it lands, and stays under way if nobody knows.
LEMMA SwapStep ==
  ASSUME TypeOK, RevocationInv, NEW p \in Operator, SwapWrite(p)
  PROVE  Custody!Next
<1> DEFINE r == pass[p]
           s == [r.snap EXCEPT
                   !.token = r.swap, !.rotateNow = "none",
                   !.backoff = 0, !.backoffOn = NoToken,
                   !.ledger = InstalledLedger(r)]
           x == [r EXCEPT !.pc = "backup"]
           y == [r EXCEPT !.pc = "fenceRead", !.failing = TRUE, !.tries = 0]
           z == [r EXCEPT !.pc = "fail"]
<1>1. r.pc = "swap" /\ UNCHANGED <<issued, valid>>
  BY DEF SwapWrite, vaultVars
<1>2. r \in Pass /\ r.swap \in Token /\ r.swap \in issued /\ r.snap \in Secret
      /\ InstalledLedger(r) \subseteq Entry
  BY <1>1, SnapFacts DEF TypeOK, RevocationInv, NamesOK, HasMinted, InstalledLedger
<1>3. s \in Secret /\ s.rv = r.snap.rv /\ s.token = r.swap /\ s.ledger = InstalledLedger(r)
  BY <1>2 DEF Secret
<1>4. x.pc = "backup" /\ y.pc = "fenceRead" /\ z.pc = "fail"
  BY <1>2 DEF Pass
<1>5. \/ Landed(s) /\ Continue(p, x)
      \/ DefinitelyRejected(s) /\ Continue(p, y)
      \/ Uncertain(s) /\ Continue(p, z)
  BY DEF SwapWrite, UncertainSwap
<1> HIDE DEF s, x, y, z
<1>6. s.rv = secret.rv => Installing(p, r.swap)
  BY <1>1, <1>3, SwappedFacts
<1>7. CASE Landed(s) /\ Continue(p, x)
  <2>1. /\ secret'.rv = secret.rv + 1 /\ secret'.token = r.swap /\ writes' = writes
        /\ s.rv = secret.rv
    BY <1>3, <1>7 DEF Landed, Stored, Secret
  <2>2. \A q \in Operator : pass'[q] = pass[q] \/ pass'[q].pc \notin {"ledger", "swap"}
    BY <1>4, <1>7 DEF Continue, TypeOK
  <2>3. AllEnded
    BY <2>1, <2>2, WriteEnds
  <2>4. ~Clear(r.swap, Operator)
    BY <1>6, <2>1 DEF Clear
  <2> QED BY <1>1, <1>2, <2>1, <2>3, <2>4, Takeover
<1>8. CASE DefinitelyRejected(s) /\ Continue(p, y)
  <2>1. UNCHANGED <<secret, writes>>
    BY <1>8 DEF DefinitelyRejected, Conflict, Refused, storeVars
  <2> QED BY <1>1, <1>4, <1>8, <2>1, QuietStep
<1>9. CASE Uncertain(s) /\ Continue(p, z)
  <2>1. secret' = secret /\ writes' = writes \cup {s}
    BY <1>9 DEF Uncertain
  <2>2. pass'[p] = z /\ \A q \in Operator \ {p} : pass'[q] = pass[q]
    BY <1>9 DEF Continue, TypeOK
  <2>3. \A q \in Operator : \A t : Installing(q, t)' => Installing(q, t)
    BY <1>4, <2>1, <2>2 DEF Installing
  <2>4. \A w \in Landable' : ~Clear(w.token, Operator)
    BY <1>3, <1>6, <2>1 DEF Landable, Clear
  <2>5. NoneReturns
    BY <2>3, <2>4 DEF NoneReturns, Clear
  <2> QED BY <1>1, <2>1, <2>5, Withdrawal
<1> QED BY <1>5, <1>7, <1>8, <1>9

-----------------------------------------------------------------------------
(* Steps without a pass.                                                   *)

LEMMA LateWriteStep ==
  ASSUME TypeOK, RevocationInv, NEW w \in writes, LateWrite(w)
  PROVE  Custody!Next
<1>1. w \in Secret /\ w \in Landable /\ w.token \in issued
  BY DEF TypeOK, StoreTypeOK, Landable, LateWrite, Land, RevocationInv, NamesOK
<1>2. /\ secret'.rv = secret.rv + 1 /\ secret'.token = w.token
      /\ writes' \subseteq writes /\ UNCHANGED <<issued, valid, pass>>
  BY <1>1 DEF LateWrite, Land, Stored, Secret, vaultVars
<1>3. AllEnded
  BY <1>2, WriteEnds
<1>4. ~Clear(w.token, Operator)
  BY <1>1 DEF Clear
<1> QED BY <1>1, <1>2, <1>3, <1>4, Takeover

LEMMA AnnotateStep ==
  ASSUME TypeOK, RevocationInv, NEW s \in Secret, Edit(s), s.rv = secret.rv,
         s.token = secret.token, UNCHANGED <<issued, valid, pass>>
  PROVE  Custody!Next
<1>1. /\ secret'.rv = secret.rv + 1 /\ secret'.token = secret.token
      /\ writes' = writes
  BY DEF Edit, Stored, Secret
<1>2. AllEnded
  BY <1>1, WriteEnds
<1> QED BY <1>1, <1>2, Takeover DEF RevocationInv, NamesOK

LEMMA InstallStep ==
  ASSUME TypeOK, RevocationInv, NEW t \in Token, Install(t)
  PROVE  Custody!Next
<1> DEFINE s == [secret EXCEPT !.token = t]
<1>1. s \in Secret /\ s.rv = secret.rv /\ s.token = t
  BY DEF TypeOK, StoreTypeOK, Secret
<1>2. /\ t \notin issued /\ issued' = issued \cup {t} /\ valid' = valid \cup {t}
      /\ Edit(s) /\ UNCHANGED pass
  BY DEF Install, CreateToken
<1> HIDE DEF s
<1>3. secret'.rv = secret.rv + 1 /\ secret'.token = t /\ writes' = writes
  BY <1>1, <1>2 DEF Edit, Stored, Secret
<1>4. AllEnded
  BY <1>2, <1>3, WriteEnds
<1>5. \A u \in Token : Clear(u, Operator)' <=> u \in issued
  BY <1>2, <1>3, <1>4 DEF Clear, AllEnded
<1>6. issued \subseteq Token
  BY DEF TypeOK
<1>7. Custody!Replace(t)
  BY <1>2, <1>3, <1>5, <1>6 DEF Custody!Replace
<1> QED BY <1>7 DEF Custody!Next

LEMMA OtherWriterStep ==
  ASSUME ~MayReinstall, TypeOK, RevocationInv, OtherWriter \/ Tick \/ UNCHANGED vars
  PROVE  Custody!Next
<1>1. ASSUME NEW v \in {"true", "immediate"}, RequestRotation(v) PROVE Custody!Next
  <2> DEFINE s == [secret EXCEPT !.rotateNow = v]
  <2>1. s \in Secret /\ s.rv = secret.rv /\ s.token = secret.token
    BY DEF TypeOK, StoreTypeOK, Secret
  <2>2. Edit(s) /\ UNCHANGED <<issued, valid, pass>>
    BY <1>1 DEF RequestRotation, vaultVars
  <2> HIDE DEF s
  <2> QED BY <2>1, <2>2, AnnotateStep
<1>2. ASSUME NEW t \in Token, RequestCancel(t) PROVE Custody!Next
  <2> DEFINE s == [secret EXCEPT !.cancel = t]
  <2>1. s \in Secret /\ s.rv = secret.rv /\ s.token = secret.token
    BY DEF TypeOK, StoreTypeOK, Secret
  <2>2. Edit(s) /\ UNCHANGED <<issued, valid, pass>>
    BY <1>2 DEF RequestCancel, vaultVars
  <2> HIDE DEF s
  <2> QED BY <2>1, <2>2, AnnotateStep
<1>3. ASSUME ChangeOwnership \/ Tick \/ UNCHANGED vars PROVE Custody!Next
  <2>1. UNCHANGED <<secret, writes, issued, valid, pass>>
    BY <1>3 DEF ChangeOwnership, Tick, vars, storeVars, vaultVars
  <2>2. NoneReturns
    BY <2>1 DEF NoneReturns, Landable, Installing, Clear
  <2> QED BY <2>1, <2>2, Withdrawal
<1> QED BY <1>1, <1>2, <1>3, InstallStep DEF OtherWriter, Reinstall

-----------------------------------------------------------------------------
(* The implementation.                                                     *)

LEMMA CustodyInit == ASSUME Init PROVE Custody!Init
<1>1. PICK t \in Token : secret = NewSecret(t) /\ issued = {t} /\ valid = {t}
  BY DEF Init
<1>2. secret.token = t
  BY <1>1 DEF NewSecret
<1>3. {u \in Token : Clear(u, Operator)} = {}
  BY <1>1, <1>2 DEF Clear
<1> QED BY <1>1, <1>2, <1>3 DEF Custody!Init

LEMMA CustodyNext ==
  ASSUME ~MayReinstall, TypeOK, RevocationInv, [Next]_vars PROVE Custody!Next
<1>1. ASSUME NEW p \in Operator, PassStep(p) \/ Crash(p) PROVE Custody!Next
  BY <1>1, ReadSteps, WriteSteps, RevokeSteps, MintStep, SwapStep DEF PassStep
<1>2. ASSUME NEW w \in writes, LateWrite(w) PROVE Custody!Next
  BY <1>2, LateWriteStep
<1> QED BY <1>1, <1>2, OtherWriterStep DEF Next

\* As long as nobody puts a retired token back, RotateIfDue keeps the promise of
\* TokenCustody (rotate.go:36) for any number of processes, faults and edits: it
\* hands over to a token that was still on its way, retires every other one then,
\* and revokes only what is retired for good.
THEOREM RotationKeepsCustody ==
  ASSUME ~MayReinstall
  PROVE  Spec => RefinesCustody
<1>1. Init => TypeOK /\ RevocationInv /\ Custody!Init
  BY InitType, InitInv, CustodyInit
<1>2. TypeOK /\ RevocationInv /\ [Next]_vars => (TypeOK /\ RevocationInv)'
  BY NextType, NextInv DEF RevocationInv
<1>3. TypeOK /\ RevocationInv /\ [Next]_vars => [Custody!Next]_(Custody!vars)
  BY CustodyNext
<1> QED BY <1>1, <1>2, <1>3, PTL DEF Spec, RefinesCustody, Custody!Spec
=============================================================================
