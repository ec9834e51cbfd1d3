-------------------------- MODULE RevocationProofs --------------------------
(***************************************************************************)
(* RotateIfDue never revokes the token the Secret holds, nor one a write in *)
(* flight may still put there: RevocationInv is inductive as long as no     *)
(* other writer puts a retired token back.                                  *)
(*                                                                         *)
(* Every step of a pass is shown to be a PassMove: the pass goes on after   *)
(* at most one write of the Secret, the write is harmless, and only clear   *)
(* tokens are revoked.  What a PassMove preserves is proved once.           *)
(***************************************************************************)
EXTENDS TokenRotationProofs

\* The store after at most one write, of s.
StoreMove(s) ==
  /\ s.rv <= secret.rv
  /\ \/ secret' = secret /\ writes' = writes
     \/ s.rv = secret.rv /\ secret' = Stored(s) /\ writes' = writes
     \/ secret' = secret /\ writes' = writes \cup {s}

\* Process p goes on as r, after at most one write, of s.
PassMove(p, r, s) ==
  /\ Continue(p, r)
  /\ StoreMove(s)
  /\ s.rv = secret.rv =>
       /\ s.token = secret.token \/ Installing(p, s.token)
       /\ WriteOK(s)
  /\ r.pc \in {"ledger", "swap"} /\ r.snap.rv = secret'.rv =>
       Installing(p, r.swap) \/ r.swap \notin issued
  /\ issued \subseteq issued'
  /\ \A t \in valid : t \in valid' \/ Clear(t, Operator)

\* VersionsOK, of one pass.
PassVersions(p) ==
  /\ pass[p].pc # "idle" =>
       /\ pass[p].snap.rv <= secret.rv
       /\ pass[p].snap.rv = secret.rv =>
            /\ pass[p].snap.token = secret.token
            /\ pass[p].snap.ledger = secret.ledger
  /\ UsesFresh(p) =>
       /\ pass[p].fresh.rv <= secret.rv
       /\ pass[p].fresh.rv = secret.rv =>
            /\ pass[p].fresh.token = secret.token
            /\ pass[p].fresh.ledger = secret.ledger

LEMMA VersionsSplit ==
  VersionsOK <=> /\ \A w \in writes : w.rv <= secret.rv
                 /\ \A p \in Operator : PassVersions(p)
  BY DEF VersionsOK, PassVersions

LEMMA MoveFacts ==
  ASSUME TypeOK, NEW p \in Operator, NEW r \in Pass, NEW s \in Secret,
         PassMove(p, r, s)
  PROVE  /\ pass'[p] = r
         /\ \A q \in Operator \ {p} : pass'[q] = pass[q]
         /\ secret.rv \in Nat /\ s.rv \in Nat
         /\ Stored(s).rv = s.rv + 1 /\ Stored(s).token = s.token
         /\ Stored(s).ledger = s.ledger
         /\ \A w \in writes : w.rv \in Nat
         /\ \A q \in Operator : pass[q].snap.rv \in Nat /\ pass[q].fresh.rv \in Nat
  BY DEF TypeOK, StoreTypeOK, Secret, Pass, PassMove, Continue, Stored

\* A clear token stays clear, as far as the processes Q go that p is one of.
LEMMA ClearOverMove ==
  ASSUME TypeOK, RevocationInv,
         NEW p \in Operator, NEW r \in Pass, NEW s \in Secret, PassMove(p, r, s),
         NEW Q \in SUBSET Operator, p \in Q, NEW t, Clear(t, Q)
  PROVE  Clear(t, Q)'
<1>0. /\ pass'[p] = r
      /\ \A q \in Operator \ {p} : pass'[q] = pass[q]
      /\ secret.rv \in Nat /\ s.rv \in Nat
      /\ Stored(s).rv = s.rv + 1 /\ Stored(s).token = s.token
      /\ Stored(s).ledger = s.ledger
      /\ \A w \in writes : w.rv \in Nat
      /\ \A q \in Operator : pass[q].snap.rv \in Nat /\ pass[q].fresh.rv \in Nat
  BY MoveFacts
<1> USE <1>0
<1>1. t \in issued'
  BY DEF Clear, PassMove
<1>2. s.rv = secret.rv => s.token # t
  BY DEF PassMove, Clear
<1>3. secret'.token # t
  BY <1>2 DEF PassMove, StoreMove, Clear
<1>4. ASSUME NEW w \in writes', w.rv = secret'.rv PROVE w.token # t
  BY <1>2, <1>4 DEF PassMove, StoreMove, Clear, Landable, RevocationInv, VersionsOK, Secret
<1>5. ASSUME NEW q \in Q, q # p PROVE ~Installing(q, t)'
  <2>1. pass'[q] = pass[q] /\ pass[q].snap.rv \in Nat
    BY <1>5 DEF Pass, Secret
  <2>2. pass[q].pc # "idle" => pass[q].snap.rv <= secret.rv
    BY DEF RevocationInv, VersionsOK
  <2>3. ~Installing(q, t)
    BY DEF Clear
  <2> QED BY <2>1, <2>2, <2>3 DEF PassMove, StoreMove, Installing
<1>6. ~Installing(p, t)'
  BY DEF PassMove, Installing, Clear
<1> QED BY <1>1, <1>3, <1>4, <1>5, <1>6 DEF Clear, Landable

\* What is not clear is not revoked.
LEMMA ValidOverMove ==
  ASSUME TypeOK, RevocationInv,
         NEW p \in Operator, NEW r \in Pass, NEW s \in Secret, PassMove(p, r, s)
  PROVE  /\ secret.token \in valid'
         /\ \A w \in Landable : w.token \in valid'
         /\ s.rv = secret.rv => s.token \in valid'
         /\ \A q \in Operator : \A t \in valid : Installing(q, t) => t \in valid'
<1>1. \A t \in valid : t \in valid' \/ Clear(t, Operator)
  BY DEF PassMove
<1>2. secret.token \in valid /\ \A w \in Landable : w.token \in valid
  BY DEF RevocationInv, StoreInv, WriteOK
<1>3. s.rv = secret.rv => s.token \in valid /\ (s.token = secret.token \/ Installing(p, s.token))
  BY DEF PassMove, WriteOK
<1> QED BY <1>1, <1>2, <1>3 DEF Clear

\* The Secret, and what may still be written to it, after the step.
LEMMA StoreOverMove ==
  ASSUME TypeOK, RevocationInv,
         NEW p \in Operator, NEW r \in Pass, NEW s \in Secret, PassMove(p, r, s)
  PROVE  StoreInv' /\ \A w \in Landable' : WriteOK(w)'
<1>0. /\ pass'[p] = r
      /\ \A q \in Operator \ {p} : pass'[q] = pass[q]
      /\ secret.rv \in Nat /\ s.rv \in Nat
      /\ Stored(s).rv = s.rv + 1 /\ Stored(s).token = s.token
      /\ Stored(s).ledger = s.ledger
      /\ \A w \in writes : w.rv \in Nat
      /\ \A q \in Operator : pass[q].snap.rv \in Nat /\ pass[q].fresh.rv \in Nat
  BY MoveFacts
<1> USE <1>0
<1>1. \A t : Clear(t, Operator) => Clear(t, Operator)'
  BY ClearOverMove
<1>2. issued \subseteq issued'
  BY DEF PassMove
<1>3. CASE secret' = secret
  <2>1. StoreInv'
    BY <1>1, <1>2, <1>3, ValidOverMove DEF StoreInv, RevocationInv
  <2>2. ASSUME NEW w \in Landable' PROVE WriteOK(w)'
    <3>1. WriteOK(w) /\ w.token \in valid'
      BY <1>3, ValidOverMove
      DEF Landable, PassMove, StoreMove, RevocationInv
    <3> QED BY <1>1, <1>2, <1>3, <3>1 DEF WriteOK
  <2> QED BY <2>1, <2>2
<1>4. CASE s.rv = secret.rv /\ secret' = Stored(s) /\ writes' = writes
  <2>1. Landable' = {}
    BY <1>4 DEF Landable, RevocationInv, VersionsOK, Secret
  <2>2. secret.token \in issued
    BY DEF RevocationInv, NamesOK
  <2>3. ASSUME NEW t, t = secret.token, t # s.token PROVE Clear(t, Operator)'
    <3>1. ASSUME NEW q \in Operator, Installing(q, t)' PROVE FALSE
      <4>1. CASE q # p
        <5>1. pass'[q] = pass[q] /\ pass[q].pc # "idle"
          BY <3>1, <4>1 DEF Installing
        <5>2. pass[q].snap.rv <= secret.rv
          BY <5>1 DEF RevocationInv, VersionsOK
        <5>3. pass[q].snap.rv = secret.rv + 1
          BY <1>4, <3>1, <5>1 DEF Installing
        <5> QED BY <5>2, <5>3
      <4>2. CASE q = p
        <5>1. r.pc \in {"ledger", "swap"} /\ r.snap.rv = secret'.rv /\ r.swap = t
          BY <3>1, <4>2 DEF Installing
        <5>2. Installing(p, t)
          BY <2>2, <2>3, <5>1 DEF PassMove
        <5>3. pass[p].snap.token = t
          BY <2>3, <5>2 DEF Installing, RevocationInv, VersionsOK
        <5> QED BY <5>2, <5>3 DEF Installing, RevocationInv, PassInv
      <4> QED BY <4>1, <4>2
    <3> QED BY <1>2, <1>4, <2>1, <2>2, <2>3, <3>1 DEF Clear
  <2>4. WriteOK(s) /\ s.token \in valid'
    BY <1>4, ValidOverMove DEF PassMove
  <2>5. \A t \in Retired(s.ledger, s.token) : t # s.token
    BY DEF Retired
  <2>6. secret'.token = s.token /\ secret'.ledger = s.ledger
    BY <1>4
  <2> QED BY <1>1, <1>2, <2>1, <2>3, <2>4, <2>5, <2>6 DEF StoreInv, WriteOK
<1> QED BY <1>3, <1>4 DEF PassMove, StoreMove

\* The other passes.
LEMMA OthersOverMove ==
  ASSUME TypeOK, RevocationInv,
         NEW p \in Operator, NEW r \in Pass, NEW s \in Secret, PassMove(p, r, s),
         NEW q \in Operator \ {p}
  PROVE  PassInv(q)' /\ PassVersions(q)'
<1>0. /\ pass'[p] = r
      /\ \A o \in Operator \ {p} : pass'[o] = pass[o]
      /\ secret.rv \in Nat /\ s.rv \in Nat
      /\ Stored(s).rv = s.rv + 1 /\ Stored(s).token = s.token
      /\ Stored(s).ledger = s.ledger
      /\ \A w \in writes : w.rv \in Nat
      /\ \A o \in Operator : pass[o].snap.rv \in Nat /\ pass[o].fresh.rv \in Nat
  BY MoveFacts
<1> USE <1>0
<1>1. pass'[q] = pass[q] /\ pass[q].snap.rv \in Nat /\ pass[q].fresh.rv \in Nat
  BY DEF Pass, Secret
<1>2. PassInv(q) /\ PassVersions(q)
  BY VersionsSplit DEF RevocationInv
<1>3. /\ secret'.rv \in Nat /\ secret'.rv >= secret.rv
      /\ secret'.rv = secret.rv => secret' = secret
  BY DEF PassMove, StoreMove
<1>4. \A t : Clear(t, Operator) => Clear(t, Operator)'
  BY ClearOverMove
<1>5. \A t : Clear(t, Operator \ {q}) => Clear(t, Operator \ {q})'
  BY ClearOverMove
<1>6. PassVersions(q)'
  BY <1>1, <1>2, <1>3 DEF PassVersions, UsesFresh, Secret
<1>7. ASSUME pass[q].pc \in {"ledger", "swap"}, pass[q].snap.rv = secret'.rv
      PROVE  pass[q].swap \in valid'
  <2>1. Installing(q, pass[q].swap) /\ pass[q].swap \in valid
    BY <1>2, <1>3, <1>7 DEF Installing, PassInv, PassVersions, Secret
  <2> QED BY <2>1, ValidOverMove
<1>8. PassInv(q)'
  BY <1>1, <1>2, <1>4, <1>5, <1>7 DEF PassInv
<1> QED BY <1>6, <1>8

\* A move keeps the invariant, as far as the moving pass keeps its part of it.
LEMMA MoveInv ==
  ASSUME TypeOK, RevocationInv, NamesOK',
         NEW p \in Operator, NEW r \in Pass, NEW s \in Secret, PassMove(p, r, s),
         PassInv(p)', PassVersions(p)'
  PROVE  RevocationInv'
<1>0. /\ pass'[p] = r
      /\ \A q \in Operator \ {p} : pass'[q] = pass[q]
      /\ secret.rv \in Nat /\ s.rv \in Nat
      /\ Stored(s).rv = s.rv + 1 /\ Stored(s).token = s.token
      /\ Stored(s).ledger = s.ledger
      /\ \A w \in writes : w.rv \in Nat
      /\ \A q \in Operator : pass[q].snap.rv \in Nat /\ pass[q].fresh.rv \in Nat
  BY MoveFacts
<1> USE <1>0
<1>1. \A w \in writes' : w.rv <= secret'.rv
  BY DEF PassMove, StoreMove, RevocationInv, VersionsOK, Secret
<1>2. \A q \in Operator : PassInv(q)' /\ PassVersions(q)'
  BY OthersOverMove
<1>3. VersionsOK'
  BY <1>1, <1>2, VersionsSplit DEF VersionsOK, PassVersions, UsesFresh
<1> QED BY <1>2, <1>3, StoreOverMove DEF RevocationInv

-----------------------------------------------------------------------------
(* The kinds of moves.                                                     *)

\* A write that changes neither the token nor what the ledger is about.
LEMMA SameWriteOK ==
  ASSUME RevocationInv, NEW s, s.token = secret.token, s.ledger \subseteq secret.ledger
  PROVE  WriteOK(s)
<1>1. Retired(s.ledger, s.token) \subseteq Retired(secret.ledger, secret.token)
  BY DEF Retired
<1>2. UnresolvedMints(s.ledger) \subseteq UnresolvedMints(secret.ledger)
  BY DEF UnresolvedMints
<1> QED BY <1>1, <1>2 DEF WriteOK, RevocationInv, StoreInv

\* The pass calls nobody, or Vault.
LEMMA QuietMove ==
  ASSUME TypeOK, RevocationInv, NEW p \in Operator, NEW r \in Pass, Continue(p, r),
         UNCHANGED <<secret, writes>>, issued \subseteq issued',
         \A t \in valid : t \in valid' \/ Clear(t, Operator),
         r.pc \notin {"ledger", "swap"} \/ r.swap \notin issued
  PROVE  secret \in Secret /\ PassMove(p, r, secret)
<1>1. secret \in Secret /\ secret.rv \in Nat
  BY DEF TypeOK, StoreTypeOK, Secret
<1> QED BY <1>1, SameWriteOK DEF PassMove, StoreMove

\* The pass writes s, whatever the outcome.
LEMMA WriteMove ==
  ASSUME TypeOK, RevocationInv, NEW p \in Operator, NEW r \in Pass, Continue(p, r),
         NEW s \in Secret, s.rv <= secret.rv,
         \/ Landed(s) \/ Failed(s) \/ Refused \/ Uncertain(s) \/ Conflict(s),
         s.rv = secret.rv => /\ s.token = secret.token \/ Installing(p, s.token)
                             /\ WriteOK(s),
         UNCHANGED <<issued, valid>>,
         r.pc \in {"ledger", "swap"} /\ r.snap.rv = secret'.rv => Installing(p, r.swap)
  PROVE  PassMove(p, r, s)
  BY DEF PassMove, StoreMove, Landed, Failed, DefinitelyRejected, Refused,
         Uncertain, Conflict, storeVars

\* The pass keeps the snapshot it has.
LEMMA SnapOverMove ==
  ASSUME TypeOK, RevocationInv,
         NEW p \in Operator, NEW r \in Pass, NEW s \in Secret, PassMove(p, r, s),
         pass[p].pc # "idle", r.snap = pass[p].snap
  PROVE  /\ \A t \in Retired(r.snap.ledger, r.snap.token) : Clear(t, Operator)'
         /\ r.snap.rv <= secret'.rv
         /\ r.snap.rv = secret'.rv =>
              r.snap.token = secret'.token /\ r.snap.ledger = secret'.ledger
<1>1. secret.rv \in Nat /\ r.snap.rv \in Nat /\ Stored(s).rv = s.rv + 1
  BY MoveFacts
<1>2. secret'.rv >= secret.rv /\ (secret'.rv = secret.rv => secret' = secret)
  BY <1>1 DEF PassMove, StoreMove
<1>3. /\ r.snap.rv <= secret.rv
      /\ r.snap.rv = secret.rv =>
           r.snap.token = secret.token /\ r.snap.ledger = secret.ledger
  BY DEF RevocationInv, VersionsOK
<1>4. secret'.rv \in Nat
  BY <1>1 DEF PassMove, StoreMove
<1>5. \A t \in Retired(r.snap.ledger, r.snap.token) : Clear(t, Operator)
  BY DEF RevocationInv, PassInv
<1> QED BY <1>1, <1>2, <1>3, <1>4, <1>5, ClearOverMove

\* The points of a pass that promise nothing but the snapshot.
LEMMA PlainMove ==
  ASSUME TypeOK, RevocationInv, NamesOK',
         NEW p \in Operator, NEW r \in Pass, NEW s \in Secret, PassMove(p, r, s),
         pass[p].pc # "idle", r.snap = pass[p].snap,
         r.pc \in {"fenceRead", "revoke", "rotate", "backup", "fail"}
  PROVE  RevocationInv'
<1>1. pass'[p] = r
  BY MoveFacts
<1>2. PassInv(p)'
  BY <1>1, SnapOverMove DEF PassInv
<1>3. PassVersions(p)'
  BY <1>1, SnapOverMove DEF PassVersions, UsesFresh
<1> QED BY <1>2, <1>3, MoveInv

\* The pass goes on with the Secret it has just written.
LEMMA LandedMove ==
  ASSUME TypeOK, RevocationInv, NamesOK',
         NEW p \in Operator, NEW r \in Pass, NEW s \in Secret, PassMove(p, r, s),
         Landed(s), r.snap = Stored(s), r.pc \in {"revoke", "rotate", "fail"}
  PROVE  RevocationInv'
<1>1. pass'[p] = r /\ secret' = Stored(s) /\ Stored(s).rv \in Nat
  BY MoveFacts DEF Landed
<1>2. \A t \in Retired(r.snap.ledger, r.snap.token) : Clear(t, Operator)'
  BY <1>1, StoreOverMove DEF StoreInv
<1>3. PassInv(p)' /\ PassVersions(p)'
  BY <1>1, <1>2 DEF PassInv, PassVersions, UsesFresh
<1> QED BY <1>3, MoveInv

\* The call returns.
LEMMA ReturnMove ==
  ASSUME TypeOK, RevocationInv, NamesOK',
         NEW p \in Operator, NEW s \in Secret, PassMove(p, NoPass, s)
  PROVE  RevocationInv'
<1>1. pass'[p] = NoPass /\ NoPass.pc = "idle"
  BY MoveFacts, NoPassType DEF NoPass
<1>2. PassInv(p)' /\ PassVersions(p)'
  BY <1>1 DEF PassInv, PassVersions, UsesFresh
<1> QED BY <1>2, NoPassType, MoveInv

LEMMA QuietReturn ==
  ASSUME TypeOK, RevocationInv, NamesOK', NEW p \in Operator, Return(p),
         UNCHANGED <<secret, writes, issued, valid>>
  PROVE  RevocationInv'
<1>1. NoPass.pc = "idle"
  BY DEF NoPass
<1> QED BY <1>1, NoPassType, QuietMove, ReturnMove DEF Return

\* The fence stops, having written s or nothing.
LEMMA StopFencingMove ==
  ASSUME TypeOK, RevocationInv, NamesOK', NEW p \in Operator, StopFencing(p),
         NEW s \in Secret, s.rv <= secret.rv,
         \/ Landed(s) \/ Failed(s) \/ Refused \/ Uncertain(s) \/ Conflict(s)
         \/ UNCHANGED <<secret, writes>>,
         s.rv = secret.rv => s.token = secret.token /\ WriteOK(s),
         UNCHANGED <<issued, valid>>, pass[p].pc # "idle"
  PROVE  RevocationInv'
<1> DEFINE f == [pass[p] EXCEPT !.pc = "fail"]
<1>1. f \in Pass /\ f.pc = "fail" /\ f.snap = pass[p].snap
  BY PassType DEF Pass, PC
<1>2. NoPass.pc = "idle"
  BY DEF NoPass
<1> HIDE DEF f
<1>3. PICK r \in {f, NoPass} : Continue(p, r)
  BY DEF StopFencing, f
<1>4. r \in Pass /\ r.pc \notin {"ledger", "swap"}
  BY <1>1, <1>2, <1>3, NoPassType
<1>5. PICK w \in Secret : PassMove(p, r, w)
  BY <1>3, <1>4, QuietMove, WriteMove
<1> QED BY <1>1, <1>3, <1>4, <1>5, PlainMove, ReturnMove

-----------------------------------------------------------------------------
(* Every action.                                                           *)

LEMMA ReadSecretInv ==
  ASSUME TypeOK, RevocationInv, NamesOK', NEW p \in Operator, ReadSecret(p)
  PROVE  RevocationInv'
<1> DEFINE r == [NoPass EXCEPT !.pc = "lookup", !.snap = secret, !.own = owned]
<1>1. r \in Pass /\ r.pc = "lookup" /\ r.snap = secret
  BY NoPassType, SecretType DEF Pass, PC
<1>2. Continue(p, r) /\ UNCHANGED <<secret, writes, issued, valid>>
  BY DEF ReadSecret, storeVars, vaultVars
<1> HIDE DEF r
<1>3. secret \in Secret /\ PassMove(p, r, secret)
  BY <1>1, <1>2, QuietMove
<1>4. pass'[p] = r
  BY <1>1, <1>3, MoveFacts
<1>5. PassVersions(p)'
  BY <1>1, <1>2, <1>4 DEF PassVersions, UsesFresh, TypeOK, StoreTypeOK, Secret
<1>6. \A t \in Retired(secret.ledger, secret.token) : Clear(t, Operator)'
  BY <1>1, <1>3, ClearOverMove DEF RevocationInv, StoreInv
<1>7. PassInv(p)'
  BY <1>1, <1>4, <1>6 DEF PassInv
<1> QED BY <1>1, <1>3, <1>5, <1>7, MoveInv

LEMMA LookupSelfInv ==
  ASSUME TypeOK, RevocationInv, NamesOK', NEW p \in Operator, LookupSelf(p)
  PROVE  RevocationInv'
<1> DEFINE r == [pass[p] EXCEPT !.now = clock]
<1>1. \A e \in UnresolvedMints(pass[p].snap.ledger) : e.swapID \in Token
  BY DEF TypeOK, Pass, Secret, UnresolvedMints, Entry
<1>2. /\ [r EXCEPT !.pc = "revoke"] \in Pass
      /\ [r EXCEPT !.pc = "revoke"].pc = "revoke"
      /\ [r EXCEPT !.pc = "revoke"].snap = pass[p].snap
  BY PassType, SecretType DEF Pass, PC
<1>3. ASSUME NEW e \in UnresolvedMints(pass[p].snap.ledger)
      PROVE  /\ [r EXCEPT !.pc = "fenceRead", !.swap = e.swapID] \in Pass
             /\ [r EXCEPT !.pc = "fenceRead", !.swap = e.swapID].pc = "fenceRead"
             /\ [r EXCEPT !.pc = "fenceRead", !.swap = e.swapID].snap = pass[p].snap
  BY <1>1, PassType, SecretType DEF Pass, PC
<1>4. PICK x \in Pass : /\ Continue(p, x) /\ x.pc \in {"fenceRead", "revoke"}
                        /\ x.snap = pass[p].snap
  BY <1>2, <1>3 DEF LookupSelf, SwapsInDoubt
<1>5. UNCHANGED <<secret, writes, issued, valid>> /\ pass[p].pc # "idle"
  BY DEF LookupSelf, storeVars, vaultVars
<1>6. secret \in Secret /\ PassMove(p, x, secret)
  BY <1>4, <1>5, QuietMove
<1> QED BY <1>4, <1>5, <1>6, PlainMove

LEMMA LookupFailsInv ==
  ASSUME TypeOK, RevocationInv, NamesOK', NEW p \in Operator, LookupFails(p)
  PROVE  RevocationInv'
  BY QuietReturn DEF LookupFails, vaultVars

LEMMA FenceReadInv ==
  ASSUME TypeOK, RevocationInv, NamesOK', NEW p \in Operator, FenceRead(p)
  PROVE  RevocationInv'
<1> DEFINE r == [pass[p] EXCEPT !.pc = "fenceWrite", !.fresh = secret]
<1>1. UNCHANGED <<secret, writes, issued, valid>> /\ pass[p].pc = "fenceRead"
  BY DEF FenceRead, vaultVars
<1>2. secret \in Secret
  BY DEF TypeOK, StoreTypeOK
<1>3. CASE StopFencing(p)
  <2>1. secret.rv <= secret.rv /\ WriteOK(secret)
    BY <1>2, SameWriteOK DEF Secret
  <2> QED BY <1>1, <1>2, <1>3, <2>1, StopFencingMove
<1>4. CASE Continue(p, r) /\ \E e \in UnresolvedMints(secret.ledger) : e.swapID = pass[p].swap
  <2>1. /\ r \in Pass /\ r.pc = "fenceWrite" /\ r.snap = pass[p].snap
        /\ r.fresh = secret /\ r.swap = pass[p].swap
    BY <1>2, PassType DEF Pass, PC
  <2> HIDE DEF r
  <2>2. PassMove(p, r, secret)
    BY <1>1, <1>4, <2>1, QuietMove
  <2>3. pass'[p] = r
    BY <1>2, <2>1, <2>2, MoveFacts
  <2>4. PassInv(p)'
    BY <1>1, <1>2, <1>4, <2>1, <2>2, <2>3, SnapOverMove DEF PassInv
  <2>5. PassVersions(p)'
    BY <1>1, <1>2, <2>1, <2>2, <2>3, SnapOverMove DEF PassVersions, UsesFresh, Secret
  <2> QED BY <1>2, <2>1, <2>2, <2>4, <2>5, MoveInv
<1> QED BY <1>3, <1>4 DEF FenceRead

\* What the fence writes is what it read.
LEMMA FreshFacts ==
  ASSUME TypeOK, RevocationInv, NEW p \in Operator, UsesFresh(p)
  PROVE  /\ pass[p].fresh \in Secret /\ pass[p].fresh.rv <= secret.rv
         /\ pass[p].fresh.rv = secret.rv =>
              /\ pass[p].fresh.token = secret.token
              /\ pass[p].fresh.ledger = secret.ledger
              /\ WriteOK(pass[p].fresh)
  BY SameWriteOK DEF TypeOK, Pass, RevocationInv, VersionsOK

LEMMA FenceWriteInv ==
  ASSUME TypeOK, RevocationInv, NamesOK', NEW p \in Operator, FenceWrite(p)
  PROVE  RevocationInv'
<1> DEFINE r == pass[p]
           f == pass[p].fresh
           landed == [r EXCEPT !.pc = "settle", !.fresh = Stored(f)]
           again == [r EXCEPT !.pc = "fenceRead", !.tries = r.tries + 1]
<1>1. r.pc = "fenceWrite" /\ UNCHANGED <<issued, valid>>
  BY DEF FenceWrite, vaultVars
<1>2. /\ f \in Secret /\ f.rv <= secret.rv
      /\ f.rv = secret.rv => /\ f.token = secret.token /\ f.ledger = secret.ledger
                             /\ WriteOK(f)
  BY <1>1, FreshFacts DEF UsesFresh
<1>3. CASE StopFencing(p) /\ (Conflict(f) \/ Refused \/ Uncertain(f))
  BY <1>1, <1>2, <1>3, StopFencingMove
<1>4. CASE Continue(p, again) /\ Conflict(f)
  <2>1. r.tries + 1 \in Nat
    BY DEF TypeOK, Pass
  <2>2. again \in Pass /\ again.pc = "fenceRead" /\ again.snap = r.snap
    BY <2>1, PassType DEF Pass, PC
  <2> HIDE DEF again
  <2>3. PassMove(p, again, f)
    BY <1>1, <1>2, <1>4, <2>2, WriteMove
  <2> QED BY <1>1, <1>2, <2>2, <2>3, PlainMove
<1>5. CASE Landed(f) /\ Continue(p, landed)
  <2>1. /\ landed \in Pass /\ landed.pc = "settle" /\ landed.snap = r.snap
        /\ landed.swap = r.swap /\ landed.fresh = Stored(f)
    BY <1>2, StoredType, PassType DEF Pass, PC
  <2> HIDE DEF landed
  <2>2. PassMove(p, landed, f)
    BY <1>1, <1>2, <1>5, <2>1, WriteMove
  <2>3. pass'[p] = landed /\ secret' = Stored(f) /\ f.rv = secret.rv
    BY <1>2, <1>5, <2>1, <2>2, MoveFacts DEF Landed
  <2>4. PICK e \in UnresolvedMints(f.ledger) : e.swapID = r.swap
    BY <1>1 DEF RevocationInv, PassInv
  <2>5. e.accessor = r.swap /\ r.swap \in issued /\ r.swap # secret.token
    BY <1>2, <2>3, <2>4 DEF UnresolvedMints, IsMint, RevocationInv, StoreInv
  <2>6. ASSUME NEW t, t = r.swap PROVE Clear(t, Operator)'
    <3>1. Stored(f).rv = secret.rv + 1 /\ Stored(f).token = f.token /\ secret.rv \in Nat
      BY <1>2, <2>3 DEF Stored, Secret
    <3>2. Landable' = {}
      BY <1>5, <2>3, <3>1 DEF Landed, Landable, RevocationInv, VersionsOK, TypeOK,
         StoreTypeOK, Secret
    <3>3. ASSUME NEW q \in Operator, q # p, Installing(q, t)' PROVE FALSE
      <4>1. pass'[q] = pass[q] /\ pass[q].pc # "idle" /\ pass[q].snap.rv \in Nat
        BY <1>2, <2>1, <2>2, <3>3, MoveFacts DEF Installing
      <4>2. pass[q].snap.rv <= secret.rv
        BY <4>1 DEF RevocationInv, VersionsOK
      <4> QED BY <2>3, <3>1, <3>3, <4>1, <4>2 DEF Installing
    <3>4. ~Installing(p, t)'
      BY <2>1, <2>3 DEF Installing
    <3> QED BY <1>1, <1>2, <2>3, <2>5, <2>6, <3>1, <3>2, <3>3, <3>4 DEF Clear
  <2>7. PassInv(p)'
    BY <1>1, <1>2, <2>1, <2>2, <2>3, <2>6, SnapOverMove DEF PassInv
  <2>8. PassVersions(p)'
    BY <1>1, <1>2, <2>1, <2>2, <2>3, SnapOverMove
    DEF PassVersions, UsesFresh, Stored, Secret
  <2> QED BY <1>2, <2>1, <2>2, <2>7, <2>8, MoveInv
<1> QED BY <1>3, <1>4, <1>5 DEF FenceWrite

\* Settling keeps the accessors, makes the minted token due and leaves no mint
\* of this swap in doubt.
LEMMA SettledLedgerFacts ==
  ASSUME NEW r \in Pass
  PROVE  /\ \A t, tok : t \in Retired(SettledLedger(r), tok) =>
                          t = r.swap \/ t \in Retired(r.fresh.ledger, tok)
         /\ UnresolvedMints(SettledLedger(r)) \subseteq UnresolvedMints(r.fresh.ledger)
<1>1. \A e \in r.fresh.ledger : e \in Entry
  BY DEF Pass, Secret
<1>2. ASSUME NEW e \in Entry
      PROVE  /\ [e EXCEPT !.state = Scheduled, !.notBefore = r.now].accessor = e.accessor
             /\ [e EXCEPT !.state = Scheduled, !.notBefore = r.now].state = Scheduled
  BY DEF Entry
<1>3. Scheduled # Unresolved
  BY DEF Scheduled, Unresolved
<1>4. ASSUME NEW e \in SettledLedger(r)
      PROVE  \/ e \in r.fresh.ledger
             \/ e.accessor = r.swap /\ e.state = Scheduled
  <2> DEFINE mine == {d \in r.fresh.ledger : d.swapID = r.swap}
             due(d) == [d EXCEPT !.state = Scheduled, !.notBefore = r.now]
  <2>1. e \in r.fresh.ledger \/ \E d \in {x \in mine : IsMint(x)} : e = due(d)
    BY DEF SettledLedger
  <2>2. ASSUME NEW d \in mine, IsMint(d), e = due(d)
        PROVE  e.accessor = r.swap /\ e.state = Scheduled
    BY <1>1, <1>2, <2>2 DEF IsMint
  <2> QED BY <2>1, <2>2
<1> QED BY <1>3, <1>4 DEF Retired, UnresolvedMints

LEMMA SettleInv ==
  ASSUME TypeOK, RevocationInv, NamesOK', NEW p \in Operator, Settle(p)
  PROVE  RevocationInv'
<1> DEFINE r == pass[p]
           s == [r.fresh EXCEPT !.ledger = SettledLedger(r)]
           c == IF r.failing THEN "fail" ELSE "revoke"
           x == [r EXCEPT !.snap = Stored(s), !.pc = c]
<1>1. r.pc = "settle" /\ UNCHANGED <<issued, valid>> /\ r \in Pass
  BY DEF Settle, TypeOK, vaultVars
<1>2. /\ r.fresh \in Secret /\ r.fresh.rv <= secret.rv
      /\ r.fresh.rv = secret.rv => /\ r.fresh.token = secret.token
                                   /\ r.fresh.ledger = secret.ledger
                                   /\ WriteOK(r.fresh)
  BY <1>1, FreshFacts DEF UsesFresh
<1>3. /\ s \in Secret /\ s.rv = r.fresh.rv /\ s.token = r.fresh.token
      /\ s.ledger = SettledLedger(r)
  BY <1>1, <1>2, SettledLedgerType DEF Secret
<1>4. Clear(r.swap, Operator)
  BY <1>1 DEF RevocationInv, PassInv
<1>5. s.rv = secret.rv => s.token = secret.token /\ WriteOK(s)
  BY <1>1, <1>2, <1>3, <1>4, SettledLedgerFacts DEF WriteOK
<1>6. Stored(s) \in Secret
  BY <1>3, StoredType
<1>7. x \in Pass /\ x.pc \in {"fail", "revoke"} /\ x.snap = Stored(s)
  BY <1>1, <1>6 DEF Pass, PC
<1>8. CASE StopFencing(p) /\ (UNCHANGED storeVars \/ Failed(s))
  BY <1>1, <1>2, <1>3, <1>5, <1>8, StopFencingMove DEF storeVars
<1>9. CASE Landed(s) /\ Continue(p, x)
  <2> HIDE DEF s, x
  <2>1. PassMove(p, x, s)
    BY <1>1, <1>2, <1>3, <1>5, <1>7, <1>9, WriteMove
  <2> QED BY <1>3, <1>7, <1>9, <2>1, LandedMove
<1> QED BY <1>8, <1>9 DEF Settle

LEMMA StartRevokeInv ==
  ASSUME TypeOK, RevocationInv, NamesOK', NEW p \in Operator, StartRevoke(p)
  PROVE  RevocationInv'
<1> DEFINE r == pass[p]
<1>1. r.pc = "revoke" /\ r \in Pass /\ UNCHANGED <<secret, writes, issued, valid>>
  BY DEF StartRevoke, TypeOK, storeVars, vaultVars
<1>2. r.snap.ledger \subseteq Entry
  BY <1>1 DEF Pass, Secret
<1>3. PICK todo \in SUBSET r.snap.ledger, kept \in SUBSET r.snap.ledger :
        /\ Continue(p, [r EXCEPT !.pc = "revoking", !.todo = todo, !.kept = kept])
        /\ \A e \in todo : e.state = Scheduled /\ e.accessor # r.snap.token
  <2> DEFINE due(dropped) == Due(r, r.snap.ledger \ dropped)
             live(dropped) == {e \in due(dropped) : e.accessor = r.snap.token}
             todo(dropped) == due(dropped) \ live(dropped)
             kept(dropped) == (r.snap.ledger \ dropped) \ live(dropped)
  <2>1. PICK dropped : Continue(p, [r EXCEPT !.pc = "revoking", !.todo = todo(dropped),
                                             !.kept = kept(dropped)])
    BY DEF StartRevoke
  <2>2. /\ todo(dropped) \in SUBSET r.snap.ledger
        /\ kept(dropped) \in SUBSET r.snap.ledger
        /\ \A e \in todo(dropped) : e.state = Scheduled /\ e.accessor # r.snap.token
    BY DEF Due
  <2> QED BY <2>1, <2>2
<1> DEFINE x == [r EXCEPT !.pc = "revoking", !.todo = todo, !.kept = kept]
<1>4. /\ x \in Pass /\ x.pc = "revoking" /\ x.todo = todo /\ x.kept = kept
      /\ x.snap = r.snap
  BY <1>1, <1>2 DEF Pass, PC
<1> HIDE DEF x
<1>5. secret \in Secret /\ PassMove(p, x, secret)
  BY <1>1, <1>3, <1>4, QuietMove DEF x
<1>6. pass'[p] = x
  BY <1>4, <1>5, MoveFacts
<1>7. \A t \in Retired(x.snap.ledger, x.snap.token) : Clear(t, Operator)'
  BY <1>1, <1>4, <1>5, SnapOverMove
<1>8. \A e \in todo : e.accessor \in Retired(x.snap.ledger, x.snap.token)
  BY <1>3, <1>4 DEF Retired
<1>9. PassInv(p)'
  BY <1>4, <1>6, <1>7, <1>8 DEF PassInv
<1>10. PassVersions(p)'
  BY <1>1, <1>4, <1>5, <1>6, SnapOverMove DEF PassVersions, UsesFresh
<1> QED BY <1>4, <1>5, <1>9, <1>10, MoveInv

\* Only the token at hand may stop working.
LEMMA RevokeFacts ==
  ASSUME NEW p, NEW t, NEW ok, RevokeAndVerify(p, t, ok)
  PROVE  \A x \in valid : x \in valid' \/ x = t
  BY DEF RevokeAndVerify

LEMMA RevokeEntryInv ==
  ASSUME TypeOK, RevocationInv, NamesOK', NEW p \in Operator, RevokeEntry(p)
  PROVE  RevocationInv'
<1> DEFINE r == pass[p]
<1>1. r.pc = "revoking" /\ r \in Pass /\ UNCHANGED <<secret, writes, issued>>
  BY DEF RevokeEntry, TypeOK
<1>2. r.kept \subseteq Entry /\ r.todo \subseteq Entry
  BY <1>1 DEF Pass
<1>3. PICK e \in r.todo, ok \in BOOLEAN :
        /\ RevokeAndVerify(p, e.accessor, ok)
        /\ Continue(p, [r EXCEPT !.todo = r.todo \ {e},
                                 !.kept = IF ok THEN r.kept \ {e} ELSE r.kept])
  BY DEF RevokeEntry
<1> DEFINE x == [r EXCEPT !.todo = r.todo \ {e},
                          !.kept = IF ok THEN r.kept \ {e} ELSE r.kept]
<1>4. /\ x \in Pass /\ x.pc = "revoking" /\ x.snap = r.snap
      /\ x.todo \subseteq r.todo /\ x.kept \subseteq r.kept
  BY <1>1, <1>2 DEF Pass
<1>5. /\ r.kept \subseteq r.snap.ledger
      /\ \A d \in r.todo : Clear(d.accessor, Operator)
  BY <1>1 DEF RevocationInv, PassInv
<1> HIDE DEF x
<1>6. \A t \in valid : t \in valid' \/ Clear(t, Operator)
  BY <1>3, <1>5, RevokeFacts
<1>7. secret \in Secret /\ PassMove(p, x, secret)
  BY <1>1, <1>3, <1>4, <1>6, QuietMove DEF x
<1>8. pass'[p] = x
  BY <1>4, <1>7, MoveFacts
<1>9. \A d \in r.todo : Clear(d.accessor, Operator)'
  <2>1. ASSUME NEW t, Clear(t, Operator) PROVE Clear(t, Operator)'
    BY <1>4, <1>7, <2>1, ClearOverMove
  <2> QED BY <1>5, <2>1
<1>10. PassInv(p)'
  BY <1>1, <1>4, <1>5, <1>7, <1>8, <1>9, SnapOverMove DEF PassInv
<1>11. PassVersions(p)'
  BY <1>1, <1>4, <1>7, <1>8, SnapOverMove DEF PassVersions, UsesFresh
<1> QED BY <1>4, <1>7, <1>10, <1>11, MoveInv

\* What the pass writes next to its snapshot, unless it swaps, is harmless as
\* long as it keeps to the snapshot's ledger.
LEMMA SnapFacts ==
  ASSUME TypeOK, RevocationInv, NEW p \in Operator, pass[p].pc # "idle"
  PROVE  /\ pass[p] \in Pass /\ pass[p].snap \in Secret /\ pass[p].snap.rv <= secret.rv
         /\ pass[p].snap.ledger \subseteq Entry
         /\ pass[p].snap.token \in issued
         /\ pass[p].snap.rv = secret.rv =>
              pass[p].snap.token = secret.token /\ pass[p].snap.ledger = secret.ledger
  BY DEF TypeOK, Pass, Secret, RevocationInv, VersionsOK, NamesOK

LEMMA RevokeWriteInv ==
  ASSUME TypeOK, RevocationInv, NamesOK', NEW p \in Operator, RevokeWrite(p)
  PROVE  RevocationInv'
<1> DEFINE r == pass[p]
           s == [r.snap EXCEPT !.ledger = r.kept, !.cancel = NoToken,
                               !.autoRotate = AutoRotate]
           x == [r EXCEPT !.pc = "rotate", !.kept = {}]
           y == [x EXCEPT !.snap = Stored(s)]
<1>1. r.pc = "revoking" /\ UNCHANGED <<issued, valid>>
  BY DEF RevokeWrite, vaultVars
<1>2. r.kept \subseteq r.snap.ledger
  BY <1>1 DEF RevocationInv, PassInv
<1>3. /\ s \in Secret /\ s.rv = r.snap.rv /\ s.token = r.snap.token /\ s.ledger = r.kept
  BY <1>1, <1>2, SnapFacts, RotationAssumption DEF Secret
<1>4. s.rv <= secret.rv
  BY <1>1, <1>3, SnapFacts
<1>5. s.rv = secret.rv => s.token = secret.token /\ WriteOK(s)
  BY <1>1, <1>2, <1>3, SnapFacts, SameWriteOK
<1>6. x \in Pass /\ x.pc = "rotate" /\ x.snap = r.snap
  BY PassType DEF Pass, PC
<1>7. Stored(s) \in Secret
  BY <1>3, StoredType
<1> HIDE DEF s
<1>8. y \in Pass /\ y.pc = "rotate" /\ y.snap = Stored(s)
  BY <1>7, PassType DEF Pass, PC
<1> HIDE DEF x, y
<1>9. CASE Continue(p, x) /\ UNCHANGED storeVars
  BY <1>1, <1>6, <1>9, QuietMove, PlainMove DEF storeVars
<1>10. CASE Continue(p, x) /\ Failed(s)
  BY <1>1, <1>3, <1>4, <1>5, <1>6, <1>10, WriteMove, PlainMove
<1>11. CASE Continue(p, y) /\ Landed(s)
  BY <1>1, <1>3, <1>4, <1>5, <1>8, <1>11, WriteMove, LandedMove
<1> QED BY <1>9, <1>10, <1>11 DEF RevokeWrite, s, x, y

LEMMA SkipRotationInv ==
  ASSUME TypeOK, RevocationInv, NamesOK', NEW p \in Operator, SkipRotation(p)
  PROVE  RevocationInv'
  BY QuietReturn DEF SkipRotation, storeVars, vaultVars

LEMMA PlainQuiet ==
  ASSUME TypeOK, RevocationInv, NamesOK', NEW p \in Operator, pass[p].pc # "idle",
         Continue(p, [pass[p] EXCEPT !.pc = "fail"]),
         UNCHANGED <<secret, writes>>, issued \subseteq issued',
         \A t \in valid : t \in valid' \/ Clear(t, Operator)
  PROVE  RevocationInv'
<1> DEFINE r == [pass[p] EXCEPT !.pc = "fail"]
<1>1. r \in Pass /\ r.pc = "fail" /\ r.snap = pass[p].snap
  BY PassType DEF Pass, PC
<1> HIDE DEF r
<1>2. Continue(p, r)
  BY DEF r
<1> QED BY <1>1, <1>2, QuietMove, PlainMove

\* Nobody knows a token before it is issued.
LEMMA NewTokenClear ==
  ASSUME RevocationInv, NEW t \in Token \ issued
  PROVE  /\ secret.token # t
         /\ \A w \in Landable : w.token # t
         /\ \A q \in Operator : ~Installing(q, t) /\ (pass[q].pc # "idle" => pass[q].snap.token # t)
  BY DEF RevocationInv, NamesOK, HasMinted, Landable, Installing

LEMMA MintInv ==
  ASSUME TypeOK, RevocationInv, NamesOK', NEW p \in Operator, Mint(p)
  PROVE  RevocationInv'
<1> DEFINE r == pass[p]
<1>1. r.pc = "rotate" /\ UNCHANGED <<secret, writes>>
  BY DEF Mint
<1>2. PICK t \in Token :
        /\ CreateToken(t)
        /\ \/ Continue(p, [r EXCEPT !.pc = "ledger", !.swap = t])
           \/ Continue(p, [r EXCEPT !.pc = "dropMint", !.swap = t])
           \/ Continue(p, [r EXCEPT !.pc = "fail"])
  BY DEF Mint
<1>3. /\ t \in Token \ issued /\ t \in issued' /\ t \in valid'
      /\ issued \subseteq issued' /\ valid \subseteq valid'
  BY <1>2 DEF CreateToken
<1>4. CASE Continue(p, [r EXCEPT !.pc = "fail"])
  BY <1>1, <1>3, <1>4, PlainQuiet
<1>5. ASSUME NEW c \in {"ledger", "dropMint"}, Continue(p, [r EXCEPT !.pc = c, !.swap = t])
      PROVE  RevocationInv'
  <2> DEFINE x == [r EXCEPT !.pc = c, !.swap = t]
  <2>1. x \in Pass /\ x.pc = c /\ x.swap = t /\ x.snap = r.snap
    BY PassType DEF Pass, PC
  <2>2. Continue(p, x)
    BY <1>5
  <2> HIDE DEF x
  <2>3. secret \in Secret /\ PassMove(p, x, secret)
    BY <1>1, <1>3, <2>1, <2>2, QuietMove
  <2>4. pass'[p] = x /\ \A q \in Operator \ {p} : pass'[q] = pass[q]
    BY <2>1, <2>3, MoveFacts
  <2>5. Clear(t, Operator \ {p})'
    BY <1>1, <1>3, <2>4, NewTokenClear DEF Clear, Landable, Installing
  <2>6. c = "dropMint" => Clear(t, Operator)'
    BY <2>1, <2>4, <2>5 DEF Clear, Installing
  <2>7. r.snap.token # t
    BY <1>1, <1>3, NewTokenClear
  <2>8. PassInv(p)'
    BY <1>1, <1>3, <2>1, <2>3, <2>4, <2>5, <2>6, <2>7, SnapOverMove DEF PassInv
  <2>9. PassVersions(p)'
    BY <1>1, <2>1, <2>3, <2>4, SnapOverMove DEF PassVersions, UsesFresh
  <2> QED BY <2>1, <2>3, <2>8, <2>9, MoveInv
<1> QED BY <1>2, <1>4, <1>5

LEMMA MintRefusedInv ==
  ASSUME TypeOK, RevocationInv, NamesOK', NEW p \in Operator, MintRefused(p)
  PROVE  RevocationInv'
  BY PlainQuiet DEF MintRefused, vaultVars

\* The ledger a rotation writes before its swap.
LEMMA RecordedFacts ==
  ASSUME TypeOK, RevocationInv, NEW p \in Operator, pass[p].pc = "ledger",
         NEW s \in Secret, s.rv = pass[p].snap.rv, s.token = pass[p].snap.token,
         s.ledger = pass[p].snap.ledger \cup {MintEntry(pass[p]), OldEntry(pass[p])}
  PROVE  s.rv <= secret.rv /\ (s.rv = secret.rv => s.token = secret.token /\ WriteOK(s))
<1> DEFINE r == pass[p]
<1>1. /\ r \in Pass /\ r.snap.rv <= secret.rv
      /\ r.snap.rv = secret.rv => r.snap.token = secret.token /\ r.snap.ledger = secret.ledger
  BY SnapFacts
<1>2. /\ MintEntry(r).accessor = r.swap /\ MintEntry(r).state = Unresolved
      /\ OldEntry(r).accessor = r.snap.token /\ OldEntry(r).state = Scheduled
      /\ Scheduled # Unresolved
  BY DEF MintEntry, OldEntry, Scheduled, Unresolved
<1>3. Retired(s.ledger, s.token) = Retired(r.snap.ledger, r.snap.token)
  BY <1>2 DEF Retired
<1>4. UnresolvedMints(s.ledger) \subseteq UnresolvedMints(r.snap.ledger) \cup {MintEntry(r)}
  BY <1>2 DEF UnresolvedMints
<1>5. r.swap # r.snap.token /\ r.swap \in issued
  BY DEF RevocationInv, PassInv, NamesOK, HasMinted
<1>6. ASSUME r.snap.rv = secret.rv PROVE WriteOK(s)
  BY <1>1, <1>2, <1>3, <1>4, <1>5, <1>6 DEF WriteOK, RevocationInv, StoreInv
<1> QED BY <1>1, <1>6

LEMMA LedgerWriteInv ==
  ASSUME TypeOK, RevocationInv, NamesOK', NEW p \in Operator, LedgerWrite(p)
  PROVE  RevocationInv'
<1> DEFINE r == pass[p]
           s == [r.snap EXCEPT !.ledger = r.snap.ledger \cup {MintEntry(r), OldEntry(r)}]
           x == [r EXCEPT !.pc = "swap", !.snap = Stored(s)]
           y == [r EXCEPT !.pc = "dropMint"]
<1>1. r.pc = "ledger" /\ UNCHANGED <<issued, valid>>
  BY DEF LedgerWrite, vaultVars
<1>2. r \in Pass /\ r.swap \in Token /\ r.snap.token \in Token /\ r.snap \in Secret
  BY <1>1, SnapFacts DEF TypeOK, RevocationInv, NamesOK, HasMinted
<1>3. /\ s \in Secret /\ s.rv = r.snap.rv /\ s.token = r.snap.token
      /\ s.ledger = r.snap.ledger \cup {MintEntry(r), OldEntry(r)}
  BY <1>2, EntriesType DEF Secret
<1> HIDE DEF s
<1>4. s.rv <= secret.rv /\ (s.rv = secret.rv => s.token = secret.token /\ WriteOK(s))
  BY <1>1, <1>3, RecordedFacts
<1>5. /\ Stored(s) \in Secret /\ Stored(s).rv = s.rv + 1 /\ Stored(s).token = s.token
  BY <1>3, StoredType DEF Stored, Secret
<1>6. x \in Pass /\ x.pc = "swap" /\ x.snap = Stored(s) /\ x.swap = r.swap
  BY <1>2, <1>5 DEF Pass, PC
<1>7. y \in Pass /\ y.pc = "dropMint" /\ y.snap = r.snap /\ y.swap = r.swap
  BY <1>2 DEF Pass, PC
<1> HIDE DEF x, y
<1>8. /\ Clear(r.swap, Operator \ {p}) /\ r.swap # r.snap.token
      /\ r.snap.rv = secret.rv => r.swap \in valid
  BY <1>1 DEF RevocationInv, PassInv
<1>9. CASE Landed(s) /\ Continue(p, x)
  <2>1. Installing(p, x.swap)
    BY <1>1, <1>3, <1>6, <1>9 DEF Installing, Landed
  <2>2. PassMove(p, x, s)
    BY <1>1, <1>3, <1>4, <1>6, <1>9, <2>1, WriteMove
  <2>3. pass'[p] = x /\ secret' = Stored(s) /\ s.rv = secret.rv
    BY <1>3, <1>6, <1>9, <2>2, MoveFacts DEF Landed
  <2>4. \A t \in Retired(x.snap.ledger, x.snap.token) : Clear(t, Operator)'
    BY <1>3, <1>6, <2>2, <2>3, StoreOverMove DEF StoreInv
  <2>5. PassInv(p)'
    BY <1>1, <1>3, <1>5, <1>6, <1>8, <2>3, <2>4 DEF PassInv
  <2>6. PassVersions(p)'
    BY <1>5, <1>6, <2>3 DEF PassVersions, UsesFresh, Secret
  <2> QED BY <1>3, <1>6, <2>2, <2>5, <2>6, MoveInv
<1>10. CASE Failed(s) /\ Continue(p, y)
  <2>1. PassMove(p, y, s)
    BY <1>1, <1>3, <1>4, <1>7, <1>10, WriteMove
  <2>2. pass'[p] = y /\ \A q \in Operator \ {p} : pass'[q] = pass[q]
    BY <1>3, <1>7, <2>1, MoveFacts
  <2>3. secret' = secret /\ writes' \subseteq writes \cup {s}
    BY <1>10 DEF Failed, DefinitelyRejected, Refused, Conflict, Uncertain, storeVars
  <2>4. ASSUME NEW t, t = r.swap PROVE Clear(t, Operator)'
    BY <1>1, <1>3, <1>7, <1>8, <2>2, <2>3, <2>4 DEF Clear, Landable, Installing
  <2>5. PassInv(p)'
    BY <1>1, <1>3, <1>7, <2>1, <2>2, <2>4, SnapOverMove DEF PassInv
  <2>6. PassVersions(p)'
    BY <1>1, <1>3, <1>7, <2>1, <2>2, SnapOverMove DEF PassVersions, UsesFresh
  <2> QED BY <1>3, <1>7, <2>1, <2>5, <2>6, MoveInv
<1> QED BY <1>9, <1>10 DEF LedgerWrite, s, x, y

LEMMA DropMintInv ==
  ASSUME TypeOK, RevocationInv, NamesOK', NEW p \in Operator, DropMint(p)
  PROVE  RevocationInv'
<1>1. PICK ok \in BOOLEAN : RevokeAndVerify(p, pass[p].swap, ok)
  BY DEF DropMint
<1>2. Clear(pass[p].swap, Operator)
  BY DEF DropMint, RevocationInv, PassInv
<1>3. \A t \in valid : t \in valid' \/ Clear(t, Operator)
  BY <1>1, <1>2, RevokeFacts
<1> QED BY <1>3, PlainQuiet DEF DropMint

\* What the swap writes.
LEMMA SwappedFacts ==
  ASSUME TypeOK, RevocationInv, NEW p \in Operator, pass[p].pc = "swap",
         NEW s \in Secret, s.rv = pass[p].snap.rv, s.token = pass[p].swap,
         s.ledger = InstalledLedger(pass[p])
  PROVE  s.rv <= secret.rv /\ (s.rv = secret.rv => Installing(p, s.token) /\ WriteOK(s))
<1> DEFINE r == pass[p]
<1>1. /\ r \in Pass /\ r.snap.rv <= secret.rv
      /\ r.snap.rv = secret.rv => r.snap.token = secret.token /\ r.snap.ledger = secret.ledger
  BY SnapFacts
<1>2. ASSUME NEW t \in Retired(s.ledger, s.token)
      PROVE  t = r.snap.token \/ t \in Retired(r.snap.ledger, r.snap.token)
  BY DEF Retired, InstalledLedger
<1>3. ASSUME NEW e \in UnresolvedMints(s.ledger)
      PROVE  e \in UnresolvedMints(r.snap.ledger) /\ e.accessor # r.swap
  BY DEF UnresolvedMints, InstalledLedger, IsMint
<1>4. ASSUME r.snap.rv = secret.rv PROVE WriteOK(s)
  BY <1>1, <1>2, <1>3, <1>4 DEF WriteOK, RevocationInv, StoreInv, PassInv
<1> QED BY <1>1, <1>4 DEF Installing

LEMMA SwapWriteInv ==
  ASSUME TypeOK, RevocationInv, NamesOK', NEW p \in Operator, SwapWrite(p)
  PROVE  RevocationInv'
<1> DEFINE r == pass[p]
           s == [r.snap EXCEPT
                   !.token = r.swap, !.rotateNow = "none",
                   !.backoff = 0, !.backoffOn = NoToken,
                   !.ledger = InstalledLedger(r)]
<1>1. r.pc = "swap" /\ UNCHANGED <<issued, valid>>
  BY DEF SwapWrite, vaultVars
<1>2. r \in Pass /\ r.swap \in Token /\ r.snap \in Secret /\ InstalledLedger(r) \subseteq Entry
  BY <1>1, SnapFacts DEF TypeOK, RevocationInv, NamesOK, HasMinted, InstalledLedger
<1>3. s \in Secret /\ s.rv = r.snap.rv /\ s.token = r.swap /\ s.ledger = InstalledLedger(r)
  BY <1>2 DEF Secret
<1>4. Landed(s) \/ Failed(s)
  BY DEF SwapWrite, Failed
<1>5. PICK x \in Pass : Continue(p, x) /\ x.snap = r.snap /\ x.pc \in {"backup", "fenceRead", "fail"}
  <2>1. ASSUME NEW c \in {"backup", "fail"}
        PROVE  /\ [r EXCEPT !.pc = c] \in Pass /\ [r EXCEPT !.pc = c].pc = c
               /\ [r EXCEPT !.pc = c].snap = r.snap
    BY <1>2 DEF Pass, PC
  <2> DEFINE z == [r EXCEPT !.pc = "fenceRead", !.failing = TRUE, !.tries = 0]
  <2>2. z \in Pass /\ z.pc = "fenceRead" /\ z.snap = r.snap
    BY <1>2 DEF Pass, PC
  <2>3. \/ Continue(p, [r EXCEPT !.pc = "backup"]) \/ Continue(p, [r EXCEPT !.pc = "fail"])
        \/ Continue(p, z)
    BY DEF SwapWrite, UncertainSwap
  <2> HIDE DEF z
  <2> QED BY <2>1, <2>2, <2>3
<1> HIDE DEF s
<1>6. s.rv <= secret.rv /\ (s.rv = secret.rv => Installing(p, s.token) /\ WriteOK(s))
  BY <1>1, <1>3, SwappedFacts
<1>7. PassMove(p, x, s)
  BY <1>1, <1>3, <1>4, <1>5, <1>6, WriteMove
<1> QED BY <1>1, <1>3, <1>5, <1>7, PlainMove

LEMMA BackupInv ==
  ASSUME TypeOK, RevocationInv, NamesOK', NEW p \in Operator, Backup(p)
  PROVE  RevocationInv'
  BY QuietReturn DEF Backup, vaultVars

LEMMA FailInv ==
  ASSUME TypeOK, RevocationInv, NamesOK', NEW p \in Operator, Fail(p)
  PROVE  RevocationInv'
<1> DEFINE r == pass[p]
           wait == NextWait(mem[p].wait)
           noted == [secret EXCEPT !.backoff = r.now + wait, !.backoffOn = r.snap.token]
           x == [r EXCEPT !.pc = "backoffWrite", !.fresh = noted]
<1>1. UNCHANGED <<secret, writes, issued, valid>> /\ r.pc = "fail" /\ r \in Pass
  BY DEF Fail, TypeOK, vaultVars
<1>2. wait \in Nat /\ r.now \in Nat /\ r.snap.token \in Token \cup {NoToken}
  BY <1>1, NextWaitType DEF TypeOK, Pass, Secret
<1>3. r.now + wait \in Nat
  BY <1>2
<1>4. secret \in Secret
  BY DEF TypeOK, StoreTypeOK
<1> HIDE DEF wait
<1>5. /\ noted \in Secret /\ noted.rv = secret.rv /\ noted.token = secret.token
      /\ noted.ledger = secret.ledger
  BY <1>2, <1>3, <1>4 DEF Secret
<1> HIDE DEF noted
<1>6. x \in Pass /\ x.pc = "backoffWrite" /\ x.snap = r.snap /\ x.fresh = noted
  BY <1>1, <1>5 DEF Pass, PC
<1> HIDE DEF x
<1>7. CASE Return(p)
  BY <1>1, <1>7, QuietReturn
<1>8. CASE Continue(p, x)
  <2>1. PassMove(p, x, secret)
    BY <1>1, <1>6, <1>8, QuietMove
  <2>2. pass'[p] = x /\ secret.rv \in Nat
    BY <1>4, <1>6, <2>1, MoveFacts
  <2>3. PassInv(p)'
    BY <1>1, <1>4, <1>6, <2>1, <2>2, SnapOverMove DEF PassInv
  <2>4. PassVersions(p)'
    BY <1>1, <1>4, <1>5, <1>6, <2>1, <2>2, SnapOverMove DEF PassVersions, UsesFresh
  <2> QED BY <1>4, <1>6, <2>1, <2>3, <2>4, MoveInv
<1> QED BY <1>7, <1>8 DEF Fail, x, noted, wait

LEMMA BackoffWriteInv ==
  ASSUME TypeOK, RevocationInv, NamesOK', NEW p \in Operator, BackoffWrite(p)
  PROVE  RevocationInv'
<1>1. /\ UNCHANGED <<issued, valid>> /\ UsesFresh(p) /\ Continue(p, NoPass)
      /\ Landed(pass[p].fresh) \/ Failed(pass[p].fresh)
  BY DEF BackoffWrite, vaultVars, UsesFresh, Return
<1>2. NoPass.pc = "idle"
  BY DEF NoPass
<1>3. PassMove(p, NoPass, pass[p].fresh)
  BY <1>1, <1>2, FreshFacts, NoPassType, WriteMove
<1> QED BY <1>1, <1>3, FreshFacts, ReturnMove

LEMMA CrashInv ==
  ASSUME TypeOK, RevocationInv, NamesOK', NEW p \in Operator, Crash(p)
  PROVE  RevocationInv'
  BY QuietReturn DEF Crash, vaultVars

-----------------------------------------------------------------------------
(* Late writes and the other writers.                                      *)

\* The Secret becomes s while no pass moves.
EditMove(s) ==
  /\ s.rv = secret.rv /\ secret' = Stored(s) /\ writes' \subseteq writes
  /\ UNCHANGED pass
  /\ issued \subseteq issued' /\ valid \subseteq valid' /\ s.token \in valid'
  /\ s.token = secret.token \/ s \in Landable \/ s.token \notin issued
  /\ \A t \in Retired(s.ledger, s.token) : t = secret.token \/ Clear(t, Operator)
  /\ \A e \in UnresolvedMints(s.ledger) : e.accessor \in issued /\ e.accessor # s.token

LEMMA EditFacts ==
  ASSUME TypeOK, RevocationInv, NEW s \in Secret, EditMove(s)
  PROVE  /\ secret.rv \in Nat /\ secret'.rv = secret.rv + 1
         /\ secret'.token = s.token /\ secret'.ledger = s.ledger
         /\ Landable' = {}
         /\ \A q \in Operator : \A t : ~Installing(q, t)'
         /\ \A w \in writes' : w.rv <= secret'.rv
<1>1. /\ secret.rv \in Nat /\ secret' = Stored(s) /\ Stored(s).rv = s.rv + 1
      /\ Stored(s).token = s.token /\ Stored(s).ledger = s.ledger /\ s.rv = secret.rv
  BY DEF EditMove, TypeOK, StoreTypeOK, Secret, Stored
<1>2. \A w \in writes' : w.rv <= secret.rv /\ w.rv \in Nat
  BY DEF EditMove, RevocationInv, VersionsOK, TypeOK, StoreTypeOK, Secret
<1>3. ASSUME NEW q \in Operator, NEW t PROVE ~Installing(q, t)'
  <2>1. pass'[q] = pass[q] /\ pass[q].snap.rv \in Nat
    BY DEF EditMove, TypeOK, Pass, Secret
  <2>2. pass[q].pc # "idle" => pass[q].snap.rv <= secret.rv
    BY DEF RevocationInv, VersionsOK
  <2> QED BY <1>1, <2>1, <2>2 DEF Installing
<1> QED BY <1>1, <1>2, <1>3 DEF Landable

LEMMA ClearOverEdit ==
  ASSUME TypeOK, RevocationInv, NEW s \in Secret, EditMove(s),
         NEW Q \in SUBSET Operator, NEW t, Clear(t, Q)
  PROVE  Clear(t, Q)'
<1>1. s.token # t
  BY DEF EditMove, Clear
<1> QED BY <1>1, EditFacts DEF Clear, EditMove

LEMMA EditInv ==
  ASSUME TypeOK, RevocationInv, NamesOK', NEW s \in Secret, EditMove(s)
  PROVE  RevocationInv'
<1>1. /\ secret.rv \in Nat /\ secret'.rv = secret.rv + 1
      /\ secret'.token = s.token /\ secret'.ledger = s.ledger /\ Landable' = {}
      /\ \A w \in writes' : w.rv <= secret'.rv
  BY EditFacts
<1>2. \A t : Clear(t, Operator) => Clear(t, Operator)'
  BY ClearOverEdit
<1>3. ASSUME NEW q \in Operator PROVE PassInv(q)' /\ PassVersions(q)'
  <2>1. /\ pass'[q] = pass[q] /\ pass[q].snap.rv \in Nat /\ pass[q].fresh.rv \in Nat
    BY DEF EditMove, TypeOK, Pass, Secret
  <2>2. PassInv(q) /\ PassVersions(q)
    BY VersionsSplit DEF RevocationInv
  <2>3. PassVersions(q)'
    BY <1>1, <2>1, <2>2 DEF PassVersions, UsesFresh
  <2>4. pass[q].pc # "idle" => pass[q].snap.rv # secret'.rv
    BY <1>1, <2>1, <2>2 DEF PassVersions
  <2>5. \A t : Clear(t, Operator \ {q}) => Clear(t, Operator \ {q})'
    BY ClearOverEdit
  <2>6. PassInv(q)'
    BY <1>2, <2>1, <2>2, <2>4, <2>5 DEF PassInv
  <2> QED BY <2>3, <2>6
<1>4. VersionsOK'
  BY <1>1, <1>3 DEF VersionsOK, PassVersions, UsesFresh
<1>5. StoreInv'
  <2>1. ASSUME NEW t, t = secret.token, t # s.token PROVE Clear(t, Operator)'
    <3>1. t \in issued'
      BY <2>1 DEF RevocationInv, NamesOK, EditMove
    <3> QED BY <1>1, <2>1, <3>1, EditFacts DEF Clear
  <2>2. \A t \in Retired(s.ledger, s.token) : t # s.token
    BY DEF Retired
  <2> QED BY <1>1, <1>2, <2>1, <2>2 DEF StoreInv, EditMove
<1> QED BY <1>1, <1>3, <1>4, <1>5 DEF RevocationInv

LEMMA LateWriteInv ==
  ASSUME TypeOK, RevocationInv, NamesOK', NEW w \in writes, LateWrite(w)
  PROVE  RevocationInv'
<1>1. w \in Secret /\ w \in Landable
  BY DEF TypeOK, StoreTypeOK, Landable, LateWrite, Land
<1>2. WriteOK(w)
  BY <1>1 DEF RevocationInv
<1>3. EditMove(w)
  BY <1>1, <1>2 DEF EditMove, LateWrite, Land, WriteOK, vaultVars
<1> QED BY <1>1, <1>3, EditInv

\* A change of the annotations other than the ledger.
LEMMA AnnotateInv ==
  ASSUME TypeOK, RevocationInv, NamesOK', NEW s \in Secret, Edit(s),
         s.rv = secret.rv, s.token = secret.token, s.ledger = secret.ledger,
         UNCHANGED <<issued, valid, pass>>
  PROVE  RevocationInv'
<1>1. EditMove(s)
  BY DEF EditMove, Edit, RevocationInv, StoreInv
<1> QED BY <1>1, EditInv

LEMMA RequestRotationInv ==
  ASSUME TypeOK, RevocationInv, NamesOK', NEW v \in {"true", "immediate"}, RequestRotation(v)
  PROVE  RevocationInv'
<1> DEFINE s == [secret EXCEPT !.rotateNow = v]
<1>1. /\ s \in Secret /\ s.rv = secret.rv /\ s.token = secret.token
      /\ s.ledger = secret.ledger
  BY DEF TypeOK, StoreTypeOK, Secret
<1>2. Edit(s) /\ UNCHANGED <<issued, valid, pass>>
  BY DEF RequestRotation, vaultVars
<1> HIDE DEF s
<1> QED BY <1>1, <1>2, AnnotateInv

LEMMA RequestCancelInv ==
  ASSUME TypeOK, RevocationInv, NamesOK', NEW t \in Token, RequestCancel(t)
  PROVE  RevocationInv'
<1> DEFINE s == [secret EXCEPT !.cancel = t]
<1>1. /\ s \in Secret /\ s.rv = secret.rv /\ s.token = secret.token
      /\ s.ledger = secret.ledger
  BY DEF TypeOK, StoreTypeOK, Secret
<1>2. Edit(s) /\ UNCHANGED <<issued, valid, pass>>
  BY DEF RequestCancel, vaultVars
<1> HIDE DEF s
<1> QED BY <1>1, <1>2, AnnotateInv

LEMMA InstallInv ==
  ASSUME TypeOK, RevocationInv, NamesOK', NEW t \in Token, Install(t)
  PROVE  RevocationInv'
<1> DEFINE s == [secret EXCEPT !.token = t]
<1>1. /\ s \in Secret /\ s.rv = secret.rv /\ s.token = t /\ s.ledger = secret.ledger
  BY DEF TypeOK, StoreTypeOK, Secret
<1>2. /\ t \notin issued /\ t \in valid' /\ issued \subseteq issued' /\ valid \subseteq valid'
      /\ Edit(s) /\ UNCHANGED pass
  BY DEF Install, CreateToken
<1> HIDE DEF s
<1>3. ASSUME NEW x \in Retired(s.ledger, s.token)
      PROVE  x = secret.token \/ x \in Retired(secret.ledger, secret.token)
  BY <1>1 DEF Retired
<1>4. EditMove(s)
  BY <1>1, <1>2, <1>3 DEF EditMove, Edit, RevocationInv, StoreInv
<1> QED BY <1>1, <1>4, EditInv

\* Nothing the invariant speaks of changes.
LEMMA IdleInv ==
  ASSUME RevocationInv, NamesOK', UNCHANGED <<secret, writes, issued, valid, pass>>
  PROVE  RevocationInv'
<1>1. \A t, Q : Clear(t, Q) <=> Clear(t, Q)'
  BY DEF Clear, Landable, Installing
<1>2. VersionsOK' /\ StoreInv'
  BY <1>1 DEF RevocationInv, VersionsOK, StoreInv, UsesFresh
<1>3. \A w \in Landable' : WriteOK(w)'
  BY <1>1 DEF RevocationInv, Landable, WriteOK
<1>4. \A p \in Operator : PassInv(p)'
  BY <1>1 DEF RevocationInv, PassInv
<1> QED BY <1>2, <1>3, <1>4 DEF RevocationInv

LEMMA InitInv == Init => RevocationInv
<1> SUFFICES ASSUME Init PROVE RevocationInv
  OBVIOUS
<1>1. /\ secret.token \in valid /\ secret.ledger = {} /\ secret.token \in issued
      /\ writes = {} /\ \A p \in Operator : pass[p] = NoPass
  BY DEF Init, NewSecret
<1>2. NoPass.pc = "idle"
  BY DEF NoPass
<1> QED
  BY <1>1, <1>2, InitNames
  DEF RevocationInv, VersionsOK, StoreInv, PassInv, Landable, Retired,
      UnresolvedMints, UsesFresh

\* One step per action; no other writer puts a retired token back.
LEMMA NextInv ==
  ASSUME ~MayReinstall, TypeOK, RevocationInv, [Next]_vars PROVE RevocationInv'
<1>1. NamesOK'
  BY NextNames DEF RevocationInv
<1>2. ASSUME NEW p \in Operator, PassStep(p) PROVE RevocationInv'
  BY <1>1, <1>2, ReadSecretInv, LookupSelfInv, LookupFailsInv, FenceReadInv,
     FenceWriteInv, SettleInv, StartRevokeInv, RevokeEntryInv, RevokeWriteInv,
     SkipRotationInv, MintInv, MintRefusedInv, LedgerWriteInv, DropMintInv,
     SwapWriteInv, BackupInv, FailInv, BackoffWriteInv
  DEF PassStep
<1>3. ASSUME NEW p \in Operator, Crash(p) PROVE RevocationInv'
  BY <1>1, <1>3, CrashInv
<1>4. ASSUME NEW w \in writes, LateWrite(w) PROVE RevocationInv'
  BY <1>1, <1>4, LateWriteInv
<1>5. CASE ChangeOwnership \/ Tick \/ UNCHANGED vars
  BY <1>1, <1>5, IdleInv DEF ChangeOwnership, Tick, vars, storeVars, vaultVars
<1>6. ASSUME OtherWriter PROVE RevocationInv'
  BY <1>1, <1>5, <1>6, RequestRotationInv, RequestCancelInv, InstallInv
  DEF OtherWriter, Reinstall
<1> QED BY <1>2, <1>3, <1>4, <1>5, <1>6 DEF Next

\* Types and the inductive invariant, together.
THEOREM RevocationInvariant ==
  ASSUME ~MayReinstall
  PROVE  Spec => [](TypeOK /\ RevocationInv)
<1>1. Init => TypeOK /\ RevocationInv
  BY InitType, InitInv
<1>2. TypeOK /\ RevocationInv /\ [Next]_vars => (TypeOK /\ RevocationInv)'
  BY NextType, NextInv DEF RevocationInv
<1> QED BY <1>1, <1>2, PTL DEF Spec

\* The promise of RotateIfDue: whatever the interleaving of processes, crashes,
\* failed calls and late writes, the token the Secret holds still works, unless
\* another writer puts a retired token back.
THEOREM LiveTokenNeverRevoked ==
  ASSUME ~MayReinstall
  PROVE  Spec => []LiveTokenValid
<1>1. RevocationInv => LiveTokenValid
  BY DEF RevocationInv, StoreInv, LiveTokenValid
<1> QED BY <1>1, RevocationInvariant, PTL

\* Nothing revokes a minted token while its swap may still land: the token of
\* every write the apiserver would still apply works, too.
THEOREM PendingTokenNeverRevoked ==
  ASSUME ~MayReinstall
  PROVE  Spec => []LandableWriteValid
<1>1. RevocationInv => LandableWriteValid
  BY DEF RevocationInv, WriteOK, Landable, LandableWriteValid
<1> QED BY <1>1, RevocationInvariant, PTL
=============================================================================
