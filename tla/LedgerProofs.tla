---------------------------- MODULE LedgerProofs ----------------------------
(***************************************************************************)
(* The revoke ledger forgets no credential, stays within ledgerCap and has  *)
(* at most one swap in doubt, a recorded backoff is about the live token,   *)
(* and rotate-now is served by the write that clears it: LedgerInv is       *)
(* inductive, whatever other writers do.                                    *)
(*                                                                         *)
(* Nobody can write an object of an older version, so a step either leaves  *)
(* the Secret alone, and no credential loses its place, or replaces it, and *)
(* only the object written has to be looked at.  The lemmas of the first    *)
(* part say so once for all actions.                                        *)
(***************************************************************************)
EXTENDS LedgerInvariant, TokenRotationProofs, FiniteSetTheorems

-----------------------------------------------------------------------------
(* Steps, by what they do to the Secret.                                   *)

\* No credential starts to work unaccounted for; none loses its place unless
\* it has stopped working.
Accounted ==
  /\ issued \subseteq issued' /\ released \subseteq released'
  /\ clock \in Nat /\ clock' \in Nat /\ clock <= clock'
  /\ valid' \subseteq valid \cup Elsewhere'
  /\ Elsewhere \cap valid' \subseteq Elsewhere'

LEMMA SoundKept ==
  ASSUME NEW s, Sound(s), issued \subseteq issued', released \subseteq released'
  PROVE  Sound(s)'
  BY DEF Sound

LEMMA CoversKept ==
  ASSUME NEW t, NEW l, Covers(t, l), Accounted
  PROVE  Covers(t, l)'
  BY DEF Covers, Accounted

LEMMA HeldKept ==
  ASSUME NEW s, Held(s), UNCHANGED secret, Accounted
  PROVE  Held(s)'
  BY SoundKept, CoversKept DEF Held, Accounted

LEMMA InFlightKept ==
  ASSUME NEW s \in Secret, InFlight(s), UNCHANGED secret, Accounted
  PROVE  InFlight(s)'
<1>1. Honours(s) => Honours(s)'
  <2>1. \A e \in s.ledger : e.notBefore \in Nat
    BY DEF Secret, Entry
  <2> QED BY <2>1 DEF Honours, Serves, Accounted
<1> QED BY <1>1, SoundKept, CoversKept DEF InFlight, Accounted

LEMMA PassSoundKept ==
  ASSUME NEW r \in Pass, PassSound(r), UNCHANGED secret, Accounted
  PROVE  PassSound(r)'
<1>1. r.now <= clock'
  BY DEF PassSound, Accounted, Pass
<1> QED BY <1>1, CoversKept DEF PassSound, OldEntry, LedgerFull

\* The Secret has moved on: what was made from an older version is harmless.
LEMMA HeldPast ==
  ASSUME NEW s \in Secret, Held(s) \/ InFlight(s), secret.rv \in Nat,
         secret'.rv = secret.rv + 1,
         issued \subseteq issued', released \subseteq released'
  PROVE  Held(s)' /\ InFlight(s)' /\ s.rv # secret'.rv
<1>1. s.rv \in Nat /\ s.rv <= secret.rv /\ Sound(s)
  BY DEF Held, InFlight, Secret
<1>2. s.rv <= secret'.rv /\ s.rv # secret'.rv
  BY <1>1
<1> QED BY <1>1, <1>2, SoundKept DEF Held, InFlight

LEMMA PassSoundPast ==
  ASSUME NEW r \in Pass, PassSound(r), r.snap.rv # secret'.rv,
         clock \in Nat, clock' \in Nat, clock <= clock'
  PROVE  PassSound(r)'
<1>1. r.now <= clock'
  BY DEF PassSound, Pass
<1> QED BY <1>1 DEF PassSound, OldEntry, LedgerFull

\* What a pass holds could be written back.
LEMMA HeldInFlight == ASSUME NEW s, Held(s) PROVE InFlight(s)
  BY DEF Held, InFlight, Honours

\* Elsewhere, when one pass goes on: only its minted token may lose its place.
LEMMA ElsewhereKept ==
  ASSUME NEW p \in Operator, NEW X,
         orphans \subseteq orphans' /\ released \subseteq released',
         \A q \in Operator \ {p} : pass'[q] = pass[q],
         Minting(p) => \/ Minting(p)' /\ pass'[p].swap = pass[p].swap
                       \/ pass[p].swap \in X
  PROVE  Elsewhere \subseteq Elsewhere' \cup X
<1> SUFFICES ASSUME NEW q \in Operator, Minting(q)
             PROVE  \/ pass[q].swap \in X
                    \/ Minting(q)' /\ pass'[q].swap = pass[q].swap
  BY DEF Elsewhere
<1> QED BY DEF Minting

LEMMA ContinueFacts ==
  ASSUME TypeOK, NEW p \in Operator, NEW r, Continue(p, r)
  PROVE  pass'[p] = r /\ \A q \in Operator \ {p} : pass'[q] = pass[q]
  BY DEF TypeOK, Continue

LEMMA TypeFacts ==
  ASSUME TypeOK
  PROVE  /\ secret \in Secret /\ secret.rv \in Nat /\ writes \subseteq Secret
         /\ clock \in Nat /\ issued \subseteq Token /\ valid \subseteq issued
         /\ \A p \in Operator : /\ pass[p] \in Pass
                                /\ pass[p].snap \in Secret /\ pass[p].fresh \in Secret
  BY DEF TypeOK, StoreTypeOK, Secret, Pass

\* One pass goes on and leaves the Secret alone.
LEMMA QuietInv ==
  ASSUME TypeOK, LedgerInv, NEW p \in Operator,
         \A q \in Operator \ {p} : pass'[q] = pass[q],
         UNCHANGED <<secret, writes>>, Accounted,
         Held(pass[p].snap)', Held(pass[p].fresh)', PassSound(pass[p])'
  PROVE  LedgerInv'
<1>1. Sound(secret)' /\ Covers(secret.token, secret.ledger)' /\ 0 < secret'.rv
  BY SoundKept, CoversKept DEF LedgerInv, Accounted
<1>2. \A w \in writes' : InFlight(w)'
  BY TypeFacts, InFlightKept DEF LedgerInv
<1>3. ASSUME NEW q \in Operator, q # p
      PROVE  Held(pass[q].snap)' /\ Held(pass[q].fresh)' /\ PassSound(pass[q])'
  <2>1. pass'[q] = pass[q] /\ pass[q] \in Pass
    BY <1>3, TypeFacts
  <2> QED BY <2>1, HeldKept, PassSoundKept DEF LedgerInv
<1> QED BY <1>1, <1>2, <1>3 DEF LedgerInv

\* Every pass is left as it was, and so is the Secret.
LEMMA IdleInv ==
  ASSUME TypeOK, LedgerInv, UNCHANGED <<secret, writes, pass>>, Accounted
  PROVE  LedgerInv'
<1>1. Sound(secret)' /\ Covers(secret.token, secret.ledger)' /\ 0 < secret'.rv
  BY SoundKept, CoversKept DEF LedgerInv, Accounted
<1>2. \A w \in writes' : InFlight(w)'
  BY TypeFacts, InFlightKept DEF LedgerInv
<1>3. ASSUME NEW q \in Operator
      PROVE  Held(pass[q].snap)' /\ Held(pass[q].fresh)' /\ PassSound(pass[q])'
  BY TypeFacts, HeldKept, PassSoundKept DEF LedgerInv
<1> QED BY <1>1, <1>2, <1>3 DEF LedgerInv

\* The Secret is replaced by s, and one pass goes on (or none, when p is not
\* one): only s has to be looked at.
LEMMA ReplacedInv ==
  ASSUME TypeOK, LedgerInv, NEW s \in Secret, s.rv = secret.rv, secret' = Stored(s),
         writes' \subseteq writes, NEW p,
         \A q \in Operator \ {p} : pass'[q] = pass[q],
         issued \subseteq issued', released \subseteq released',
         clock \in Nat /\ clock' = clock,
         Sound(s)', Covers(s.token, s.ledger)',
         p \in Operator =>
           Held(pass[p].snap)' /\ Held(pass[p].fresh)' /\ PassSound(pass[p])'
  PROVE  LedgerInv'
<1>1. secret'.rv = secret.rv + 1 /\ secret'.token = s.token /\ secret'.ledger = s.ledger
  BY DEF Stored, Secret
<1>2. 0 < secret'.rv
  BY <1>1, TypeFacts DEF LedgerInv
<1>3. Sound(secret)' /\ Covers(secret.token, secret.ledger)'
  BY <1>1 DEF Sound, Stored, Secret, Covers
<1>4. \A w \in writes' : InFlight(w)'
  BY <1>1, TypeFacts, HeldPast DEF LedgerInv
<1>5. ASSUME NEW q \in Operator, q # p
      PROVE  Held(pass[q].snap)' /\ Held(pass[q].fresh)' /\ PassSound(pass[q])'
  <2>1. /\ pass'[q] = pass[q] /\ pass[q] \in Pass
        /\ pass[q].snap \in Secret /\ pass[q].fresh \in Secret
    BY <1>5, TypeFacts
  <2>2. Held(pass[q].snap)' /\ Held(pass[q].fresh)' /\ pass[q].snap.rv # secret'.rv
    BY <1>1, <2>1, TypeFacts, HeldPast DEF LedgerInv
  <2> QED BY <2>1, <2>2, PassSoundPast DEF LedgerInv
<1> QED BY <1>2, <1>3, <1>4, <1>5 DEF LedgerInv

\* A pass's write fails, and may yet land.
LEMMA FailedInv ==
  ASSUME TypeOK, LedgerInv, NEW s \in Secret, InFlight(s), Failed(s), Accounted,
         NEW p \in Operator, \A q \in Operator \ {p} : pass'[q] = pass[q],
         Held(pass[p].snap)', Held(pass[p].fresh)', PassSound(pass[p])'
  PROVE  LedgerInv'
<1>1. secret' = secret /\ writes' \subseteq writes \cup {s}
  BY DEF Failed, DefinitelyRejected, Conflict, Refused, Uncertain, storeVars
<1>2. Sound(secret)' /\ Covers(secret.token, secret.ledger)' /\ 0 < secret'.rv
  BY <1>1, SoundKept, CoversKept DEF LedgerInv, Accounted
<1>3. \A w \in writes' : InFlight(w)'
  BY <1>1, TypeFacts, InFlightKept DEF LedgerInv
<1>4. ASSUME NEW q \in Operator, q # p
      PROVE  Held(pass[q].snap)' /\ Held(pass[q].fresh)' /\ PassSound(pass[q])'
  <2>1. pass'[q] = pass[q] /\ pass[q] \in Pass
    BY <1>4, TypeFacts
  <2> QED BY <1>1, <2>1, HeldKept, PassSoundKept DEF LedgerInv
<1> QED BY <1>2, <1>3, <1>4 DEF LedgerInv

\* The object a pass goes on with after its write landed.
LEMMA HeldStored ==
  ASSUME NEW s \in Secret, s.rv = secret.rv, secret' = Stored(s),
         Sound(s)', Covers(s.token, s.ledger)'
  PROVE  Held(Stored(s))'
<1>1. /\ Stored(s).rv = secret'.rv /\ Stored(s).token = s.token
      /\ Stored(s).ledger = s.ledger /\ Stored(s).rotateNow = secret'.rotateNow
      /\ Stored(s).cancel = s.cancel /\ Stored(s).backoffOn = s.backoffOn
      /\ secret'.token = s.token /\ secret'.rv \in Nat
  BY DEF Stored, Secret
<1> QED BY <1>1 DEF Held, Sound

LEMMA HeldSecret ==
  ASSUME TypeOK, LedgerInv PROVE Held(secret) /\ InFlight(secret)
  BY TypeFacts DEF LedgerInv, Held, InFlight, Honours

LEMMA HeldNone == ASSUME TypeOK, LedgerInv PROVE Held(NoSecret)
<1>1. /\ NoSecret.ledger = {} /\ NoSecret.rv = 0
      /\ NoSecret.cancel = NoToken /\ NoSecret.backoffOn = NoToken
  BY DEF NoSecret, NewSecret
<1>2. NoSecret.rv <= secret.rv /\ NoSecret.rv # secret.rv
  BY <1>1, TypeFacts DEF LedgerInv
<1>3. Sound(NoSecret)
  BY <1>1, FS_EmptySet, RotationAssumption DEF Sound, Accessors
<1> QED BY <1>2, <1>3 DEF Held

LEMMA PassHeld ==
  ASSUME TypeOK, LedgerInv, NEW p \in Operator
  PROVE  /\ Held(pass[p].snap) /\ Held(pass[p].fresh) /\ PassSound(pass[p])
         /\ InFlight(pass[p].snap) /\ InFlight(pass[p].fresh)
         /\ pass[p].now \in Nat /\ pass[p].now <= clock
  BY TypeFacts, HeldInFlight DEF LedgerInv, PassSound, Pass

\* Vault and the ghosts are left alone, and so is a minted token's place.
LEMMA StillAccounted ==
  ASSUME TypeOK, UNCHANGED <<issued, valid, released, clock>>, orphans \subseteq orphans',
         NEW p \in Operator, \A q \in Operator \ {p} : pass'[q] = pass[q],
         Minting(p) => \/ Minting(p)' /\ pass'[p].swap = pass[p].swap
                       \/ pass[p].swap \in orphans'
  PROVE  Accounted
<1>1. Elsewhere \subseteq Elsewhere' \cup orphans'
  BY ElsewhereKept
<1>2. orphans' \subseteq Elsewhere'
  BY DEF Elsewhere
<1> QED BY <1>1, <1>2, TypeFacts DEF Accounted

\* A pass goes on, after no write or one that failed, with what it holds or has
\* just read, to a point that has no clause of its own in PassSound.
LEMMA PlainMove ==
  ASSUME TypeOK, LedgerInv, NEW p \in Operator, NEW s \in Secret, InFlight(s),
         UNCHANGED <<secret, writes>> \/ Failed(s), Accounted,
         \A q \in Operator \ {p} : pass'[q] = pass[q],
         pass'[p].snap \in {pass[p].snap, secret, NoSecret},
         pass'[p].fresh \in {pass[p].fresh, secret, NoSecret},
         pass'[p].pc \notin {"revoking", "ledger", "swap"}, pass'[p].now <= clock'
  PROVE  LedgerInv'
<1>1. secret' = secret
  BY DEF Failed, DefinitelyRejected, Conflict, Refused, Uncertain, storeVars
<1>2. Held(pass[p].snap)' /\ Held(pass[p].fresh)'
  BY <1>1, HeldKept, HeldSecret, HeldNone, PassHeld
<1>3. PassSound(pass[p])'
  BY DEF PassSound
<1> QED BY <1>1, <1>2, <1>3, QuietInv, FailedInv

LEMMA NoPassFacts ==
  /\ NoPass.snap = NoSecret /\ NoPass.fresh = NoSecret /\ NoPass.pc = "idle"
  /\ NoPass.now = 0
  BY DEF NoPass

\* A call returns, with no minted token in hand.
LEMMA ReturnInv ==
  ASSUME TypeOK, LedgerInv, NEW p \in Operator, NEW s \in Secret, InFlight(s), Return(p),
         UNCHANGED <<secret, writes>> \/ Failed(s),
         UNCHANGED <<issued, valid, released, clock>>, orphans \subseteq orphans',
         Minting(p) => pass[p].swap \in orphans'
  PROVE  LedgerInv'
<1>1. pass'[p] = NoPass /\ \A q \in Operator \ {p} : pass'[q] = pass[q]
  BY ContinueFacts DEF Return
<1>2. Accounted
  BY <1>1, StillAccounted
<1>3. 0 <= clock'
  BY TypeFacts
<1> QED BY <1>1, <1>2, <1>3, NoPassFacts, PlainMove

\* A pass moves to another point, with no minted token in hand.
LEMMA GoOnInv ==
  ASSUME TypeOK, LedgerInv, NEW p \in Operator, NEW s \in Secret, InFlight(s),
         NEW r, Continue(p, r), r.snap = pass[p].snap, r.fresh = pass[p].fresh,
         r.now = pass[p].now, r.pc \notin {"revoking", "ledger", "swap"},
         UNCHANGED <<secret, writes>> \/ Failed(s),
         UNCHANGED <<issued, valid, released, clock>>, orphans \subseteq orphans',
         Minting(p) => \/ pass[p].swap \in orphans'
                       \/ r.pc = "dropMint" /\ r.swap = pass[p].swap
  PROVE  LedgerInv'
<1>1. pass'[p] = r /\ \A q \in Operator \ {p} : pass'[q] = pass[q]
  BY ContinueFacts
<1>2. Minting(p)' <=> r.pc \in {"ledger", "dropMint"}
  BY <1>1 DEF Minting
<1>3. Accounted
  BY <1>1, <1>2, StillAccounted
<1>4. r.now <= clock'
  BY PassHeld
<1> QED BY <1>1, <1>3, <1>4, PlainMove

LEMMA StopFencingInv ==
  ASSUME TypeOK, LedgerInv, NEW p \in Operator, NEW s \in Secret, InFlight(s),
         StopFencing(p), UNCHANGED <<secret, writes>> \/ Failed(s),
         UNCHANGED <<issued, valid, released, orphans, clock>>, ~Minting(p)
  PROVE  LedgerInv'
<1>1. CASE Continue(p, [pass[p] EXCEPT !.pc = "fail"])
  <2>1. PICK r : r = [pass[p] EXCEPT !.pc = "fail"]
    OBVIOUS
  <2>2. r.snap = pass[p].snap /\ r.fresh = pass[p].fresh /\ r.now = pass[p].now /\ r.pc = "fail"
    BY <2>1, TypeFacts DEF Pass
  <2> QED BY <1>1, <2>1, <2>2, GoOnInv
<1>2. CASE Return(p)
  BY <1>2, ReturnInv
<1> QED BY <1>1, <1>2 DEF StopFencing, Return

\* A pass's write of s has landed.
LEMMA LandedInv ==
  ASSUME TypeOK, LedgerInv, NEW p \in Operator, NEW s \in Secret, InFlight(s), Landed(s),
         UNCHANGED <<issued, valid, released, orphans, clock>>,
         \A q \in Operator \ {p} : pass'[q] = pass[q],
         pass'[p].snap \in {pass[p].snap, Stored(s), NoSecret},
         pass'[p].fresh \in {pass[p].fresh, Stored(s), NoSecret},
         Minting(p) => pass[p].swap \in Accessors(s.ledger),
         PassSound(pass[p])'
  PROVE  LedgerInv'
<1>1. s.rv = secret.rv /\ secret' = Stored(s) /\ writes' = writes
  BY DEF Landed
<1>2. Elsewhere \subseteq Elsewhere' \cup Accessors(s.ledger)
  BY ElsewhereKept
<1>3. Sound(s)' /\ Covers(s.token, s.ledger)'
  BY <1>1, <1>2, SoundKept DEF InFlight, Covers
<1>4. secret.rv \in Nat /\ secret'.rv = secret.rv + 1
  BY <1>1, TypeFacts DEF Stored, Secret
<1>5. NoSecret \in Secret
  BY NoPassType DEF NoPass, Pass
<1>6. Held(pass[p].snap)' /\ Held(pass[p].fresh)'
  BY <1>1, <1>3, <1>4, <1>5, TypeFacts, PassHeld, HeldNone, HeldPast, HeldStored
<1> QED BY <1>1, <1>3, <1>6, TypeFacts, ReplacedInv

-----------------------------------------------------------------------------
(* Reading the Secret and the token; the fence.                            *)

LEMMA ReadSecretLedger ==
  ASSUME TypeOK, LedgerInv, NEW p \in Operator, ReadSecret(p) PROVE LedgerInv'
<1>1. PICK r : r = [NoPass EXCEPT !.pc = "lookup", !.snap = secret, !.own = owned]
  OBVIOUS
<1>2. /\ Continue(p, r) /\ pass[p].pc = "idle"
      /\ UNCHANGED <<secret, writes, clock, issued, valid, orphans, released>>
  BY <1>1 DEF ReadSecret, storeVars, vaultVars, ghosts
<1>3. r.pc = "lookup" /\ r.snap = secret /\ r.fresh = NoSecret /\ r.now = 0
  BY <1>1 DEF NoPass
<1>4. pass'[p] = r /\ \A q \in Operator \ {p} : pass'[q] = pass[q]
  BY <1>2, ContinueFacts
<1>5. Accounted
  BY <1>2, <1>4, StillAccounted DEF Minting
<1>6. r.now <= clock' /\ secret \in Secret
  BY <1>2, <1>3, TypeFacts
<1> QED BY <1>2, <1>3, <1>4, <1>5, <1>6, HeldSecret, PlainMove

LEMMA LookupSelfLedger ==
  ASSUME TypeOK, LedgerInv, NEW p \in Operator, LookupSelf(p) PROVE LedgerInv'
<1>1. /\ pass[p].pc = "lookup"
      /\ UNCHANGED <<secret, writes, clock, issued, valid, orphans, released>>
  BY DEF LookupSelf, storeVars, vaultVars, ghosts
<1>2. PICK c \in {"revoke", "fenceRead"},
           t \in {pass[p].swap} \cup {e.swapID : e \in SwapsInDoubt(pass[p])} :
        Continue(p, [pass[p] EXCEPT !.now = clock, !.pc = c, !.swap = t])
  <2>1. [pass[p] EXCEPT !.now = clock, !.pc = "revoke"] =
          [pass[p] EXCEPT !.now = clock, !.pc = "revoke", !.swap = pass[p].swap]
    BY TypeFacts DEF Pass
  <2> QED BY <2>1 DEF LookupSelf
<1>3. PICK r : r = [pass[p] EXCEPT !.now = clock, !.pc = c, !.swap = t]
  OBVIOUS
<1>4. /\ r.pc \in {"revoke", "fenceRead"} /\ r.now = clock
      /\ r.snap = pass[p].snap /\ r.fresh = pass[p].fresh
  BY <1>3, TypeFacts DEF Pass
<1>5. pass'[p] = r /\ \A q \in Operator \ {p} : pass'[q] = pass[q]
  BY <1>2, <1>3, ContinueFacts
<1>6. Accounted
  BY <1>1, <1>5, StillAccounted DEF Minting
<1>7. r.now <= clock' /\ secret \in Secret
  BY <1>1, <1>4, TypeFacts
<1> QED BY <1>1, <1>4, <1>5, <1>6, <1>7, HeldSecret, PlainMove

LEMMA LookupFailsLedger ==
  ASSUME TypeOK, LedgerInv, NEW p \in Operator, LookupFails(p) PROVE LedgerInv'
<1>1. secret \in Secret /\ InFlight(secret)
  BY TypeFacts, HeldSecret
<1> QED BY <1>1, ReturnInv DEF LookupFails, Minting, vaultVars, ghosts

LEMMA FenceReadLedger ==
  ASSUME TypeOK, LedgerInv, NEW p \in Operator, FenceRead(p) PROVE LedgerInv'
<1>1. secret \in Secret /\ InFlight(secret)
  BY TypeFacts, HeldSecret
<1>2. /\ pass[p].pc = "fenceRead" /\ ~Minting(p)
      /\ UNCHANGED <<secret, writes, clock, issued, valid, orphans, released>>
  BY DEF FenceRead, Minting, vaultVars, ghosts
<1>3. CASE Continue(p, [pass[p] EXCEPT !.pc = "fenceWrite", !.fresh = secret])
  <2>1. PICK r : r = [pass[p] EXCEPT !.pc = "fenceWrite", !.fresh = secret]
    OBVIOUS
  <2>2. r.snap = pass[p].snap /\ r.fresh = secret /\ r.now = pass[p].now /\ r.pc = "fenceWrite"
    BY <2>1, TypeFacts DEF Pass
  <2>3. pass'[p] = r /\ \A q \in Operator \ {p} : pass'[q] = pass[q]
    BY <1>3, <2>1, ContinueFacts
  <2>4. Accounted
    BY <1>2, <2>3, StillAccounted
  <2>5. r.now <= clock'
    BY <1>2, <2>2, PassHeld
  <2> QED BY <1>1, <1>2, <2>2, <2>3, <2>4, <2>5, PlainMove
<1>4. CASE StopFencing(p)
  BY <1>1, <1>2, <1>4, StopFencingInv
<1> QED BY <1>3, <1>4 DEF FenceRead

LEMMA FenceWriteLedger ==
  ASSUME TypeOK, LedgerInv, NEW p \in Operator, FenceWrite(p) PROVE LedgerInv'
<1>1. pass[p].fresh \in Secret /\ InFlight(pass[p].fresh)
  BY TypeFacts, PassHeld
<1>2. /\ pass[p].pc = "fenceWrite" /\ ~Minting(p)
      /\ UNCHANGED <<clock, issued, valid, orphans, released>>
  BY DEF FenceWrite, Minting, vaultVars, ghosts
<1>3. CASE /\ Landed(pass[p].fresh)
           /\ Continue(p, [pass[p] EXCEPT !.pc = "settle", !.fresh = Stored(pass[p].fresh)])
  <2>1. PICK r : r = [pass[p] EXCEPT !.pc = "settle", !.fresh = Stored(pass[p].fresh)]
    OBVIOUS
  <2>2. /\ r.snap = pass[p].snap /\ r.fresh = Stored(pass[p].fresh)
        /\ r.now = pass[p].now /\ r.pc = "settle"
    BY <2>1, TypeFacts DEF Pass
  <2>3. pass'[p] = r /\ \A q \in Operator \ {p} : pass'[q] = pass[q]
    BY <1>3, <2>1, ContinueFacts
  <2>4. PassSound(pass[p])'
    BY <1>2, <2>2, <2>3, PassHeld DEF PassSound
  <2> QED BY <1>1, <1>2, <1>3, <2>2, <2>3, <2>4, LandedInv
<1>4. CASE /\ Conflict(pass[p].fresh)
           /\ Continue(p, [pass[p] EXCEPT !.pc = "fenceRead", !.tries = pass[p].tries + 1])
  <2>1. PICK r : r = [pass[p] EXCEPT !.pc = "fenceRead", !.tries = pass[p].tries + 1]
    OBVIOUS
  <2>2. /\ r.snap = pass[p].snap /\ r.fresh = pass[p].fresh
        /\ r.now = pass[p].now /\ r.pc = "fenceRead"
    BY <2>1, TypeFacts DEF Pass
  <2>3. Failed(pass[p].fresh)
    BY <1>4 DEF Failed, DefinitelyRejected
  <2> QED BY <1>1, <1>2, <1>4, <2>1, <2>2, <2>3, GoOnInv
<1>5. CASE Failed(pass[p].fresh) /\ StopFencing(p)
  BY <1>1, <1>2, <1>5, StopFencingInv
<1> QED BY <1>3, <1>4, <1>5 DEF FenceWrite, Failed, DefinitelyRejected

-----------------------------------------------------------------------------
(* Settling a swap.                                                        *)

\* The ledger of a swap that did not land: no new entry, and every accessor
\* stays but that of the live token.
LEMMA SettledLedgerSound ==
  ASSUME NEW r \in Pass, Sound(r.fresh)
  PROVE  /\ IsFiniteSet(SettledLedger(r)) /\ Cardinality(SettledLedger(r)) <= LedgerCap
         /\ \A e, f \in SettledLedger(r) :
              e.state = Unresolved /\ f.state = Unresolved => e = f
         /\ Accessors(SettledLedger(r)) \subseteq Accessors(r.fresh.ledger)
         /\ Accessors(r.fresh.ledger) \subseteq
              Accessors(SettledLedger(r)) \cup {r.snap.token}
<1> DEFINE L == r.fresh.ledger
           mine == {e \in L : e.swapID = r.swap}
           set(e) == [e EXCEPT !.state = Scheduled, !.notBefore = r.now]
           D == {e \in L : ~(e \in mine /\ ~IsMint(e) /\ e.accessor = r.snap.token)}
           onto == [e \in D |-> IF e \in mine /\ IsMint(e) THEN set(e) ELSE e]
<1>1. L \subseteq Entry /\ Scheduled # Unresolved
  BY DEF Pass, Secret, Scheduled, Unresolved
<1>2. \A e \in L : set(e).state = Scheduled /\ set(e).accessor = e.accessor
  BY <1>1 DEF Entry
<1>3. SettledLedger(r) = (L \ mine) \cup {set(e) : e \in {x \in mine : IsMint(x)}}
                           \cup {e \in mine : ~IsMint(e) /\ e.accessor # r.snap.token}
  BY DEF SettledLedger
<1>4. onto \in Surjection(D, SettledLedger(r))
  <2>1. onto \in [D -> SettledLedger(r)]
    BY <1>3
  <2>2. \A t \in SettledLedger(r) : \E e \in D : onto[e] = t
    BY <1>3
  <2> QED BY <2>1, <2>2 DEF Surjection
<1>5. IsFiniteSet(L) /\ Cardinality(L) <= LedgerCap /\ D \subseteq L
  BY DEF Sound
<1>6. IsFiniteSet(D) /\ Cardinality(D) <= Cardinality(L)
  BY <1>5, FS_Subset
<1>7. IsFiniteSet(SettledLedger(r)) /\ Cardinality(SettledLedger(r)) <= Cardinality(D)
  BY <1>4, <1>6, FS_Surjection
<1>8. Cardinality(SettledLedger(r)) <= LedgerCap
  BY <1>5, <1>6, <1>7, FS_CardinalityType, RotationAssumption
<1>9. \A e \in SettledLedger(r) : e.state = Unresolved => e \in L
  BY <1>1, <1>2, <1>3
<1>10. \A e \in L : e.accessor # r.snap.token => \E x \in SettledLedger(r) : x.accessor = e.accessor
  <2> SUFFICES ASSUME NEW e \in L, e.accessor # r.snap.token
               PROVE  \E x \in SettledLedger(r) : x.accessor = e.accessor
    OBVIOUS
  <2>1. CASE e \in mine /\ IsMint(e)
    <3>1. set(e) \in SettledLedger(r)
      BY <1>3, <2>1
    <3> QED BY <1>2, <3>1
  <2>2. CASE ~(e \in mine /\ IsMint(e))
    <3>1. e \in L \ mine \/ e \in {x \in mine : ~IsMint(x) /\ x.accessor # r.snap.token}
      BY <2>2
    <3>2. e \in SettledLedger(r)
      BY <1>3, <3>1
    <3> QED BY <3>2
  <2> QED BY <2>1, <2>2
<1>11. Accessors(SettledLedger(r)) \subseteq Accessors(L)
  <2>1. ASSUME NEW x \in SettledLedger(r) PROVE \E e \in L : x.accessor = e.accessor
    <3>1. x \in L \/ \E e \in L : x = set(e)
      BY <1>3
    <3> QED BY <1>2, <3>1
  <2> QED BY <2>1 DEF Accessors
<1>12. Accessors(L) \subseteq Accessors(SettledLedger(r)) \cup {r.snap.token}
  BY <1>10 DEF Accessors
<1>13. \A x, y \in SettledLedger(r) : x.state = Unresolved /\ y.state = Unresolved => x = y
  BY <1>9 DEF Sound
<1> QED BY <1>7, <1>8, <1>11, <1>12, <1>13

\* The object the settling pass sends.
LEMMA SettledInFlight ==
  ASSUME TypeOK, LedgerInv, NEW p \in Operator, pass[p].fresh.token = pass[p].snap.token,
         NEW s, s = [pass[p].fresh EXCEPT !.ledger = SettledLedger(pass[p])]
  PROVE  s \in Secret /\ InFlight(s)
<1>1. pass[p] \in Pass /\ pass[p].fresh \in Secret /\ Held(pass[p].fresh)
  BY TypeFacts, PassHeld
<1>2. s \in Secret
  BY <1>1, SettledLedgerType DEF Secret
<1>3. /\ s.rv = pass[p].fresh.rv /\ s.token = pass[p].fresh.token
      /\ s.ledger = SettledLedger(pass[p]) /\ s.rotateNow = pass[p].fresh.rotateNow
      /\ s.cancel = pass[p].fresh.cancel /\ s.backoffOn = pass[p].fresh.backoffOn
  BY <1>1 DEF Secret
<1>4. Sound(pass[p].fresh)
  BY <1>1 DEF Held
<1>5. Sound(s)
  BY <1>1, <1>3, <1>4, SettledLedgerSound DEF Sound
<1>6. Accessors(pass[p].fresh.ledger) \subseteq Accessors(s.ledger) \cup {s.token}
  BY <1>1, <1>3, <1>4, SettledLedgerSound
<1>7. s.rv = secret.rv => Covers(s.token, s.ledger)
  BY <1>1, <1>3, <1>6 DEF Held, Covers
<1> QED BY <1>1, <1>2, <1>3, <1>5, <1>7 DEF Held, InFlight, Honours

LEMMA SettleLedger ==
  ASSUME TypeOK, LedgerInv, NEW p \in Operator, Settle(p) PROVE LedgerInv'
<1>1. PICK s : s = [pass[p].fresh EXCEPT !.ledger = SettledLedger(pass[p])]
  OBVIOUS
<1>2. /\ pass[p].pc = "settle" /\ ~Minting(p)
      /\ UNCHANGED <<clock, issued, valid, orphans, released>>
  BY DEF Settle, Minting, vaultVars, ghosts
<1>3. CASE StopFencing(p) /\ UNCHANGED storeVars
  BY <1>2, <1>3, TypeFacts, HeldSecret, StopFencingInv DEF storeVars
<1>4. CASE /\ pass[p].fresh.token = pass[p].snap.token /\ Landed(s)
           /\ Continue(p, [pass[p] EXCEPT !.snap = Stored(s),
                             !.pc = IF pass[p].failing THEN "fail" ELSE "revoke"])
  <2>1. s \in Secret /\ InFlight(s)
    BY <1>1, <1>4, SettledInFlight
  <2>2. PICK r : r = [pass[p] EXCEPT !.snap = Stored(s),
                        !.pc = IF pass[p].failing THEN "fail" ELSE "revoke"]
    OBVIOUS
  <2>3. /\ r.snap = Stored(s) /\ r.fresh = pass[p].fresh
        /\ r.now = pass[p].now /\ r.pc \in {"fail", "revoke"}
    BY <2>2, TypeFacts DEF Pass
  <2>4. pass'[p] = r /\ \A q \in Operator \ {p} : pass'[q] = pass[q]
    BY <1>4, <2>2, ContinueFacts
  <2>5. PassSound(pass[p])'
    BY <1>2, <2>3, <2>4, PassHeld DEF PassSound
  <2> QED BY <1>2, <1>4, <2>1, <2>3, <2>4, <2>5, LandedInv
<1>5. CASE pass[p].fresh.token = pass[p].snap.token /\ Failed(s) /\ StopFencing(p)
  BY <1>1, <1>2, <1>5, SettledInFlight, StopFencingInv
<1> QED BY <1>1, <1>3, <1>4, <1>5 DEF Settle

-----------------------------------------------------------------------------
(* revokeDue.                                                              *)

\* The cancelled entry is the user's, the live token's entry is the Secret's:
\* revokeDue may drop both.
LEMMA StartRevokeLedger ==
  ASSUME TypeOK, LedgerInv, NEW p \in Operator, StartRevoke(p) PROVE LedgerInv'
<1> DEFINE r == pass[p]
<1>1. /\ pass[p].pc = "revoke"
      /\ UNCHANGED <<secret, writes, clock, issued, valid, orphans, released>>
  BY DEF StartRevoke, storeVars, vaultVars, ghosts
<1>2. PICK dropped \in SUBSET {e \in r.snap.ledger : e.accessor = r.snap.cancel},
           live \in SUBSET {e \in r.snap.ledger : e.accessor = r.snap.token},
           todo \in SUBSET r.snap.ledger :
        Continue(p, [r EXCEPT !.pc = "revoking", !.todo = todo,
                              !.kept = (r.snap.ledger \ dropped) \ live])
  BY DEF StartRevoke, Due
<1>3. PICK k : k = (r.snap.ledger \ dropped) \ live
  OBVIOUS
<1>4. PICK n : n = [r EXCEPT !.pc = "revoking", !.todo = todo, !.kept = k]
  OBVIOUS
<1>5. n.snap = r.snap /\ n.fresh = r.fresh /\ n.now = r.now /\ n.pc = "revoking" /\ n.kept = k
  BY <1>4, TypeFacts DEF Pass
<1>6. pass'[p] = n /\ \A q \in Operator \ {p} : pass'[q] = pass[q]
  BY <1>2, <1>3, <1>4, ContinueFacts
<1>7. Accounted
  BY <1>1, <1>6, StillAccounted DEF Minting
<1>8. Accessors(r.snap.ledger) \subseteq Accessors(k) \cup {r.snap.cancel, r.snap.token}
  BY <1>2, <1>3 DEF Accessors
<1>9. valid \subseteq Token /\ NoToken \notin Token
  BY TypeFacts, NoTokenAssumption
<1>10. Sound(r.snap) /\ (r.snap.rv = secret.rv => Covers(r.snap.token, r.snap.ledger))
  BY PassHeld DEF Held
<1>11. r.snap.rv = secret.rv => Covers(r.snap.token, k)
  BY <1>8, <1>9, <1>10 DEF Covers, Sound, Elsewhere
<1>12. PassSound(pass[p])'
  BY <1>1, <1>3, <1>5, <1>6, <1>7, <1>11, CoversKept, PassHeld DEF PassSound
<1>13. Held(pass[p].snap)' /\ Held(pass[p].fresh)'
  BY <1>1, <1>5, <1>6, <1>7, HeldKept, PassHeld
<1> QED BY <1>1, <1>6, <1>7, <1>12, <1>13, QuietInv

LEMMA RevokeEntryLedger ==
  ASSUME TypeOK, LedgerInv, NEW p \in Operator, RevokeEntry(p) PROVE LedgerInv'
<1> DEFINE r == pass[p]
<1>1. /\ pass[p].pc = "revoking"
      /\ UNCHANGED <<secret, writes, clock, issued, orphans, released>>
  BY DEF RevokeEntry, ghosts
<1>2. PICK e \in r.todo, ok \in BOOLEAN :
        /\ RevokeAndVerify(p, e.accessor, ok)
        /\ Continue(p, [r EXCEPT !.todo = r.todo \ {e},
                                 !.kept = IF ok THEN r.kept \ {e} ELSE r.kept])
  BY DEF RevokeEntry
<1>3. valid' \subseteq valid /\ (ok => e.accessor \notin valid')
  BY <1>2 DEF RevokeAndVerify
<1>4. PICK k : k = IF ok THEN r.kept \ {e} ELSE r.kept
  OBVIOUS
<1>5. PICK n : n = [r EXCEPT !.todo = r.todo \ {e}, !.kept = k]
  OBVIOUS
<1>6. n.snap = r.snap /\ n.fresh = r.fresh /\ n.now = r.now /\ n.pc = "revoking" /\ n.kept = k
  BY <1>1, <1>5, TypeFacts DEF Pass
<1>7. pass'[p] = n /\ \A q \in Operator \ {p} : pass'[q] = pass[q]
  BY <1>2, <1>4, <1>5, ContinueFacts
<1>8. Elsewhere \subseteq Elsewhere'
  BY <1>1, <1>7, ElsewhereKept DEF Minting
<1>9. Accounted
  BY <1>1, <1>3, <1>8, TypeFacts DEF Accounted
<1>10. r.kept \subseteq r.snap.ledger /\ k \subseteq r.kept
       /\ (r.snap.rv = secret.rv => Covers(r.snap.token, r.kept))
  BY <1>1, <1>4, PassHeld DEF PassSound
<1>11. n.snap.rv = secret.rv => Covers(n.snap.token, k)'
  <2>1. Accessors(r.kept) \cap valid' \subseteq Accessors(k)
    BY <1>3, <1>4 DEF Accessors
  <2> QED BY <1>3, <1>6, <1>8, <1>10, <2>1 DEF Covers
<1>12. PassSound(pass[p])'
  BY <1>1, <1>6, <1>7, <1>10, <1>11, PassHeld DEF PassSound
<1>13. Held(pass[p].snap)' /\ Held(pass[p].fresh)'
  BY <1>1, <1>6, <1>7, <1>9, HeldKept, PassHeld
<1> QED BY <1>1, <1>7, <1>9, <1>12, <1>13, QuietInv

\* The object revokeDue sends.
LEMMA RevokedInFlight ==
  ASSUME TypeOK, LedgerInv, NEW p \in Operator, pass[p].pc = "revoking",
         NEW s, s = [pass[p].snap EXCEPT !.ledger = pass[p].kept, !.cancel = NoToken,
                                         !.autoRotate = AutoRotate]
  PROVE  s \in Secret /\ InFlight(s)
<1>1. pass[p] \in Pass /\ pass[p].snap \in Secret /\ pass[p].kept \subseteq Entry
  BY TypeFacts DEF Pass
<1>2. s \in Secret
  BY <1>1, RotationAssumption DEF Secret
<1>3. /\ s.rv = pass[p].snap.rv /\ s.token = pass[p].snap.token /\ s.ledger = pass[p].kept
      /\ s.rotateNow = pass[p].snap.rotateNow
      /\ s.cancel = NoToken /\ s.backoffOn = pass[p].snap.backoffOn
  BY <1>1 DEF Secret
<1>4. /\ Held(pass[p].snap) /\ Sound(pass[p].snap)
      /\ pass[p].kept \subseteq pass[p].snap.ledger
      /\ s.rv = secret.rv => Covers(s.token, s.ledger)
  BY <1>3, PassHeld DEF Held, PassSound
<1>5. IsFiniteSet(s.ledger) /\ Cardinality(s.ledger) <= LedgerCap
  <2>1. IsFiniteSet(s.ledger) /\ Cardinality(s.ledger) <= Cardinality(pass[p].snap.ledger)
    BY <1>3, <1>4, FS_Subset DEF Sound
  <2> QED BY <1>4, <2>1, FS_CardinalityType, RotationAssumption DEF Sound
<1>6. Sound(s)
  BY <1>3, <1>4, <1>5 DEF Sound, Accessors
<1> QED BY <1>2, <1>3, <1>4, <1>6 DEF Held, InFlight, Honours

LEMMA RevokeWriteLedger ==
  ASSUME TypeOK, LedgerInv, NEW p \in Operator, RevokeWrite(p) PROVE LedgerInv'
<1> DEFINE r == pass[p]
           rotate == [r EXCEPT !.pc = "rotate", !.kept = {}]
<1>1. PICK s : s = [r.snap EXCEPT !.ledger = r.kept, !.cancel = NoToken,
                                  !.autoRotate = AutoRotate]
  OBVIOUS
<1>2. /\ r.pc = "revoking" /\ ~Minting(p)
      /\ UNCHANGED <<clock, issued, valid, orphans, released>>
  BY DEF RevokeWrite, Minting, vaultVars, ghosts
<1>3. s \in Secret /\ InFlight(s)
  BY <1>1, <1>2, RevokedInFlight
<1>4. PICK n : n = rotate
  OBVIOUS
<1>5. n.snap = r.snap /\ n.fresh = r.fresh /\ n.now = r.now /\ n.pc = "rotate"
  BY <1>4, TypeFacts DEF Pass
<1>6. CASE Continue(p, n) /\ (UNCHANGED <<secret, writes>> \/ Failed(s))
  BY <1>2, <1>3, <1>5, <1>6, GoOnInv
<1>7. CASE Landed(s) /\ Continue(p, [rotate EXCEPT !.snap = Stored(s)])
  <2>1. PICK m : m = [rotate EXCEPT !.snap = Stored(s)]
    OBVIOUS
  <2>2. m.snap = Stored(s) /\ m.fresh = r.fresh /\ m.now = r.now /\ m.pc = "rotate"
    BY <2>1, TypeFacts DEF Pass
  <2>3. pass'[p] = m /\ \A q \in Operator \ {p} : pass'[q] = pass[q]
    BY <1>7, <2>1, ContinueFacts
  <2>4. PassSound(pass[p])'
    BY <1>2, <2>2, <2>3, PassHeld DEF PassSound
  <2> QED BY <1>2, <1>3, <1>7, <2>2, <2>3, <2>4, LandedInv
<1> QED BY <1>1, <1>4, <1>6, <1>7 DEF RevokeWrite, storeVars

-----------------------------------------------------------------------------
(* rotateIfDue and mintAndSwap.                                            *)

LEMMA SkipRotationLedger ==
  ASSUME TypeOK, LedgerInv, NEW p \in Operator, SkipRotation(p) PROVE LedgerInv'
<1>1. secret \in Secret /\ InFlight(secret)
  BY TypeFacts, HeldSecret
<1> QED BY <1>1, ReturnInv DEF SkipRotation, Minting, storeVars, vaultVars, ghosts

LEMMA MintRefusedLedger ==
  ASSUME TypeOK, LedgerInv, NEW p \in Operator, MintRefused(p) PROVE LedgerInv'
<1>1. PICK n : n = [pass[p] EXCEPT !.pc = "fail"]
  OBVIOUS
<1>2. /\ n.snap = pass[p].snap /\ n.fresh = pass[p].fresh
      /\ n.now = pass[p].now /\ n.pc = "fail"
  BY <1>1, TypeFacts DEF Pass
<1>3. /\ pass[p].pc = "rotate" /\ Continue(p, n)
      /\ UNCHANGED <<secret, writes, clock, issued, valid, orphans, released>>
  BY <1>1 DEF MintRefused, vaultVars, ghosts
<1> QED BY <1>2, <1>3, TypeFacts, HeldSecret, GoOnInv DEF Minting

\* A mint is recorded in its pass, in the ledger next, or lost at once.
LEMMA MintLedger ==
  ASSUME TypeOK, NamesOK, LedgerInv, NEW p \in Operator, Mint(p) PROVE LedgerInv'
<1> DEFINE r == pass[p]
<1>1. /\ r.pc = "rotate" /\ MayMint(p) /\ ~Minting(p)
      /\ UNCHANGED <<secret, writes, clock, released>>
  BY DEF Mint, Minting
<1>2. PICK t \in Token, c \in {"ledger", "dropMint", "fail"}, w \in Token \cup {r.swap} :
        /\ CreateToken(t)
        /\ Continue(p, [r EXCEPT !.pc = c, !.swap = w])
        /\ orphans \subseteq orphans'
        /\ (c \in {"ledger", "dropMint"} /\ w = t) \/ t \in orphans'
        /\ c = "ledger" => w = t
  <2>1. [r EXCEPT !.pc = "fail"] = [r EXCEPT !.pc = "fail", !.swap = r.swap]
    BY TypeFacts DEF Pass
  <2> QED BY <2>1 DEF Mint
<1>3. PICK n : n = [r EXCEPT !.pc = c, !.swap = w]
  OBVIOUS
<1>4. n.snap = r.snap /\ n.fresh = r.fresh /\ n.now = r.now /\ n.pc = c /\ n.swap = w
  BY <1>3, TypeFacts DEF Pass
<1>5. pass'[p] = n /\ \A q \in Operator \ {p} : pass'[q] = pass[q]
  BY <1>2, <1>3, ContinueFacts
<1>6. Elsewhere \subseteq Elsewhere'
  BY <1>1, <1>2, <1>5, ElsewhereKept
<1>7. t \in Elsewhere'
  BY <1>2, <1>4, <1>5 DEF Elsewhere, Minting
<1>8. t \notin issued /\ issued' = issued \cup {t} /\ valid' = valid \cup {t}
  BY <1>2 DEF CreateToken
<1>9. Accounted
  BY <1>1, <1>6, <1>7, <1>8, TypeFacts DEF Accounted
<1>10. r.snap.token # t
  BY <1>1, <1>8 DEF NamesOK
<1>11. PassSound(pass[p])'
  BY <1>1, <1>2, <1>4, <1>5, <1>10, PassHeld DEF PassSound, MayMint, LedgerFull
<1>12. Held(pass[p].snap)' /\ Held(pass[p].fresh)'
  BY <1>1, <1>4, <1>5, <1>9, HeldKept, PassHeld
<1> QED BY <1>1, <1>5, <1>9, <1>11, <1>12, QuietInv

LEMMA AddedElement ==
  ASSUME NEW S, IsFiniteSet(S), NEW x
  PROVE  /\ IsFiniteSet(S \cup {x})
         /\ Cardinality(S) \in Nat /\ Cardinality(S \cup {x}) \in Nat
         /\ Cardinality(S \cup {x}) <= Cardinality(S) + 1
<1>1. /\ IsFiniteSet(S \cup {x})
      /\ Cardinality(S \cup {x}) = IF x \in S THEN Cardinality(S) ELSE Cardinality(S) + 1
  BY FS_AddElement
<1>2. Cardinality(S) \in Nat
  BY FS_CardinalityType
<1> QED BY <1>1, <1>2

\* The ledger write adds the rotation's two entries to a ledger with room for
\* them and no swap in doubt.
LEMMA RecordedInFlight ==
  ASSUME TypeOK, NamesOK, LedgerInv, NEW p \in Operator, pass[p].pc = "ledger",
         NEW s, s = [pass[p].snap EXCEPT !.ledger =
                       pass[p].snap.ledger \cup {MintEntry(pass[p]), OldEntry(pass[p])}]
  PROVE  s \in Secret /\ InFlight(s)
<1> DEFINE r == pass[p]
<1>1. /\ r \in Pass /\ r.snap \in Secret /\ r.swap \in issued /\ r.snap.token \in issued
      /\ r.swap \in Token /\ r.snap.token \in Token
  BY TypeFacts DEF NamesOK, HasMinted
<1>2. PICK m, o : m = MintEntry(r) /\ o = OldEntry(r)
  OBVIOUS
<1>3. m \in Entry /\ o \in Entry
  BY <1>1, <1>2, EntriesType
<1>4. /\ m.accessor \in issued /\ o.accessor \in issued
      /\ o.state # Unresolved
  BY <1>1, <1>2 DEF MintEntry, OldEntry, Scheduled, Unresolved
<1>5. s \in Secret
  BY <1>1, <1>2, <1>3 DEF Secret
<1>6. /\ s.rv = r.snap.rv /\ s.token = r.snap.token /\ s.ledger = r.snap.ledger \cup {m, o}
      /\ s.rotateNow = r.snap.rotateNow
      /\ s.cancel = r.snap.cancel /\ s.backoffOn = r.snap.backoffOn
  BY <1>1, <1>2 DEF Secret
<1>7. /\ Held(r.snap) /\ Sound(r.snap)
      /\ \A e \in r.snap.ledger : e.state # Unresolved
      /\ Cardinality(r.snap.ledger) < LedgerFull
  BY PassHeld DEF Held, PassSound
<1>8. IsFiniteSet(s.ledger) /\ Cardinality(s.ledger) <= LedgerCap
  <2>1. PICK L, one, two : L = r.snap.ledger /\ one = L \cup {m} /\ two = one \cup {o}
    OBVIOUS
  <2>2. IsFiniteSet(L) /\ Cardinality(L) < LedgerFull /\ s.ledger = two
    BY <1>6, <1>7, <2>1 DEF Sound
  <2>3. /\ IsFiniteSet(one) /\ Cardinality(L) \in Nat /\ Cardinality(one) \in Nat
        /\ Cardinality(one) <= Cardinality(L) + 1
    BY <2>1, <2>2, AddedElement
  <2>4. /\ IsFiniteSet(two) /\ Cardinality(two) \in Nat
        /\ Cardinality(two) <= Cardinality(one) + 1
    BY <2>1, <2>3, AddedElement
  <2>5. Cardinality(two) <= LedgerCap
    BY <2>2, <2>3, <2>4, RotationAssumption DEF LedgerFull
  <2> QED BY <2>2, <2>4, <2>5
<1>9. \A e, f \in s.ledger : e.state = Unresolved /\ f.state = Unresolved => e = f
  BY <1>4, <1>6, <1>7
<1>10. Accessors(s.ledger) = Accessors(r.snap.ledger) \cup {m.accessor, o.accessor}
  BY <1>6 DEF Accessors
<1>11. Sound(s)
  BY <1>4, <1>6, <1>7, <1>8, <1>9, <1>10 DEF Sound
<1>12. s.rv = secret.rv => Covers(s.token, s.ledger)
  BY <1>6, <1>7, <1>10 DEF Held, Covers
<1> QED BY <1>5, <1>6, <1>7, <1>11, <1>12 DEF Held, InFlight, Honours

LEMMA LedgerWriteLedger ==
  ASSUME TypeOK, NamesOK, LedgerInv, NEW p \in Operator, LedgerWrite(p) PROVE LedgerInv'
<1> DEFINE r == pass[p]
<1>1. PICK s : s = [r.snap EXCEPT !.ledger = r.snap.ledger \cup {MintEntry(r), OldEntry(r)}]
  OBVIOUS
<1>2. /\ r.pc = "ledger" /\ r \in Pass /\ r.snap \in Secret
      /\ UNCHANGED <<clock, issued, valid, orphans, released>>
  BY TypeFacts DEF LedgerWrite, vaultVars, ghosts
<1>3. s \in Secret /\ InFlight(s)
  BY <1>1, <1>2, RecordedInFlight
<1>4. CASE Landed(s) /\ Continue(p, [r EXCEPT !.pc = "swap", !.snap = Stored(s)])
  <2>1. PICK n : n = [r EXCEPT !.pc = "swap", !.snap = Stored(s)]
    OBVIOUS
  <2>2. /\ n.snap = Stored(s) /\ n.fresh = r.fresh /\ n.now = r.now /\ n.pc = "swap"
        /\ n.swap = r.swap
    BY <1>2, <2>1 DEF Pass
  <2>3. pass'[p] = n /\ \A q \in Operator \ {p} : pass'[q] = pass[q]
    BY <1>4, <2>1, ContinueFacts
  <2>4. /\ n.snap.token = r.snap.token /\ n.snap.rotateNow = r.snap.rotateNow
        /\ n.snap.ledger = r.snap.ledger \cup {MintEntry(r), OldEntry(r)}
    BY <1>1, <1>2, <2>2 DEF Stored, Secret
  <2>5. OldEntry(n) = OldEntry(r)
    BY <2>2, <2>4 DEF OldEntry
  <2>6. r.swap # r.snap.token /\ r.now <= clock
    BY <1>2, PassHeld DEF PassSound
  <2>7. PassSound(n)'
    BY <1>2, <2>2, <2>4, <2>5, <2>6 DEF PassSound
  <2>8. MintEntry(r) \in s.ledger /\ MintEntry(r).accessor = r.swap
    BY <1>1, <1>2 DEF MintEntry, Secret
  <2>9. r.swap \in Accessors(s.ledger)
    BY <2>8 DEF Accessors
  <2> QED BY <1>2, <1>3, <1>4, <2>2, <2>3, <2>7, <2>9, LandedInv
<1>5. CASE Failed(s) /\ Continue(p, [r EXCEPT !.pc = "dropMint"])
  <2>1. PICK n : n = [r EXCEPT !.pc = "dropMint"]
    OBVIOUS
  <2>2. /\ n.snap = r.snap /\ n.fresh = r.fresh /\ n.now = r.now /\ n.pc = "dropMint"
        /\ n.swap = r.swap
    BY <1>2, <2>1 DEF Pass
  <2> QED BY <1>2, <1>3, <1>5, <2>1, <2>2, GoOnInv
<1> QED BY <1>1, <1>4, <1>5 DEF LedgerWrite

LEMMA DropMintLedger ==
  ASSUME TypeOK, LedgerInv, NEW p \in Operator, DropMint(p) PROVE LedgerInv'
<1> DEFINE r == pass[p]
<1>1. PICK n : n = [r EXCEPT !.pc = "fail"]
  OBVIOUS
<1>2. n.snap = r.snap /\ n.fresh = r.fresh /\ n.now = r.now /\ n.pc = "fail"
  BY <1>1, TypeFacts DEF Pass
<1>3. /\ r.pc = "dropMint" /\ Continue(p, n)
      /\ UNCHANGED <<secret, writes, clock, issued, released>>
  BY <1>1 DEF DropMint
<1>4. PICK ok \in BOOLEAN : /\ RevokeAndVerify(p, r.swap, ok)
                            /\ orphans' = IF ok THEN orphans ELSE orphans \cup {r.swap}
  BY DEF DropMint
<1>5. valid' \subseteq valid /\ (ok => r.swap \notin valid')
  BY <1>4 DEF RevokeAndVerify
<1>6. pass'[p] = n /\ \A q \in Operator \ {p} : pass'[q] = pass[q]
  BY <1>3, ContinueFacts
<1>7. PICK t : t = r.swap
  OBVIOUS
<1>8. orphans \subseteq orphans' /\ (ok => t \notin valid') /\ (~ok => t \in orphans')
  BY <1>4, <1>5, <1>7
<1>9. Elsewhere \subseteq Elsewhere' \cup {t}
  BY <1>3, <1>6, <1>7, <1>8, ElsewhereKept
<1>10. Accounted
  BY <1>3, <1>5, <1>8, <1>9, TypeFacts DEF Accounted, Elsewhere
<1>11. PassSound(pass[p])'
  BY <1>2, <1>3, <1>6, PassHeld DEF PassSound
<1>12. Held(pass[p].snap)' /\ Held(pass[p].fresh)'
  BY <1>2, <1>3, <1>6, <1>10, HeldKept, PassHeld
<1> QED BY <1>3, <1>6, <1>10, <1>11, <1>12, QuietInv

\* The swap drops only the entry of the token it installs, and keeps that of
\* the token it replaces.
LEMMA SwappedInFlight ==
  ASSUME TypeOK, NamesOK, LedgerInv, NEW p \in Operator, pass[p].pc = "swap",
         NEW s, s = [pass[p].snap EXCEPT
                       !.token = pass[p].swap, !.rotateNow = "none",
                       !.backoff = 0, !.backoffOn = NoToken,
                       !.ledger = InstalledLedger(pass[p])]
  PROVE  s \in Secret /\ InFlight(s)
<1> DEFINE r == pass[p]
<1>1. r \in Pass /\ r.snap \in Secret /\ r.swap \in Token
  BY TypeFacts DEF NamesOK, HasMinted
<1>2. InstalledLedger(r) \subseteq r.snap.ledger /\ r.snap.ledger \subseteq Entry
  BY <1>1 DEF InstalledLedger, Secret
<1>3. s \in Secret
  BY <1>1, <1>2 DEF Secret
<1>4. /\ s.rv = r.snap.rv /\ s.token = r.swap /\ s.ledger = InstalledLedger(r)
      /\ s.rotateNow = "none" /\ s.cancel = r.snap.cancel /\ s.backoffOn = NoToken
  BY <1>1 DEF Secret
<1>5. /\ Held(r.snap) /\ Sound(r.snap) /\ r.now <= clock
      /\ OldEntry(r) \in r.snap.ledger /\ r.swap # r.snap.token
  BY PassHeld DEF Held, PassSound
<1>6. PICK o : o = OldEntry(r)
  OBVIOUS
<1>7. /\ o.accessor = r.snap.token /\ o.state = Scheduled
      /\ r.snap.rotateNow = "immediate" => o.notBefore = r.now
      /\ o.swapID = r.swap
  BY <1>6 DEF OldEntry
<1>8. o \in s.ledger
  BY <1>4, <1>5, <1>6, <1>7 DEF InstalledLedger, IsMint
<1>9. IsFiniteSet(s.ledger) /\ Cardinality(s.ledger) <= LedgerCap
  <2>1. IsFiniteSet(s.ledger) /\ Cardinality(s.ledger) <= Cardinality(r.snap.ledger)
    BY <1>2, <1>4, <1>5, FS_Subset DEF Sound
  <2> QED BY <1>5, <2>1, FS_CardinalityType, RotationAssumption DEF Sound
<1>10. Sound(s)
  BY <1>2, <1>4, <1>5, <1>9 DEF Sound, Accessors
<1>11. Accessors(r.snap.ledger) \subseteq Accessors(s.ledger) \cup {s.token}
  BY <1>4 DEF InstalledLedger, Accessors, IsMint
<1>12. s.rv = secret.rv => Covers(s.token, s.ledger)
  <2>1. r.snap.token \in Accessors(s.ledger)
    BY <1>7, <1>8 DEF Accessors
  <2> QED BY <1>4, <1>5, <1>11, <2>1 DEF Held, Covers
<1>13. s.rv = secret.rv => Honours(s)
  BY <1>4, <1>5, <1>7, <1>8 DEF Held, Honours, Serves
<1> QED BY <1>3, <1>4, <1>5, <1>10, <1>12, <1>13 DEF Held, InFlight

LEMMA SwapWriteLedger ==
  ASSUME TypeOK, NamesOK, LedgerInv, NEW p \in Operator, SwapWrite(p) PROVE LedgerInv'
<1> DEFINE r == pass[p]
<1>1. PICK s : s = [r.snap EXCEPT
                      !.token = r.swap, !.rotateNow = "none",
                      !.backoff = 0, !.backoffOn = NoToken,
                      !.ledger = InstalledLedger(r)]
  OBVIOUS
<1>2. /\ r.pc = "swap" /\ ~Minting(p) /\ r \in Pass
      /\ UNCHANGED <<clock, issued, valid, orphans, released>>
  BY TypeFacts DEF SwapWrite, Minting, vaultVars, ghosts
<1>3. s \in Secret /\ InFlight(s)
  BY <1>1, <1>2, SwappedInFlight
<1>4. CASE Landed(s) /\ Continue(p, [r EXCEPT !.pc = "backup"])
  <2>1. PICK n : n = [r EXCEPT !.pc = "backup"]
    OBVIOUS
  <2>2. n.snap = r.snap /\ n.fresh = r.fresh /\ n.now = r.now /\ n.pc = "backup"
    BY <1>2, <2>1 DEF Pass
  <2>3. pass'[p] = n /\ \A q \in Operator \ {p} : pass'[q] = pass[q]
    BY <1>4, <2>1, ContinueFacts
  <2>4. PassSound(pass[p])'
    BY <1>2, <2>2, <2>3, PassHeld DEF PassSound
  <2> QED BY <1>2, <1>3, <1>4, <2>2, <2>3, <2>4, LandedInv
<1>5. CASE /\ DefinitelyRejected(s)
           /\ Continue(p, [r EXCEPT !.pc = "fenceRead", !.failing = TRUE, !.tries = 0])
  <2>1. PICK n : n = [r EXCEPT !.pc = "fenceRead", !.failing = TRUE, !.tries = 0]
    OBVIOUS
  <2>2. n.snap = r.snap /\ n.fresh = r.fresh /\ n.now = r.now /\ n.pc = "fenceRead"
    BY <1>2, <2>1 DEF Pass
  <2>3. Failed(s)
    BY <1>5 DEF Failed
  <2> QED BY <1>2, <1>3, <1>5, <2>1, <2>2, <2>3, GoOnInv
<1>6. CASE Uncertain(s) /\ Continue(p, UncertainSwap(r))
  <2>1. PICK n : n = UncertainSwap(r)
    OBVIOUS
  <2>2. n.snap = r.snap /\ n.fresh = r.fresh /\ n.now = r.now /\ n.pc = "fail"
    BY <1>2, <2>1 DEF Pass, UncertainSwap
  <2>3. Failed(s)
    BY <1>6 DEF Failed
  <2> QED BY <1>2, <1>3, <1>6, <2>1, <2>2, <2>3, GoOnInv
<1> QED BY <1>1, <1>4, <1>5, <1>6 DEF SwapWrite

LEMMA BackupLedger ==
  ASSUME TypeOK, LedgerInv, NEW p \in Operator, Backup(p) PROVE LedgerInv'
<1>1. secret \in Secret /\ InFlight(secret)
  BY TypeFacts, HeldSecret
<1> QED BY <1>1, ReturnInv DEF Backup, Minting, vaultVars, ghosts

-----------------------------------------------------------------------------
(* fail, and restarts.                                                     *)

\* persistBackoff records a backoff on the token it has just read.
LEMMA FailLedger ==
  ASSUME TypeOK, LedgerInv, NEW p \in Operator, Fail(p) PROVE LedgerInv'
<1> DEFINE r == pass[p]
<1>1. secret \in Secret /\ InFlight(secret) /\ Held(secret) /\ r \in Pass
  BY TypeFacts, HeldSecret
<1>2. /\ r.pc = "fail" /\ ~Minting(p)
      /\ UNCHANGED <<secret, writes, clock, issued, valid, orphans, released>>
  BY DEF Fail, Minting, vaultVars, ghosts
<1>3. CASE Return(p)
  BY <1>1, <1>2, <1>3, ReturnInv
<1>4. ASSUME NEW b, secret.token = r.snap.token,
             Continue(p, [r EXCEPT !.pc = "backoffWrite",
               !.fresh = [secret EXCEPT !.backoff = b, !.backoffOn = r.snap.token]])
      PROVE  LedgerInv'
  <2>1. PICK s : s = [secret EXCEPT !.backoff = b, !.backoffOn = r.snap.token]
    OBVIOUS
  <2>2. /\ s.rv = secret.rv /\ s.token = secret.token /\ s.ledger = secret.ledger
        /\ s.rotateNow = secret.rotateNow /\ s.cancel = secret.cancel
        /\ s.backoffOn = s.token
    BY <1>1, <1>4, <2>1 DEF Secret
  <2>3. Held(s)
    BY <1>1, <2>2 DEF Held, Sound
  <2>4. PICK n : n = [r EXCEPT !.pc = "backoffWrite", !.fresh = s]
    OBVIOUS
  <2>5. n.snap = r.snap /\ n.fresh = s /\ n.now = r.now /\ n.pc = "backoffWrite"
    BY <1>1, <2>4 DEF Pass
  <2>6. pass'[p] = n /\ \A q \in Operator \ {p} : pass'[q] = pass[q]
    BY <1>4, <2>1, <2>4, ContinueFacts
  <2>7. Accounted
    BY <1>2, <2>6, StillAccounted
  <2>8. Held(pass[p].snap)' /\ Held(pass[p].fresh)'
    BY <1>2, <2>3, <2>5, <2>6, <2>7, HeldKept, PassHeld
  <2>9. PassSound(pass[p])'
    BY <1>2, <2>5, <2>6, PassHeld DEF PassSound
  <2> QED BY <1>2, <2>6, <2>7, <2>8, <2>9, QuietInv
<1> QED BY <1>3, <1>4 DEF Fail, StillHolds

LEMMA BackoffWriteLedger ==
  ASSUME TypeOK, LedgerInv, NEW p \in Operator, BackoffWrite(p) PROVE LedgerInv'
<1>1. pass[p].fresh \in Secret /\ InFlight(pass[p].fresh)
  BY TypeFacts, PassHeld
<1>2. /\ pass[p].pc = "backoffWrite" /\ ~Minting(p) /\ Return(p)
      /\ UNCHANGED <<clock, issued, valid, orphans, released>>
  BY DEF BackoffWrite, Minting, vaultVars, ghosts
<1>3. CASE Landed(pass[p].fresh)
  <2>1. pass'[p] = NoPass /\ \A q \in Operator \ {p} : pass'[q] = pass[q]
    BY <1>2, ContinueFacts DEF Return
  <2>2. PassSound(pass[p])'
    BY <1>2, <2>1, NoPassFacts, TypeFacts DEF PassSound
  <2> QED BY <1>1, <1>2, <1>3, <2>1, <2>2, NoPassFacts, LandedInv
<1>4. CASE Failed(pass[p].fresh)
  BY <1>1, <1>2, <1>4, ReturnInv
<1> QED BY <1>3, <1>4 DEF BackoffWrite

\* A crash loses the minted token its pass held.
LEMMA CrashLedger ==
  ASSUME TypeOK, LedgerInv, NEW p \in Operator, Crash(p) PROVE LedgerInv'
<1>1. secret \in Secret /\ InFlight(secret)
  BY TypeFacts, HeldSecret
<1>2. orphans \subseteq orphans' /\ (Minting(p) => pass[p].swap \in orphans')
  BY DEF Crash, Minting
<1> QED BY <1>1, <1>2, ReturnInv DEF Crash, vaultVars

-----------------------------------------------------------------------------
(* Other writers, and time.                                                *)

\* The Secret is replaced while no pass makes a step.
LEMMA EditedInv ==
  ASSUME TypeOK, LedgerInv, NEW s \in Secret, s.rv = secret.rv, secret' = Stored(s),
         writes' \subseteq writes, UNCHANGED <<pass, clock>>,
         issued \subseteq issued', released \subseteq released',
         Sound(s)', Covers(s.token, s.ledger)'
  PROVE  LedgerInv'
<1>1. PICK p : p \notin Operator
  BY NoSetContainsEverything
<1> QED BY <1>1, TypeFacts, ReplacedInv

\* Nothing but the annotations of the Secret changes, or what may land lands.
LEMMA OtherAccounted ==
  ASSUME TypeOK, UNCHANGED <<issued, valid, orphans, pass, clock>>,
         released \subseteq released'
  PROVE  Accounted
  BY TypeFacts DEF Accounted, Elsewhere, Minting

LEMMA LateWriteLedger ==
  ASSUME TypeOK, LedgerInv, NEW w \in writes, LateWrite(w) PROVE LedgerInv'
<1>1. /\ w \in Secret /\ w.rv = secret.rv /\ secret' = Stored(w) /\ writes' \subseteq writes
      /\ UNCHANGED <<issued, valid, orphans, released, pass, clock>>
  BY TypeFacts DEF LateWrite, Land, vaultVars, ghosts
<1>2. Accounted
  BY <1>1, OtherAccounted
<1>3. Sound(w) /\ Covers(w.token, w.ledger)
  BY <1>1 DEF LedgerInv, InFlight
<1>4. Sound(w)' /\ Covers(w.token, w.ledger)'
  BY <1>1, <1>2, <1>3, SoundKept, CoversKept
<1> QED BY <1>1, <1>4, EditedInv

LEMMA RequestRotationLedger ==
  ASSUME TypeOK, LedgerInv, NEW v \in {"true", "immediate"}, RequestRotation(v)
  PROVE  LedgerInv'
<1>1. PICK s : s = [secret EXCEPT !.rotateNow = v]
  OBVIOUS
<1>2. /\ s \in Secret /\ s.rv = secret.rv /\ s.token = secret.token
      /\ s.ledger = secret.ledger /\ s.cancel = secret.cancel
      /\ s.backoffOn = secret.backoffOn
  BY <1>1, TypeFacts DEF Secret
<1>3. /\ secret' = Stored(s) /\ UNCHANGED writes
      /\ UNCHANGED <<issued, valid, orphans, released, pass, clock>>
  BY <1>1 DEF RequestRotation, Edit, vaultVars, ghosts
<1>4. Accounted
  BY <1>3, OtherAccounted
<1>5. Sound(s) /\ Covers(s.token, s.ledger)
  BY <1>2 DEF LedgerInv, Sound
<1>6. Sound(s)' /\ Covers(s.token, s.ledger)'
  BY <1>3, <1>4, <1>5, SoundKept, CoversKept
<1> QED BY <1>2, <1>3, <1>6, EditedInv

LEMMA RequestCancelLedger ==
  ASSUME TypeOK, LedgerInv, NEW t \in Token, RequestCancel(t) PROVE LedgerInv'
<1>1. PICK s : s = [secret EXCEPT !.cancel = t]
  OBVIOUS
<1>2. /\ s \in Secret /\ s.rv = secret.rv /\ s.token = secret.token
      /\ s.ledger = secret.ledger /\ s.cancel = t
      /\ s.backoffOn = secret.backoffOn
  BY <1>1, TypeFacts DEF Secret
<1>3. /\ secret' = Stored(s) /\ UNCHANGED writes /\ released' = released \cup {t}
      /\ UNCHANGED <<issued, valid, orphans, pass, clock>>
  BY <1>1 DEF RequestCancel, Edit, vaultVars
<1>4. Accounted
  BY <1>3, OtherAccounted
<1>5. Covers(s.token, s.ledger)'
  BY <1>2, <1>4, CoversKept DEF LedgerInv
<1>6. Sound(s)'
  BY <1>2, <1>3 DEF LedgerInv, Sound
<1> QED BY <1>2, <1>3, <1>5, <1>6, EditedInv

\* Another writer puts a token in place: the one it replaces is released.
LEMMA ReplaceTokenLedger ==
  ASSUME TypeOK, LedgerInv, NEW t \in Token, Edit([secret EXCEPT !.token = t]),
         released' = released \cup {secret.token}, UNCHANGED <<clock, pass, orphans>>,
         issued \subseteq issued', valid' \subseteq valid \cup {t}
  PROVE  LedgerInv'
<1>1. PICK s : s = [secret EXCEPT !.token = t]
  OBVIOUS
<1>2. /\ s \in Secret /\ s.rv = secret.rv /\ s.token = t
      /\ s.ledger = secret.ledger /\ s.cancel = secret.cancel
      /\ s.backoffOn = secret.backoffOn
  BY <1>1, TypeFacts DEF Secret
<1>3. secret' = Stored(s) /\ UNCHANGED writes
  BY <1>1 DEF Edit
<1>4. Covers(s.token, s.ledger)'
  BY <1>2 DEF LedgerInv, Covers, Elsewhere, Minting
<1>5. Sound(s)'
  BY <1>2 DEF LedgerInv, Sound
<1> QED BY <1>2, <1>3, <1>4, <1>5, EditedInv

LEMMA OtherWriterLedger ==
  ASSUME TypeOK, LedgerInv, OtherWriter PROVE LedgerInv'
<1>1. ASSUME NEW t \in Token, Install(t) \/ Reinstall(t) PROVE LedgerInv'
  BY <1>1, ReplaceTokenLedger DEF Install, Reinstall, CreateToken, vaultVars
<1>2. CASE ChangeOwnership
  BY <1>2, OtherAccounted, IdleInv DEF ChangeOwnership, storeVars, vaultVars, ghosts
<1> QED
  BY <1>1, <1>2, RequestRotationLedger, RequestCancelLedger DEF OtherWriter

LEMMA TickLedger ==
  ASSUME TypeOK, LedgerInv, Tick \/ UNCHANGED vars PROVE LedgerInv'
<1>1. /\ clock \in Nat /\ clock' \in Nat /\ clock <= clock'
      /\ UNCHANGED <<secret, writes, pass, issued, valid, orphans, released>>
  BY TypeFacts DEF Tick, vars, storeVars, vaultVars, ghosts
<1>2. Accounted
  BY <1>1, TypeFacts DEF Accounted, Elsewhere, Minting
<1> QED BY <1>1, <1>2, IdleInv

-----------------------------------------------------------------------------
(* The invariant.                                                          *)

LEMMA InitLedger == Init => LedgerInv
<1> SUFFICES ASSUME Init PROVE LedgerInv
  OBVIOUS
<1>1. /\ secret.rv = 1 /\ secret.ledger = {} /\ secret.cancel = NoToken
      /\ secret.backoffOn = NoToken /\ valid = {secret.token}
      /\ writes = {} /\ \A p \in Operator : pass[p] = NoPass
  BY DEF Init, NewSecret
<1>2. Sound(secret) /\ Covers(secret.token, secret.ledger)
  BY <1>1, FS_EmptySet, RotationAssumption DEF Sound, Covers, Accessors
<1>3. /\ NoSecret.ledger = {} /\ NoSecret.rv = 0
      /\ NoSecret.cancel = NoToken /\ NoSecret.backoffOn = NoToken
  BY DEF NoSecret, NewSecret
<1>4. Held(NoSecret)
  BY <1>1, <1>3, FS_EmptySet, RotationAssumption DEF Held, Sound, Accessors
<1>5. PassSound(NoPass)
  BY NoPassFacts DEF PassSound, Init
<1> QED BY <1>1, <1>2, <1>4, <1>5, NoPassFacts DEF LedgerInv

\* One step per action.
LEMMA NextLedger ==
  ASSUME TypeOK, NamesOK, LedgerInv, [Next]_vars PROVE LedgerInv'
<1>1. ASSUME NEW p \in Operator, PassStep(p) PROVE LedgerInv'
  BY <1>1, ReadSecretLedger, LookupSelfLedger, LookupFailsLedger, FenceReadLedger,
     FenceWriteLedger, SettleLedger, StartRevokeLedger, RevokeEntryLedger,
     RevokeWriteLedger, SkipRotationLedger, MintLedger, MintRefusedLedger,
     LedgerWriteLedger, DropMintLedger, SwapWriteLedger, BackupLedger, FailLedger,
     BackoffWriteLedger
  DEF PassStep
<1>2. ASSUME NEW p \in Operator, Crash(p) PROVE LedgerInv'
  BY <1>2, CrashLedger
<1>3. ASSUME NEW w \in writes, LateWrite(w) PROVE LedgerInv'
  BY <1>3, LateWriteLedger
<1> QED BY <1>1, <1>2, <1>3, OtherWriterLedger, TickLedger DEF Next

\* Types, names and the ledger, together: the ledger's step rests on the tokens
\* a pass names having been issued.
THEOREM LedgerSound == Spec => [](TypeOK /\ NamesOK /\ LedgerInv)
<1>1. Init => LedgerInv
  BY InitLedger
<1>2. TypeOK /\ NamesOK /\ LedgerInv /\ [Next]_vars => LedgerInv'
  BY NextLedger
<1> QED BY <1>1, <1>2, TypeCorrect, PTL DEF Spec

\* A token that still works is never forgotten: it is the live one, in the
\* ledger, in the hands of the pass that minted it, lost before anybody could
\* record it, or no longer the operator's.
THEOREM NoCredentialLost == Spec => []NoLostCredential
<1>1. LedgerInv => NoLostCredential
  BY DEF LedgerInv, Covers, Elsewhere, Minting, NoLostCredential
<1> QED BY <1>1, LedgerSound, PTL

\* ledgerCap bounds the ledger, whatever fails.
THEOREM LedgerNeverOverflows == Spec => []LedgerBounded
<1>1. LedgerInv => LedgerBounded
  BY DEF LedgerInv, Sound, LedgerBounded
<1> QED BY <1>1, LedgerSound, PTL

\* resolveUnresolved never meets two swaps in doubt.
THEOREM SwapsAreSettledFirst == Spec => []OneSwapInDoubt
<1>1. LedgerInv => OneSwapInDoubt
  <2> DEFINE doubt == {e \in secret.ledger : e.state = Unresolved}
  <2> SUFFICES ASSUME LedgerInv PROVE Cardinality(doubt) <= 1
    BY DEF OneSwapInDoubt
  <2>1. \A e, f \in doubt : e = f
    BY DEF LedgerInv, Sound
  <2>2. CASE doubt = {}
    BY <2>2, FS_EmptySet
  <2>3. ASSUME NEW e \in doubt PROVE Cardinality(doubt) <= 1
    <3>1. doubt = {e}
      BY <2>1, <2>3
    <3>2. Cardinality({e}) = 1
      BY FS_Singleton
    <3> QED BY <3>1, <3>2
  <2> QED BY <2>2, <2>3
<1> QED BY <1>1, LedgerSound, PTL

\* A recorded backoff is about the live token, unless another writer replaced
\* the token it was about.
THEOREM BackoffIsCurrent == Spec => []BackoffOfLiveToken
<1>1. LedgerInv => BackoffOfLiveToken
  BY DEF LedgerInv, Sound, BackoffOfLiveToken
<1> QED BY <1>1, LedgerSound, PTL

-----------------------------------------------------------------------------
(* Serving rotate-now.                                                     *)

\* A write that lands serves the rotate-now it removes.
LEMMA HonouredByWrite ==
  ASSUME NEW s \in Secret, InFlight(s), s.rv = secret.rv, secret' = Stored(s)
  PROVE  secret.rotateNow # "none" /\ secret'.rotateNow = "none" =>
           /\ secret'.token # secret.token
           /\ \E e \in secret'.ledger :
                /\ e.accessor = secret.token /\ e.state = Scheduled
                /\ secret.rotateNow = "immediate" => e.notBefore <= clock
<1>1. /\ secret'.rotateNow = s.rotateNow /\ secret'.token = s.token
      /\ secret'.ledger = s.ledger
  BY DEF Stored, Secret
<1> QED BY <1>1 DEF InFlight, Honours, Serves

\* The object a pass step writes could be in flight.
LEMMA WrittenInFlight ==
  ASSUME TypeOK, NamesOK, LedgerInv, NEW p \in Operator, PassStep(p), secret' # secret
  PROVE  \E s \in Secret : InFlight(s) /\ s.rv = secret.rv /\ secret' = Stored(s)
<1> DEFINE r == pass[p]
<1>1. PICK a : a = [r.fresh EXCEPT !.ledger = SettledLedger(r)]
  OBVIOUS
<1>2. PICK b : b = [r.snap EXCEPT !.ledger = r.kept, !.cancel = NoToken,
                                  !.autoRotate = AutoRotate]
  OBVIOUS
<1>3. PICK c : c = [r.snap EXCEPT !.ledger = r.snap.ledger \cup {MintEntry(r), OldEntry(r)}]
  OBVIOUS
<1>4. PICK d : d = [r.snap EXCEPT !.token = r.swap, !.rotateNow = "none",
                                  !.backoff = 0, !.backoffOn = NoToken,
                                  !.ledger = InstalledLedger(r)]
  OBVIOUS
<1>5. \A s : Failed(s) \/ Refused \/ Uncertain(s) \/ Conflict(s) => secret' = secret
  BY DEF Failed, DefinitelyRejected, Conflict, Refused, Uncertain, storeVars
<1>6. CASE FenceWrite(p) \/ BackoffWrite(p)
  <2>1. Landed(r.fresh)
    BY <1>5, <1>6 DEF FenceWrite, BackoffWrite
  <2> QED BY <2>1, TypeFacts, PassHeld DEF Landed
<1>7. CASE Settle(p)
  <2>1. Landed(a) /\ r.fresh.token = r.snap.token
    BY <1>1, <1>5, <1>7 DEF Settle, storeVars
  <2> QED BY <1>1, <2>1, SettledInFlight DEF Landed
<1>8. CASE RevokeWrite(p)
  <2>1. Landed(b) /\ r.pc = "revoking"
    BY <1>2, <1>5, <1>8 DEF RevokeWrite, storeVars
  <2> QED BY <1>2, <2>1, RevokedInFlight DEF Landed
<1>9. CASE LedgerWrite(p)
  <2>1. Landed(c) /\ r.pc = "ledger"
    BY <1>3, <1>5, <1>9 DEF LedgerWrite
  <2> QED BY <1>3, <2>1, RecordedInFlight DEF Landed
<1>10. CASE SwapWrite(p)
  <2>1. Landed(d) /\ r.pc = "swap"
    BY <1>4, <1>5, <1>10 DEF SwapWrite, Failed
  <2> QED BY <1>4, <2>1, SwappedInFlight DEF Landed
<1>11. CASE \/ ReadSecret(p) \/ LookupSelf(p) \/ LookupFails(p) \/ FenceRead(p)
            \/ StartRevoke(p) \/ RevokeEntry(p) \/ SkipRotation(p) \/ Mint(p)
            \/ MintRefused(p) \/ DropMint(p) \/ Backup(p) \/ Fail(p)
  <2>1. secret' = secret
    BY <1>11 DEF ReadSecret, LookupSelf, LookupFails, FenceRead, StartRevoke,
         RevokeEntry, SkipRotation, Mint, MintRefused, DropMint, Backup, Fail,
         storeVars
  <2> QED BY <2>1
<1> QED BY <1>6, <1>7, <1>8, <1>9, <1>10, <1>11 DEF PassStep

\* No other writer removes a rotate-now.
LEMMA KeptByOthers ==
  ASSUME TypeOK, OtherWriter, secret.rotateNow # "none"
  PROVE  secret'.rotateNow # "none"
<1>1. ASSUME NEW t \in Token, RequestCancel(t) \/ Install(t) \/ Reinstall(t)
      PROVE  secret'.rotateNow = secret.rotateNow
  BY <1>1, TypeFacts DEF RequestCancel, Install, Reinstall, Edit, Stored, Secret
<1>2. ASSUME NEW v \in {"true", "immediate"}, RequestRotation(v)
      PROVE  secret'.rotateNow = v
  BY <1>2, TypeFacts DEF RequestRotation, Edit, Stored, Secret
<1> QED BY <1>1, <1>2 DEF OtherWriter, ChangeOwnership, storeVars

\* Whatever fails or lands late, the write that removes rotate-now has installed
\* another token and retired the one it was about, at once if it said so.
THEOREM RotateNowServed == Spec => RotateNowHonoured
<1>1. ASSUME TypeOK, NamesOK, LedgerInv, [Next]_vars
      PROVE  [secret.rotateNow # "none" /\ secret'.rotateNow = "none" =>
                /\ secret'.token # secret.token
                /\ \E e \in secret'.ledger :
                     /\ e.accessor = secret.token /\ e.state = Scheduled
                     /\ secret.rotateNow = "immediate" => e.notBefore <= clock]_vars
  <2>1. ASSUME NEW p \in Operator, PassStep(p), secret' # secret
        PROVE  \E s \in Secret : InFlight(s) /\ s.rv = secret.rv /\ secret' = Stored(s)
    BY <1>1, <2>1, WrittenInFlight
  <2>2. ASSUME NEW w \in writes, LateWrite(w)
        PROVE  w \in Secret /\ InFlight(w) /\ w.rv = secret.rv /\ secret' = Stored(w)
    BY <1>1, <2>2, TypeFacts DEF LateWrite, Land, LedgerInv
  <2>3. CASE OtherWriter
    BY <1>1, <2>3, KeptByOthers
  <2>4. CASE secret' = secret
    BY <2>4
  <2>5. ASSUME NEW p \in Operator, Crash(p) PROVE secret' = secret
    BY <2>5 DEF Crash
  <2>6. CASE Tick \/ UNCHANGED vars
    BY <2>6 DEF Tick, vars, storeVars
  <2> QED BY <1>1, <2>1, <2>2, <2>3, <2>4, <2>5, <2>6, HonouredByWrite DEF Next
<1> QED BY <1>1, LedgerSound, PTL DEF RotateNowHonoured, Spec
=============================================================================
