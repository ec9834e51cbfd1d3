-------------------------- MODULE LedgerInvariant --------------------------
(***************************************************************************)
(* Why the revoke ledger forgets nothing, stays within ledgerCap and never  *)
(* holds two swaps in doubt, and why rotate-now is served: the inductive    *)
(* invariant behind NoLostCredential, LedgerBounded, OneSwapInDoubt,        *)
(* BackoffOfLiveToken and RotateNowHonoured.                                *)
(*                                                                         *)
(* The apiserver applies a write only to the version it was made from, so   *)
(* it is enough that every object somebody could still write, whether held  *)
(* by a pass or in flight, would keep the promises if it were applied now;  *)
(* whatever was made from an older version is harmless.                     *)
(***************************************************************************)
EXTENDS TokenRotation

\* The passes that hold a minted token no ledger knows of.
Minting(p) == pass[p].pc \in {"ledger", "dropMint"}

\* Credentials accounted for outside the Secret.
Elsewhere ==
  orphans \cup released \cup {pass[p].swap : p \in {q \in Operator : Minting(q)}}

\* What is true of every object, whatever its version.
Sound(s) ==
  /\ IsFiniteSet(s.ledger) /\ Cardinality(s.ledger) <= LedgerCap
  /\ \A e, f \in s.ledger : e.state = Unresolved /\ f.state = Unresolved => e = f
  /\ Accessors(s.ledger) \subseteq issued
  /\ s.cancel \in {NoToken} \cup released
  /\ s.backoffOn \in {NoToken, s.token} \cup released

\* If the Secret held token and ledger, no credential that works would be lost.
Covers(token, ledger) == valid \subseteq {token} \cup Accessors(ledger) \cup Elsewhere

\* The rotation an immediate, or a plain, rotate-now asks for, as s records it.
Serves(s) ==
  /\ s.token # secret.token
  /\ \E e \in s.ledger :
       /\ e.accessor = secret.token /\ e.state = Scheduled
       /\ secret.rotateNow = "immediate" => e.notBefore <= clock

\* If s were applied now, rotate-now would stay or would have been served.
Honours(s) == secret.rotateNow # "none" /\ s.rotateNow = "none" => Serves(s)

\* What a pass has read, or last wrote.
Held(s) ==
  /\ Sound(s)
  /\ s.rv <= secret.rv
  /\ s.rv = secret.rv =>
       /\ Covers(s.token, s.ledger)
       /\ s.token = secret.token /\ s.rotateNow = secret.rotateNow

\* A write in flight.
InFlight(s) ==
  /\ Sound(s)
  /\ s.rv <= secret.rv
  /\ s.rv = secret.rv => Covers(s.token, s.ledger) /\ Honours(s)

\* A running pass r: what it is about to write is as good as what it has read.
PassSound(r) ==
  /\ r.now <= clock
  /\ r.pc = "revoking" =>
       /\ r.kept \subseteq r.snap.ledger
       /\ r.snap.rv = secret.rv => Covers(r.snap.token, r.kept)
  /\ r.pc = "ledger" =>
       /\ \A e \in r.snap.ledger : e.state # Unresolved
       /\ Cardinality(r.snap.ledger) < LedgerFull
  /\ r.pc = "swap" => OldEntry(r) \in r.snap.ledger
  /\ r.pc \in {"ledger", "swap"} => r.swap # r.snap.token

\* The inductive invariant.
LedgerInv ==
  /\ 0 < secret.rv
  /\ Sound(secret) /\ Covers(secret.token, secret.ledger)
  /\ \A w \in writes : InFlight(w)
  /\ \A p \in Operator :
       Held(pass[p].snap) /\ Held(pass[p].fresh) /\ PassSound(pass[p])
=============================================================================
