----------------------- MODULE TokenRotationInvariant -----------------------
(***************************************************************************)
(* Why RotateIfDue never revokes the token the Secret holds: the inductive  *)
(* invariant behind LiveTokenValid and LandableWriteValid.                  *)
(*                                                                         *)
(* A token is clear once nothing can bring it into the Secret any more: the *)
(* Secret does not hold it, no write that may still land carries it and no  *)
(* pass will send such a write.  Versions never repeat, so a clear token    *)
(* stays clear; every token a pass may revoke is clear.                     *)
(***************************************************************************)
EXTENDS TokenRotation

\* The writes in flight that the apiserver would still apply.
Landable == {w \in writes : w.rv = secret.rv}

\* Process p is on its way to a swap that may land and installs t.
Installing(p, t) ==
  /\ pass[p].pc \in {"ledger", "swap"}
  /\ pass[p].snap.rv = secret.rv
  /\ pass[p].swap = t

\* No process of Q, no write in flight and not the Secret itself brings t in.
Clear(t, Q) ==
  /\ t \in issued
  /\ secret.token # t
  /\ \A w \in Landable : w.token # t
  /\ \A q \in Q : ~Installing(q, t)

\* The retired tokens of a ledger read or written together with token.
Retired(ledger, token) ==
  {e.accessor : e \in {x \in ledger : x.state = Scheduled /\ x.accessor # token}}

UsesFresh(p) == pass[p].pc \in {"fenceWrite", "settle", "backoffWrite"}
HasMinted(p) == pass[p].pc \in {"ledger", "dropMint", "swap", "backup"}

-----------------------------------------------------------------------------
\* Vault has issued every token the Secret, a write or a pass names.
NamesOK ==
  /\ secret.token \in issued
  /\ \A w \in writes : w.token \in issued
  /\ \A p \in Operator :
       /\ pass[p].pc # "idle" => pass[p].snap.token \in issued
       /\ UsesFresh(p) => pass[p].fresh.token \in issued
       /\ HasMinted(p) => pass[p].swap \in issued

\* What the holder of a version believes of the Secret was true at that version.
VersionsOK ==
  /\ \A w \in writes : w.rv <= secret.rv
  /\ \A p \in Operator :
       /\ pass[p].pc # "idle" =>
            /\ pass[p].snap.rv <= secret.rv
            /\ pass[p].snap.rv = secret.rv =>
                 /\ pass[p].snap.token = secret.token
                 /\ pass[p].snap.ledger = secret.ledger
       /\ UsesFresh(p) =>
            /\ pass[p].fresh.rv <= secret.rv
            /\ pass[p].fresh.rv = secret.rv =>
                 /\ pass[p].fresh.token = secret.token
                 /\ pass[p].fresh.ledger = secret.ledger

\* The Secret: its token works, what its ledger retired is clear, and a swap
\* in doubt is not the live token's.
StoreInv ==
  /\ secret.token \in valid
  /\ \A t \in Retired(secret.ledger, secret.token) : Clear(t, Operator)
  /\ \A e \in UnresolvedMints(secret.ledger) :
       e.accessor \in issued /\ e.accessor # secret.token

\* What holds of the Secret that s becomes, should the apiserver apply it now.
WriteOK(s) ==
  /\ s.token \in valid
  /\ \A t \in Retired(s.ledger, s.token) : t = secret.token \/ Clear(t, Operator)
  /\ \A e \in UnresolvedMints(s.ledger) :
       e.accessor \in issued /\ e.accessor # s.token

\* A pass: whatever it may revoke is clear, whatever it may install works.
PassInv(p) ==
  LET r == pass[p] IN
  /\ r.pc # "idle" =>
       \A t \in Retired(r.snap.ledger, r.snap.token) : Clear(t, Operator)
  /\ r.pc = "revoking" =>
       /\ r.kept \subseteq r.snap.ledger
       /\ \A e \in r.todo : Clear(e.accessor, Operator)
  /\ r.pc = "fenceWrite" => \E e \in UnresolvedMints(r.fresh.ledger) : e.swapID = r.swap
  /\ r.pc \in {"settle", "dropMint"} => Clear(r.swap, Operator)
  /\ r.pc = "ledger" => Clear(r.swap, Operator \ {p})
  /\ r.pc \in {"ledger", "swap"} =>
       /\ r.swap # r.snap.token
       /\ r.snap.rv = secret.rv => r.swap \in valid

\* The inductive invariant.
RevocationInv ==
  /\ NamesOK
  /\ VersionsOK
  /\ StoreInv
  /\ \A w \in Landable : WriteOK(w)
  /\ \A p \in Operator : PassInv(p)

-----------------------------------------------------------------------------
(* Rotation implements the custody of tokens.                               *)

Custody == INSTANCE TokenCustody
             WITH live <- secret.token, retired <- {t \in Token : Clear(t, Operator)}

\* As long as nobody puts a retired token back, every step of any number of
\* operator processes is a step of TokenCustody or does not concern the tokens: in
\* no order of calls, crashes and late writes does RotateIfDue revoke a token that
\* is live or may yet be, or bring back one it has given up (rotate.go:36).
RefinesCustody == Custody!Spec
=============================================================================
