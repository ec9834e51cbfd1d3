---------------------------- MODULE TokenCustody ----------------------------
(***************************************************************************)
(* What rotation promises about the admin tokens, without the Secret, its   *)
(* versions, the ledger or the calls: one token is live, a minted one is a  *)
(* candidate until it takes over or is retired, what is retired never comes *)
(* back, and nothing else is ever revoked.                                  *)
(***************************************************************************)
CONSTANT Token

VARIABLES
  live,     \* the token of the admin-token Secret
  issued,   \* tokens Vault has created
  valid,    \* tokens Vault still accepts
  retired   \* tokens that will never be live again, whatever is under way

vars == <<live, issued, valid, retired>>

\* The tokens that a swap under way may still make live.
Candidate == issued \ (retired \cup {live})

Init ==
  \E t \in Token : live = t /\ issued = {t} /\ valid = {t} /\ retired = {}

\* A token is minted, to take over or, if its mint goes wrong, never to.
Mint(t) ==
  /\ t \in Token \ issued
  /\ issued' = issued \cup {t} /\ valid' = valid \cup {t}
  /\ retired' \in {retired, retired \cup {t}}
  /\ UNCHANGED live

\* A candidate takes over, which ends every other swap under way.
Handover(t) ==
  /\ t \in Candidate
  /\ live' = t
  /\ retired' = issued \ {t}
  /\ UNCHANGED <<issued, valid>>

\* Somebody else's new token takes over.
Replace(t) ==
  /\ t \in Token \ issued
  /\ live' = t
  /\ issued' = issued \cup {t} /\ valid' = valid \cup {t}
  /\ retired' = issued

\* Swaps under way end without a handover.
Withdraw(S) ==
  /\ retired' = retired \cup S
  /\ UNCHANGED <<live, issued, valid>>

Revoke(t) ==
  /\ t \in retired
  /\ valid' = valid \ {t}
  /\ UNCHANGED <<live, issued, retired>>

Next ==
  \/ \E t \in Token : Mint(t) \/ Handover(t) \/ Replace(t) \/ Revoke(t)
  \/ \E S \in SUBSET Candidate : Withdraw(S)

Spec == Init /\ [][Next]_vars
=============================================================================
