---------------------------- MODULE AdminSecret ----------------------------
(***************************************************************************)
(* The admin-token Secret as its writers see it: one apiserver object       *)
(* replaced as a whole under its resourceVersion as precondition, the       *)
(* revoke ledger kept in its annotations, and the Update calls whose        *)
(* outcome the caller never learned (pkg/token/ledger.go, and the helper    *)
(* `update' of pkg/token/rotate.go).                                        *)
(*                                                                         *)
(* A token and its Vault accessor are one model value.  A ledger entry's    *)
(* reason is not a field: an entry tracks a minted token exactly when its   *)
(* accessor is the token its own swap minted, see IsMint.                   *)
(***************************************************************************)
EXTENDS Integers, FiniteSets

CONSTANTS
  Token,        \* Vault tokens (and their accessors)
  NoToken       \* the empty string where a token or accessor is expected

ASSUME NoTokenAssumption == NoToken \notin Token

VARIABLES
  secret,       \* the Secret held by the apiserver
  writes,       \* Update calls in flight: each the object sent, its rv the precondition
  faults        \* how many more calls may fail (bound MaxFaults of the user module)

storeVars == <<secret, writes, faults>>

-----------------------------------------------------------------------------
(* The revoke ledger.                                                      *)

Scheduled  == "scheduled"
Unresolved == "unresolved"

\* The swapID of a rotation is the token it minted: both are fresh per rotation.
Entry == [accessor  : Token,
          swapID    : Token,
          state     : {Scheduled, Unresolved},
          notBefore : Nat]

IsMint(e) == e.accessor = e.swapID

\* The minted tokens of a ledger whose swap has an unknown outcome.
UnresolvedMints(ledger) ==
  {e \in ledger : IsMint(e) /\ e.state = Unresolved}

Accessors(ledger) == {e.accessor : e \in ledger}

-----------------------------------------------------------------------------
(* The Secret.                                                             *)

Secret ==
  [rv         : Nat,                        \* metadata.resourceVersion
   token      : Token \cup {NoToken},       \* data["token"]
   ledger     : SUBSET Entry,               \* vault.homelab.io/revoke-ledger
   rotateNow  : {"none", "true", "immediate"},  \* vault.homelab.io/rotate-now
   cancel     : Token \cup {NoToken},       \* vault.homelab.io/cancel-revoke
   autoRotate : BOOLEAN,                    \* the auto-rotate lifecycle annotations
   backoff    : Nat,                        \* vault.homelab.io/rotation-backoff-until
   backoffOn  : Token \cup {NoToken}]       \* ghost: the token whose rotation failed

NewSecret(t) ==
  [rv |-> 1, token |-> t, ledger |-> {}, rotateNow |-> "none", cancel |-> NoToken,
   autoRotate |-> FALSE, backoff |-> 0, backoffOn |-> NoToken]

\* A Go zero value: what a pass that is not running remembers of the Secret.
NoSecret == [NewSecret(NoToken) EXCEPT !.rv = 0]

\* The object the client holds after its Update of s was acknowledged.
Stored(s) == [s EXCEPT !.rv = s.rv + 1]

-----------------------------------------------------------------------------
(* The outcomes of Update(s), as its caller can tell them apart.            *)

\* nil: the precondition held and the object was replaced.
Landed(s) ==
  /\ s.rv = secret.rv
  /\ secret' = Stored(s)
  /\ UNCHANGED <<writes, faults>>

\* IsConflict: the Secret has moved past the version s was read at.
Conflict(s) ==
  /\ s.rv # secret.rv
  /\ UNCHANGED storeVars

\* Any other failed call that left the Secret alone and never will change it.
Refused ==
  /\ faults > 0
  /\ faults' = faults - 1
  /\ UNCHANGED <<secret, writes>>

\* Any other class: s may have been applied, may be applied later, or never.
Uncertain(s) ==
  /\ faults > 0
  /\ faults' = faults - 1
  /\ writes' = writes \cup {s}
  /\ UNCHANGED secret

\* writeDefinitelyRejected.
DefinitelyRejected(s) == Conflict(s) \/ Refused

\* Every outcome but nil.
Failed(s) == DefinitelyRejected(s) \/ Uncertain(s)

-----------------------------------------------------------------------------
(* The apiserver's side of a write in flight, and every other writer.       *)

\* A write that never lands just stays in flight.
Land(w) ==
  /\ w \in writes
  /\ w.rv = secret.rv
  /\ secret' = Stored(w)
  /\ writes' = writes \ {w}
  /\ UNCHANGED faults

\* Another writer replaces the Secret by a changed copy of what it holds.
Edit(s) ==
  /\ secret' = Stored(s)
  /\ UNCHANGED <<writes, faults>>

StoreTypeOK ==
  /\ secret \in Secret
  /\ writes \subseteq Secret
  /\ faults \in Nat
=============================================================================
