---------------------------- MODULE TokenRenewal ----------------------------
(***************************************************************************)
(* RenewIfNeeded (pkg/token/renew.go): a renewable admin token is renewed   *)
(* once no more than a third of its configured TTL is left, and the Secret  *)
(* then says until when it lives.  Several processes renew, the token is    *)
(* replaced (by rotation, self-heal, a person) and the configured TTL is    *)
(* edited meanwhile.  Instants are kept as the ticks that are left to them. *)
(***************************************************************************)
EXTENDS Integers

CONSTANTS
  Operator,  \* operator processes
  TTLs,      \* the values spec.tokenManagement.ttl is given, in ticks
  Window,    \* a process completes a call in which nothing fails at least every Window ticks
  Latency    \* ticks that an answer of Vault takes at most, before the client gives up

\* Two thirds of the life of a token are left to the calls before the one that
\* must renew it, the last third to the calls that fail.
ASSUME RenewalAssumption ==
  /\ Operator # {}
  /\ TTLs # {} /\ TTLs \subseteq Nat
  /\ Window \in Nat \ {0} /\ Latency \in Nat
  /\ \A t \in TTLs : Window <= t \div 3

VARIABLES
  tok,    \* the token in the admin-token Secret, as Vault sees it
  claim,  \* the Secret's annotation token-expires
  ttl,    \* spec.tokenManagement.ttl
  pass,   \* the running call of each process
  since   \* ticks since each process completed a call in which nothing failed

vars == <<tok, claim, ttl, pass, since>>

-----------------------------------------------------------------------------
Token == [left : Nat, period : TTLs, renewable : BOOLEAN]

\* renewed: written by RenewIfNeeded for the token the Secret holds.
Claim == [left : Nat, renewed : BOOLEAN]

Pass == [pc     : {"idle", "lookup", "renew", "answer", "update", "error"},
         ttl    : TTLs,        \* configuredTTL
         own    : BOOLEAN,     \* the Secret still holds the token it read
         fresh  : BOOLEAN,     \* the Secret still has the version it read
         lease  : Nat,         \* LeaseDuration, then what is left until token-expires
         waited : 0..Latency]  \* for how long the answer of RenewSelf is under way

Idle(p) == [pass[p] EXCEPT !.pc = "idle", !.own = FALSE, !.fresh = FALSE,
                           !.lease = 0, !.waited = 0]

\* Mutant: a TTL that does not parse is taken for zero.
ConfiguredTTLUnparsed == 0

ConfiguredTTL == ttl

\* A call ends, with nothing failed or with a failure.
Done(p, f) == [f EXCEPT ![p] = Idle(p)]

\* The Secret gets a new version.
Stale(f) == [q \in Operator |-> [f[q] EXCEPT !.fresh = FALSE]]

-----------------------------------------------------------------------------
(* One call.                                                               *)

\* The Secret is read from the apiserver.
Begin(p) ==
  /\ pass[p].pc = "idle"
  /\ pass' = [pass EXCEPT ![p] = [pc |-> "lookup", ttl |-> ConfiguredTTL,
                                  own |-> TRUE, fresh |-> TRUE, lease |-> 0, waited |-> 0]]
  /\ UNCHANGED <<tok, claim, ttl, since>>

\* Mutant: renewal is put off until a quarter is left.
ThresholdQuarter(t) == t \div 4

Threshold(t) == t \div 3

\* LookupSelf, about a renewable token that has little left.  Of a token that is
\* not in the Secret any more it may say anything.
LookupDue(p) ==
  /\ pass[p].pc = "lookup"
  /\ pass[p].own => tok.renewable /\ tok.left \in 1..Threshold(pass[p].ttl)
  /\ pass' = [pass EXCEPT ![p].pc = "renew"]
  /\ UNCHANGED <<tok, claim, ttl, since>>

\* ... about a token that cannot be renewed, or not yet: nothing is written.
LookupNotDue(p) ==
  /\ pass[p].pc = "lookup"
  /\ pass[p].own => tok.left > 0 /\ (tok.renewable => tok.left > Threshold(pass[p].ttl))
  /\ pass' = Done(p, pass)
  /\ since' = [since EXCEPT ![p] = 0]
  /\ UNCHANGED <<tok, claim, ttl>>

\* Mutant: the lease is taken for the one that was asked for.
NewLeaseAsked(p) == pass[p].ttl

\* Vault renews a periodic token for its period, whatever increment is asked for.
NewLease(p) == tok.period

\* RenewSelf reaches Vault, which grants the lease: from here it runs.
Renew(p) ==
  /\ pass[p].pc = "renew"
  /\ \/ /\ pass[p].own /\ tok.left > 0
        /\ tok' = [tok EXCEPT !.left = tok.period]
        /\ pass' = [pass EXCEPT ![p].pc = "answer", ![p].lease = NewLease(p)]
     \/ /\ ~pass[p].own
        /\ \E n \in TTLs : pass' = [pass EXCEPT ![p].pc = "answer", ![p].lease = n]
        /\ UNCHANGED tok
  /\ UNCHANGED <<claim, ttl, since>>

\* The answer arrives.  token-expires is the lease from now on: the time the answer
\* took is not taken off.
Receive(p) ==
  /\ pass[p].pc = "answer"
  /\ pass' = [pass EXCEPT ![p].pc = "update", ![p].waited = 0]
  /\ UNCHANGED <<tok, claim, ttl, since>>

\* RenewSelf fails: Vault refused it or was not reached, or its answer was lost.
RenewFails(p) ==
  /\ pass[p].pc \in {"renew", "answer"}
  /\ pass' = [pass EXCEPT ![p].pc = "error", ![p].lease = 0, ![p].waited = 0]
  /\ UNCHANGED <<tok, claim, ttl, since>>

\* The failure is recorded in the Secret, as far as that works.
RecordError(p) ==
  /\ pass[p].pc = "error"
  /\ pass' = Done(p, IF pass[p].fresh THEN Stale(pass) ELSE pass)
  /\ UNCHANGED <<tok, claim, ttl, since>>

\* The Update of token-expires, which the apiserver takes of the version that was
\* read only.  Its answer may be lost.
UpdateSecret(p) ==
  /\ pass[p].pc = "update"
  /\ pass[p].fresh
  /\ claim' = [left |-> pass[p].lease, renewed |-> TRUE]
  /\ pass' = Done(p, Stale(pass))
  /\ \/ since' = [since EXCEPT ![p] = 0]
     \/ UNCHANGED since
  /\ UNCHANGED <<tok, ttl>>

\* A call fails (a read, a lookup, an Update that is refused), which ends the
\* pass, or the process dies.
Fails(p) ==
  /\ pass[p].pc # "idle"
  /\ pass' = Done(p, pass)
  /\ UNCHANGED <<tok, claim, ttl, since>>

-----------------------------------------------------------------------------
(* Everybody else.                                                          *)

\* A token minted less than a Window ago replaces the one in the Secret: rotation
\* leaves token-expires as it is.
Replace(n) ==
  /\ tok' = n
  /\ n.left \in (n.period - Window + 1)..n.period
  /\ claim' = [claim EXCEPT !.renewed = FALSE]
  /\ pass' = [q \in Operator |-> [pass[q] EXCEPT !.own = FALSE, !.fresh = FALSE]]
  /\ UNCHANGED <<ttl, since>>

\* Another writer changes something else in the Secret.
WriteSecret ==
  /\ \E p \in Operator : pass[p].fresh
  /\ pass' = Stale(pass)
  /\ UNCHANGED <<tok, claim, ttl, since>>

EditTTL(t) ==
  /\ ttl # t
  /\ ttl' = t
  /\ UNCHANGED <<tok, claim, pass, since>>

\* An instant comes nearer, until it has passed.
Nearer(n) == IF n > 0 THEN n - 1 ELSE 0

\* What a tick is to the pass r: an answer takes longer, and the lease is counted
\* down only once it was received.
Older(r) ==
  IF r.pc = "answer" THEN [r EXCEPT !.waited = r.waited + 1]
  ELSE [r EXCEPT !.lease = Nearer(r.lease)]

\* Time passes, but not past a call that is due or an answer the client waits for.
Tick ==
  /\ \A p \in Operator : since[p] < Window
  /\ \A p \in Operator : pass[p].pc = "answer" => pass[p].waited < Latency
  /\ since' = [p \in Operator |-> since[p] + 1]
  /\ tok' = [tok EXCEPT !.left = Nearer(tok.left)]
  /\ claim' = [claim EXCEPT !.left = Nearer(claim.left)]
  /\ pass' = [p \in Operator |-> Older(pass[p])]
  /\ UNCHANGED ttl

-----------------------------------------------------------------------------
Init ==
  /\ ttl \in TTLs
  /\ tok = [left |-> ttl, period |-> ttl, renewable |-> TRUE]
  /\ claim = [left |-> 0, renewed |-> FALSE]
  /\ pass = [p \in Operator |-> [pc |-> "idle", ttl |-> ttl, own |-> FALSE,
                                   fresh |-> FALSE, lease |-> 0, waited |-> 0]]
  /\ since = [p \in Operator |-> 0]

RenewStep(p) ==
  \/ Begin(p) \/ LookupDue(p) \/ LookupNotDue(p)
  \/ Renew(p) \/ Receive(p) \/ RenewFails(p)
  \/ RecordError(p) \/ UpdateSecret(p) \/ Fails(p)

Next ==
  \/ \E p \in Operator : RenewStep(p)
  \/ \E t \in TTLs, r \in BOOLEAN, age \in 0..(Window - 1) :
       Replace([left |-> t - age, period |-> t, renewable |-> r])
  \/ \E t \in TTLs : EditTTL(t)
  \/ WriteSecret \/ Tick

Spec == Init /\ [][Next]_vars

-----------------------------------------------------------------------------
(* Properties.                                                              *)

TypeOK ==
  /\ tok \in Token /\ claim \in Claim /\ ttl \in TTLs
  /\ pass \in [Operator -> Pass]
  /\ since \in [Operator -> 0..Window]

\* A renewable token in the Secret never expires, as long as a call in which nothing
\* fails comes around in every third of the TTL: renewal at a third of the
\* configured TTL leaves room for the failures (renew.go:16), also when the TTL was
\* edited after the token was minted.
NeverExpires == tok.renewable => tok.left > 0

\* token-expires, once a renewal wrote it, is later than the end of the token in the
\* Secret by no more than an answer of Vault takes: whichever process wrote it, for
\* whichever lease, under whatever replacements and edits (renew.go:126,156).
ClaimHonest == claim.renewed => claim.left <= tok.left + Latency
=============================================================================
