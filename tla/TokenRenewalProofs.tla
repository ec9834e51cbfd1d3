------------------------- MODULE TokenRenewalProofs -------------------------
(***************************************************************************)
(* Proofs about TokenRenewal, for every set of processes, every set of TTLs *)
(* every Latency, and every Window no longer than a third of the shortest   *)
(* TTL.                                                                     *)
(***************************************************************************)
EXTENDS TokenRenewal, TLAPS

\* What the passes know of the Secret is not more than there is.
PassOK ==
  /\ tok.left <= tok.period
  /\ \A p \in Operator :
       /\ pass[p].fresh => pass[p].own
       /\ pass[p].own => pass[p].pc # "idle"

\* The lease that a pass was granted is longer than what is left of it by no more
\* than its answer has taken, and, once that has arrived, may have taken.
LeaseOK ==
  \A p \in Operator :
    pass[p].own =>
      /\ pass[p].pc = "answer" => pass[p].lease <= tok.left + pass[p].waited
      /\ pass[p].pc = "update" => pass[p].lease <= tok.left + Latency

\* What is left of a renewable token outlasts the Window of every process, and by
\* another Window once the token was renewed or replaced under a running call.
Lasting(p) ==
  /\ tok.left + since[p] >= Window + 1
  /\ pass[p].pc \in {"answer", "update"} \/ (pass[p].pc # "idle" /\ ~pass[p].own) =>
       tok.left + since[p] >= 2 * Window + 1

LastsOK == tok.renewable => \A p \in Operator : Lasting(p)

RenewalInv == TypeOK /\ PassOK /\ LeaseOK /\ ClaimHonest /\ LastsOK

-----------------------------------------------------------------------------
\* A TTL is at least three Windows, and more than a third of it is more than one.
LEMMA TTLFacts ==
  ASSUME NEW t \in TTLs
  PROVE  /\ t \in Nat
         /\ t >= 3 * Window
         /\ t \div 3 >= Window
         /\ t \div 3 \in Nat
         /\ Window \in Nat \ {0} /\ Latency \in Nat
BY RenewalAssumption

\* An instant comes nearer by one tick at most...
LEMMA NearerFacts ==
  ASSUME NEW n \in Nat
  PROVE  /\ Nearer(n) \in Nat
         /\ n <= Nearer(n) + 1
         /\ Nearer(n) <= n
BY DEF Nearer

\* ... and stays in order with the others.
LEMMA NearerOrder ==
  ASSUME NEW m \in Nat, NEW n \in Nat, NEW d \in Nat, m <= n + d
  PROVE  Nearer(m) <= Nearer(n) + d
BY DEF Nearer

\* The invariant holds initially.
LEMMA RenewalInit == Init => RenewalInv
<1> SUFFICES ASSUME Init PROVE RenewalInv
  OBVIOUS
<1>1. ttl \in TTLs /\ ttl \in Nat /\ ttl >= 3 * Window /\ Window \in Nat \ {0}
      /\ Latency \in Nat
  BY TTLFacts DEF Init
<1>2. TypeOK
  BY <1>1 DEF Init, TypeOK, Token, Claim, Pass
<1>3. PassOK /\ LeaseOK /\ ClaimHonest
  BY <1>1 DEF Init, PassOK, LeaseOK, ClaimHonest
<1>4. LastsOK
  <2> SUFFICES ASSUME NEW p \in Operator PROVE Lasting(p)
    BY DEF LastsOK
  <2>1. tok.left = ttl /\ since[p] = 0 /\ pass[p].pc = "idle"
    BY DEF Init
  <2> QED
    BY <1>1, <2>1 DEF Lasting
<1> QED
  BY <1>2, <1>3, <1>4 DEF RenewalInv

\* A call that is over leaves the others as they were.
LEMMA DoneFacts ==
  ASSUME pass \in [Operator -> Pass], NEW p \in Operator,
         NEW f \in [Operator -> Pass], pass' = Done(p, f)
  PROVE  /\ pass' \in [Operator -> Pass]
         /\ pass'[p].pc = "idle" /\ ~pass'[p].own /\ ~pass'[p].fresh
         /\ \A q \in Operator \ {p} : pass'[q] = f[q]
<1>0. pass[p] \in Pass /\ 0 \in Nat /\ 0 \in 0..Latency
  BY RenewalAssumption
<1>1. /\ Idle(p) \in Pass /\ Idle(p).pc = "idle"
      /\ ~Idle(p).own /\ ~Idle(p).fresh
  BY <1>0 DEF Idle, Pass
<1>2. pass' = [f EXCEPT ![p] = Idle(p)]
  BY DEF Done
<1> QED
  BY <1>1, <1>2

\* A new version of the Secret changes nothing else.
LEMMA StaleFacts ==
  ASSUME pass \in [Operator -> Pass]
  PROVE  /\ Stale(pass) \in [Operator -> Pass]
         /\ \A q \in Operator :
              /\ Stale(pass)[q].pc = pass[q].pc /\ Stale(pass)[q].own = pass[q].own
              /\ Stale(pass)[q].lease = pass[q].lease /\ ~Stale(pass)[q].fresh
              /\ Stale(pass)[q].waited = pass[q].waited
BY DEF Stale, Pass

\* A call that ends, after writing the Secret or not, keeps what concerns the
\* passes; and the Window starts again if a Window more than that was left.
LEMMA DoneKeeps ==
  ASSUME RenewalInv, NEW p \in Operator, NEW f \in {pass, Stale(pass)},
         pass' = Done(p, f), tok' = tok,
         \/ since' = since
         \/ /\ since' = [since EXCEPT ![p] = 0]
            /\ tok.renewable => tok.left >= Window + 1
  PROVE  PassOK' /\ LeaseOK' /\ LastsOK' /\ pass' \in [Operator -> Pass] /\ since' \in [Operator -> 0..Window]
<1>1. /\ pass \in [Operator -> Pass] /\ since \in [Operator -> 0..Window]
      /\ tok.left \in Nat /\ Window \in Nat \ {0} /\ Latency \in Nat
  BY RenewalAssumption DEF RenewalInv, TypeOK, Token
<1>2. /\ f \in [Operator -> Pass]
      /\ \A q \in Operator : /\ f[q].pc = pass[q].pc /\ f[q].own = pass[q].own
                             /\ f[q].lease = pass[q].lease /\ f[q].waited = pass[q].waited
                             /\ f[q].fresh => pass[q].fresh
  BY <1>1, StaleFacts
<1>3. /\ pass' \in [Operator -> Pass]
      /\ pass'[p].pc = "idle" /\ ~pass'[p].own /\ ~pass'[p].fresh
      /\ \A q \in Operator \ {p} : pass'[q] = f[q]
  BY <1>1, <1>2, DoneFacts
<1>4. PassOK' /\ LeaseOK'
  BY <1>2, <1>3 DEF RenewalInv, PassOK, LeaseOK
<1>5. since' \in [Operator -> 0..Window]
  BY <1>1
<1>6. LastsOK'
  <2> SUFFICES ASSUME tok.renewable, NEW q \in Operator PROVE Lasting(q)'
    BY DEF LastsOK
  <2>1. Lasting(q)
    BY DEF RenewalInv, LastsOK
  <2>2. CASE q = p
    BY <1>1, <1>3, <2>1, <2>2 DEF Lasting
  <2>3. CASE q # p
    BY <1>1, <1>2, <1>3, <2>1, <2>3 DEF Lasting
  <2> QED
    BY <2>2, <2>3
<1> QED
  BY <1>3, <1>4, <1>5, <1>6

\* Each action of a call keeps the invariant.
LEMMA RenewStepKeeps ==
  ASSUME RenewalInv, NEW p \in Operator, RenewStep(p)
  PROVE  RenewalInv'
<1>0. /\ Window \in Nat \ {0} /\ Latency \in Nat /\ 0 \in 0..Latency
      /\ tok \in Token /\ claim \in Claim /\ ttl \in TTLs
      /\ tok.left \in Nat /\ tok.period \in Nat /\ tok.period >= 3 * Window
      /\ pass \in [Operator -> Pass] /\ since \in [Operator -> 0..Window]
  BY TTLFacts DEF RenewalInv, TypeOK, Token
<1>1. CASE Begin(p)
  BY <1>0, <1>1 DEF Begin, ConfiguredTTL, Pass, RenewalInv, TypeOK, PassOK, LeaseOK, ClaimHonest, LastsOK, Lasting
<1>2. CASE LookupDue(p)
  BY <1>0, <1>2 DEF LookupDue, Pass, RenewalInv, TypeOK, PassOK, LeaseOK, ClaimHonest, LastsOK, Lasting
<1>3. CASE LookupNotDue(p)
  <2>1. tok.renewable => tok.left >= Window + 1
    <3>1. CASE pass[p].own
      <4>1. pass[p].ttl \in TTLs
        BY <1>0 DEF Pass
      <4> QED
        BY <1>0, <1>3, <3>1, <4>1, TTLFacts DEF LookupNotDue, Threshold
    <3>2. CASE ~pass[p].own
      BY <1>0, <1>3, <3>2 DEF LookupNotDue, RenewalInv, LastsOK, Lasting
    <3> QED
      BY <3>1, <3>2
  <2> QED
    BY <1>0, <1>3, <2>1, DoneKeeps DEF LookupNotDue, RenewalInv, TypeOK, ClaimHonest
<1>4. CASE Renew(p)
  <2>1. CASE pass[p].own /\ tok.left > 0 /\ tok' = [tok EXCEPT !.left = tok.period]
    <3>1. /\ tok' \in Token /\ tok'.left = tok.period /\ tok'.period = tok.period
          /\ tok'.renewable = tok.renewable
      BY <1>0, <2>1 DEF Token
    <3>2. pass' = [pass EXCEPT ![p].pc = "answer", ![p].lease = tok.period]
      BY <1>4, <2>1 DEF Renew, NewLease
    <3>3. pass' \in [Operator -> Pass]
      <4> DEFINE u == [pass[p] EXCEPT !.pc = "answer", !.lease = tok.period]
      <4>1. pass[p] \in Pass /\ u \in Pass
        BY <1>0 DEF Pass
      <4>2. pass' = [pass EXCEPT ![p] = u]
        BY <1>0, <3>2, <4>1 DEF Pass
      <4> QED
        BY <1>0, <4>1, <4>2
    <3>4. TypeOK'
      BY <1>0, <1>4, <3>1, <3>3 DEF Renew, RenewalInv, TypeOK
    <3>5. \A q \in Operator : /\ pass'[q].own = pass[q].own /\ pass'[q].fresh = pass[q].fresh
                              /\ pass'[q].lease = (IF q = p THEN tok.period ELSE pass[q].lease)
                              /\ pass'[q].pc = (IF q = p THEN "answer" ELSE pass[q].pc)
                              /\ pass'[q].waited = pass[q].waited
      BY <1>0, <3>2 DEF Pass
    <3>6. \A q \in Operator : pass[q].lease \in Nat /\ pass[q].waited \in Nat
      BY <1>0 DEF Pass
    <3>7. tok.left <= tok.period
      BY DEF RenewalInv, PassOK
    <3>8. PassOK'
      BY <1>0, <2>1, <3>1, <3>5 DEF RenewalInv, PassOK
    <3>9. LeaseOK'
      BY <1>0, <3>1, <3>5, <3>6, <3>7 DEF RenewalInv, LeaseOK
    <3>10. ClaimHonest'
      BY <1>0, <1>4, <3>1, <3>7 DEF Renew, RenewalInv, ClaimHonest, Claim
    <3>11. LastsOK'
      BY <1>0, <1>4, <3>1 DEF Renew, LastsOK, Lasting
    <3> QED
      BY <3>4, <3>11, <3>8, <3>9, <3>10 DEF RenewalInv
  <2>2. CASE ~pass[p].own /\ tok' = tok
    <3>1. PICK n \in TTLs : pass' = [pass EXCEPT ![p].pc = "answer", ![p].lease = n]
      BY <1>4, <2>2 DEF Renew
    <3>2. n \in Nat
      BY TTLFacts
    <3>3. pass' \in [Operator -> Pass]
      <4> DEFINE u == [pass[p] EXCEPT !.pc = "answer", !.lease = n]
      <4>1. pass[p] \in Pass /\ u \in Pass
        BY <1>0, <3>2 DEF Pass
      <4>2. pass' = [pass EXCEPT ![p] = u]
        BY <1>0, <3>1, <4>1 DEF Pass
      <4> QED
        BY <1>0, <4>1, <4>2
    <3>4. /\ \A q \in Operator : pass'[q].own = pass[q].own /\ pass'[q].fresh = pass[q].fresh
          /\ \A q \in Operator \ {p} : pass'[q] = pass[q]
          /\ pass'[p].pc = "answer"
      BY <1>0, <3>1 DEF Pass
    <3>5. pass[p].pc # "idle"
      BY <1>4 DEF Renew
    <3>6. PassOK' /\ LeaseOK' /\ ClaimHonest' /\ TypeOK'
      BY <1>0, <1>4, <2>2, <3>3, <3>4 DEF Renew, RenewalInv, TypeOK, PassOK, LeaseOK, ClaimHonest
    <3>7. LastsOK'
      BY <1>0, <1>4, <2>2, <3>4, <3>5 DEF Renew, RenewalInv, LastsOK, Lasting
    <3> QED
      BY <3>6, <3>7 DEF RenewalInv
  <2> QED
    BY <1>4, <2>1, <2>2 DEF Renew
<1>5. CASE RenewFails(p) \/ Receive(p)
  <2>1. PICK c \in {"error", "update"}, l \in {0, pass[p].lease} :
          /\ pass' = [pass EXCEPT ![p].pc = c, ![p].lease = l, ![p].waited = 0]
          /\ c = "update" => pass[p].pc = "answer" /\ l = pass[p].lease
    <3>1. CASE RenewFails(p)
      BY <3>1 DEF RenewFails
    <3>2. CASE Receive(p)
      <4>1. pass' = [pass EXCEPT ![p].pc = "update", ![p].lease = pass[p].lease, ![p].waited = 0]
        BY <1>0, <3>2 DEF Receive, Pass
      <4> QED
        BY <3>2, <4>1 DEF Receive
    <3> QED
      BY <1>5, <3>1, <3>2
  <2>2. tok' = tok /\ claim' = claim /\ ttl' = ttl /\ since' = since /\ pass[p].pc # "idle"
    BY <1>5 DEF RenewFails, Receive
  <2>3. pass[p] \in Pass /\ pass[p].lease \in Nat /\ pass[p].waited \in 0..Latency
    BY <1>0 DEF Pass
  <2>4. pass' \in [Operator -> Pass]
    <3> DEFINE u == [pass[p] EXCEPT !.pc = c, !.lease = l, !.waited = 0]
    <3>1. l \in Nat /\ u \in Pass
      <4>1. l \in Nat
        BY <2>3
      <4> QED
        BY <1>0, <2>3, <4>1 DEF Pass
    <3>2. pass' = [pass EXCEPT ![p] = u]
      BY <1>0, <2>1, <2>3 DEF Pass
    <3> QED
      BY <1>0, <3>1, <3>2
  <2>5. /\ \A q \in Operator \ {p} : pass'[q] = pass[q]
        /\ pass'[p].own = pass[p].own /\ pass'[p].fresh = pass[p].fresh
        /\ pass'[p].pc = c /\ pass'[p].lease = l
    BY <1>0, <2>1, <2>3 DEF Pass
  <2>6. TypeOK' /\ PassOK' /\ ClaimHonest'
    BY <1>0, <2>2, <2>4, <2>5 DEF RenewalInv, TypeOK, PassOK, ClaimHonest
  <2>7. LeaseOK'
    BY <1>0, <2>1, <2>2, <2>3, <2>5 DEF RenewalInv, LeaseOK
  <2>8. LastsOK'
    BY <1>0, <2>1, <2>2, <2>5 DEF RenewalInv, LastsOK, Lasting
  <2> QED
    BY <2>6, <2>7, <2>8 DEF RenewalInv
<1>6. CASE RecordError(p)
  BY <1>0, <1>6, DoneKeeps DEF RecordError, RenewalInv, TypeOK, ClaimHonest
<1>7. CASE UpdateSecret(p)
  <2>1. tok.renewable => tok.left >= Window + 1
    BY <1>0, <1>7 DEF UpdateSecret, RenewalInv, LastsOK, Lasting
  <2>2. pass[p].lease \in Nat /\ pass[p].lease <= tok.left + Latency
    BY <1>0, <1>7 DEF UpdateSecret, Pass, RenewalInv, PassOK, LeaseOK
  <2> QED
    BY <1>0, <1>7, <2>1, <2>2, DoneKeeps DEF UpdateSecret, Claim, RenewalInv, TypeOK, ClaimHonest
<1>8. CASE Fails(p)
  BY <1>0, <1>8, DoneKeeps DEF Fails, RenewalInv, TypeOK, ClaimHonest
<1> QED
  BY <1>1, <1>2, <1>3, <1>4, <1>5, <1>6, <1>7, <1>8 DEF RenewStep

\* So does a replacement of the token.
LEMMA ReplaceKeeps ==
  ASSUME RenewalInv,
         NEW t \in TTLs, NEW r \in BOOLEAN, NEW age \in 0..(Window - 1),
         Replace([left |-> t - age, period |-> t, renewable |-> r])
  PROVE  RenewalInv'
<1>0. t \in Nat /\ t >= 3 * Window /\ Window \in Nat \ {0}
  BY TTLFacts
<1>1. age \in Nat /\ t - age \in Nat /\ t - age >= 2 * Window + 1
  BY <1>0
<1>2. TypeOK'
  <2>1. tok' \in Token
    BY <1>0, <1>1 DEF Replace, Token
  <2>2. claim' \in Claim
    BY DEF Replace, Claim, RenewalInv, TypeOK
  <2>3. pass' \in [Operator -> Pass]
    <3>1. ASSUME NEW q \in Operator
          PROVE  [pass[q] EXCEPT !.own = FALSE, !.fresh = FALSE] \in Pass
      <4>1. pass[q] \in Pass
        BY DEF RenewalInv, TypeOK
      <4> QED
        BY <4>1 DEF Pass
    <3> QED
      BY <3>1 DEF Replace
  <2> QED
    BY <2>1, <2>2, <2>3 DEF Replace, RenewalInv, TypeOK
<1>3. PassOK' /\ LeaseOK' /\ ClaimHonest'
  <2>0. tok'.left = t - age /\ tok'.period = t
    BY DEF Replace
  <2>1. tok'.left <= tok'.period
    BY <1>0, <1>1, <2>0
  <2>2. \A q \in Operator : ~pass'[q].own /\ ~pass'[q].fresh
    BY DEF Replace, RenewalInv, TypeOK, Pass
  <2>3. ~claim'.renewed
    BY DEF Replace, RenewalInv, TypeOK, Claim
  <2> QED
    BY <2>1, <2>2, <2>3 DEF PassOK, LeaseOK, ClaimHonest
<1>4. LastsOK'
  <2> SUFFICES ASSUME NEW p \in Operator PROVE Lasting(p)'
    BY DEF LastsOK
  <2>1. tok'.left \in Nat /\ tok'.left >= 2 * Window + 1
    BY <1>1 DEF Replace
  <2>2. since'[p] \in Nat
    BY <1>2, <1>0 DEF TypeOK
  <2>3. tok'.left + since'[p] >= 2 * Window + 1
    BY <1>0, <2>1, <2>2
  <2>4. tok'.left + since'[p] >= Window + 1
    BY <1>0, <2>1, <2>2
  <2> QED
    BY <2>3, <2>4 DEF Lasting
<1> QED
  BY <1>2, <1>3, <1>4 DEF RenewalInv

\* So does a tick.
LEMMA TickKeeps ==
  ASSUME RenewalInv, Tick
  PROVE  RenewalInv'
<1>1. /\ Window \in Nat \ {0} /\ Latency \in Nat /\ tok \in Token /\ claim \in Claim
      /\ tok.left \in Nat /\ claim.left \in Nat /\ tok.period \in Nat
      /\ pass \in [Operator -> Pass] /\ since \in [Operator -> 0..Window]
      /\ \A p \in Operator : pass[p].lease \in Nat /\ pass[p].waited \in 0..Latency
  BY RenewalAssumption DEF RenewalInv, TypeOK, Token, Claim, Pass
<1>2. /\ tok' \in Token /\ tok'.left = Nearer(tok.left)
      /\ tok'.period = tok.period /\ tok'.renewable = tok.renewable
  BY <1>1, NearerFacts DEF Tick, Token
<1>3. /\ claim' \in Claim /\ claim'.left = Nearer(claim.left)
      /\ claim'.renewed = claim.renewed
  BY <1>1, NearerFacts DEF Tick, Claim
<1>4. \A p \in Operator :
        /\ pass'[p] = Older(pass[p])
        /\ pass[p].pc = "answer" => pass[p].waited < Latency
        /\ since'[p] = since[p] + 1 /\ since[p] < Window
  BY DEF Tick
<1>5. \A p \in Operator :
        /\ pass'[p] \in Pass
        /\ pass'[p].pc = pass[p].pc /\ pass'[p].own = pass[p].own
        /\ pass'[p].fresh = pass[p].fresh
        /\ pass[p].pc = "answer" =>
             pass'[p].lease = pass[p].lease /\ pass'[p].waited = pass[p].waited + 1
        /\ pass[p].pc = "update" => pass'[p].lease = Nearer(pass[p].lease)
  <2> TAKE p \in Operator
  <2>1. pass[p] \in Pass /\ Nearer(pass[p].lease) \in Nat
    BY <1>1, NearerFacts
  <2>2. pass[p].pc = "answer" => pass[p].waited + 1 \in 0..Latency
    BY <1>1, <1>4
  <2>3. pass'[p] = Older(pass[p])
    BY <1>4
  <2> QED
    BY <2>1, <2>2, <2>3 DEF Older, Pass
<1>6. pass' \in [Operator -> Pass] /\ since' \in [Operator -> 0..Window]
  <2>1. pass' = [p \in Operator |-> pass'[p]]
    BY DEF Tick
  <2>2. pass' \in [Operator -> Pass]
    BY <1>5, <2>1
  <2>3. \A p \in Operator : since'[p] \in 0..Window
    <3> TAKE p \in Operator
    <3>1. since[p] \in 0..Window /\ since[p] < Window /\ since'[p] = since[p] + 1
      BY <1>1, <1>4
    <3> QED
      BY <1>1, <3>1
  <2>4. since' = [p \in Operator |-> since'[p]]
    BY DEF Tick
  <2> QED
    BY <2>2, <2>3, <2>4
<1>7. TypeOK'
  BY <1>2, <1>3, <1>6 DEF RenewalInv, TypeOK, Tick
<1>8. PassOK'
  BY <1>1, <1>2, <1>5, NearerFacts DEF RenewalInv, PassOK
<1>9. LeaseOK'
  <2> SUFFICES ASSUME NEW p \in Operator, pass[p].own
               PROVE  /\ pass'[p].pc = "answer" => pass'[p].lease <= tok'.left + pass'[p].waited
                      /\ pass'[p].pc = "update" => pass'[p].lease <= tok'.left + Latency
    BY <1>5 DEF LeaseOK
  <2>1. /\ pass[p].pc = "answer" => pass[p].lease <= tok.left + pass[p].waited
        /\ pass[p].pc = "update" => pass[p].lease <= tok.left + Latency
    BY DEF RenewalInv, LeaseOK
  <2>2. CASE pass[p].pc = "answer"
    BY <1>1, <1>2, <1>5, <2>1, <2>2, NearerFacts
  <2>3. CASE pass[p].pc = "update"
    BY <1>1, <1>2, <1>5, <2>1, <2>3, NearerOrder
  <2> QED
    BY <1>5, <2>2, <2>3
<1>10. ClaimHonest'
  BY <1>1, <1>2, <1>3, NearerOrder DEF RenewalInv, ClaimHonest
<1>11. LastsOK'
  <2> SUFFICES ASSUME tok.renewable, NEW p \in Operator PROVE Lasting(p)'
    BY <1>2 DEF LastsOK
  <2>1. Lasting(p)
    BY DEF RenewalInv, LastsOK
  <2>2. tok'.left \in Nat /\ tok'.left + 1 >= tok.left /\ since[p] \in Nat
    BY <1>1, <1>2, NearerFacts
  <2>3. since'[p] = since[p] + 1
    BY <1>4
  <2>4. pass'[p].pc = pass[p].pc /\ pass'[p].own = pass[p].own
    BY <1>5
  <2>5. Window' = Window /\ Window \in Nat /\ tok.left \in Nat
    BY <1>1
  <2>6. tok'.left + since'[p] >= tok.left + since[p]
    BY <2>2, <2>3, <2>5
  <2> QED
    BY <2>1, <2>2, <2>3, <2>4, <2>5, <2>6 DEF Lasting
<1> QED
  BY <1>7, <1>8, <1>9, <1>10, <1>11 DEF RenewalInv

\* Every step keeps the invariant.
LEMMA RenewalNext ==
  ASSUME RenewalInv, [Next]_vars
  PROVE  RenewalInv'
<1>1. CASE \E p \in Operator : RenewStep(p)
  BY <1>1, RenewStepKeeps
<1>2. CASE \E t \in TTLs, r \in BOOLEAN, age \in 0..(Window - 1) :
             Replace([left |-> t - age, period |-> t, renewable |-> r])
  BY <1>2, ReplaceKeeps
<1>3. CASE \E t \in TTLs : EditTTL(t)
  BY <1>3 DEF EditTTL, RenewalInv, TypeOK, PassOK, LeaseOK, ClaimHonest, LastsOK, Lasting
<1>4. CASE WriteSecret
  <2>1. TypeOK /\ pass' = Stale(pass) /\ UNCHANGED <<tok, claim, ttl, since>>
    BY <1>4 DEF WriteSecret, RenewalInv
  <2>2. /\ pass' \in [Operator -> Pass]
        /\ \A q \in Operator :
             /\ pass'[q].pc = pass[q].pc /\ pass'[q].own = pass[q].own
             /\ pass'[q].lease = pass[q].lease /\ ~pass'[q].fresh
             /\ pass'[q].waited = pass[q].waited
    BY <2>1, StaleFacts DEF TypeOK
  <2>3. TypeOK' /\ PassOK' /\ LeaseOK' /\ ClaimHonest'
    <3>1. TypeOK' /\ PassOK' /\ ClaimHonest'
      BY <2>1, <2>2 DEF RenewalInv, TypeOK, PassOK, ClaimHonest
    <3>2. LeaseOK'
      BY <2>1, <2>2 DEF RenewalInv, LeaseOK
    <3> QED
      BY <3>1, <3>2
  <2>4. LastsOK'
    BY <2>1, <2>2 DEF RenewalInv, LastsOK, Lasting
  <2> QED
    BY <2>3, <2>4 DEF RenewalInv
<1>5. CASE Tick
  BY <1>5, TickKeeps
<1>6. CASE UNCHANGED vars
  BY <1>6 DEF vars, RenewalInv, TypeOK, PassOK, LeaseOK, ClaimHonest, LastsOK, Lasting
<1> QED
  BY <1>1, <1>2, <1>3, <1>4, <1>5, <1>6 DEF Next

\* The invariant holds in every state.
LEMMA RenewalInvariant == Spec => []RenewalInv
BY RenewalInit, RenewalNext, PTL DEF Spec

-----------------------------------------------------------------------------
\* Every state is well typed: leases, claims and the leases that calls work with are
\* natural numbers, however often they are shortened by time or by an edited TTL.
THEOREM TypeCorrect == Spec => []TypeOK
BY RenewalInvariant, PTL DEF RenewalInv

\* A renewable token never expires: whatever number of processes renew, whatever
\* fails, and however the token is replaced and its TTL edited, one call in which
\* nothing fails in every third of the TTL is enough.
THEOREM TokenNeverExpires == Spec => []NeverExpires
<1>1. RenewalInv => NeverExpires
  BY RenewalAssumption DEF RenewalInv, TypeOK, Token, LastsOK, Lasting, NeverExpires
<1> QED
  BY <1>1, RenewalInvariant, PTL

\* token-expires never promises more than Vault granted to the token it is about, but
\* for the time an answer takes: for every Latency, and whoever renews or replaces.
THEOREM ClaimStaysHonest == Spec => []ClaimHonest
BY RenewalInvariant, PTL DEF RenewalInv
=============================================================================
