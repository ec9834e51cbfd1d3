--------------------------- MODULE StoredKeyProofs ---------------------------
(***************************************************************************)
(* Proofs about StoredKeyUnseal: its types, and that with a single pod a    *)
(* failed attempt to open it is always reported.  With two pods it is not:  *)
(* the pod processed last decides what Ready says, see FailureReported.     *)
(***************************************************************************)
EXTENDS StoredKeyUnseal, SequenceTheorems, TLAPS

OnePod == \E x : Pod = {x}

\* A call: Unseal submits a share only while it has one, and when the only pod was
\* not opened nothing is left for the call to do that would touch Ready.
PassOK(r) ==
  /\ r \in Pass
  /\ r.pc = "submit" => r.left # <<>>
  /\ OnePod /\ r.failed =>
       /\ r.pc \in {"pods", "status"} /\ r.todo = {}
       /\ r.cond.ready = "unsealFailed"

StoredKeyInv ==
  /\ TypeOK
  /\ \A o \in Operator : PassOK(pass[o])

-----------------------------------------------------------------------------
(* Steps, by what they do to a call.                                        *)

\* The types of what a step of a call leaves alone.
RestOK ==
  /\ keys' \in Seq(Share) /\ initialized' \in BOOLEAN
  /\ sealed' \in [Pod -> BOOLEAN] /\ progress' \in [Pod -> SUBSET Share]
  /\ status' \in Conditions /\ {faults', outages', edits'} \subseteq Nat

LEMMA RestUnchanged ==
  ASSUME TypeOK, UNCHANGED <<keys, vaultVars, status, outages, edits>>,
         Fault \/ UNCHANGED faults
  PROVE  RestOK
  BY DEF TypeOK, RestOK, vaultVars, Fault

LEMMA NoPassOK ==
  ASSUME Pod # {}
  PROVE  /\ NoPass \in Pass /\ PassOK(NoPass)
         /\ NoPass.pc = "idle" /\ NoPass.failed = FALSE
<1>1. (CHOOSE x \in Pod : TRUE) \in Pod
  OBVIOUS
<1>2. NoPass \in Pass
  BY <1>1 DEF NoPass, Pass, PC, NoConditions, Conditions
<1> QED BY <1>2 DEF NoPass, PassOK

LEMMA PassFacts ==
  ASSUME StoredKeyInv, NEW o \in Operator
  PROVE  /\ pass[o] \in Pass /\ PassOK(pass[o])
         /\ pass[o].cond \in Conditions /\ pass[o].todo \subseteq Pod
         /\ pass[o].pod \in Pod /\ pass[o].left \in Seq(Share) /\ pass[o].sent \in Nat
  BY DEF StoredKeyInv, TypeOK, Pass

\* A call goes on with r.
LEMMA CallInv ==
  ASSUME StoredKeyInv, NEW o \in Operator, NEW r, PassOK(r), Continue(o, r), RestOK
  PROVE  StoredKeyInv'
<1>1. r \in Pass
  BY DEF PassOK
<1>2. pass' \in [Operator -> Pass] /\ pass'[o] = r /\ \A x \in Operator \ {o} : pass'[x] = pass[x]
  BY <1>1 DEF StoredKeyInv, TypeOK, Continue
<1> QED BY <1>2 DEF StoredKeyInv, TypeOK, RestOK, PassOK

\* The calls are outdated, or left alone.
LEMMA OutdatedOK ==
  ASSUME StoredKeyInv, NEW o \in Operator, NEW r,
         r = [pass[o] EXCEPT !.stale = pass[o].pc # "idle"]
  PROVE  PassOK(r) /\ r.pc = pass[o].pc
<1>1. /\ r \in Pass /\ r.pc = pass[o].pc /\ r.left = pass[o].left /\ r.failed = pass[o].failed
      /\ r.todo = pass[o].todo /\ r.cond = pass[o].cond
  BY PassFacts DEF Pass
<1> QED BY <1>1, PassFacts DEF PassOK

LEMMA ElsewhereInv ==
  ASSUME StoredKeyInv, RestOK,
         pass' \in {pass, [x \in Operator |-> [pass[x] EXCEPT !.stale = pass[x].pc # "idle"]]}
  PROVE  StoredKeyInv'
<1>1. ASSUME NEW o \in Operator PROVE PassOK(pass'[o])
  BY PassFacts, OutdatedOK
<1>2. pass' \in [Operator -> Pass]
  BY <1>1 DEF PassOK, StoredKeyInv, TypeOK
<1> QED BY <1>1, <1>2 DEF StoredKeyInv, TypeOK, RestOK, PassOK

\* The loop over the pods goes on.
LEMMA NextPodFacts ==
  ASSUME NEW r \in Pass, NEW n, n = NextPod(r)
  PROVE  /\ n \in Pass /\ n.pc = "pods" /\ n.todo = r.todo \ {r.pod}
         /\ n.cond = r.cond /\ n.failed = r.failed
<1>1. r.todo \ {r.pod} \in SUBSET Pod /\ <<>> \in Seq(Share) /\ 0 \in Nat
  BY DEF Pass
<1> QED BY <1>1 DEF NextPod, Pass, PC

LEMMA NextPodOK ==
  ASSUME NEW r \in Pass, OnePod => ~r.failed PROVE PassOK(NextPod(r))
  BY NextPodFacts DEF PassOK

\* An attempt has failed: with one pod, no pod is left to process.
LEMMA UnsealFailedOK ==
  ASSUME NEW r \in Pass PROVE PassOK(UnsealFailed(r))
<1>1. PICK m : m = [r EXCEPT !.cond.ready = "unsealFailed", !.failed = TRUE]
  OBVIOUS
<1>2. /\ m \in Pass /\ m.cond.ready = "unsealFailed" /\ m.todo = r.todo /\ m.pod = r.pod
      /\ m.failed
  BY <1>1 DEF Pass, Conditions
<1>3. PICK n : n = NextPod(m)
  OBVIOUS
<1>4. n \in Pass /\ n.pc = "pods" /\ n.todo = r.todo \ {r.pod} /\ n.cond.ready = "unsealFailed"
  BY <1>2, <1>3, NextPodFacts
<1>5. OnePod => n.todo = {}
  BY <1>4 DEF OnePod, Pass
<1> QED BY <1>1, <1>3, <1>4, <1>5 DEF PassOK, UnsealFailed

-----------------------------------------------------------------------------
(* One lemma per action.                                                    *)

LEMMA BeginInv ==
  ASSUME Pod # {}, StoredKeyInv, NEW o \in Operator, Begin(o) PROVE StoredKeyInv'
<1>1. PICK r : r = [NoPass EXCEPT !.pc = "validate", !.cond = status]
  OBVIOUS
<1>2. r \in Pass /\ r.pc = "validate" /\ r.failed = FALSE
  BY <1>1, NoPassOK DEF Pass, PC, StoredKeyInv, TypeOK
<1>3. RestOK
  BY RestUnchanged DEF Begin, boundVars, StoredKeyInv
<1> QED BY <1>1, <1>2, <1>3, CallInv DEF Begin, PassOK

LEMMA KeySecretReadType ==
  ASSUME NEW c \in Conditions, NEW found \in BOOLEAN
  PROVE  KeySecretRead(c, found) \in Conditions
  BY DEF KeySecretRead, Conditions

LEMMA ValidateInv ==
  ASSUME StoredKeyInv, NEW o \in Operator, Validate(o) PROVE StoredKeyInv'
<1> DEFINE r == pass[o]
<1>1. RestOK /\ r.pc = "validate"
  BY RestUnchanged DEF Validate, StoredKeyInv
<1>2. KeySecretRead(r.cond, TRUE) \in Conditions /\ KeySecretRead(r.cond, FALSE) \in Conditions
  BY PassFacts, KeySecretReadType
<1>3. PICK c \in Conditions, pc \in {"status", "pods"}, t \in SUBSET Pod :
        Continue(o, [r EXCEPT !.cond = c, !.pc = pc, !.todo = t])
  <2>1. CASE Continue(o, [r EXCEPT !.cond = KeySecretRead(r.cond, keys # <<>>),
                                   !.pc = IF keys = <<>> THEN "status" ELSE "pods",
                                   !.todo = IF keys = <<>> THEN {} ELSE Pod])
    <3>1. CASE keys = <<>>
      BY <1>2, <2>1, <3>1
    <3>2. CASE keys # <<>>
      BY <1>2, <2>1, <3>2
    <3> QED BY <3>1, <3>2
  <2>2. ASSUME NEW c \in {r.cond, KeySecretRead(r.cond, FALSE), KeySecretRead(r.cond, TRUE)},
               Continue(o, [r EXCEPT !.cond = c, !.pc = "status"])
        PROVE  Continue(o, [r EXCEPT !.cond = c, !.pc = "status", !.todo = r.todo])
    <3>1. [r EXCEPT !.cond = c, !.pc = "status"] =
            [r EXCEPT !.cond = c, !.pc = "status", !.todo = r.todo]
      BY PassFacts DEF Pass
    <3> QED BY <2>2, <3>1
  <2> QED BY <1>2, <2>1, <2>2, PassFacts DEF Validate
<1>4. PICK n : n = [r EXCEPT !.cond = c, !.pc = pc, !.todo = t]
  OBVIOUS
<1>5. n \in Pass /\ n.pc = pc /\ n.failed = r.failed
  BY <1>4, PassFacts DEF Pass, PC
<1>6. PassOK(n)
  BY <1>1, <1>5, PassFacts DEF PassOK
<1> QED BY <1>1, <1>3, <1>4, <1>6, CallInv

LEMMA CheckPodInv ==
  ASSUME StoredKeyInv, NEW o \in Operator, CheckPod(o) PROVE StoredKeyInv'
<1>1. RestOK /\ pass[o].pc = "pods"
  BY RestUnchanged DEF CheckPod, StoredKeyInv
<1>2. PICK x \in pass[o].todo :
        LET here == [pass[o] EXCEPT !.pod = x] IN
        \/ Continue(o, NextPod([here EXCEPT !.cond.initialized = "false",
                                            !.cond.ready = "sealed"]))
        \/ Continue(o, NextPod([here EXCEPT !.cond = Health(pass[o].cond, TRUE)]))
        \/ Continue(o, [here EXCEPT !.pc = "shares", !.cond = Health(pass[o].cond, FALSE)])
        \/ Continue(o, NextPod(here))
  BY DEF CheckPod
<1>3. OnePod => ~pass[o].failed
  BY <1>2, PassFacts DEF PassOK
<1>4. PICK h : h = [pass[o] EXCEPT !.pod = x]
  OBVIOUS
<1>5. h \in Pass /\ h.failed = pass[o].failed
  BY <1>2, <1>4, PassFacts DEF Pass
<1>6. \A open \in BOOLEAN : Health(pass[o].cond, open) \in Conditions
  BY PassFacts DEF Health, Conditions
<1>7. CASE Continue(o, NextPod([h EXCEPT !.cond.initialized = "false",
                                         !.cond.ready = "sealed"]))
  <2>1. PICK r : r = [h EXCEPT !.cond.initialized = "false", !.cond.ready = "sealed"]
    OBVIOUS
  <2>2. r \in Pass /\ r.failed = h.failed
    BY <1>5, <2>1 DEF Pass, Conditions
  <2> QED BY <1>1, <1>3, <1>5, <1>7, <2>1, <2>2, NextPodOK, CallInv
<1>8. CASE Continue(o, NextPod([h EXCEPT !.cond = Health(pass[o].cond, TRUE)]))
  <2>1. PICK r : r = [h EXCEPT !.cond = Health(pass[o].cond, TRUE)]
    OBVIOUS
  <2>2. r \in Pass /\ r.failed = h.failed
    BY <1>5, <1>6, <2>1 DEF Pass
  <2> QED BY <1>1, <1>3, <1>5, <1>8, <2>1, <2>2, NextPodOK, CallInv
<1>9. CASE Continue(o, [h EXCEPT !.pc = "shares", !.cond = Health(pass[o].cond, FALSE)])
  <2>1. PICK r : r = [h EXCEPT !.pc = "shares", !.cond = Health(pass[o].cond, FALSE)]
    OBVIOUS
  <2>2. r \in Pass /\ r.failed = h.failed /\ r.pc = "shares"
    BY <1>5, <1>6, <2>1 DEF Pass, PC
  <2>3. PassOK(r)
    BY <1>3, <1>5, <2>2 DEF PassOK
  <2> QED BY <1>1, <1>9, <2>1, <2>3, CallInv
<1>10. CASE Continue(o, NextPod(h))
  BY <1>1, <1>3, <1>5, <1>10, NextPodOK, CallInv
<1> QED BY <1>2, <1>4, <1>7, <1>8, <1>9, <1>10

LEMMA ReadSharesInv ==
  ASSUME StoredKeyInv, NEW o \in Operator, ReadShares(o) PROVE StoredKeyInv'
<1>1. RestOK /\ pass[o].pc = "shares" /\ keys \in Seq(Share)
  BY RestUnchanged DEF ReadShares, StoredKeyInv, TypeOK
<1>2. OnePod => ~pass[o].failed
  BY <1>1, PassFacts DEF PassOK
<1>3. /\ KeySecretRead(pass[o].cond, TRUE) \in Conditions
      /\ KeySecretRead(pass[o].cond, FALSE) \in Conditions
  BY PassFacts, KeySecretReadType
<1>4. CASE /\ keys # <<>>
           /\ Continue(o, [pass[o] EXCEPT !.cond = KeySecretRead(pass[o].cond, TRUE),
                                          !.pc = "submit", !.left = keys])
  <2>1. PICK r : r = [pass[o] EXCEPT !.cond = KeySecretRead(pass[o].cond, TRUE),
                                     !.pc = "submit", !.left = keys]
    OBVIOUS
  <2>2. r \in Pass /\ r.failed = pass[o].failed /\ r.left = keys
    BY <1>1, <1>3, <2>1, PassFacts DEF Pass, PC
  <2>3. PassOK(r)
    BY <1>2, <1>4, <2>2 DEF PassOK
  <2> QED BY <1>1, <1>4, <2>1, <2>3, CallInv
<1>5. CASE Continue(o, NextPod([pass[o] EXCEPT !.cond = KeySecretRead(pass[o].cond, FALSE)]))
  <2>1. PICK r : r = [pass[o] EXCEPT !.cond = KeySecretRead(pass[o].cond, FALSE)]
    OBVIOUS
  <2>2. r \in Pass /\ r.failed = pass[o].failed
    BY <1>3, <2>1, PassFacts DEF Pass
  <2> QED BY <1>1, <1>2, <1>5, <2>1, <2>2, NextPodOK, CallInv
<1> QED BY <1>4, <1>5 DEF ReadShares

\* Vault's side of a submission.
LEMMA UnsealingType ==
  ASSUME TypeOK, NEW x \in Pod, NEW s \in Share, NEW ok, Unsealing(x, s, ok)
  PROVE  sealed' \in [Pod -> BOOLEAN] /\ progress' \in [Pod -> SUBSET Share]
<1>1. progress[x] \cup {s} \in SUBSET Share
  BY DEF TypeOK
<1>2. /\ sealed' = sealed \/ \E b \in BOOLEAN : sealed' = [sealed EXCEPT ![x] = b]
      /\ progress' = progress \/ \E m \in SUBSET Share : progress' = [progress EXCEPT ![x] = m]
  BY <1>1 DEF Unsealing
<1> QED BY <1>2 DEF TypeOK

\* Unseal goes on with the next share as long as there is one.
LEMMA AfterAnswerOK ==
  ASSUME NEW r \in Pass, PassOK(r), r.pc = "submit", NEW open \in BOOLEAN
  PROVE  PassOK(AfterAnswer(r, open))
<1>1. OnePod => ~r.failed
  BY DEF PassOK
<1>2. CASE open
  <2>1. PICK m : m = [r EXCEPT !.cond.ready = "true"]
    OBVIOUS
  <2>2. m \in Pass /\ m.failed = r.failed
    BY <2>1 DEF Pass, Conditions
  <2> QED BY <1>1, <1>2, <2>1, <2>2, NextPodOK DEF AfterAnswer
<1>3. CASE ~open /\ Len(r.left) = 1
  BY <1>3, UnsealFailedOK DEF AfterAnswer
<1>4. CASE ~open /\ Len(r.left) # 1
  <2>1. PICK m : m = [r EXCEPT !.left = Tail(r.left), !.sent = r.sent + 1]
    OBVIOUS
  <2>2. r.left \in Seq(Share) /\ r.left # <<>> /\ r.sent + 1 \in Nat
    BY DEF Pass, PassOK
  <2>3. Tail(r.left) \in Seq(Share) /\ Len(Tail(r.left)) = Len(r.left) - 1
    BY <2>2, HeadTailProperties
  <2>4. Tail(r.left) # <<>>
    <3>1. Len(r.left) \in Nat /\ Len(r.left) # 0
      BY <2>2, EmptySeq, LenProperties
    <3>2. Len(Tail(r.left)) # 0
      BY <1>4, <2>3, <3>1
    <3> QED BY <3>2, EmptySeq
  <2>5. m \in Pass /\ m.failed = r.failed /\ m.left = Tail(r.left)
    BY <2>1, <2>2, <2>3 DEF Pass
  <2>6. PassOK(m)
    BY <1>1, <2>4, <2>5 DEF PassOK
  <2> QED BY <1>4, <2>1, <2>6 DEF AfterAnswer
<1> QED BY <1>2, <1>3, <1>4

LEMMA AfterErrorOK ==
  ASSUME NEW r \in Pass, PassOK(r), r.pc = "submit"
  PROVE  PassOK(AfterError(r))
<1>1. PICK m : m = [r EXCEPT !.pc = "reset"]
  OBVIOUS
<1>2. m \in Pass /\ m.pc = "reset" /\ m.failed = r.failed
  BY <1>1 DEF Pass, PC
<1>3. PassOK(m)
  BY <1>2 DEF PassOK
<1> QED BY <1>1, <1>3, UnsealFailedOK DEF AfterError

LEMMA SubmitInv ==
  ASSUME StoredKeyInv, NEW o \in Operator, Submit(o) PROVE StoredKeyInv'
<1>1. pass[o].pc = "submit" /\ UNCHANGED <<keys, initialized, status, outages, edits>>
  BY DEF Submit
<1>2. pass[o].pod \in Pod /\ Head(pass[o].left) \in Share
  BY <1>1, PassFacts, HeadTailProperties DEF PassOK
<1>3. sealed' \in [Pod -> BOOLEAN] /\ progress' \in [Pod -> SUBSET Share]
  <2>1. CASE UNCHANGED <<sealed, progress>>
    BY <2>1 DEF StoredKeyInv, TypeOK
  <2>2. ASSUME NEW ok, Unsealing(pass[o].pod, Head(pass[o].left), ok)
        PROVE  sealed' \in [Pod -> BOOLEAN] /\ progress' \in [Pod -> SUBSET Share]
    BY <1>2, <2>2, UnsealingType DEF StoredKeyInv
  <2> QED BY <2>1, <2>2 DEF Submit
<1>4. RestOK
  <2>1. UNCHANGED faults \/ Fault
    BY DEF Submit
  <2>2. faults' \in Nat
    BY <2>1 DEF Fault, StoredKeyInv, TypeOK
  <2> QED BY <1>1, <1>3, <2>2 DEF RestOK, StoredKeyInv, TypeOK
<1>5. PICK open \in BOOLEAN :
        Continue(o, AfterAnswer(pass[o], open)) \/ Continue(o, AfterError(pass[o]))
  <2>1. \/ Continue(o, AfterAnswer(pass[o], ~sealed'[pass[o].pod]))
        \/ Continue(o, AfterError(pass[o]))
    BY DEF Submit
  <2>2. (~sealed'[pass[o].pod]) \in BOOLEAN
    OBVIOUS
  <2> QED BY <2>1, <2>2
<1> QED BY <1>1, <1>4, <1>5, PassFacts, AfterAnswerOK, AfterErrorOK, CallInv

LEMMA ResetInv ==
  ASSUME StoredKeyInv, NEW o \in Operator, Reset(o) PROVE StoredKeyInv'
<1>1. pass[o].pc = "reset" /\ UNCHANGED <<keys, initialized, status, outages, edits>>
        /\ Continue(o, UnsealFailed(pass[o]))
  BY DEF Reset
<1>2. sealed' \in [Pod -> BOOLEAN] /\ progress' \in [Pod -> SUBSET Share]
  BY DEF Reset, ResetProgress, StoredKeyInv, TypeOK
<1>3. RestOK
  BY <1>1, <1>2 DEF RestOK, StoredKeyInv, TypeOK, Reset, Fault
<1> QED BY <1>1, <1>3, PassFacts, UnsealFailedOK, CallInv

LEMMA EndPodsInv ==
  ASSUME StoredKeyInv, NEW o \in Operator, EndPods(o) PROVE StoredKeyInv'
<1>1. PICK r : r = [pass[o] EXCEPT !.pc = "status"]
  OBVIOUS
<1>2. /\ r \in Pass /\ r.pc = "status" /\ r.failed = pass[o].failed
      /\ r.todo = pass[o].todo /\ r.cond = pass[o].cond
  BY <1>1, PassFacts DEF Pass, PC
<1>3. PassOK(r)
  BY <1>2, PassFacts DEF PassOK
<1>4. RestOK
  BY RestUnchanged DEF EndPods, boundVars, StoredKeyInv
<1> QED BY <1>1, <1>3, <1>4, CallInv DEF EndPods

LEMMA UpdateStatusInv ==
  ASSUME Pod # {}, StoredKeyInv, NEW o \in Operator, UpdateStatus(o) PROVE StoredKeyInv'
<1>1. status' \in Conditions
  BY PassFacts DEF UpdateStatus, StoredKeyInv, TypeOK
<1>2. RestOK
  BY <1>1 DEF UpdateStatus, RestOK, StoredKeyInv, TypeOK, vaultVars, Fault
<1>3. CASE Continue(o, NoPass)
  BY <1>2, <1>3, NoPassOK, CallInv
<1>4. CASE pass' = [x \in Operator |-> IF x = o THEN NoPass
                      ELSE [pass[x] EXCEPT !.stale = pass[x].pc # "idle"]]
  <2>1. ASSUME NEW x \in Operator PROVE PassOK(pass'[x])
    BY <1>4, NoPassOK, OutdatedOK
  <2>2. pass' \in [Operator -> Pass]
    BY <1>4, <2>1 DEF PassOK
  <2> QED BY <1>2, <2>1, <2>2 DEF StoredKeyInv, TypeOK, RestOK, PassOK
<1> QED BY <1>3, <1>4 DEF UpdateStatus

LEMMA CrashInv ==
  ASSUME Pod # {}, StoredKeyInv, NEW o \in Operator, Crash(o) PROVE StoredKeyInv'
<1>1. RestOK /\ Continue(o, NoPass)
  BY RestUnchanged DEF Crash, StoredKeyInv
<1> QED BY <1>1, NoPassOK, CallInv

LEMMA OthersInv ==
  ASSUME StoredKeyInv,
         \/ Bootstrap \/ EditResource \/ UNCHANGED vars
         \/ \E x \in Pod : Seal(x)
         \/ \E f \in KeyFile : EditKeys(f)
  PROVE  StoredKeyInv'
<1>1. keys' \in Seq(Share) /\ initialized' \in BOOLEAN /\ status' \in Conditions
  BY StoredKeyAssumption
  DEF Bootstrap, EditResource, Seal, EditKeys, vars, vaultVars, StoredKeyInv, TypeOK
<1>2. sealed' \in [Pod -> BOOLEAN] /\ progress' \in [Pod -> SUBSET Share]
  BY DEF Bootstrap, EditResource, Seal, EditKeys, vars, vaultVars, StoredKeyInv, TypeOK
<1>3. {faults', outages', edits'} \subseteq Nat
  BY DEF Bootstrap, EditResource, Seal, EditKeys, vars, boundVars, StoredKeyInv, TypeOK
<1>4. pass' \in {pass, [x \in Operator |-> [pass[x] EXCEPT !.stale = pass[x].pc # "idle"]]}
  BY DEF Bootstrap, EditResource, Seal, EditKeys, vars
<1> QED BY <1>1, <1>2, <1>3, <1>4, ElsewhereInv DEF RestOK

-----------------------------------------------------------------------------
(* The theorems.                                                            *)

LEMMA InitInv == ASSUME Pod # {} PROVE Init => StoredKeyInv
<1> SUFFICES ASSUME Init PROVE StoredKeyInv
  OBVIOUS
<1>1. TypeOK
  BY NoPassOK, StoredKeyAssumption DEF Init, TypeOK, NoConditions, Conditions
<1> QED BY <1>1, NoPassOK DEF Init, StoredKeyInv

\* One step per action.
LEMMA NextInv == ASSUME Pod # {}, StoredKeyInv, [Next]_vars PROVE StoredKeyInv'
<1>1. ASSUME NEW o \in Operator, ReconcileStep(o) PROVE StoredKeyInv'
  BY <1>1, BeginInv, ValidateInv, CheckPodInv, ReadSharesInv, SubmitInv, ResetInv,
     EndPodsInv, UpdateStatusInv
  DEF ReconcileStep
<1> QED BY <1>1, CrashInv, OthersInv DEF Next

\* Types, and that Unseal never asks for a share it does not have.  (A pod at hand
\* is one of the pods, so there has to be one.)
THEOREM StoredKeyInvariant == ASSUME Pod # {} PROVE Spec => []StoredKeyInv
BY InitInv, NextInv, PTL DEF Spec

\* Every state is well typed.
THEOREM TypeCorrect == ASSUME Pod # {} PROVE Spec => []TypeOK
<1>1. StoredKeyInv => TypeOK
  BY DEF StoredKeyInv
<1> QED BY <1>1, StoredKeyInvariant, PTL

\* With a single pod, a call that failed to open it never stores Ready, whatever
\* other processes, restarts, failed calls and lost writes do in between.
THEOREM OnePodFailureReported == ASSUME NEW x, Pod = {x} PROVE Spec => FailureReported
<1>1. OnePod /\ Pod # {}
  BY DEF OnePod
<1>2. ASSUME StoredKeyInv, [Next]_vars
      PROVE  [\A o \in Operator :
                pass[o].pc = "status" /\ pass[o].failed /\ pass'[o].pc = "idle"
                  /\ status' # status
                => status'.ready # "true"]_vars
  <2> SUFFICES ASSUME NEW o \in Operator, pass[o].pc = "status", pass[o].failed,
                      pass'[o].pc = "idle", status' # status
               PROVE  status'.ready # "true"
    OBVIOUS
  <2>1. PICK p \in Operator : UpdateStatus(p)
    BY <1>2 DEF Next, ReconcileStep, Begin, Validate, CheckPod, ReadShares, Submit, Reset,
         EndPods, Crash, Bootstrap, Seal, EditKeys, EditResource, vars
  <2>2. /\ status' = pass[p].cond
        /\ pass' = [y \in Operator |-> IF y = p THEN NoPass
                      ELSE [pass[y] EXCEPT !.stale = pass[y].pc # "idle"]]
    BY <2>1 DEF UpdateStatus
  <2>3. o = p
    <3>1. CASE o # p
      <4>1. PICK r : r = [pass[o] EXCEPT !.stale = pass[o].pc # "idle"]
        OBVIOUS
      <4>2. pass'[o] = r /\ r.pc = "status"
        BY <1>2, <2>2, <3>1, <4>1, OutdatedOK
      <4> QED BY <4>2
    <3> QED BY <3>1
  <2>4. pass[o].cond.ready = "unsealFailed"
    BY <1>1, <1>2, PassFacts DEF PassOK
  <2> QED BY <2>2, <2>3, <2>4
<1> QED BY <1>1, <1>2, StoredKeyInvariant, PTL DEF FailureReported, Spec
=============================================================================
