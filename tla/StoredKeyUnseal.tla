--------------------------- MODULE StoredKeyUnseal ---------------------------
(***************************************************************************)
(* Reconcile in stored-key mode (pkg/reconciler/vault_reconciler.go and     *)
(* stored_key.go, pkg/storedkey): every pod of a Shamir-sealed Vault that   *)
(* is found sealed gets the shares of the key Secret, one call each, until  *)
(* it opens.  Vault keeps the accepted shares of a pod between calls, so    *)
(* restarts, edits of the Secret and a second process meet in there.  The   *)
(* outcome is reported in conditions of the resource, written once per call *)
(* of Reconcile.                                                            *)
(***************************************************************************)
EXTENDS Integers, FiniteSets, Sequences

CONSTANTS
  Operator,    \* operator processes
  Pod,         \* pods the selector matches
  Share,       \* unseal key shares
  GoodShare,   \* the shares of this Vault's key
  Malformed,   \* shares Vault refuses on sight
  Threshold,   \* shares it takes to open Vault
  KeyFile,     \* bound: what the key Secret may hold, as ParseKeys returns it
  MaxFaults,   \* bound: failed calls and crashes
  MaxOutages,  \* bound: pods restarted or sealed
  MaxEdits     \* bound: edits of the key Secret and of the resource

ASSUME StoredKeyAssumption ==
  /\ GoodShare \subseteq Share
  /\ Malformed \subseteq Share \ GoodShare
  /\ Threshold \in Nat \ {0}
  /\ KeyFile \subseteq Seq(Share)
  /\ {MaxFaults, MaxOutages, MaxEdits} \subseteq Nat

VARIABLES
  keys,         \* the shares of the key Secret; none if it is absent or empty
  initialized,  \* bootstrap has initialized Vault
  sealed,       \* seal state of each pod
  progress,     \* shares each pod has accepted towards its next opening
  status,       \* the conditions stored in the resource's status
  pass,         \* the running Reconcile call of each process
  faults, outages, edits

vaultVars  == <<initialized, sealed, progress>>
boundVars  == <<faults, outages, edits>>
vars == <<keys, initialized, sealed, progress, status, pass, faults, outages, edits>>

-----------------------------------------------------------------------------
(* The conditions, and one Reconcile call.                                  *)

Conditions ==
  [initialized : {"unknown", "false", "true"},              \* Initialized
   ready       : {"unknown", "sealed", "unsealFailed", "true"},  \* Ready, or why not
   keySecret   : {"unknown", "false", "true"}]              \* KeySecretPresent

NoConditions == [initialized |-> "unknown", ready |-> "unknown", keySecret |-> "unknown"]

PC == {"idle", "validate", "pods", "shares", "submit", "reset", "status"}

\* pod is meaningful from "shares" to "reset", left and sent from "submit" on.
Pass ==
  [pc    : PC,
   cond  : Conditions,     \* vtu.Status.Conditions of the object in hand
   stale : BOOLEAN,        \* the resource has been written since it was read
   todo  : SUBSET Pod,     \* pods not processed yet, the one at hand included
   pod   : Pod,
   left  : Seq(Share),     \* shares Unseal has not submitted yet
   sent  : Nat,            \* result.SharesSubmitted
   failed : BOOLEAN]       \* ghost: this call failed to open a pod

NoPass ==
  [pc |-> "idle", cond |-> NoConditions, stale |-> FALSE, todo |-> {},
   pod |-> CHOOSE x \in Pod : TRUE, left |-> <<>>, sent |-> 0, failed |-> FALSE]

Continue(o, r) == pass' = [pass EXCEPT ![o] = r]

\* Mutant: ProcessPod's return ends the loop over the pods.
NextPodNone(r) == [r EXCEPT !.pc = "pods", !.todo = {}, !.left = <<>>, !.sent = 0]

\* ProcessPod returns, and the loop goes on to the next pod.
NextPod(r) == [r EXCEPT !.pc = "pods", !.todo = r.todo \ {r.pod}, !.left = <<>>, !.sent = 0]

Fault == faults > 0 /\ faults' = faults - 1

-----------------------------------------------------------------------------
(* Vault's side of sys/unseal.                                              *)

\* Submitting s to pod: ok tells whether Vault answers with its seal status or
\* with an error.  The share that completes the threshold opens the pod, or
\* fails because the shares do not combine; either way the attempt is over.
Unsealing(pod, s, ok) ==
  LET reached == progress[pod] \cup {s}
      whole   == Cardinality(reached) >= Threshold
      opens   == whole /\ reached \subseteq GoodShare
  IN
  IF ~sealed[pod] \/ s \in progress[pod] \/ s \in Malformed
  THEN /\ ok = (~sealed[pod] \/ s \notin Malformed)
       /\ UNCHANGED <<sealed, progress>>
  ELSE /\ ok = (whole => opens)
       /\ sealed' = [sealed EXCEPT ![pod] = ~opens]
       /\ progress' = [progress EXCEPT ![pod] = IF whole THEN {} ELSE reached]

\* The reset form of sys/unseal.
ResetProgress(pod) ==
  /\ progress' = [progress EXCEPT ![pod] = {}]
  /\ UNCHANGED sealed

-----------------------------------------------------------------------------
(* Reconcile, up to the pods.                                               *)

\* The controller reads the resource.
Begin(o) ==
  /\ pass[o].pc = "idle"
  /\ Continue(o, [NoPass EXCEPT !.pc = "validate", !.cond = status])
  /\ UNCHANGED <<keys, vaultVars, status, boundVars>>

\* Mutant: SetCondition gets the reason where it expects the status.
KeySecretReadReason(c, found) ==
  [c EXCEPT !.keySecret = IF found THEN "SharesAvailable" ELSE "NoShares"]

\* ValidateStoredKeySecret answers, and records the answer in c.
KeySecretRead(c, found) == [c EXCEPT !.keySecret = IF found THEN "true" ELSE "false"]

\* A missing or empty key Secret is a config error: the call ends before it
\* looks at any pod.  So it does if the Secret, or the pods, cannot be listed.
Validate(o) ==
  LET r == pass[o] IN
  /\ r.pc = "validate"
  /\ \/ /\ Continue(o, [r EXCEPT !.cond = KeySecretRead(r.cond, keys # <<>>),
                                 !.pc = IF keys = <<>> THEN "status" ELSE "pods",
                                 !.todo = IF keys = <<>> THEN {} ELSE Pod])
        /\ UNCHANGED faults
     \/ /\ \E c \in {r.cond, KeySecretRead(r.cond, FALSE), KeySecretRead(r.cond, TRUE)} :
             Continue(o, [r EXCEPT !.cond = c, !.pc = "status"])
        /\ Fault
  /\ UNCHANGED <<keys, vaultVars, status, outages, edits>>

-----------------------------------------------------------------------------
(* ProcessPod.                                                              *)

\* Mutant: Ready is only ever taken away by what the health check says.
HealthSealed(c, open) ==
  [c EXCEPT !.initialized = "true", !.ready = IF open THEN c.ready ELSE "sealed"]

\* updateConditions, of an initialized Vault.
Health(c, open) ==
  [c EXCEPT !.initialized = "true", !.ready = IF open THEN "true" ELSE "sealed"]

\* The pod's health is checked and reported.  An uninitialized Vault is left
\* alone, a sealed pod is going to be unsealed; a pod that does not answer is
\* passed over.
CheckPod(o) ==
  LET r == pass[o] IN
  /\ r.pc = "pods"
  /\ \E x \in r.todo :
       LET here == [r EXCEPT !.pod = x] IN
       \/ /\ ~initialized
          /\ Continue(o, NextPod([here EXCEPT !.cond.initialized = "false",
                                              !.cond.ready = "sealed"]))
          /\ UNCHANGED faults
       \/ /\ initialized /\ ~sealed[x]
          /\ Continue(o, NextPod([here EXCEPT !.cond = Health(r.cond, TRUE)]))
          /\ UNCHANGED faults
       \/ /\ initialized /\ sealed[x]
          /\ Continue(o, [here EXCEPT !.pc = "shares", !.cond = Health(r.cond, FALSE)])
          /\ UNCHANGED faults
       \/ /\ Continue(o, NextPod(here))
          /\ Fault
  /\ UNCHANGED <<keys, vaultVars, status, outages, edits>>

\* UnsealWithStoredKey reads the key Secret again.
ReadShares(o) ==
  LET r == pass[o] IN
  /\ r.pc = "shares"
  /\ \/ /\ keys # <<>>
        /\ Continue(o, [r EXCEPT !.cond = KeySecretRead(r.cond, TRUE),
                                 !.pc = "submit", !.left = keys])
        /\ UNCHANGED faults
     \/ /\ Continue(o, NextPod([r EXCEPT !.cond = KeySecretRead(r.cond, FALSE)]))
        /\ IF keys = <<>> THEN UNCHANGED faults ELSE Fault
  /\ UNCHANGED <<keys, vaultVars, status, outages, edits>>

\* Mutant: Ready is set before the error is looked at.
UnsealFailedAsReady(r) == NextPod([r EXCEPT !.cond.ready = "true", !.failed = TRUE])

UnsealFailed(r) == NextPod([r EXCEPT !.cond.ready = "unsealFailed", !.failed = TRUE])

\* Mutant: the last share of the file is never submitted.
AfterAnswerOneShort(r, open) ==
  IF open THEN NextPod([r EXCEPT !.cond.ready = "true"])
  ELSE IF Len(r.left) <= 2 THEN UnsealFailed(r)
  ELSE [r EXCEPT !.left = Tail(r.left), !.sent = r.sent + 1]

\* Unseal after an answer that says whether the pod is still sealed.
AfterAnswer(r, open) ==
  IF open THEN NextPod([r EXCEPT !.cond.ready = "true"])
  ELSE IF Len(r.left) = 1 THEN UnsealFailed(r)
  ELSE [r EXCEPT !.left = Tail(r.left), !.sent = r.sent + 1]

\* Unseal after an error: what it has submitted itself is abandoned.
AfterError(r) ==
  IF r.sent > 0 THEN [r EXCEPT !.pc = "reset"] ELSE UnsealFailed(r)

\* Unseal submits the next share.  A call that fails on the way may have been
\* processed all the same.
Submit(o) ==
  LET r == pass[o] IN
  /\ r.pc = "submit"
  /\ \/ /\ Unsealing(r.pod, Head(r.left), TRUE)
        /\ Continue(o, AfterAnswer(r, ~sealed'[r.pod]))
        /\ UNCHANGED faults
     \/ /\ Unsealing(r.pod, Head(r.left), FALSE)
        /\ Continue(o, AfterError(r))
        /\ UNCHANGED faults
     \/ /\ \/ \E ok \in BOOLEAN : Unsealing(r.pod, Head(r.left), ok)
           \/ UNCHANGED <<sealed, progress>>
        /\ Continue(o, AfterError(r))
        /\ Fault
  /\ UNCHANGED <<keys, initialized, status, outages, edits>>

\* The half-finished attempt is abandoned, best effort.
Reset(o) ==
  LET r == pass[o] IN
  /\ r.pc = "reset"
  /\ \/ ResetProgress(r.pod) /\ UNCHANGED faults
     \/ UNCHANGED <<sealed, progress>> /\ Fault
  /\ Continue(o, UnsealFailed(r))
  /\ UNCHANGED <<keys, initialized, status, outages, edits>>

\* Every pod was processed.
EndPods(o) ==
  /\ pass[o].pc = "pods" /\ pass[o].todo = {}
  /\ Continue(o, [pass[o] EXCEPT !.pc = "status"])
  /\ UNCHANGED <<keys, vaultVars, status, boundVars>>

\* The deferred updateStatus: it is refused if the resource was written since
\* this call read it, and nobody retries it.
UpdateStatus(o) ==
  LET r == pass[o] IN
  /\ r.pc = "status"
  /\ \/ /\ ~r.stale
        /\ status' = r.cond
        /\ pass' = [x \in Operator |->
                      IF x = o THEN NoPass ELSE [pass[x] EXCEPT !.stale = pass[x].pc # "idle"]]
        /\ UNCHANGED faults
     \/ /\ IF r.stale THEN UNCHANGED faults ELSE Fault
        /\ Continue(o, NoPass)
        /\ UNCHANGED status
  /\ UNCHANGED <<keys, vaultVars, outages, edits>>

-----------------------------------------------------------------------------
(* Everything else.                                                         *)

Crash(o) ==
  /\ pass[o].pc # "idle"
  /\ Fault
  /\ Continue(o, NoPass)
  /\ UNCHANGED <<keys, vaultVars, status, outages, edits>>

\* The bootstrap CLI initializes Vault, which stays sealed.
Bootstrap ==
  /\ ~initialized
  /\ initialized' = TRUE
  /\ UNCHANGED <<keys, sealed, progress, status, pass, boundVars>>

\* A pod is restarted, or sealed by somebody.
Seal(x) ==
  /\ outages > 0 /\ outages' = outages - 1
  /\ sealed' = [sealed EXCEPT ![x] = TRUE]
  /\ progress' = [progress EXCEPT ![x] = {}]
  /\ UNCHANGED <<keys, initialized, status, pass, faults, edits>>

\* The key Secret is created, corrected, emptied or deleted.
EditKeys(f) ==
  /\ edits > 0 /\ edits' = edits - 1
  /\ keys # f
  /\ keys' = f
  /\ UNCHANGED <<vaultVars, status, pass, faults, outages>>

\* Somebody edits the resource.
EditResource ==
  /\ edits > 0 /\ edits' = edits - 1
  /\ pass' = [x \in Operator |-> [pass[x] EXCEPT !.stale = pass[x].pc # "idle"]]
  /\ UNCHANGED <<keys, vaultVars, status, faults, outages>>

-----------------------------------------------------------------------------
Init ==
  /\ keys \in KeyFile
  /\ initialized = FALSE
  /\ sealed = [x \in Pod |-> TRUE]
  /\ progress = [x \in Pod |-> {}]
  /\ status = NoConditions
  /\ pass = [o \in Operator |-> NoPass]
  /\ faults = MaxFaults /\ outages = MaxOutages /\ edits = MaxEdits

ReconcileStep(o) ==
  \/ Begin(o) \/ Validate(o) \/ CheckPod(o) \/ ReadShares(o) \/ Submit(o) \/ Reset(o)
  \/ EndPods(o) \/ UpdateStatus(o)

Next ==
  \/ \E o \in Operator : ReconcileStep(o) \/ Crash(o)
  \/ Bootstrap
  \/ \E x \in Pod : Seal(x)
  \/ \E f \in KeyFile : EditKeys(f)
  \/ EditResource

Spec == Init /\ [][Next]_vars

\* Every process reconciles the resource again and again, and every call returns.
FairSpec == Spec /\ \A o \in Operator : WF_vars(ReconcileStep(o))

-----------------------------------------------------------------------------
(* Properties.                                                              *)

TypeOK ==
  /\ keys \in Seq(Share)
  /\ initialized \in BOOLEAN
  /\ sealed \in [Pod -> BOOLEAN]
  /\ progress \in [Pod -> SUBSET Share]
  /\ status \in Conditions
  /\ pass \in [Operator -> Pass]
  /\ {faults, outages, edits} \subseteq Nat

\* The file opens Vault: its first shares, up to the threshold, are all good.
Opens(f) ==
  \E n \in 1..Len(f) :
    /\ {f[i] : i \in 1..n} \subseteq GoodShare
    /\ Cardinality({f[i] : i \in 1..n}) >= Threshold

\* A sealed pod is opened once the key Secret holds the right shares, whatever
\* earlier attempts with other shares, restarts, failed calls or a second process
\* have left in Vault's progress.
PodsOpen ==
  \A x \in Pod : initialized /\ sealed[x] /\ Opens(keys) ~> ~sealed[x] \/ ~Opens(keys)

\* Ready comes to say so when the pods are open (as long as the key Secret is there).
OpenReported ==
  initialized /\ (\A x \in Pod : ~sealed[x]) /\ keys # <<>>
    ~> status.ready = "true" \/ (\E x \in Pod : sealed[x]) \/ keys = <<>>

\* Ready does not stay True over a sealed pod, as long as there is a key Secret:
\* neither lost status writes nor a second process keep it there.
SealedReported ==
  \A x \in Pod :
    initialized /\ sealed[x] /\ keys # <<>>
      ~> status.ready # "true" \/ ~sealed[x] \/ keys = <<>>

\* What is documented of Ready: it is False while Vault is sealed
\* (docs/STORED-KEY-UNSEAL.md:150).
ReadyMeansUnsealed ==
  \A x \in Pod : initialized /\ sealed[x] ~> status.ready # "true" \/ ~sealed[x]

\* A failed attempt shows: a call that failed to open a pod does not report Ready.
FailureReported ==
  [][\A o \in Operator :
       pass[o].pc = "status" /\ pass[o].failed /\ pass'[o].pc = "idle" /\ status' # status
         => status'.ready # "true"]_vars
=============================================================================
