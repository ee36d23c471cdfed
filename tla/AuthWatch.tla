------------------------------- MODULE AuthWatch -------------------------------
(***************************************************************************)
(* How a rotated credential reaches a source.  A GitRepository or an       *)
(* ObjectSource names an auth Secret, or none and leaves it to the         *)
(* operator's default (internal/secretref).  The controllers watch Secrets *)
(* and find the sources to reconcile through a field index of the          *)
(* reference each source resolves to.  CRs and Secrets come from two       *)
(* informers that know nothing of each other, each of which stores an      *)
(* object (and updates its indexes) before it calls the event handlers,    *)
(* and the handlers feed a work queue that one worker empties.             *)
(*                                                                         *)
(* The model is the same for both kinds: what differs is the name of the   *)
(* index and of the flag with the default.                                 *)
(***************************************************************************)
EXTENDS Naturals

CONSTANTS
  CRs,        \* GitRepositories, or ObjectSources
  Namespaces,
  NsOf,       \* NsOf[c]: the namespace of c
  Secrets,    \* namespace/name keys of Secrets
  SecretNS,   \* SecretNS[s]: the namespace of s
  Allowed,    \* --secret-ref-namespaces
  Global,     \* --global-git-auth-secret, or None
  Values,     \* what an auth Secret may hold
  Anonymous,  \* no spec.auth (or type none): fetch without credentials
  Unnamed,    \* spec.auth without a secretRef
  NoCR,       \* the CR does not exist
  Absent,     \* the Secret does not exist
  None,
  MaxEdits    \* bound on what users and restarts do

ASSUME WatchAssumption ==
  /\ NsOf \in [CRs -> Namespaces]
  /\ SecretNS \in [Secrets -> Namespaces]
  /\ Allowed \subseteq Namespaces
  /\ Global \in Secrets \cup {None}
  /\ None \notin Secrets \cup CRs
  /\ {Anonymous, Unnamed, NoCR} \cap Secrets = {}
  /\ Anonymous # Unnamed /\ Anonymous # NoCR /\ Unnamed # NoCR
  /\ Absent \notin Values
  /\ Values \cap {"never", "gone", "anonymous", "refused", "missing"} = {}
  /\ Absent \notin {"never", "gone", "anonymous", "refused", "missing"}
  /\ MaxEdits \in Nat

VARIABLES
  spec,       \* spec[c]: the reference of c at the API server
  secret,     \* secret[s]: the Secret at the API server
  crCache,    \* spec, as the CR informer and its index have it
  secCache,   \* secret, as the Secret informer has it
  crEvents,   \* CRs stored by the informer, handler not yet called
  secEvents,  \* Secrets stored by the informer, handler not yet called
  queue,      \* the work queue
  wk,         \* the worker: the CR it reconciles and what it has read
  used,       \* used[c]: what the last reconcile of c fetched with
  edits

vars == <<spec, secret, crCache, secCache, crEvents, secEvents, queue, wk, used, edits>>

Refs == Secrets \cup {Anonymous, Unnamed, NoCR}
Outcomes == Values \cup {"never", "gone", "anonymous", "refused", "missing"}

Idle == [pc |-> "idle", cr |-> None, key |-> None, out |-> "never"]
PCs == {"idle", "getCR", "getSecret", "fetch"}

-----------------------------------------------------------------------------
(* internal/secretref.                                                     *)

\* The reference stays in the namespace of c, or goes where the operator lets
\* it.  The default is the administrator's and exempt.
Permitted(c, s) == SecretNS[s] = NsOf[c] \/ SecretNS[s] \in Allowed

\* Resolver.Resolve: the Secret to read, or None for either error.
Resolve(c, ref) ==
  CASE ref = Unnamed -> Global
    [] ref \in Secrets /\ Permitted(c, ref) -> ref
    [] OTHER -> None

\* Resolver.IndexValues, and the index function's early return for a CR
\* without auth: the resolved key; what was asked for when policy rejects it;
\* nothing when there is nothing to resolve.
IndexValuesFault(c, ref) == IF ref \in Secrets THEN {ref} ELSE {}
IndexValues(c, ref) ==
  IF Resolve(c, ref) # None THEN {Resolve(c, ref)}
  ELSE IF ref \in Secrets THEN {ref} ELSE {}

\* What a Secret as read gives the fetch: Get of an absent one is an error.
CredentialFault(v) == v
Credential(v) == IF v = Absent THEN "missing" ELSE v

\* What a reconcile of c fetches with, given the reference and the Secrets.
Outcome(c, ref, secrets) ==
  CASE ref = NoCR -> "gone"
    [] ref = Anonymous -> "anonymous"
    [] OTHER -> IF Resolve(c, ref) = None THEN "refused"
                ELSE Credential(secrets[Resolve(c, ref)])

-----------------------------------------------------------------------------
(* Users, informers, handlers.                                             *)

Edit == edits < MaxEdits /\ edits' = edits + 1

EditSpec(c, ref) ==
  /\ Edit
  /\ ref # spec[c]
  /\ spec' = [spec EXCEPT ![c] = ref]
  /\ UNCHANGED <<secret, crCache, secCache, crEvents, secEvents, queue, wk, used>>

\* A Secret is created, rotated or deleted.
EditSecret(s, v) ==
  /\ Edit
  /\ v # secret[s]
  /\ secret' = [secret EXCEPT ![s] = v]
  /\ UNCHANGED <<spec, crCache, secCache, crEvents, secEvents, queue, wk, used>>

\* Also an event that leaves the reference alone: the status updates of the
\* reconciler come back this way.
StoreCR(c) ==
  /\ crCache' = [crCache EXCEPT ![c] = spec[c]]
  /\ crEvents' = crEvents \cup {c}
  /\ UNCHANGED <<spec, secret, secCache, secEvents, queue, wk, used, edits>>

StoreSecret(s) ==
  /\ secCache[s] # secret[s]
  /\ secCache' = [secCache EXCEPT ![s] = secret[s]]
  /\ secEvents' = secEvents \cup {s}
  /\ UNCHANGED <<spec, secret, crCache, crEvents, queue, wk, used, edits>>

\* workqueue.Add: a key that is being processed is handed out again after it.
Added(cs) == queue \cup cs

\* For(&GitRepository{}).
HandleCR(c) ==
  /\ c \in crEvents
  /\ crEvents' = crEvents \ {c}
  /\ queue' = Added({c})
  /\ UNCHANGED <<spec, secret, crCache, secCache, secEvents, wk, used, edits>>

\* mapSecretToGitRepos: a List of the CR informer's index.
HandleSecret(s) ==
  /\ s \in secEvents
  /\ secEvents' = secEvents \ {s}
  /\ queue' = Added({c \in CRs : s \in IndexValues(c, crCache[c])})
  /\ UNCHANGED <<spec, secret, crCache, secCache, crEvents, wk, used, edits>>

\* RequeueAfter(interval or retryAfter) of an earlier reconcile.
Timer(c) ==
  /\ used[c] # "never"
  /\ queue' = Added({c})
  /\ UNCHANGED <<spec, secret, crCache, secCache, crEvents, secEvents, wk, used, edits>>

-----------------------------------------------------------------------------
(* The worker.                                                             *)

Begin(c) ==
  /\ wk.pc = "idle"
  /\ c \in queue
  /\ queue' = queue \ {c}
  /\ wk' = [Idle EXCEPT !.pc = "getCR", !.cr = c]
  /\ UNCHANGED <<spec, secret, crCache, secCache, crEvents, secEvents, used, edits>>

\* The cached Get of the CR, and Resolve: nothing more to read when there is no
\* CR, no auth, or an error.
GetCR ==
  /\ wk.pc = "getCR"
  /\ LET c == wk.cr
         ref == crCache[c]
     IN wk' = IF Resolve(c, ref) # None
              THEN [wk EXCEPT !.pc = "getSecret", !.key = Resolve(c, ref)]
              ELSE [wk EXCEPT !.pc = "fetch", !.out = Outcome(c, ref, secCache)]
  /\ UNCHANGED <<spec, secret, crCache, secCache, crEvents, secEvents, queue, used, edits>>

\* The cached Get of the Secret.
GetSecret ==
  /\ wk.pc = "getSecret"
  /\ wk' = [wk EXCEPT !.pc = "fetch", !.out = Credential(secCache[wk.key])]
  /\ UNCHANGED <<spec, secret, crCache, secCache, crEvents, secEvents, queue, used, edits>>

\* EnsureCached with it (or the failure status), which may take any time.
Fetch ==
  /\ wk.pc = "fetch"
  /\ used' = [used EXCEPT ![wk.cr] = wk.out]
  /\ wk' = Idle
  /\ UNCHANGED <<spec, secret, crCache, secCache, crEvents, secEvents, queue, edits>>

-----------------------------------------------------------------------------

\* The operator starts: the informers list everything and report all of it as
\* added before the worker runs.
Started ==
  /\ crCache' = spec /\ secCache' = secret
  /\ crEvents' = CRs /\ secEvents' = Secrets
  /\ queue' = {} /\ wk' = Idle
  /\ used' = [c \in CRs |-> "never"]

Restart ==
  /\ Edit
  /\ Started
  /\ UNCHANGED <<spec, secret>>

Init ==
  /\ spec \in [CRs -> Refs]
  /\ secret \in [Secrets -> Values \cup {Absent}]
  /\ crCache = spec /\ secCache = secret
  /\ crEvents = CRs /\ secEvents = Secrets
  /\ queue = {} /\ wk = Idle
  /\ used = [c \in CRs |-> "never"]
  /\ edits = 0

Worker == (\E c \in CRs : Begin(c)) \/ GetCR \/ GetSecret \/ Fetch

Next ==
  \/ \E c \in CRs, ref \in Refs : EditSpec(c, ref)
  \/ \E s \in Secrets, v \in Values \cup {Absent} : EditSecret(s, v)
  \/ \E c \in CRs : StoreCR(c) \/ HandleCR(c) \/ Timer(c)
  \/ \E s \in Secrets : StoreSecret(s) \/ HandleSecret(s)
  \/ Worker
  \/ Restart

Spec == Init /\ [][Next]_vars

\* Watches deliver, handlers run, the queue hands out every key.  Nothing is
\* assumed of timers.
Fairness ==
  /\ \A c \in CRs : /\ WF_vars(crCache[c] # spec[c] /\ StoreCR(c))
                    /\ WF_vars(HandleCR(c))
                    /\ SF_vars(Begin(c))
  /\ \A s \in Secrets : WF_vars(StoreSecret(s)) /\ WF_vars(HandleSecret(s))
  /\ WF_vars(GetCR \/ GetSecret \/ Fetch)

FairSpec == Spec /\ Fairness

-----------------------------------------------------------------------------
(* Properties.                                                             *)

\* Type correctness.
TypeOK ==
  /\ spec \in [CRs -> Refs]
  /\ secret \in [Secrets -> Values \cup {Absent}]
  /\ crCache \in [CRs -> Refs]
  /\ secCache \in [Secrets -> Values \cup {Absent}]
  /\ crEvents \in SUBSET CRs
  /\ secEvents \in SUBSET Secrets
  /\ queue \in SUBSET CRs
  /\ wk \in [pc : PCs, cr : CRs \cup {None}, key : Secrets \cup {None}, out : Outcomes]
  /\ used \in [CRs -> Outcomes]
  /\ edits \in Nat

\* Nothing that concerns c is on its way.
Settled(c) ==
  /\ c \notin queue \cup crEvents /\ wk.cr # c
  /\ crCache[c] = spec[c]
  /\ \A s \in IndexValues(c, spec[c]) : s \notin secEvents /\ secCache[s] = secret[s]

\* secretref.go:184-188, "a spurious wakeup is cheap; a missed one is not": when
\* nothing is on its way any more, the last fetch of every source was made with
\* what its Secret holds now.  No interleaving of an edit of the reference, a
\* rotation of the old or the new Secret, the two informers and a reconcile in
\* progress loses the wakeup, and no timer is needed.
NoMissedWakeup == \A c \in CRs : Settled(c) => used[c] = Outcome(c, spec[c], secret)

\* A rotated credential is eventually the one in use, without waiting for
\* spec.interval.
RotationArrives == \A c \in CRs : <>[](used[c] = Outcome(c, spec[c], secret))
===============================================================================
