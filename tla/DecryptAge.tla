------------------------------ MODULE DecryptAge ------------------------------
(***************************************************************************)
(* internal/decrypt/decrypt.go.  The SOPS library takes the age identity   *)
(* from the environment variable SOPS_AGE_KEY, of which the process has    *)
(* one; the workers of the three consumer controllers decrypt at the same  *)
(* time with different keys.  DecryptAge sets the variable, decrypts and   *)
(* restores what was there, all under the mutex ageKeyMu.                  *)
(***************************************************************************)
CONSTANTS
  Workers,     \* the consumer controllers' workers
  Contents,    \* encrypted documents
  Keys,        \* age identities
  Opens,       \* Opens[d]: the identities that can open d
  NoContent,   \* a document of no bytes
  NoKey,       \* a key of no bytes
  Unsettable,  \* the keys that os.Setenv refuses (a NUL byte)
  Ambient,     \* SOPS_AGE_KEY when the operator started, Unset if it was not
  Unset,       \* the variable is not set
  NoWorker     \* the mutex is free

ASSUME DecryptAssumption ==
  /\ Opens \in [Contents -> SUBSET Keys]
  /\ NoContent \notin Contents
  /\ NoKey \notin Keys
  /\ Unsettable \subseteq Keys
  /\ Ambient \in Keys \cup {Unset}
  /\ Unset \notin Keys \cup {NoKey}
  /\ NoWorker \notin Workers

VARIABLES
  ageKeyMu,  \* the worker that holds the mutex, or NoWorker
  env,       \* SOPS_AGE_KEY
  th         \* th[w]: the locals of the call of worker w

vars == <<ageKeyMu, env, th>>

PCs == {"idle", "check", "lock", "lookup", "setenv", "sops", "restore", "unlock", "returned"}
Idle == [pc |-> "idle", content |-> NoContent, key |-> NoKey, prev |-> Unset, result |-> "none"]

\* The steps between Lock and Unlock.
Critical == {"lookup", "setenv", "sops", "restore", "unlock"}

\* What the SOPS library makes of a document with the identity in the
\* variable.  (External: getsops/sops.)
Sops(d, k) == IF k \in Opens[d] THEN "plaintext" ELSE "error"

Begin(w, d, k) ==
  /\ th[w].pc = "idle"
  /\ th' = [th EXCEPT ![w] = [Idle EXCEPT !.pc = "check", !.content = d, !.key = k]]
  /\ UNCHANGED <<ageKeyMu, env>>

\* Empty content or an empty key is refused without the lock.
Check(w) ==
  /\ th[w].pc = "check"
  /\ th' = IF th[w].content = NoContent \/ th[w].key = NoKey
           THEN [th EXCEPT ![w].pc = "returned", ![w].result = "error"]
           ELSE [th EXCEPT ![w].pc = "lock"]
  /\ UNCHANGED <<ageKeyMu, env>>

MutexFreeFault(w) == w \in Workers
MutexFree(w) == ageKeyMu = NoWorker

Lock(w) ==
  /\ th[w].pc = "lock"
  /\ MutexFree(w)
  /\ ageKeyMu' = w
  /\ th' = [th EXCEPT ![w].pc = "lookup"]
  /\ UNCHANGED env

\* prev, hadPrev := os.LookupEnv("SOPS_AGE_KEY")
LookupEnv(w) ==
  /\ th[w].pc = "lookup"
  /\ th' = [th EXCEPT ![w].pc = "setenv", ![w].prev = env]
  /\ UNCHANGED <<ageKeyMu, env>>

Setenv(w) ==
  /\ th[w].pc = "setenv"
  /\ th[w].key \notin Unsettable
  /\ env' = th[w].key
  /\ th' = [th EXCEPT ![w].pc = "sops"]
  /\ UNCHANGED ageKeyMu

\* The early return that comes before the restore is deferred.
SetenvFails(w) ==
  /\ th[w].pc = "setenv"
  /\ th[w].key \in Unsettable
  /\ th' = [th EXCEPT ![w].pc = "unlock", ![w].result = "error"]
  /\ UNCHANGED <<ageKeyMu, env>>

\* sopsdecrypt.Data reads the variable.
SopsData(w) ==
  /\ th[w].pc = "sops"
  /\ th' = [th EXCEPT ![w].pc = "restore", ![w].result = Sops(th[w].content, env)]
  /\ UNCHANGED <<ageKeyMu, env>>

\* The deferred calls run last in, first out: the variable, then the mutex.
RestoredFault(w) == IF th[w].prev = Unset THEN NoKey ELSE th[w].prev
Restored(w) == th[w].prev

RestoreEnv(w) ==
  /\ th[w].pc = "restore"
  /\ env' = Restored(w)
  /\ th' = [th EXCEPT ![w].pc = "unlock"]
  /\ UNCHANGED ageKeyMu

AfterUnlockFault(w) == w
AfterUnlock(w) == NoWorker

Unlock(w) ==
  /\ th[w].pc = "unlock"
  /\ ageKeyMu' = AfterUnlock(w)
  /\ th' = [th EXCEPT ![w].pc = "returned"]
  /\ UNCHANGED env

\* The reconciler has taken the result.
Taken(w) ==
  /\ th[w].pc = "returned"
  /\ th' = [th EXCEPT ![w] = Idle]
  /\ UNCHANGED <<ageKeyMu, env>>

Init ==
  /\ ageKeyMu = NoWorker
  /\ env = Ambient
  /\ th = [w \in Workers |-> Idle]

Step(w) ==
  \/ Check(w) \/ Lock(w) \/ LookupEnv(w) \/ Setenv(w) \/ SetenvFails(w)
  \/ SopsData(w) \/ RestoreEnv(w) \/ Unlock(w) \/ Taken(w)

Next == \E w \in Workers :
          \/ \E d \in Contents \cup {NoContent}, k \in Keys \cup {NoKey} : Begin(w, d, k)
          \/ Step(w)

Spec == Init /\ [][Next]_vars

\* Goroutines run; sync.Mutex hands itself to a waiter after at most a
\* millisecond of starvation, so a waiter that can have it again and again has
\* it in the end.
Fairness == \A w \in Workers : WF_vars(Step(w)) /\ SF_vars(Lock(w))

FairSpec == Spec /\ Fairness

-----------------------------------------------------------------------------
(* Properties.                                                             *)

\* Type correctness.
TypeOK ==
  /\ ageKeyMu \in Workers \cup {NoWorker}
  /\ env \in Keys \cup {Unset}
  /\ th \in [Workers -> [pc : PCs, content : Contents \cup {NoContent},
                         key : Keys \cup {NoKey}, prev : Keys \cup {Unset},
                         result : {"none", "plaintext", "error"}]]

\* decrypt.go:7-8, "the prior env value is restored": whenever nobody decrypts,
\* the variable is what the operator was started with, also after any chain of
\* overlapping calls and failures.
EnvRestored == ageKeyMu = NoWorker => env = Ambient

\* A call sees the other calls' keys at no time: the state of the calls, with
\* the mutex, the variable and the locals hidden, is one that DecryptPromise
\* allows.
Visible(t) ==
  CASE t.pc = "idle" -> [state |-> "idle", content |-> NoContent, key |-> NoKey, result |-> "none"]
    [] t.pc = "returned" -> [state |-> "returned", content |-> t.content, key |-> t.key,
                             result |-> t.result]
    [] OTHER -> [state |-> "running", content |-> t.content, key |-> t.key, result |-> "none"]

Calls == [w \in Workers |-> Visible(th[w])]

Promise == INSTANCE DecryptPromise WITH calls <- Calls

\* DecryptAge keeps the promise.
KeepsPromise == Promise!Spec

\* No worker waits for ever for the mutex.
EveryCallReturns == \A w \in Workers : th[w].pc = "check" ~> th[w].pc = "returned"
===============================================================================
