---------------------------- MODULE DecryptAgeProof ----------------------------
(***************************************************************************)
(* DecryptAge keeps DecryptPromise and restores the environment, for every *)
(* number of workers, documents and keys.  The invariant says who is       *)
(* between Lock and Unlock and what the variable holds at each step there. *)
(***************************************************************************)
EXTENDS DecryptAge, TLAPS

\* The holder of the mutex is the one worker between Lock and Unlock.
MutexInv == \A w \in Workers : th[w].pc \in Critical <=> ageKeyMu = w

\* The variable, step by step.
EnvInv ==
  \A w \in Workers :
    /\ th[w].pc \in {"lookup", "setenv", "unlock"} => env = Ambient
    /\ th[w].pc \in {"setenv", "sops", "restore"} => th[w].prev = Ambient
    /\ th[w].pc = "sops" => env = th[w].key

\* The arguments that passed the checks, and the result once there is one.
Outcome(d, k) == Promise!Outcome(d, k)

CallInv ==
  \A w \in Workers :
    /\ th[w].pc = "idle" => th[w] = Idle
    /\ th[w].pc \in {"check", "lock", "lookup", "setenv", "sops"} => th[w].result = "none"
    /\ th[w].pc \in {"lock"} \cup (Critical \ {"unlock"}) =>
         th[w].content # NoContent /\ th[w].key # NoKey
    /\ th[w].pc = "sops" => th[w].key \notin Unsettable
    /\ th[w].pc \in {"restore", "unlock", "returned"} =>
         th[w].result = Outcome(th[w].content, th[w].key)

IInv == TypeOK /\ EnvRestored /\ MutexInv /\ EnvInv /\ CallInv

Threads == [pc : PCs, content : Contents \cup {NoContent}, key : Keys \cup {NoKey},
            prev : Keys \cup {Unset}, result : {"none", "plaintext", "error"}]

LEMMA IdleIsThread == Idle \in Threads
BY DEF Idle, Threads, PCs

LEMMA InitIInv == Init => IInv
<1> SUFFICES ASSUME Init PROVE IInv
  OBVIOUS
<1>1. TypeOK
  BY IdleIsThread, DecryptAssumption DEF Init, TypeOK, Threads
<1>2. EnvRestored /\ MutexInv /\ EnvInv /\ CallInv
  BY DecryptAssumption DEF Init, EnvRestored, MutexInv, EnvInv, CallInv, Idle, Critical
<1> QED BY <1>1, <1>2 DEF IInv

\* The locals of a call, one by one and as a whole.
LEMMA ThreadOfCall ==
  ASSUME TypeOK, NEW w \in Workers
  PROVE  th[w] \in Threads
BY DEF TypeOK, Threads

\* A step that keeps the locals of its own call well typed keeps the type.
LEMMA ThreadUpdate ==
  ASSUME TypeOK, NEW w \in Workers, NEW t \in Threads,
         th' = [th EXCEPT ![w] = t],
         ageKeyMu' \in Workers \cup {NoWorker}, env' \in Keys \cup {Unset}
  PROVE  TypeOK'
BY DEF TypeOK, Threads

LEMMA TypeStep ==
  ASSUME TypeOK, CallInv, Next
  PROVE  TypeOK'
<1>1. ASSUME NEW w \in Workers, NEW d \in Contents \cup {NoContent}, NEW k \in Keys \cup {NoKey},
             Begin(w, d, k)
      PROVE  TypeOK'
  <2> DEFINE t == [Idle EXCEPT !.pc = "check", !.content = d, !.key = k]
  <2>1. t \in Threads
    BY <1>1 DEF Idle, Threads, PCs
  <2>2. th' = [th EXCEPT ![w] = t] /\ UNCHANGED <<ageKeyMu, env>>
    BY <1>1 DEF Begin
  <2> HIDE DEF t
  <2> QED BY <2>1, <2>2, ThreadUpdate DEF TypeOK
<1>2. ASSUME NEW w \in Workers, Step(w)
      PROVE  TypeOK'
  <2>1. CASE Check(w)
    <3> DEFINE t == IF th[w].content = NoContent \/ th[w].key = NoKey
                   THEN [th[w] EXCEPT !.pc = "returned", !.result = "error"]
                   ELSE [th[w] EXCEPT !.pc = "lock"]
    <3>1. t \in Threads
      BY <2>1, ThreadOfCall DEF Check, Threads, PCs
    <3>2. th' = [th EXCEPT ![w] = t]
      BY <2>1 DEF Check
    <3>3. ageKeyMu' \in Workers \cup {NoWorker} /\ env' \in Keys \cup {Unset}
      BY <2>1 DEF Check, TypeOK
    <3> HIDE DEF t
    <3> QED BY <3>1, <3>2, <3>3, ThreadUpdate
  <2>2. CASE Lock(w)
    <3> DEFINE t == [th[w] EXCEPT !.pc = "lookup"]
    <3>1. t \in Threads
      BY <2>2, ThreadOfCall DEF Lock, Threads, PCs
    <3>2. th' = [th EXCEPT ![w] = t]
      BY <2>2 DEF Lock
    <3>3. ageKeyMu' \in Workers \cup {NoWorker} /\ env' \in Keys \cup {Unset}
      BY <2>2 DEF Lock, TypeOK
    <3> HIDE DEF t
    <3> QED BY <3>1, <3>2, <3>3, ThreadUpdate
  <2>3. CASE LookupEnv(w)
    <3> DEFINE t == [th[w] EXCEPT !.pc = "setenv", !.prev = env]
    <3>1. t \in Threads
      BY <2>3, ThreadOfCall DEF LookupEnv, Threads, PCs, TypeOK
    <3>2. th' = [th EXCEPT ![w] = t]
      BY <2>3 DEF LookupEnv
    <3>3. ageKeyMu' \in Workers \cup {NoWorker} /\ env' \in Keys \cup {Unset}
      BY <2>3 DEF LookupEnv, TypeOK
    <3> HIDE DEF t
    <3> QED BY <3>1, <3>2, <3>3, ThreadUpdate
  <2>4. CASE Setenv(w)
    <3> DEFINE t == [th[w] EXCEPT !.pc = "sops"]
    <3>1. t \in Threads
      BY <2>4, ThreadOfCall DEF Setenv, Threads, PCs
    <3>2. th' = [th EXCEPT ![w] = t]
      BY <2>4 DEF Setenv
    <3>3. ageKeyMu' \in Workers \cup {NoWorker} /\ env' \in Keys \cup {Unset}
      BY <2>4, ThreadOfCall DEF Setenv, TypeOK, CallInv, Critical, Threads
    <3> HIDE DEF t
    <3> QED BY <3>1, <3>2, <3>3, ThreadUpdate
  <2>5. CASE SetenvFails(w)
    <3> DEFINE t == [th[w] EXCEPT !.pc = "unlock", !.result = "error"]
    <3>1. t \in Threads
      BY <2>5, ThreadOfCall DEF SetenvFails, Threads, PCs
    <3>2. th' = [th EXCEPT ![w] = t]
      BY <2>5 DEF SetenvFails
    <3>3. ageKeyMu' \in Workers \cup {NoWorker} /\ env' \in Keys \cup {Unset}
      BY <2>5 DEF SetenvFails, TypeOK
    <3> HIDE DEF t
    <3> QED BY <3>1, <3>2, <3>3, ThreadUpdate
  <2>6. CASE SopsData(w)
    <3> DEFINE t == [th[w] EXCEPT !.pc = "restore", !.result = Sops(th[w].content, env)]
    <3>1. t \in Threads
      BY <2>6, ThreadOfCall DEF SopsData, Threads, PCs, Sops
    <3>2. th' = [th EXCEPT ![w] = t]
      BY <2>6 DEF SopsData
    <3>3. ageKeyMu' \in Workers \cup {NoWorker} /\ env' \in Keys \cup {Unset}
      BY <2>6 DEF SopsData, TypeOK
    <3> HIDE DEF t
    <3> QED BY <3>1, <3>2, <3>3, ThreadUpdate
  <2>7. CASE RestoreEnv(w)
    <3> DEFINE t == [th[w] EXCEPT !.pc = "unlock"]
    <3>1. t \in Threads
      BY <2>7, ThreadOfCall DEF RestoreEnv, Threads, PCs
    <3>2. th' = [th EXCEPT ![w] = t]
      BY <2>7 DEF RestoreEnv
    <3>3. ageKeyMu' \in Workers \cup {NoWorker} /\ env' \in Keys \cup {Unset}
      BY <2>7, ThreadOfCall DEF RestoreEnv, Restored, TypeOK, Threads
    <3> HIDE DEF t
    <3> QED BY <3>1, <3>2, <3>3, ThreadUpdate
  <2>8. CASE Unlock(w)
    <3> DEFINE t == [th[w] EXCEPT !.pc = "returned"]
    <3>1. t \in Threads
      BY <2>8, ThreadOfCall DEF Unlock, Threads, PCs
    <3>2. th' = [th EXCEPT ![w] = t]
      BY <2>8 DEF Unlock
    <3>3. ageKeyMu' \in Workers \cup {NoWorker} /\ env' \in Keys \cup {Unset}
      BY <2>8 DEF Unlock, AfterUnlock, TypeOK
    <3> HIDE DEF t
    <3> QED BY <3>1, <3>2, <3>3, ThreadUpdate
  <2>9. CASE Taken(w)
    <3> DEFINE t == Idle
    <3>1. t \in Threads
      BY <2>9, ThreadOfCall, IdleIsThread DEF Taken, Threads, PCs
    <3>2. th' = [th EXCEPT ![w] = t]
      BY <2>9 DEF Taken
    <3>3. ageKeyMu' \in Workers \cup {NoWorker} /\ env' \in Keys \cup {Unset}
      BY <2>9 DEF Taken, TypeOK
    <3> HIDE DEF t
    <3> QED BY <3>1, <3>2, <3>3, ThreadUpdate
  <2> QED BY <1>2, <2>1, <2>2, <2>3, <2>4, <2>5, <2>6, <2>7, <2>8, <2>9 DEF Step
<1> QED BY <1>1, <1>2 DEF Next

\* The lock discipline: Lock waits for a free mutex, Unlock is the holder's.
LEMMA MutexStep ==
  ASSUME IInv, Next
  PROVE  MutexInv'
<1>1. ASSUME NEW w \in Workers, NEW d, NEW k, Begin(w, d, k)
      PROVE  MutexInv'
  BY <1>1 DEF Begin, IInv, TypeOK, MutexInv, Idle, Critical
<1>2. ASSUME NEW w \in Workers, Step(w)
      PROVE  MutexInv'
  <2> USE DEF IInv, TypeOK, MutexInv, Critical
  <2>1. CASE Check(w)
    BY <2>1 DEF Check
  <2>2. CASE Lock(w)
    BY <2>2, DecryptAssumption DEF Lock, MutexFree
  <2>3. CASE LookupEnv(w)
    BY <2>3 DEF LookupEnv
  <2>4. CASE Setenv(w)
    BY <2>4 DEF Setenv
  <2>5. CASE SetenvFails(w)
    BY <2>5 DEF SetenvFails
  <2>6. CASE SopsData(w)
    BY <2>6 DEF SopsData
  <2>7. CASE RestoreEnv(w)
    BY <2>7 DEF RestoreEnv
  <2>8. CASE Unlock(w)
    BY <2>8, DecryptAssumption DEF Unlock, AfterUnlock
  <2>9. CASE Taken(w)
    BY <2>9 DEF Taken, Idle
  <2> QED BY <1>2, <2>1, <2>2, <2>3, <2>4, <2>5, <2>6, <2>7, <2>8, <2>9 DEF Step
<1> QED BY <1>1, <1>2 DEF Next

\* Only the worker between Lock and Unlock changes the variable, so the others
\* have nothing to say about it.
LEMMA EnvStep ==
  ASSUME IInv, Next
  PROVE  EnvInv' /\ EnvRestored'
<1>1. ASSUME NEW w \in Workers, NEW d, NEW k, Begin(w, d, k)
      PROVE  EnvInv' /\ EnvRestored'
  BY <1>1 DEF Begin, IInv, TypeOK, EnvInv, EnvRestored, Idle
<1>2. ASSUME NEW w \in Workers, Step(w)
      PROVE  EnvInv' /\ EnvRestored'
  <2> USE DEF IInv, TypeOK, MutexInv, EnvInv, EnvRestored, Critical
  <2>1. CASE Check(w)
    BY <2>1 DEF Check
  <2>2. CASE Lock(w)
    BY <2>2, DecryptAssumption DEF Lock, MutexFree
  <2>3. CASE LookupEnv(w)
    BY <2>3 DEF LookupEnv
  <2>4. CASE Setenv(w)
    BY <2>4, DecryptAssumption DEF Setenv
  <2>5. CASE SetenvFails(w)
    BY <2>5 DEF SetenvFails
  <2>6. CASE SopsData(w)
    BY <2>6 DEF SopsData
  <2>7. CASE RestoreEnv(w)
    BY <2>7, DecryptAssumption DEF RestoreEnv, Restored
  <2>8. CASE Unlock(w)
    BY <2>8, DecryptAssumption DEF Unlock, AfterUnlock
  <2>9. CASE Taken(w)
    BY <2>9 DEF Taken, Idle
  <2> QED BY <1>2, <2>1, <2>2, <2>3, <2>4, <2>5, <2>6, <2>7, <2>8, <2>9 DEF Step
<1> QED BY <1>1, <1>2 DEF Next

\* The result is the function of the arguments that DecryptPromise says.
LEMMA CallStep ==
  ASSUME IInv, Next
  PROVE  CallInv'
<1>1. ASSUME NEW w \in Workers, NEW d, NEW k, Begin(w, d, k)
      PROVE  CallInv'
  BY <1>1 DEF Begin, IInv, TypeOK, CallInv, Idle, Critical
<1>2. ASSUME NEW w \in Workers, Step(w)
      PROVE  CallInv'
  <2> USE DEF IInv, TypeOK, CallInv, Critical
  <2>1. CASE Check(w)
    BY <2>1 DEF Check, Outcome, Promise!Outcome
  <2>2. CASE Lock(w)
    BY <2>2 DEF Lock
  <2>3. CASE LookupEnv(w)
    BY <2>3 DEF LookupEnv
  <2>4. CASE Setenv(w)
    BY <2>4 DEF Setenv
  <2>5. CASE SetenvFails(w)
    BY <2>5 DEF SetenvFails, Outcome, Promise!Outcome
  <2>6. CASE SopsData(w)
    BY <2>6 DEF SopsData, Sops, EnvInv, Outcome, Promise!Outcome
  <2>7. CASE RestoreEnv(w)
    BY <2>7 DEF RestoreEnv
  <2>8. CASE Unlock(w)
    BY <2>8 DEF Unlock
  <2>9. CASE Taken(w)
    BY <2>9 DEF Taken, Idle
  <2> QED BY <1>2, <2>1, <2>2, <2>3, <2>4, <2>5, <2>6, <2>7, <2>8, <2>9 DEF Step
<1> QED BY <1>1, <1>2 DEF Next

LEMMA InductiveStep == IInv /\ [Next]_vars => IInv'
<1> SUFFICES ASSUME IInv, [Next]_vars PROVE IInv'
  OBVIOUS
<1>1. CASE Next
  <2>1. TypeOK'
    BY <1>1, TypeStep DEF IInv
  <2> QED BY <1>1, <2>1, MutexStep, EnvStep, CallStep DEF IInv
<1>2. CASE UNCHANGED vars
  BY <1>2 DEF vars, IInv, TypeOK, EnvRestored, MutexInv, EnvInv, CallInv
<1> QED BY <1>1, <1>2

-----------------------------------------------------------------------------
(* The refinement.  Begin is the promise's Call, the step into "returned"  *)
(* its Return, Taken its Taken; every other step is invisible.             *)

LEMMA VisibleCases ==
  ASSUME NEW t
  PROVE  /\ t.pc = "idle" => Visible(t) = Promise!Idle
         /\ t.pc = "returned" => Visible(t) = [state |-> "returned", content |-> t.content,
                                               key |-> t.key, result |-> t.result]
         /\ t.pc \notin {"idle", "returned"} =>
              Visible(t) = [state |-> "running", content |-> t.content, key |-> t.key,
                            result |-> "none"]
BY DEF Visible, Promise!Idle

\* Worker w alone has moved.
OnlyMoves(w) == \A v \in Workers \ {w} : th'[v] = th[v]

LEMMA OneMoves ==
  ASSUME NEW w \in Workers, OnlyMoves(w)
  PROVE  Calls' = [Calls EXCEPT ![w] = Visible(th'[w])]
BY DEF OnlyMoves, Calls, Visible

LEMMA BeginRefines ==
  ASSUME IInv, NEW w \in Workers, NEW d \in Contents \cup {NoContent}, NEW k \in Keys \cup {NoKey},
         Begin(w, d, k)
  PROVE  Promise!Call(w, d, k)
<1>1. /\ OnlyMoves(w)
      /\ th'[w].pc = "check" /\ th'[w].content = d /\ th'[w].key = k
  BY DEF Begin, IInv, TypeOK, OnlyMoves, Idle
<1>2. Visible(th'[w]) = [state |-> "running", content |-> d, key |-> k, result |-> "none"]
  BY <1>1, VisibleCases
<1>3. Calls[w].state = "idle"
  BY VisibleCases DEF Begin, Calls, Promise!Idle
<1> QED BY <1>1, <1>2, <1>3, OneMoves DEF Promise!Call

\* A step inside the call.
Inside(w) ==
  /\ OnlyMoves(w)
  /\ th[w].pc \notin {"idle", "returned"}
  /\ th'[w].content = th[w].content
  /\ th'[w].key = th[w].key

LEMMA InvisibleStep ==
  ASSUME NEW w \in Workers, Inside(w), th'[w].pc \notin {"idle", "returned"}
  PROVE  Calls' = Calls
<1>1. Visible(th'[w]) = Visible(th[w])
  BY VisibleCases DEF Inside
<1>2. Calls' = [Calls EXCEPT ![w] = Visible(th[w])]
  BY <1>1, OneMoves DEF Inside
<1> QED BY <1>2 DEF Calls

\* The end of the call.
LEMMA ReturnStep ==
  ASSUME NEW w \in Workers, Inside(w), th'[w].pc = "returned",
         th'[w].result = Promise!Outcome(th[w].content, th[w].key)
  PROVE  Promise!Return(w)
<1>1. Calls[w] = [state |-> "running", content |-> th[w].content, key |-> th[w].key,
                  result |-> "none"]
  BY VisibleCases DEF Calls, Inside
<1>2. Visible(th'[w]) = [state |-> "returned", content |-> th[w].content, key |-> th[w].key,
                         result |-> Promise!Outcome(th[w].content, th[w].key)]
  BY VisibleCases DEF Inside
<1>3. Calls' = [Calls EXCEPT ![w] = Visible(th'[w])]
  BY OneMoves DEF Inside
<1> QED BY <1>1, <1>2, <1>3 DEF Promise!Return

LEMMA NextRefines ==
  ASSUME IInv, IInv', Next
  PROVE  [Promise!Next]_Calls
<1>1. ASSUME NEW w \in Workers, NEW d \in Contents \cup {NoContent}, NEW k \in Keys \cup {NoKey},
             Begin(w, d, k)
      PROVE  [Promise!Next]_Calls
  BY <1>1, BeginRefines DEF Promise!Next
<1>2. ASSUME NEW w \in Workers, Step(w)
      PROVE  [Promise!Next]_Calls
  <2>a. ASSUME Inside(w), th'[w].pc \notin {"idle", "returned"}
        PROVE  [Promise!Next]_Calls
    BY <2>a, InvisibleStep
  <2>b. ASSUME Inside(w), th'[w].pc = "returned"
        PROVE  [Promise!Next]_Calls
    <3>1. th'[w].result = Promise!Outcome(th[w].content, th[w].key)
      BY <2>b DEF IInv, CallInv, Outcome, Inside
    <3> QED BY <2>b, <3>1, ReturnStep DEF Promise!Next
  <2> USE DEF IInv, TypeOK, Inside, OnlyMoves
  <2>1. CASE Check(w)
    BY <2>1, <2>a, <2>b DEF Check
  <2>2. CASE Lock(w)
    BY <2>2, <2>a DEF Lock
  <2>3. CASE LookupEnv(w)
    BY <2>3, <2>a DEF LookupEnv
  <2>4. CASE Setenv(w)
    BY <2>4, <2>a DEF Setenv
  <2>5. CASE SetenvFails(w)
    BY <2>5, <2>a DEF SetenvFails
  <2>6. CASE SopsData(w)
    BY <2>6, <2>a DEF SopsData
  <2>7. CASE RestoreEnv(w)
    BY <2>7, <2>a DEF RestoreEnv
  <2>8. CASE Unlock(w)
    BY <2>8, <2>b DEF Unlock
  <2>9. CASE Taken(w)
    <3>1. OnlyMoves(w) /\ th'[w] = Idle
      BY <2>9 DEF Taken
    <3>2. Calls' = [Calls EXCEPT ![w] = Promise!Idle]
      BY <3>1, OneMoves, VisibleCases DEF Idle
    <3>3. Calls[w].state = "returned"
      BY <2>9, VisibleCases DEF Taken, Calls
    <3> QED BY <3>2, <3>3 DEF Promise!Taken, Promise!Next
  <2> QED BY <1>2, <2>1, <2>2, <2>3, <2>4, <2>5, <2>6, <2>7, <2>8, <2>9 DEF Step
<1> QED BY <1>1, <1>2 DEF Next

LEMMA InitRefines == Init => Promise!Init
BY VisibleCases DEF Init, Promise!Init, Calls, Idle

-----------------------------------------------------------------------------

\* IInv, the inductive invariant of ageKeyMu, the variable and the locals of
\* every call in progress.
THEOREM Invariant == Spec => []IInv
BY InitIInv, InductiveStep, PTL DEF Spec

\* The locals, the mutex and the variable stay in their ranges.
THEOREM TypeCorrect == Spec => []TypeOK
<1>1. IInv => TypeOK
  BY DEF IInv
<1> QED BY <1>1, Invariant, PTL

\* decrypt.go:7-8: between decryptions SOPS_AGE_KEY is always what the operator
\* was started with.
THEOREM EnvironmentRestored == Spec => []EnvRestored
<1>1. IInv => EnvRestored
  BY DEF IInv
<1> QED BY <1>1, Invariant, PTL

\* decrypt.go:25-29: concurrent calls return what each would return alone.
THEOREM Refinement == Spec => KeepsPromise
<1>1. IInv /\ IInv' /\ [Next]_vars => [Promise!Next]_Calls
  <2>1. CASE UNCHANGED vars
    BY <2>1 DEF vars, Calls, Visible
  <2>2. ASSUME IInv, IInv', Next PROVE [Promise!Next]_Calls
    BY <2>2, NextRefines
  <2> QED BY <2>1, <2>2
<1> QED BY <1>1, InitRefines, Invariant, PTL DEF Spec, KeepsPromise, Promise!Spec
================================================================================
