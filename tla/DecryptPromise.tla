---------------------------- MODULE DecryptPromise ----------------------------
(***************************************************************************)
(* What a caller of decrypt.DecryptAge is promised: the call returns the   *)
(* plaintext exactly when the key it passed opens the content it passed,   *)
(* whatever the other workers decrypt meanwhile and whatever key is in the *)
(* process environment.                                                    *)
(***************************************************************************)
CONSTANTS
  Workers,     \* the consumer controllers' workers
  Contents,    \* encrypted documents
  Keys,        \* age identities
  Opens,       \* Opens[d]: the identities that can open d
  NoContent,   \* a document of no bytes
  NoKey,       \* a key of no bytes
  Unsettable   \* the keys that os.Setenv refuses

VARIABLES
  calls        \* calls[w] = [state, content, key, result]

Idle == [state |-> "idle", content |-> NoContent, key |-> NoKey, result |-> "none"]

\* DecryptAge as a function of its arguments.
Outcome(d, k) ==
  IF d # NoContent /\ k # NoKey /\ k \notin Unsettable /\ k \in Opens[d]
  THEN "plaintext" ELSE "error"

Call(w, d, k) ==
  /\ calls[w].state = "idle"
  /\ calls' = [calls EXCEPT ![w] = [state |-> "running", content |-> d, key |-> k,
                                    result |-> "none"]]

Return(w) ==
  /\ calls[w].state = "running"
  /\ LET c == calls[w]
     IN calls' = [calls EXCEPT ![w] = [state |-> "returned", content |-> c.content,
                                       key |-> c.key, result |-> Outcome(c.content, c.key)]]

\* The reconciler has taken the result.
Taken(w) ==
  /\ calls[w].state = "returned"
  /\ calls' = [calls EXCEPT ![w] = Idle]

Init == calls = [w \in Workers |-> Idle]

Next == \E w \in Workers :
          \/ \E d \in Contents \cup {NoContent}, k \in Keys \cup {NoKey} : Call(w, d, k)
          \/ Return(w)
          \/ Taken(w)

Spec == Init /\ [][Next]_calls
===============================================================================
