---------------------------- MODULE AtomicStore ----------------------------
(***************************************************************************)
(* What the UName*It server promises a client about the object database:   *)
(* a request is a sequence of update calls; a call takes effect completely *)
(* or not at all; a call that failed after it changed something dooms the  *)
(* transaction, which can then only be rolled back; a commit makes all the *)
(* completed calls durable at once.  Transaction.tla implements this.      *)
(***************************************************************************)
CONSTANTS Item, Value

VARIABLES store,    \* the committed objects
          pending,  \* the objects as the completed calls left them
          doomed    \* a failed call has spoilt the transaction

storeVars == <<store, pending, doomed>>

Init == /\ store \in [Item -> Value]
        /\ pending = store
        /\ doomed = FALSE

\* A call runs to completion.
Call == /\ ~doomed
        /\ pending' \in [Item -> Value]
        /\ UNCHANGED <<store, doomed>>

\* A call fails half way: nothing of this transaction can be kept.
Spoil == /\ ~doomed
         /\ doomed' = TRUE
         /\ pending' = store
         /\ UNCHANGED store

\* The completed calls become durable.
Commit == /\ ~doomed
          /\ store' = pending
          /\ UNCHANGED <<pending, doomed>>

\* Rollback by the client, by a failed check or by a crash.
Abort == /\ doomed' = FALSE
         /\ pending' = store
         /\ UNCHANGED store

Next == Call \/ Spoil \/ Commit \/ Abort

Spec == Init /\ [][Next]_storeVars

=============================================================================
