------------------------------ MODULE EventPool ------------------------------
(***************************************************************************)
(* What the scheduler promises its clients, whatever structure holds the   *)
(* events: a pushed entry is either refused, leaving the pool as it was,   *)
(* or kept until a dequeue returns it, once; a dequeue returns NULL only   *)
(* when no entry is pending.  Nothing is said here about the order.        *)
(***************************************************************************)
EXTENDS Naturals

CONSTANTS Entry,   \* the entries a client may push
          NULL     \* the result of a dequeue of an empty queue

VARIABLES pending, \* the entries held
          result   \* what the last dequeue returned

poolVars == <<pending, result>>

PoolInit == /\ pending = {}
            /\ result = NULL

Accept(e) == /\ e \notin pending
             /\ pending' = pending \cup {e}
             /\ UNCHANGED result

Remove(e) == /\ e \in pending
             /\ pending' = pending \ {e}
             /\ result' = e

ReportEmpty == /\ pending = {}
               /\ result' = NULL
               /\ UNCHANGED pending

PoolNext == \/ \E e \in Entry : Accept(e) \/ Remove(e)
            \/ ReportEmpty

PoolSpec == PoolInit /\ [][PoolNext]_poolVars
=============================================================================
