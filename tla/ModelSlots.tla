------------------------------ MODULE ModelSlots ------------------------------
(***************************************************************************)
(* What residency promises, without lock, clock, worker or waiter: the     *)
(* card has a budget of slots, a slot is claimed only within the budget,   *)
(* a request uses a model only in the variant it asked for, and a slot is  *)
(* vacated only when nobody uses its model (docs/protocol.md, section 3).  *)
(***************************************************************************)
EXTENDS Naturals, FiniteSets

CONSTANTS Engines, Variants, Requests, Budgets, None

VARIABLES
  slot,    \* the variant that has a slot for each engine, or None
  users,   \* who uses each engine's model, and in which variant they asked for it
  budget   \* how many slots there are

slotVars == <<slot, users, budget>>

Taken == {e \in Engines : slot[e] # None}

SlotsInit ==
  /\ slot = [e \in Engines |-> None]
  /\ users = [e \in Engines |-> {}]
  /\ budget \in Budgets

Claim(e, v) ==
  /\ slot[e] = None
  /\ Cardinality(Taken) < budget
  /\ slot' = [slot EXCEPT ![e] = v]
  /\ UNCHANGED <<users, budget>>

Use(r, e, v) ==
  /\ slot[e] = v
  /\ users' = [users EXCEPT ![e] = @ \cup {<<r, v>>}]
  /\ UNCHANGED <<slot, budget>>

Leave(r, e, v) ==
  /\ <<r, v>> \in users[e]
  /\ users' = [users EXCEPT ![e] = @ \ {<<r, v>>}]
  /\ UNCHANGED <<slot, budget>>

Vacate(e) ==
  /\ users[e] = {}
  /\ slot' = [slot EXCEPT ![e] = None]
  /\ UNCHANGED <<users, budget>>

Rebudget ==
  /\ budget' \in Budgets
  /\ UNCHANGED <<slot, users>>

SlotsNext ==
  \/ \E e \in Engines, v \in Variants : Claim(e, v)
  \/ \E r \in Requests, e \in Engines, v \in Variants : Use(r, e, v) \/ Leave(r, e, v)
  \/ \E e \in Engines : Vacate(e)
  \/ Rebudget

SlotsSpec == SlotsInit /\ [][SlotsNext]_slotVars
===============================================================================
