------------------------- MODULE CoachingLifecycle -------------------------
(***************************************************************************)
(* CoachingSlots implements SlotLifecycle.  A booking is the request that  *)
(* made it; a slot is disputed while it exists and its owner is contended. *)
(***************************************************************************)
EXTENDS CoachingSlots

Life == [s \in Slots |-> IF phase[s] = Unborn THEN "unborn"
                         ELSE IF slot[s] = NoRow THEN "gone"
                         ELSE IF Booked(slot[s]) THEN "held" ELSE "offered"]
Holder == [s \in Slots |-> IF slot[s] = NoRow THEN None ELSE slot[s].booking]
SlotOf == [b \in Requests |-> IF req[b].pc = "booked" THEN req[b].slot ELSE None]
Due == {b \in Bookings : InstructorShare(req[b].price) # 0}
PaidFor == {b \in Requests : payouts[b] > 0}
Cancelled == {b \in Bookings : Cancels(b) # {}}
Ended == {s \in Slots : phase[s] = Over}
Disputed == {s \in Slots : slot[s] # NoRow /\ slot[s].owner \in contended}

Lifecycle == INSTANCE SlotLifecycle WITH
  Bookings <- Requests, life <- Life, holder <- Holder, slotOf <- SlotOf, due <- Due,
  paid <- PaidFor, cancelled <- Cancelled, over <- Ended, disputed <- Disputed

\* Every step that the handlers, the cleanup and time take with a slot is one
\* that SlotLifecycle allows, or changes nothing of what it promises.
ImplementsLifecycle == Lifecycle!Spec
============================================================================
