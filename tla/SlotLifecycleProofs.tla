------------------------ MODULE SlotLifecycleProofs ------------------------
(***************************************************************************)
(* The promise of SlotLifecycle keeps its own properties, for every number *)
(* of slots and bookings.                                                  *)
(***************************************************************************)
EXTENDS SlotLifecycle, TLAPS

TypeOK == /\ life \in [Slots -> {"unborn", "offered", "held", "gone"}]
          /\ holder \in [Slots -> Bookings \cup {None}]
          /\ slotOf \in [Bookings -> Slots \cup {None}]
          /\ paid \subseteq Bookings /\ cancelled \subseteq Bookings
          /\ over \subseteq Slots

\* A booking that holds a slot was made for it and is not cancelled; one that
\* was paid for was made for a slot that is over by now.
HeldByItsOwn == \A s \in Slots : life[s] = "held" =>
                  /\ holder[s] \in Bookings
                  /\ slotOf[holder[s]] = s
                  /\ holder[s] \notin cancelled
PaidWhenOver == \A b \in paid : slotOf[b] \in over
CancelledOnes == \A b \in cancelled : slotOf[b] \in Slots

IInv == TypeOK /\ HeldByItsOwn /\ PaidWhenOver /\ CancelledOnes /\ PaidOrCancelled

\* Initially nothing is held, paid or cancelled.
LEMMA InitIInv == Init => IInv
  BY DEF Init, IInv, TypeOK, HeldByItsOwn, PaidWhenOver, CancelledOnes, PaidOrCancelled

\* Every step keeps IInv.  A cancellation needs a slot that is not over, a
\* payment one that is: since a booking keeps its slot, they exclude each other.
LEMMA StepIInv == ASSUME None \notin Slots PROVE IInv /\ [Next]_vars => IInv'
<1> SUFFICES ASSUME None \notin Slots, IInv, [Next]_vars PROVE IInv'
  OBVIOUS
<1> USE DEF IInv, TypeOK, HeldByItsOwn, PaidWhenOver, CancelledOnes, PaidOrCancelled
<1>1. ASSUME NEW s \in Slots, Offer(s) PROVE IInv'
  BY <1>1 DEF Offer, Free
<1>2. ASSUME NEW s \in Slots, NEW b \in Bookings, Book(s, b) PROVE IInv'
  <2>1. b \notin paid /\ b \notin cancelled
    BY <1>2 DEF Book
  <2>2. \A s2 \in Slots : life[s2] = "held" => holder[s2] # b
    BY <1>2 DEF Book
  <2>3. TypeOK' /\ PaidOrCancelled'
    BY <1>2 DEF Book
  <2>4. HeldByItsOwn'
    BY <1>2, <2>1, <2>2 DEF Book
  <2>5. PaidWhenOver' /\ CancelledOnes'
    BY <1>2, <2>1 DEF Book
  <2> QED BY <2>3, <2>4, <2>5
<1>3. ASSUME NEW s \in Slots, NEW b \in Bookings, Cancel(s, b) PROVE IInv'
  <2>1. b \notin paid
    BY <1>3 DEF Cancel
  <2>2. TypeOK' /\ PaidWhenOver' /\ CancelledOnes' /\ PaidOrCancelled'
    BY <1>3, <2>1 DEF Cancel, Free
  <2>3. HeldByItsOwn'
    BY <1>3 DEF Cancel, Free
  <2> QED BY <2>2, <2>3
<1>4. ASSUME NEW s \in Slots, Withdraw(s) PROVE IInv'
  BY <1>4 DEF Withdraw, Free
<1>5. ASSUME NEW s \in Slots, Expire(s) PROVE IInv'
  BY <1>5 DEF Expire
<1>6. ASSUME NEW P \in SUBSET Slots, NEW S \in SUBSET Slots, Clean(P, S) PROVE IInv'
  <2>1. \A s \in P : holder[s] \in Bookings /\ slotOf[holder[s]] \in over
                    /\ holder[s] \notin cancelled
    BY <1>6 DEF Clean
  <2>2. TypeOK' /\ HeldByItsOwn'
    BY <1>6, <2>1 DEF Clean
  <2>3. PaidWhenOver' /\ CancelledOnes' /\ PaidOrCancelled'
    BY <1>6, <2>1 DEF Clean
  <2> QED BY <2>2, <2>3
<1>7. ASSUME NEW S \in SUBSET Slots, Dispute(S) PROVE IInv'
  BY <1>7 DEF Dispute
<1>8. CASE UNCHANGED vars
  BY <1>8 DEF vars
<1> QED BY <1>1, <1>2, <1>3, <1>4, <1>5, <1>6, <1>7, <1>8 DEF Next

\* IInv holds in every reachable state.
LEMMA Invariance == ASSUME None \notin Slots PROVE Spec => []IInv
<1>1. Init => IInv
  BY InitIInv
<1>2. IInv /\ [Next]_vars => IInv'
  BY StepIInv
<1> QED BY <1>1, <1>2, PTL DEF Spec

\* No booking is both cancelled, with its refunds, and paid to the instructor.
THEOREM NeverBoth == ASSUME None \notin Slots PROVE Spec => []PaidOrCancelled
<1>1. IInv => PaidOrCancelled
  BY DEF IInv
<1> QED BY <1>1, Invariance, PTL

\* A booking leaves a slot that nobody disputes only by its cancellation, or
\* when the slot is over and what is due for it has been paid.
THEOREM UndisputedStands == ASSUME None \notin Slots PROVE Spec => BookingStands
<1> DEFINE Stands == \A s \in Slots :
       life[s] = "held" /\ s \notin disputed /\ holder'[s] # holder[s]
         => holder[s] \in cancelled' \/ Settled(s)
<1>1. IInv /\ [Next]_vars => [Stands]_vars
  <2> SUFFICES ASSUME IInv, Next, NEW t \in Slots, life[t] = "held", t \notin disputed,
                      holder'[t] # holder[t]
               PROVE  holder[t] \in cancelled' \/ Settled(t)
    BY DEF Stands
  <2> USE DEF IInv, TypeOK
  <2>1. ASSUME NEW s \in Slots, Offer(s) PROVE FALSE
    BY <2>1 DEF Offer, Free
  <2>2. ASSUME NEW s \in Slots, NEW b \in Bookings, Book(s, b) PROVE FALSE
    BY <2>2 DEF Book
  <2>3. ASSUME NEW s \in Slots, NEW b \in Bookings, Cancel(s, b)
        PROVE  holder[t] \in cancelled'
    BY <2>3 DEF Cancel, Free
  <2>4. ASSUME NEW s \in Slots, Withdraw(s) PROVE FALSE
    BY <2>4 DEF Withdraw, Free
  <2>5. ASSUME NEW s \in Slots, Expire(s) PROVE FALSE
    BY <2>5 DEF Expire
  <2>6. ASSUME NEW P \in SUBSET Slots, NEW S \in SUBSET Slots, Clean(P, S)
        PROVE  Settled(t)
    BY <2>6 DEF Clean
  <2>7. ASSUME NEW S \in SUBSET Slots, Dispute(S) PROVE FALSE
    BY <2>7 DEF Dispute
  <2> QED BY <2>1, <2>2, <2>3, <2>4, <2>5, <2>6, <2>7 DEF Next
<1> QED BY <1>1, Invariance, PTL DEF Spec, BookingStands
============================================================================
