--------------------------- MODULE SlotLifecycle ---------------------------
(***************************************************************************)
(* What a student and an instructor are promised about a slot: it is       *)
(* offered, held by one booking at a time, and ends withdrawn or, when its *)
(* time is over, settled and removed.  A booking is cancelled, or paid to  *)
(* its instructor, or neither, never both.                                 *)
(*                                                                         *)
(* The service keeps the whole promise for a slot whose owner's slots are  *)
(* worked on by one request at a time.  Any other slot is `disputed`: its  *)
(* booking may be lost to another booking, to a late cancellation or to a  *)
(* deletion, yet only before the slot is over.                             *)
(***************************************************************************)
CONSTANTS Slots, Bookings, None

VARIABLES
  life,       \* "unborn", "offered", "held" or "gone"
  holder,     \* the booking that holds the slot
  slotOf,     \* the slot a booking was made for
  due,        \* bookings the instructor has a share in
  paid,       \* bookings that the instructor's share was paid for
  cancelled,  \* bookings that were cancelled
  over,       \* slots whose end has passed
  disputed    \* slots that overlapping requests worked on

vars == <<life, holder, slotOf, due, paid, cancelled, over, disputed>>

Init == /\ life = [s \in Slots |-> "unborn"]
        /\ holder = [s \in Slots |-> None]
        /\ slotOf = [b \in Bookings |-> None]
        /\ due = {} /\ paid = {} /\ cancelled = {} /\ over = {} /\ disputed = {}

Live(s) == life[s] \in {"offered", "held"}

Free(s, to) == /\ life' = [life EXCEPT ![s] = to]
               /\ holder' = [holder EXCEPT ![s] = None]

Offer(s) ==
  /\ life[s] = "unborn"
  /\ Free(s, "offered")
  /\ disputed' \in {disputed, disputed \cup {s}}
  /\ UNCHANGED <<slotOf, due, paid, cancelled, over>>

\* Booking b takes slot s, from another one only when s is disputed.
Book(s, b) ==
  /\ life[s] = "offered" \/ (life[s] = "held" /\ s \in disputed)
  /\ s \notin over
  /\ slotOf[b] = None
  /\ life' = [life EXCEPT ![s] = "held"]
  /\ holder' = [holder EXCEPT ![s] = b]
  /\ slotOf' = [slotOf EXCEPT ![b] = s]
  /\ due' \in {due, due \cup {b}}
  /\ UNCHANGED <<paid, cancelled, over, disputed>>

\* Booking b of slot s is cancelled; it holds the slot unless s is disputed.
Cancel(s, b) ==
  /\ Live(s) /\ s \notin over
  /\ slotOf[b] = s
  /\ holder[s] = b \/ s \in disputed
  /\ Free(s, "offered")
  /\ cancelled' = cancelled \cup {b}
  /\ UNCHANGED <<slotOf, due, paid, over, disputed>>

Withdraw(s) ==
  /\ life[s] = "offered" \/ (life[s] = "held" /\ s \in disputed /\ s \notin over)
  /\ Free(s, "gone")
  /\ disputed' = disputed \ {s}
  /\ UNCHANGED <<slotOf, due, paid, cancelled, over>>

Expire(s) ==
  /\ life[s] # "unborn"
  /\ over' = over \cup {s}
  /\ UNCHANGED <<life, holder, slotOf, due, paid, cancelled, disputed>>

Settled(s) == s \in over /\ (life[s] = "held" /\ holder[s] \in due => holder[s] \in paid)

\* Bookings of slots that are over are paid, those of P, while slots that have
\* been settled, those of S, are removed together; either may be nothing.
Clean(P, S) ==
  /\ \A s \in P : s \in over /\ life[s] = "held" /\ holder[s] \in due
  /\ \A s \in S : Live(s) /\ Settled(s)
  /\ paid' = paid \cup {holder[s] : s \in P}
  /\ life' = [s \in Slots |-> IF s \in S THEN "gone" ELSE life[s]]
  /\ holder' = [s \in Slots |-> IF s \in S THEN None ELSE holder[s]]
  /\ disputed' = disputed \ S
  /\ UNCHANGED <<slotOf, due, cancelled, over>>

\* Two requests start to overlap on slots of one owner.
Dispute(S) ==
  /\ \A s \in S : Live(s)
  /\ disputed' = disputed \cup S
  /\ UNCHANGED <<life, holder, slotOf, due, paid, cancelled, over>>

Next ==
  \/ \E s \in Slots : \/ Offer(s) \/ Withdraw(s) \/ Expire(s)
                      \/ \E b \in Bookings : Book(s, b) \/ Cancel(s, b)
  \/ \E S \in SUBSET Slots : Dispute(S) \/ \E P \in SUBSET Slots : Clean(P, S)

Spec == Init /\ [][Next]_vars

-----------------------------------------------------------------------------
\* No booking is both cancelled, with its refunds, and paid to the instructor.
PaidOrCancelled == paid \cap cancelled = {}

\* A booking leaves a slot that nobody disputes only by its cancellation, or
\* when the slot is over and what is due for it has been paid.
BookingStands ==
  [][\A s \in Slots :
       life[s] = "held" /\ s \notin disputed /\ holder'[s] # holder[s]
         => holder[s] \in cancelled' \/ Settled(s)]_vars
============================================================================
