---------------------------- MODULE WorkloadLimiter ----------------------------
(***************************************************************************)
(* The slots of one workload (WorkloadLimiter, app/core/concurrency.py):   *)
(* two asyncio semaphores of one event loop.  Every caller takes a slot of *)
(* the gate "every"; a background caller first takes one of the Reserved   *)
(* fewer slots of the gate "background", so that Reserved slots are left   *)
(* to the interactive callers (chat).                                      *)
(*                                                                         *)
(* A step is what one task does between two awaits.  asyncio.Semaphore is  *)
(* modelled as the code uses it (Python 3.12): its waiters are served in   *)
(* order, a release hands the slot to the first waiter, which takes it     *)
(* only when its task runs again, and a waiter may be cancelled (by        *)
(* wait_for's timeout or by the request's end) before or after that.       *)
(***************************************************************************)
EXTENDS Integers, FiniteSets

CONSTANTS
  Callers,     \* the tasks that enter slot()
  Background,  \* those that ask for it with background=True
  Limit,       \* number of slots
  Reserved,    \* slots kept for the other callers
  None

(* WorkloadLimiter.__init__ raises ValueError otherwise. *)
ASSUME LimitIsPositive == Limit \in Nat \ {0}
ASSUME ReservedBelowLimit == Reserved \in Nat /\ Reserved < Limit
ASSUME CallersAreFinite == IsFiniteSet(Callers) /\ Background \subseteq Callers

Gates == {"background", "every"}
ASSUME NoneIsNoGate == None \notin Gates

VARIABLES
  value,     \* Semaphore._value of each gate
  at,        \* the gate whose acquire() each caller is waiting in, or None
  held,      \* the gates in each caller's "held" list
  woken,     \* the waiters whose future has its result
  cancelled, \* the waiters whose task was cancelled and has not run since
  ahead      \* the waiters each waiter found before it in its gate's queue

vars == <<value, at, held, woken, cancelled, ahead>>

Size(g) == IF g = "every" THEN Limit ELSE Limit - Reserved

TypeOK ==
  /\ value \in [Gates -> 0..Limit]
  /\ at \in [Callers -> Gates \union {None}]
  /\ held \in [Callers -> SUBSET Gates]
  /\ woken \subseteq Callers
  /\ cancelled \subseteq Callers
  /\ ahead \in [Callers -> SUBSET Callers]

Init ==
  /\ value = [g \in Gates |-> Size(g)]
  /\ at = [c \in Callers |-> None]
  /\ held = [c \in Callers |-> {}]
  /\ woken = {}
  /\ cancelled = {}
  /\ ahead = [c \in Callers |-> {}]

-----------------------------------------------------------------------------
(* Faulty variants of the definitions that follow; no specification uses   *)
(* them.                                                                   *)

(* No caller takes a background slot. *)
NeededByNobody(c) == {"every"}

(* A background caller takes its slot in all first. *)
BeforeReversed(c, g) == IF g = "background" THEN {"every"} ELSE {}

-----------------------------------------------------------------------------
(* The gates a caller passes, and those it passes before g. *)

Needed(c) == IF c \in Background /\ Reserved > 0 THEN Gates ELSE {"every"}
Before(c, g) == Needed(c) \ {g, "every"}

Waiting(c) == at[c] # None
Inside(c) == at[c] = None /\ held[c] # {}

(* The waiters of g that nobody has woken or cancelled. *)
Asleep(g) == {c \in Callers : at[c] = g /\ c \notin woken \union cancelled}
Woken(g) == {c \in woken : at[c] = g}

(* Semaphore.locked(): a new caller has to queue. *)
Busy(g) == value[g] = 0 \/ Asleep(g) # {} \/ Woken(g) # {}

(* The first n waiters of g, or all of them. *)
First(g, n) ==
  {W \in SUBSET Asleep(g) :
     /\ Cardinality(W) <= n
     /\ W # Asleep(g) => Cardinality(W) = n
     /\ \A c \in W : ahead[c] \intersect Asleep(g) \subseteq W}

(* The running caller c gives back the slots of "given", takes those of    *)
(* "taken" and wakes up to most[g] waiters of each gate, which owns their  *)
(* slots from then on.                                                     *)
PassOn(c, given, taken, most) ==
  \E B \in First("background", most["background"]), E \in First("every", most["every"]) :
    LET handed == [background |-> Cardinality(B), every |-> Cardinality(E)]
    IN  /\ woken' = (woken \ {c}) \union B \union E
        /\ value' = [g \in Gates |->
                       value[g] + (IF g \in given THEN 1 ELSE 0)
                                - (IF g \in taken THEN 1 ELSE 0) - handed[g]]

OneEach(G) == [g \in Gates |-> IF g \in G THEN 1 ELSE 0]

(* _acquire_in_order with the gates "had" passed: c passes the rest, or    *)
(* every gate before the first busy one and waits there.                   *)
Passes(c, had) ==
  /\ \A g \in Needed(c) \ had : ~Busy(g)
  /\ held' = [held EXCEPT ![c] = Needed(c)]
  /\ at' = [at EXCEPT ![c] = None]
  /\ ahead' = [ahead EXCEPT ![c] = {}]

Queues(c, had, g) ==
  /\ g \in Needed(c) \ had
  /\ \A h \in Before(c, g) \ had : ~Busy(h)
  /\ Busy(g)
  /\ held' = [held EXCEPT ![c] = had \union Before(c, g)]
  /\ at' = [at EXCEPT ![c] = g]
  /\ ahead' = [ahead EXCEPT ![c] = Asleep(g)]

-----------------------------------------------------------------------------
(* slot() is entered. *)
Enter(c) ==
  /\ ~Waiting(c) /\ ~Inside(c)
  /\ \/ Passes(c, {}) /\ PassOn(c, {}, Needed(c), OneEach({}))
     \/ \E g \in Gates : Queues(c, {}, g) /\ PassOn(c, {}, Before(c, g), OneEach({}))
  /\ UNCHANGED cancelled

(* A woken waiter's task runs: acquire() first wakes further waiters while *)
(* there are free slots, then the caller goes on to its next gate.         *)
Resume(c) ==
  /\ c \in woken \ cancelled
  /\ LET had == held[c] \union {at[c]}
         most == [g \in Gates |-> IF g = at[c] THEN value[g] ELSE 0]
     IN  \/ Passes(c, had) /\ PassOn(c, {}, Needed(c) \ had, most)
         \/ \E g \in Gates : Queues(c, had, g) /\ PassOn(c, {}, Before(c, g) \ had, most)
  /\ UNCHANGED cancelled

(* The acquire timeout, the caller's own deadline or a disconnect. *)
Cancel(c) ==
  /\ Waiting(c)
  /\ cancelled' = cancelled \union {c}
  /\ UNCHANGED <<value, at, held, woken, ahead>>

LeaveQueue(c) ==
  /\ held' = [held EXCEPT ![c] = {}]
  /\ at' = [at EXCEPT ![c] = None]
  /\ ahead' = [ahead EXCEPT ![c] = {}]
  /\ cancelled' = cancelled \ {c}

(* Faulty variant of GiveUp: slot() does not release the gates held. *)
GiveUpAlone(c) ==
  /\ c \in cancelled
  /\ LeaveQueue(c)
  /\ LET returned == IF c \in woken THEN {at[c]} ELSE {}
         most == [g \in Gates |->
                    IF g = at[c] THEN value[g] + (IF g \in returned THEN 1 ELSE 0)
                    ELSE 0]
     IN  PassOn(c, returned, {}, most)

(* A cancelled waiter's task runs: acquire() returns a slot it was handed  *)
(* and wakes the waiters it can, and slot() releases the gates held.       *)
GiveUp(c) ==
  /\ c \in cancelled
  /\ LeaveQueue(c)
  /\ LET returned == IF c \in woken THEN {at[c]} ELSE {}
         most == [g \in Gates |->
                    IF g = at[c] THEN value[g] + (IF g \in returned THEN 1 ELSE 0)
                    ELSE IF g \in held[c] THEN 1 ELSE 0]
     IN  PassOn(c, returned \union held[c], {}, most)

(* The body of the async with block ends, in whatever way. *)
Exit(c) ==
  /\ Inside(c)
  /\ held' = [held EXCEPT ![c] = {}]
  /\ PassOn(c, held[c], {}, OneEach(held[c]))
  /\ UNCHANGED <<at, cancelled, ahead>>

Next == \E c \in Callers : Enter(c) \/ Resume(c) \/ Cancel(c) \/ GiveUp(c) \/ Exit(c)

Spec == Init /\ [][Next]_vars

(* The event loop runs every ready task, and every slot is given back: its *)
(* body is bounded by the call's deadline.                                 *)
Fairness == \A c \in Callers : WF_vars(Resume(c)) /\ WF_vars(GiveUp(c)) /\ WF_vars(Exit(c))

FairSpec == Spec /\ Fairness

-----------------------------------------------------------------------------
(* Safety *)

(* Who uses a slot of g: its holders and the waiters it was handed to. *)
Users(g) == {c \in Callers : g \in held[c]} \union Woken(g)

(* No slot is lost or given back twice, however waits time out while the   *)
(* slot is handed over, and a limit is never exceeded.                     *)
NoSlotLost == \A g \in Gates : value[g] + Cardinality(Users(g)) = Size(g)

(* Background callers never use more than Limit - Reserved slots at once   *)
(* (docstring of WorkloadLimiter; audit P9).                               *)
BackgroundIsBounded ==
  Cardinality(Users("every") \intersect Background) <= Limit - Reserved

(* A caller sleeps at a gate only while all of its slots are in use, or a  *)
(* waiter that has just been woken or cancelled is about to look again.    *)
NoLostWakeup ==
  \A g \in Gates : Asleep(g) # {} /\ Woken(g) = {} => value[g] = 0

(* Chat waits for chat only: with an interactive caller waiting, at least  *)
(* Reserved slots are used by interactive callers.                         *)
ReservedServesChat ==
  Asleep("every") # {} /\ Woken("every") = {}
    => Cardinality(Users("every") \ Background) >= Reserved

-----------------------------------------------------------------------------
(* Liveness: no caller waits for ever, whatever the others do and even     *)
(* when no wait times out.                                                 *)
EveryWaitEnds == \A c \in Callers : Waiting(c) ~> ~Waiting(c)

-----------------------------------------------------------------------------
(* Refinement *)

Promise == INSTANCE Slots WITH inside <- {c \in Callers : Inside(c)}

(* What the users of a limiter presume of it, all that concerns who waits  *)
(* where and who is woken left out.                                        *)
ImplementsSlots == Promise!Spec
=============================================================================
