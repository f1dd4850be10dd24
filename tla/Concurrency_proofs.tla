--------------------------- MODULE Concurrency_proofs ---------------------------
(***************************************************************************)
(* Theorems about app/core/concurrency.py: its WorkloadLimiter, for every  *)
(* number of callers, every limit and every reservation, and its child     *)
(* processes (ChildRuns), for any runs and any number of workers.          *)
(***************************************************************************)
EXTENDS WorkloadLimiter, ChildRuns, FiniteSetTheorems, TLAPS

(***************************************************************************)
(* I. The slots of a workload.                                             *)
(***************************************************************************)

USE DEF Gates

(* Where a caller stands: waiting at a gate it holds the gates before it,  *)
(* otherwise it holds all it needs or nothing.                             *)
Standing ==
  /\ \A c \in Callers :
       /\ Waiting(c) => at[c] \in Needed(c) /\ held[c] = Before(c, at[c])
       /\ ~Waiting(c) => held[c] \in {{}, Needed(c)}
  /\ \A c \in woken \union cancelled : Waiting(c)

(* The inductive invariant. *)
IInv == TypeOK /\ Standing /\ NoSlotLost /\ NoLostWakeup

-----------------------------------------------------------------------------
(* Counting: a set U of users loses or keeps c and is joined by W. *)
LEMMA Count ==
  ASSUME NEW U, NEW W, NEW c, IsFiniteSet(U), IsFiniteSet(W), U \intersect W = {}, c \notin W
  PROVE  /\ Cardinality(U \union W) = Cardinality(U) + Cardinality(W)
         /\ c \in U => Cardinality((U \ {c}) \union W) = Cardinality(U) - 1 + Cardinality(W)
         /\ c \notin U => Cardinality((U \union W) \union {c}) = Cardinality(U) + Cardinality(W) + 1
<1>1. Cardinality(U) \in Nat /\ Cardinality(W) \in Nat
  BY FS_CardinalityType
<1>2. IsFiniteSet(U \union W) /\ Cardinality(U \union W) = Cardinality(U) + Cardinality(W)
  <2>1. Cardinality(U \intersect W) = 0
    <3>1. Cardinality({}) = 0
      BY FS_EmptySet
    <3>2. QED  BY <3>1, Zenon
  <2>2. /\ IsFiniteSet(U \union W)
        /\ Cardinality(U \union W)
             = Cardinality(U) + Cardinality(W) - Cardinality(U \intersect W)
    BY FS_Union
  <2>3. QED  BY <1>1, <2>1, <2>2
<1>3. ASSUME c \in U
      PROVE  Cardinality((U \ {c}) \union W) = Cardinality(U) - 1 + Cardinality(W)
  <2>1. IsFiniteSet(U \ {c}) /\ Cardinality(U \ {c}) = Cardinality(U) - 1
    BY <1>3, FS_RemoveElement
  <2>2. Cardinality((U \ {c}) \intersect W) = 0
    <3>1. Cardinality({}) = 0 /\ (U \ {c}) \intersect W = {}
      BY FS_EmptySet
    <3>2. QED  BY <3>1, Zenon
  <2>3. Cardinality((U \ {c}) \union W)
          = Cardinality(U \ {c}) + Cardinality(W) - Cardinality((U \ {c}) \intersect W)
    BY <2>1, FS_Union
  <2>4. QED  BY <1>1, <2>1, <2>2, <2>3
<1>4. ASSUME c \notin U
      PROVE  Cardinality((U \union W) \union {c}) = Cardinality(U) + Cardinality(W) + 1
  <2>1. c \notin U \union W
    BY <1>4
  <2>2. QED  BY <1>2, <2>1, FS_AddElement
<1>5. QED  BY <1>2, <1>3, <1>4

(* The callers are finitely many, and so are those that use a gate. *)
LEMMA UsersAreFinite ==
  ASSUME TypeOK, NEW g \in Gates
  PROVE  /\ IsFiniteSet(Users(g)) /\ Cardinality(Users(g)) \in Nat
         /\ IsFiniteSet(Asleep(g)) /\ Cardinality(Asleep(g)) \in Nat
         /\ \A W \in SUBSET Asleep(g) : IsFiniteSet(W) /\ Cardinality(W) \in Nat
<1>1. Users(g) \subseteq Callers /\ Asleep(g) \subseteq Callers
  BY DEF TypeOK, Users, Woken, Asleep
<1>2. QED  BY <1>1, CallersAreFinite, FS_Subset, FS_CardinalityType

(* What the running caller c does to one gate, whichever step it takes.    *)
(* "given" and "taken" say whether it gives the slot it used back or takes *)
(* one, W whom it wakes.                                                   *)
LEMMA OneGate ==
  ASSUME IInv, NEW g \in Gates, NEW c \in Callers, NEW W, NEW most \in Nat,
         NEW given \in {0, 1}, NEW taken \in {0, 1},
         W \in First(g, most),
         c \notin Asleep(g),
         value'[g] = value[g] + given - taken - Cardinality(W),
         Users(g)' = IF taken = 1 THEN (Users(g) \union W) \union {c}
                     ELSE IF given = 1 THEN (Users(g) \ {c}) \union W
                     ELSE Users(g) \union W,
         given = 1 => c \in Users(g) /\ taken = 0,
         taken = 1 => c \notin Users(g) /\ value[g] > 0,
         most <= value[g] + given - taken
  PROVE  value'[g] \in 0..Limit /\ value'[g] + Cardinality(Users(g)') = Size(g)
<1>1. /\ W \subseteq Asleep(g) /\ Cardinality(W) <= most
      /\ value[g] \in 0..Limit /\ value[g] + Cardinality(Users(g)) = Size(g)
      /\ TypeOK
  BY DEF First, IInv, TypeOK, NoSlotLost
<1>2. /\ IsFiniteSet(Users(g)) /\ Cardinality(Users(g)) \in Nat
      /\ IsFiniteSet(W) /\ Cardinality(W) \in Nat
  BY <1>1, UsersAreFinite
<1>3. Users(g) \intersect W = {} /\ c \notin W
  <2>1. ASSUME NEW d \in W, d \in Users(g)  PROVE FALSE
    <3>1. d \in Callers /\ at[d] = g /\ d \notin woken /\ Waiting(d)
      BY <1>1, NoneIsNoGate DEF Asleep, Waiting
    <3>2. g \in held[d]
      BY <2>1, <3>1 DEF Users, Woken
    <3>3. QED  BY <3>1, <3>2 DEF IInv, Standing, Before
  <2>2. QED  BY <1>1, <2>1
<1>4. Cardinality(Users(g)') = Cardinality(Users(g)) + Cardinality(W) + taken - given
  <2>1. Users(g) \intersect W = {}
    BY <1>3
  <2> DEFINE U == Users(g)
             U1 == Users(g)'
  <2>2. /\ IsFiniteSet(U) /\ Cardinality(U) \in Nat /\ U \intersect W = {}
        /\ U1 = IF taken = 1 THEN (U \union W) \union {c}
                ELSE IF given = 1 THEN (U \ {c}) \union W
                ELSE U \union W
        /\ given = 1 => c \in U /\ taken = 0
        /\ taken = 1 => c \notin U
    BY <1>2, <2>1
  <2> HIDE DEF U, U1
  <2>3. /\ Cardinality(U \union W) = Cardinality(U) + Cardinality(W)
        /\ c \in U => Cardinality((U \ {c}) \union W) = Cardinality(U) - 1 + Cardinality(W)
        /\ c \notin U => Cardinality((U \union W) \union {c}) = Cardinality(U) + Cardinality(W) + 1
    BY <1>2, <1>3, <2>2, Count
  <2>4. Cardinality(U1) = Cardinality(U) + Cardinality(W) + taken - given
    BY <1>2, <2>2, <2>3
  <2>5. QED  BY <2>4 DEF U, U1
<1>5. Cardinality(Users(g)') \in Nat
  <2>1. IsFiniteSet(Users(g)')
    <3>1. IsFiniteSet(Users(g) \union W)
      BY <1>2, FS_Union
    <3>2. IsFiniteSet((Users(g) \union W) \union {c})
      BY <3>1, FS_AddElement
    <3>3. IsFiniteSet(Users(g) \ {c})
      BY <1>2, FS_RemoveElement
    <3>4. IsFiniteSet((Users(g) \ {c}) \union W)
      BY <1>2, <3>3, FS_Union
    <3>5. QED  BY <3>1, <3>2, <3>4
  <2>2. QED  BY <2>1, FS_CardinalityType
<1>6. Size(g) \in 0..Limit
  BY LimitIsPositive, ReservedBelowLimit DEF Size
<1>7. QED
  BY <1>1, <1>2, <1>4, <1>5, <1>6, LimitIsPositive

(* 1 if the gate is in G. *)
Unit(G, g) == IF g \in G THEN 1 ELSE 0

(* A step of c's task as Enter, Resume, GiveUp and Exit have them: it      *)
(* gives back, takes and hands over slots and does not touch the others.   *)
TaskStep(c, given, taken, most) ==
  /\ most \in [Gates -> Nat]
  /\ PassOn(c, given, taken, most)
  /\ \A g \in Gates : c \notin Asleep(g)
  /\ \A d \in Callers \ {c} : at'[d] = at[d] /\ held'[d] = held[d]
  /\ \A d \in Callers \ {c} : d \in cancelled' <=> d \in cancelled
  /\ \A g \in Gates :
       /\ g \in held'[c] <=> (c \in Users(g) /\ g \notin given) \/ g \in taken
       /\ g \in given => c \in Users(g) /\ g \notin taken /\ most[g] > 0
       /\ g \in taken => c \notin Users(g) /\ value[g] > 0
       /\ most[g] <= value[g] + Unit(given, g) - Unit(taken, g)
       /\ c \in Woken(g) => most[g] = value[g] + Unit(given, g) /\ g \notin taken
       /\ at'[c] = g => Busy(g) /\ g \notin given \union taken /\ c \notin Woken(g)

LEMMA TaskStepKeeps ==
  ASSUME IInv, NEW c \in Callers, NEW given, NEW taken, NEW most,
         TaskStep(c, given, taken, most)
  PROVE  /\ value' \in [Gates -> 0..Limit]
         /\ woken' \subseteq Callers \ {c}
         /\ \A d \in woken' : Waiting(d)'
         /\ NoSlotLost' /\ NoLostWakeup'
<1>1. PICK B \in First("background", most["background"]), E \in First("every", most["every"]) :
        /\ woken' = (woken \ {c}) \union B \union E
        /\ value' = [g \in Gates |->
                       value[g] + (IF g \in given THEN 1 ELSE 0)
                                - (IF g \in taken THEN 1 ELSE 0)
                                - [background |-> Cardinality(B), every |-> Cardinality(E)][g]]
  BY DEF TaskStep, PassOn
<1> DEFINE W(g) == IF g = "background" THEN B ELSE E
<1>2. ASSUME NEW g \in Gates
      PROVE  /\ W(g) \in First(g, most[g]) /\ W(g) \subseteq Asleep(g)
             /\ value'[g] = value[g] + Unit(given, g) - Unit(taken, g) - Cardinality(W(g))
             /\ W(g) \subseteq Callers /\ c \notin W(g)
  BY <1>1 DEF Unit, First, Asleep, TaskStep
<1>3. ASSUME NEW g \in Gates
      PROVE  Woken(g)' = (Woken(g) \ {c}) \union W(g)
  <2>1. \A d \in woken : d \in Callers
    BY DEF IInv, TypeOK
  <2>2. \A d \in B : at[d] = "background" /\ d \in Callers \ {c}
    BY <1>2 DEF Asleep
  <2>3. \A d \in E : at[d] = "every" /\ d \in Callers \ {c}
    BY <1>2 DEF Asleep
  <2>4. QED  BY <1>1, <2>1, <2>2, <2>3 DEF Woken, TaskStep
<1>4. ASSUME NEW g \in Gates
      PROVE  Users(g)' = IF g \in taken THEN (Users(g) \union W(g)) \union {c}
                         ELSE IF g \in given THEN (Users(g) \ {c}) \union W(g)
                         ELSE Users(g) \union W(g)
  <2>1. c \in Users(g)' <=> g \in held'[c]
    BY <1>2, <1>3 DEF Users
  <2>2. \A d \in Callers \ {c} : d \in Users(g)' <=> d \in Users(g) \union W(g)
    BY <1>3 DEF Users, TaskStep
  <2>3. /\ c \in Users(g)' <=> (c \in Users(g) /\ g \notin given) \/ g \in taken
        /\ g \in given => g \notin taken
    BY <2>1 DEF TaskStep
  <2>4. Users(g) \subseteq Callers /\ Users(g)' \subseteq Callers
    BY <1>2, <1>3 DEF Users, Woken, IInv, TypeOK
  <2>5. QED  BY <1>2, <2>2, <2>3, <2>4
<1>5. ASSUME NEW g \in Gates
      PROVE  value'[g] \in 0..Limit /\ value'[g] + Cardinality(Users(g)') = Size(g)
  <2>1. /\ most[g] \in Nat /\ c \notin Asleep(g)
        /\ Unit(given, g) \in {0, 1} /\ Unit(taken, g) \in {0, 1}
        /\ Unit(given, g) = 1 => c \in Users(g) /\ Unit(taken, g) = 0
        /\ Unit(taken, g) = 1 => c \notin Users(g) /\ value[g] > 0
        /\ most[g] <= value[g] + Unit(given, g) - Unit(taken, g)
    BY DEF TaskStep, Unit
  <2>2. Users(g)' = IF Unit(taken, g) = 1 THEN (Users(g) \union W(g)) \union {c}
                    ELSE IF Unit(given, g) = 1 THEN (Users(g) \ {c}) \union W(g)
                    ELSE Users(g) \union W(g)
    BY <1>4 DEF Unit
  <2> HIDE DEF W
  <2>3. QED  BY <1>2, <2>1, <2>2, OneGate
<1>6. NoSlotLost' /\ value' \in [Gates -> 0..Limit]
  BY <1>1, <1>5 DEF NoSlotLost, Size
<1>7. woken' \subseteq Callers \ {c} /\ \A d \in woken' : Waiting(d)'
  <2>1. \A d \in B \union E : d \in Callers \ {c} /\ at[d] \in Gates
    BY <1>2 DEF Asleep
  <2>2. \A d \in woken : d \in Callers /\ at[d] # None
    BY DEF IInv, TypeOK, Standing, Waiting
  <2>3. QED  BY <1>1, <2>1, <2>2, NoneIsNoGate DEF TaskStep, Waiting
<1>8. ASSUME NEW g \in Gates, Asleep(g)' # {}, Woken(g)' = {}
      PROVE  value'[g] = 0
  <2>1. /\ W(g) = {} /\ Woken(g) \subseteq {c}
        /\ value'[g] = value[g] + Unit(given, g) - Unit(taken, g)
    <3>1. W(g) = {} /\ Woken(g) \subseteq {c}
      BY <1>3, <1>8
    <3>2. Cardinality(W(g)) = 0
      BY <3>1, FS_EmptySet, Zenon
    <3>3. value[g] \in Nat
      BY DEF IInv, TypeOK
    <3>4. QED  BY <1>2, <3>1, <3>2, <3>3 DEF Unit
  <2>2. Asleep(g) = {} \/ most[g] = 0
    <3>1. {} \in First(g, most[g])
      BY <1>2, <2>1
    <3>2. {} # Asleep(g) => Cardinality({}) = most[g]
      BY <3>1 DEF First
    <3>3. QED  BY <3>2, FS_EmptySet
  <2>3. CASE at'[c] = g
    <3>1. Busy(g) /\ g \notin given \union taken /\ Woken(g) = {}
      BY <2>1, <2>3 DEF TaskStep
    <3>2. value[g] = 0
      BY <3>1 DEF Busy, IInv, NoLostWakeup
    <3>3. QED  BY <2>1, <3>1, <3>2 DEF Unit
  <2>4. CASE at'[c] # g
    <3>1. PICK d \in Callers : d \in Asleep(g)'
      BY <1>8 DEF Asleep
    <3>2. d # c /\ at[d] = g /\ d \notin cancelled /\ d \notin woken
      <4>1. d # c /\ at'[d] = g /\ d \notin cancelled' /\ d \notin woken'
        BY <2>4, <3>1 DEF Asleep
      <4>2. QED  BY <1>1, <4>1 DEF TaskStep
    <3>3. most[g] = 0 /\ d \in Asleep(g)
      BY <2>2, <3>2 DEF Asleep
    <3>4. g \notin given
      BY <3>3 DEF TaskStep
    <3>5. value[g] \in Nat
      BY DEF IInv, TypeOK
    <3>6. CASE Woken(g) = {}
      <4>1. value[g] = 0
        BY <3>3, <3>6 DEF IInv, NoLostWakeup
      <4>2. g \notin taken
        BY <4>1 DEF TaskStep
      <4>3. QED  BY <2>1, <3>4, <4>1, <4>2 DEF Unit
    <3>7. CASE Woken(g) # {}
      <4>1. c \in Woken(g)
        BY <2>1, <3>7
      <4>2. value[g] + Unit(given, g) = 0 /\ g \notin taken
        BY <3>3, <4>1 DEF TaskStep
      <4>3. QED  BY <2>1, <4>2 DEF Unit
    <3>8. QED  BY <3>6, <3>7
  <2>5. QED  BY <2>3, <2>4
<1>9. NoLostWakeup'
  BY <1>8 DEF NoLostWakeup
<1>10. QED  BY <1>6, <1>7, <1>9

-----------------------------------------------------------------------------
(* The invariant holds initially and every step keeps it. *)

LEMMA Initially == Init => IInv
<1> SUFFICES ASSUME Init PROVE IInv
  OBVIOUS
<1>1. TypeOK /\ Standing
  BY LimitIsPositive, ReservedBelowLimit, CallersAreFinite
  DEF Init, TypeOK, Standing, Waiting, Size
<1>2. ASSUME NEW g \in Gates
      PROVE  value[g] + Cardinality(Users(g)) = Size(g) /\ Asleep(g) = {}
  <2>1. Users(g) = {} /\ Asleep(g) = {} /\ value[g] = Size(g) /\ Size(g) \in Nat
    BY NoneIsNoGate, LimitIsPositive, ReservedBelowLimit DEF Init, Users, Woken, Asleep, Size
  <2>2. Cardinality(Users(g)) = 0
    BY <2>1, FS_EmptySet, Zenon
  <2>3. QED  BY <2>1, <2>2
<1>3. QED  BY <1>1, <1>2 DEF IInv, NoSlotLost, NoLostWakeup

LEMMA EnterStep ==
  ASSUME IInv, NEW c \in Callers, Enter(c)
  PROVE  IInv'
<1> USE NoneIsNoGate DEF Waiting, Inside
<1>1. /\ at[c] = None /\ held[c] = {} /\ c \notin woken /\ c \notin cancelled
      /\ value \in [Gates -> Nat] /\ cancelled' = cancelled
      /\ at \in [Callers -> Gates \union {None}] /\ held \in [Callers -> SUBSET Gates]
      /\ ahead \in [Callers -> SUBSET Callers]
  BY DEF Enter, IInv, TypeOK, Standing
<1>2. ASSUME NEW g \in Gates
      PROVE  c \notin Users(g) /\ c \notin Asleep(g) /\ c \notin Woken(g)
  BY <1>1 DEF Users, Asleep, Woken
<1>3. Needed(c) \subseteq Gates /\ OneEach({}) = [g \in Gates |-> 0]
  BY DEF Needed, OneEach
<1>4. CASE Passes(c, {}) /\ PassOn(c, {}, Needed(c), OneEach({}))
  <2>1. TaskStep(c, {}, Needed(c), OneEach({}))
    BY <1>1, <1>2, <1>3, <1>4 DEF TaskStep, Passes, Unit, Busy
  <2>2. /\ at' \in [Callers -> Gates \union {None}] /\ held' \in [Callers -> SUBSET Gates]
        /\ ahead' \in [Callers -> SUBSET Callers]
        /\ at'[c] = None /\ held'[c] = Needed(c)
    BY <1>1, <1>3, <1>4 DEF Passes
  <2>3. TypeOK' /\ Standing'
    BY <1>1, <2>1, <2>2, TaskStepKeeps DEF IInv, TypeOK, Standing, TaskStep
  <2>4. QED  BY <2>1, <2>3, TaskStepKeeps DEF IInv
<1>5. ASSUME NEW g \in Gates, Queues(c, {}, g), PassOn(c, {}, Before(c, g), OneEach({}))
      PROVE  IInv'
  <2>1. TaskStep(c, {}, Before(c, g), OneEach({}))
    <3>1. Before(c, g) \subseteq Gates \ {g}
      BY <1>3 DEF Before
    <3>2. QED  BY <1>1, <1>2, <1>3, <1>5, <3>1 DEF TaskStep, Queues, Unit, Busy
  <2>2. /\ at' \in [Callers -> Gates \union {None}] /\ held' \in [Callers -> SUBSET Gates]
        /\ ahead' \in [Callers -> SUBSET Callers]
        /\ at'[c] = g /\ held'[c] = Before(c, g) /\ g \in Needed(c)
    BY <1>1, <1>3, <1>5 DEF Queues, Before, Asleep
  <2>3. TypeOK' /\ Standing'
    BY <1>1, <2>1, <2>2, TaskStepKeeps DEF IInv, TypeOK, Standing, TaskStep
  <2>4. QED  BY <2>1, <2>3, TaskStepKeeps DEF IInv
<1>6. QED  BY <1>4, <1>5 DEF Enter

LEMMA ResumeStep ==
  ASSUME IInv, NEW c \in Callers, Resume(c)
  PROVE  IInv'
<1> USE NoneIsNoGate DEF Waiting
<1> DEFINE had == held[c] \union {at[c]}
           most == [g \in Gates |-> IF g = at[c] THEN value[g] ELSE 0]
<1>1. /\ c \in woken /\ c \notin cancelled /\ cancelled' = cancelled
      /\ at[c] \in Needed(c) /\ held[c] = Before(c, at[c])
      /\ value \in [Gates -> Nat]
      /\ at \in [Callers -> Gates \union {None}] /\ held \in [Callers -> SUBSET Gates]
      /\ ahead \in [Callers -> SUBSET Callers]
  BY DEF Resume, IInv, TypeOK, Standing
<1>2. ASSUME NEW g \in Gates
      PROVE  c \notin Asleep(g) /\ (c \in Users(g) <=> g \in had) /\ (c \in Woken(g) <=> g = at[c])
  BY <1>1 DEF Users, Asleep, Woken
<1>3. /\ Needed(c) \subseteq Gates /\ had \subseteq Needed(c)
      /\ at[c] \notin held[c] /\ most \in [Gates -> Nat]
  BY <1>1 DEF Needed, Before
<1>4. CASE Passes(c, had) /\ PassOn(c, {}, Needed(c) \ had, most)
  <2>1. TaskStep(c, {}, Needed(c) \ had, most)
    BY <1>1, <1>2, <1>3, <1>4 DEF TaskStep, Passes, Unit, Busy
  <2>2. /\ at' \in [Callers -> Gates \union {None}] /\ held' \in [Callers -> SUBSET Gates]
        /\ ahead' \in [Callers -> SUBSET Callers]
        /\ at'[c] = None /\ held'[c] = Needed(c)
    BY <1>1, <1>3, <1>4 DEF Passes
  <2> HIDE DEF had, most
  <2>3. TypeOK' /\ Standing'
    BY <1>1, <2>1, <2>2, TaskStepKeeps DEF IInv, TypeOK, Standing, TaskStep
  <2>4. QED  BY <2>1, <2>3, TaskStepKeeps DEF IInv
<1>5. ASSUME NEW g \in Gates, Queues(c, had, g), PassOn(c, {}, Before(c, g) \ had, most)
      PROVE  IInv'
  <2>1. /\ Before(c, g) \subseteq Gates \ {g} /\ g \notin had /\ g \in Needed(c)
        /\ had \union Before(c, g) = Before(c, g)
    BY <1>1, <1>3, <1>5 DEF Before, Queues, Needed
  <2>2. TaskStep(c, {}, Before(c, g) \ had, most)
    BY <1>1, <1>2, <1>3, <1>5, <2>1 DEF TaskStep, Queues, Unit, Busy
  <2>3. /\ at' \in [Callers -> Gates \union {None}] /\ held' \in [Callers -> SUBSET Gates]
        /\ ahead' \in [Callers -> SUBSET Callers]
        /\ at'[c] = g /\ held'[c] = Before(c, g) /\ g \in Needed(c)
    BY <1>1, <1>3, <1>5, <2>1 DEF Queues, Asleep
  <2> HIDE DEF had, most
  <2>4. TypeOK' /\ Standing'
    BY <1>1, <2>2, <2>3, TaskStepKeeps DEF IInv, TypeOK, Standing, TaskStep
  <2>5. QED  BY <2>2, <2>4, TaskStepKeeps DEF IInv
<1>6. QED  BY <1>4, <1>5 DEF Resume

LEMMA CancelStep ==
  ASSUME IInv, NEW c \in Callers, Cancel(c)
  PROVE  IInv'
<1>1. TypeOK' /\ Standing'
  BY DEF Cancel, IInv, TypeOK, Standing, Waiting
<1>2. ASSUME NEW g \in Gates
      PROVE  /\ Users(g)' = Users(g) /\ Woken(g)' = Woken(g) /\ value' = value
             /\ Asleep(g)' \subseteq Asleep(g) /\ Size(g)' = Size(g)
  BY DEF Cancel, Users, Woken, Asleep, Size
<1>3. ASSUME NEW g \in Gates
      PROVE  value'[g] + Cardinality(Users(g)') = Size(g)
  BY <1>2 DEF IInv, NoSlotLost
<1>4. NoSlotLost' /\ NoLostWakeup'
  BY <1>2, <1>3 DEF IInv, NoSlotLost, NoLostWakeup, Size
<1>5. QED  BY <1>1, <1>4 DEF IInv

LEMMA GiveUpStep ==
  ASSUME IInv, NEW c \in Callers, GiveUp(c)
  PROVE  IInv'
<1> USE NoneIsNoGate DEF Waiting
<1> DEFINE returned == IF c \in woken THEN {at[c]} ELSE {}
           given == returned \union held[c]
           most == [g \in Gates |->
                      IF g = at[c] THEN value[g] + (IF g \in returned THEN 1 ELSE 0)
                      ELSE IF g \in held[c] THEN 1 ELSE 0]
<1>1. /\ c \in cancelled /\ cancelled' = cancelled \ {c}
      /\ at[c] \in Needed(c) /\ held[c] = Before(c, at[c])
      /\ value \in [Gates -> Nat] /\ woken \subseteq Callers
      /\ at \in [Callers -> Gates \union {None}] /\ held \in [Callers -> SUBSET Gates]
      /\ ahead \in [Callers -> SUBSET Callers] /\ at[c] \in Gates
  BY DEF GiveUp, LeaveQueue, IInv, TypeOK, Standing, Needed
<1>2. ASSUME NEW g \in Gates
      PROVE  c \notin Asleep(g) /\ (c \in Users(g) <=> g \in given)
             /\ (c \in Woken(g) <=> g = at[c] /\ c \in woken)
  BY <1>1 DEF Users, Asleep, Woken
<1>3. /\ most \in [Gates -> Nat] /\ at[c] \notin held[c] /\ PassOn(c, given, {}, most)
      /\ at' = [at EXCEPT ![c] = None] /\ held' = [held EXCEPT ![c] = {}]
      /\ ahead' = [ahead EXCEPT ![c] = {}]
  BY <1>1 DEF Before, GiveUp, LeaveQueue
<1>4. TaskStep(c, given, {}, most)
  BY <1>1, <1>2, <1>3 DEF TaskStep, Unit
<1>5. /\ at' \in [Callers -> Gates \union {None}] /\ held' \in [Callers -> SUBSET Gates]
      /\ ahead' \in [Callers -> SUBSET Callers]
      /\ at'[c] = None /\ held'[c] = {}
  BY <1>1, <1>3
<1> HIDE DEF returned, given, most
<1>6. TypeOK' /\ Standing'
  BY <1>1, <1>4, <1>5, TaskStepKeeps DEF IInv, TypeOK, Standing, TaskStep
<1>7. QED  BY <1>4, <1>6, TaskStepKeeps DEF IInv

LEMMA ExitStep ==
  ASSUME IInv, NEW c \in Callers, Exit(c)
  PROVE  IInv'
<1> USE NoneIsNoGate DEF Waiting, Inside
<1>1. /\ at[c] = None /\ held[c] # {} /\ c \notin woken /\ c \notin cancelled
      /\ value \in [Gates -> Nat] /\ cancelled' = cancelled /\ at' = at /\ ahead' = ahead
      /\ held' = [held EXCEPT ![c] = {}] /\ held \in [Callers -> SUBSET Gates]
      /\ PassOn(c, held[c], {}, OneEach(held[c]))
  BY DEF Exit, IInv, TypeOK, Standing
<1>2. ASSUME NEW g \in Gates
      PROVE  c \notin Asleep(g) /\ c \notin Woken(g) /\ (c \in Users(g) <=> g \in held[c])
  BY <1>1 DEF Users, Asleep, Woken
<1>3. TaskStep(c, held[c], {}, OneEach(held[c]))
  BY <1>1, <1>2 DEF TaskStep, Unit, OneEach
<1>4. TypeOK' /\ Standing'
  BY <1>1, <1>3, TaskStepKeeps DEF IInv, TypeOK, Standing, TaskStep
<1>5. QED  BY <1>3, <1>4, TaskStepKeeps DEF IInv

LEMMA Inductive == IInv /\ [Next]_vars => IInv'
<1> SUFFICES ASSUME IInv, [Next]_vars PROVE IInv'
  OBVIOUS
<1>1. CASE UNCHANGED vars
  BY <1>1 DEF vars, IInv, TypeOK, Standing, NoSlotLost, NoLostWakeup, Users, Asleep, Woken,
              Waiting, Size, Needed, Before
<1>2. CASE Next
  BY <1>2, EnterStep, ResumeStep, CancelStep, GiveUpStep, ExitStep DEF Next
<1>3. QED  BY <1>1, <1>2

LEMMA Invariance == Spec => []IInv
<1>1. QED  BY Initially, Inductive, PTL DEF Spec

(* A background user of a slot holds a background slot, if there are any   *)
(* kept apart.                                                             *)
LEMMA BackgroundHoldsBoth ==
  ASSUME IInv, Reserved > 0
  PROVE  Users("every") \intersect Background \subseteq Users("background")
<1> SUFFICES ASSUME NEW c \in Users("every") \intersect Background
             PROVE  c \in Users("background")
  OBVIOUS
<1>2. c \in Callers /\ Needed(c) = Gates
  BY CallersAreFinite DEF Needed
<1>3. CASE "every" \in held[c]
  BY <1>2, <1>3 DEF IInv, Standing, Users, Before
<1>4. CASE at[c] = "every"
  BY <1>2, <1>4, NoneIsNoGate DEF IInv, Standing, Users, Before, Waiting
<1>5. QED  BY <1>3, <1>4 DEF Users, Woken

LEMMA BackgroundBound == IInv => BackgroundIsBounded
<1> SUFFICES ASSUME IInv PROVE BackgroundIsBounded
  OBVIOUS
<1> DEFINE B == Users("every") \intersect Background
<1>1. ASSUME NEW g \in Gates
      PROVE  Cardinality(Users(g)) <= Size(g) /\ IsFiniteSet(Users(g)) /\ Cardinality(Users(g)) \in Nat
  BY <1>1, UsersAreFinite, LimitIsPositive, ReservedBelowLimit
  DEF IInv, NoSlotLost, TypeOK, Size
<1>2. CASE Reserved = 0
  <2>1. Cardinality(B) <= Cardinality(Users("every")) /\ Cardinality(B) \in Nat
    BY <1>1, FS_Subset, FS_CardinalityType
  <2>2. QED  BY <1>1, <1>2, <2>1, LimitIsPositive DEF BackgroundIsBounded, Size
<1>3. CASE Reserved > 0
  <2>1. B \subseteq Users("background")
    BY <1>3, BackgroundHoldsBoth
  <2>2. Cardinality(B) <= Cardinality(Users("background")) /\ Cardinality(B) \in Nat
    BY <1>1, <2>1, FS_Subset, FS_CardinalityType
  <2>3. QED  BY <1>1, <2>2, LimitIsPositive, ReservedBelowLimit DEF BackgroundIsBounded, Size
<1>4. QED  BY <1>2, <1>3, ReservedBelowLimit

LEMMA ChatServed == IInv => ReservedServesChat
<1> SUFFICES ASSUME IInv, Asleep("every") # {}, Woken("every") = {}
             PROVE  Cardinality(Users("every") \ Background) >= Reserved
  BY DEF ReservedServesChat
<1> DEFINE U == Users("every")
<1>1. Cardinality(U) = Limit /\ IsFiniteSet(U)
  <2>1. value["every"] = 0
    BY DEF IInv, NoLostWakeup
  <2>2. QED  BY <2>1, UsersAreFinite DEF IInv, NoSlotLost, Size
<1>2. Cardinality(U \intersect Background) <= Limit - Reserved
  BY BackgroundBound DEF BackgroundIsBounded
<1>3. /\ IsFiniteSet(U \ Background) /\ IsFiniteSet(U \intersect Background)
      /\ Cardinality(U \ Background) \in Nat /\ Cardinality(U \intersect Background) \in Nat
  BY <1>1, FS_Subset, FS_CardinalityType
<1>4. Cardinality((U \ Background) \union (U \intersect Background))
        = Cardinality(U \ Background) + Cardinality(U \intersect Background)
  <2> DEFINE X == U \ Background
             Y == U \intersect Background
  <2>1. IsFiniteSet(X) /\ IsFiniteSet(Y) /\ X \intersect Y = {}
    BY <1>3
  <2> HIDE DEF X, Y
  <2>2. Cardinality(X \intersect Y) = 0
    BY <2>1, FS_EmptySet, Zenon
  <2>3. Cardinality(X \union Y) = Cardinality(X) + Cardinality(Y) - Cardinality(X \intersect Y)
    BY <2>1, FS_Union
  <2>4. Cardinality(X) \in Nat /\ Cardinality(Y) \in Nat
    BY <2>1, FS_CardinalityType
  <2>5. Cardinality(X \union Y) = Cardinality(X) + Cardinality(Y)
    BY <2>2, <2>3, <2>4
  <2>6. QED  BY <2>5 DEF X, Y
<1>5. Cardinality((U \ Background) \union (U \intersect Background)) = Limit
  <2>1. (U \ Background) \union (U \intersect Background) = U
    OBVIOUS
  <2>2. QED  BY <1>1, <2>1, Zenon
<1> HIDE DEF U
<1>6. Cardinality(U \ Background) >= Reserved
  BY <1>2, <1>3, <1>4, <1>5, LimitIsPositive, ReservedBelowLimit
<1>7. QED  BY <1>6 DEF U

-----------------------------------------------------------------------------
(* Every variable keeps its type: a semaphore's value stays between 0 and  *)
(* the limit.                                                              *)
THEOREM TypeCorrect == Spec => []TypeOK
<1>1. IInv => TypeOK
  BY DEF IInv
<1>2. QED  BY <1>1, Invariance, PTL

(* However waits time out while a slot is handed over, no slot is lost or  *)
(* given back twice.                                                       *)
THEOREM SlotsAreConserved == Spec => []NoSlotLost
<1>1. IInv => NoSlotLost
  BY DEF IInv
<1>2. QED  BY <1>1, Invariance, PTL

(* Background callers never exceed Limit - Reserved slots. *)
THEOREM BackgroundStaysBounded == Spec => []BackgroundIsBounded
<1>1. QED  BY BackgroundBound, Invariance, PTL

(* Whenever a caller sleeps at the last gate, chat has its reserved slots. *)
THEOREM ChatHasItsSlots == Spec => []ReservedServesChat
<1>1. QED  BY ChatServed, Invariance, PTL

-----------------------------------------------------------------------------
(* What is left of the limiter when one looks at its slots only. *)
In == {c \in Callers : Inside(c)}

(* A caller that finds a free slot, or was handed one, is not inside yet   *)
(* while fewer than Limit callers are.                                     *)
LEMMA RoomForOne ==
  ASSUME IInv, NEW c \in Callers, c \notin In, value["every"] # 0 \/ c \in Woken("every")
  PROVE  Cardinality(In) < Limit
<1> DEFINE U == Users("every")
<1>1. /\ IsFiniteSet(U) /\ Cardinality(U) \in Nat
      /\ value["every"] + Cardinality(U) = Limit /\ value["every"] \in 0..Limit
  BY UsersAreFinite DEF IInv, NoSlotLost, TypeOK, Size
<1>2. In \subseteq U
  BY DEF In, Inside, IInv, Standing, Waiting, Needed, Users
<1>3. CASE value["every"] # 0
  <2>1. Cardinality(In) <= Cardinality(U) /\ Cardinality(In) \in Nat
    BY <1>1, <1>2, FS_Subset, FS_CardinalityType, Zenon
  <2> HIDE DEF U
  <2>2. QED BY <1>1, <1>3, <2>1, LimitIsPositive
<1>4. CASE c \in Woken("every")
  <2>1. c \in U /\ In \subseteq U \ {c}
    BY <1>2, <1>4 DEF Users, Woken
  <2>2. IsFiniteSet(U \ {c}) /\ Cardinality(U \ {c}) = Cardinality(U) - 1
    BY <1>1, <2>1, FS_RemoveElement
  <2>3. Cardinality(In) <= Cardinality(U \ {c}) /\ Cardinality(In) \in Nat
    BY <2>1, <2>2, FS_Subset, FS_CardinalityType, Zenon
  <2> HIDE DEF U
  <2>4. QED BY <1>1, <2>2, <2>3, LimitIsPositive
<1>5. QED BY <1>3, <1>4

(* The cardinality of the abstract module is that of this one. *)
LEMMA SameCount == Promise!Cardinality(In) = Cardinality(In)
  BY Zenon DEF Promise!Cardinality, Cardinality

LEMMA SlotStep == IInv /\ [Next]_vars => [Promise!Next]_In
<1> SUFFICES ASSUME IInv, [Next]_vars PROVE [Promise!Next]_In
  OBVIOUS
<1> USE DEF IInv, TypeOK
<1>1. ASSUME NEW c \in Callers, NEW had, Passes(c, had), c \notin In,
             value["every"] # 0 \/ c \in Woken("every")
      PROVE  Promise!Next
  <2>1. In' = In \union {c}
    BY <1>1, NoneIsNoGate DEF Passes, In, Inside, Needed
  <2>2. QED BY <1>1, <2>1, RoomForOne, SameCount DEF Promise!Next, Promise!ComeIn, In
<1>2. ASSUME NEW c \in Callers, NEW had, NEW g, Queues(c, had, g), c \notin In
      PROVE  In' = In
  BY <1>2, NoneIsNoGate DEF Queues, In, Inside, Needed
<1>3. ASSUME NEW c \in Callers, Enter(c) PROVE [Promise!Next]_In
  <2>1. c \notin In
    BY <1>3 DEF Enter, In
  <2>2. CASE Passes(c, {})
    <3>1. value["every"] # 0
      BY <2>2 DEF Passes, Needed, Busy
    <3>2. QED BY <1>1, <2>1, <2>2, <3>1
  <2>3. CASE \E g \in Gates : Queues(c, {}, g)
    BY <1>2, <2>1, <2>3
  <2>4. QED BY <1>3, <2>2, <2>3 DEF Enter
<1>4. ASSUME NEW c \in Callers, Resume(c) PROVE [Promise!Next]_In
  <2> DEFINE had == held[c] \union {at[c]}
  <2>1. c \in woken /\ Waiting(c) /\ c \notin In
    BY <1>4 DEF Resume, Standing, In, Inside, Waiting
  <2>2. CASE Passes(c, had)
    <3>1. CASE at[c] = "every"
      BY <1>1, <2>1, <2>2, <3>1 DEF Woken
    <3>2. CASE at[c] # "every"
      <4>1. "every" \notin held[c]
        BY <2>1 DEF Standing, Before
      <4>2. value["every"] # 0
        BY <2>2, <3>2, <4>1 DEF Passes, Needed, Busy
      <4>3. QED BY <1>1, <2>1, <2>2, <4>2
    <3>3. QED BY <3>1, <3>2
  <2>3. CASE \E g \in Gates : Queues(c, had, g)
    BY <1>2, <2>1, <2>3
  <2>4. QED BY <1>4, <2>2, <2>3 DEF Resume
<1>5. ASSUME NEW c \in Callers, Cancel(c) PROVE In' = In
  BY <1>5 DEF Cancel, In, Inside
<1>6. ASSUME NEW c \in Callers, GiveUp(c) PROVE In' = In
  BY <1>6 DEF GiveUp, LeaveQueue, In, Inside, Standing, Waiting
<1>7. ASSUME NEW c \in Callers, Exit(c) PROVE Promise!Next
  <2>1. In' \in SUBSET In
    BY <1>7 DEF Exit, In, Inside
  <2>2. QED BY <2>1 DEF Promise!Next, Promise!GoOut, In
<1>8. CASE UNCHANGED vars
  BY <1>8 DEF vars, In, Inside
<1>9. QED BY <1>3, <1>4, <1>5, <1>6, <1>7, <1>8 DEF Next

(* Whoever waits, times out or is cancelled, and whichever slots are       *)
(* handed over meanwhile: callers come in while fewer than Limit are       *)
(* inside, as the modules of the provider calls and child runs presume.    *)
THEOREM SlotsArePromised == Spec => ImplementsSlots
<1>1. Init => In = {}
  BY NoneIsNoGate DEF Init, In, Inside
<1>2. QED BY <1>1, SlotStep, Invariance, PTL DEF Spec, ImplementsSlots, Promise!Spec, Promise!Init, In

(***************************************************************************)
(* II. The child processes.  The invariant says for each run where its     *)
(* child can be while its thread is at a step, and that a wait which ended *)
(* early has told the run.                                                 *)
(***************************************************************************)
\* A child exists from the spawn of its thread to the reaping, it has no request before the
\* thread sends it, and the run knows it from Register on.
ChildFollowsThread(r) ==
  /\ thread[r] \in {"none", "queued", "starting", "dropped"} => child[r] = "none"
  /\ thread[r] \in {"spawned", "dooming"} => child[r] # "parsing"
  /\ thread[r] \in {"served", "crashed", "done"} => child[r] \in {"none", "reaped"}
  /\ known[r] => thread[r] \notin {"none", "queued", "starting", "spawned", "dropped"}
  /\ thread[r] \in {"dooming", "sending", "reading", "served", "crashed"} => known[r]
  /\ await[r] = "new" => thread[r] = "none"

\* The flag is set, and a child that still lives has yet to meet it.
Told(r) == flag[r] /\ (Alive(r) => thread[r] \in {"spawned", "dooming"})

\* A wait ends with its thread, or tells the run before it gives up.
WaitsEndTold(r) ==
  /\ await[r] = "returned" => thread[r] = "done"
  /\ await[r] = "cancelled" \/ (await[r] = "killing" /\ r \notin todo /\ aim # r) => Told(r)
  /\ aim = r => flag[r]

\* A child exits after the last byte of its reply.
ReplyFollowsChild(r) ==
  /\ child[r] = "exited" => reply[r] = "whole"
  /\ thread[r] = "served" => reply[r] = "whole"
  /\ outcome[r] = "sections" => reply[r] = "whole"

RunInv(r) == ChildFollowsThread(r) /\ WaitsEndTold(r) /\ ReplyFollowsChild(r)
RunsInv == CTypeOK /\ \A r \in Runs : RunInv(r)

-----------------------------------------------------------------------------
LEMMA RunsInitially == CInit => RunsInv
<1> SUFFICES ASSUME CInit PROVE RunsInv
  OBVIOUS
<1>1. CTypeOK
  BY RunsAssumption DEF CInit, CTypeOK
<1>2. ASSUME NEW r \in Runs PROVE RunInv(r)
  BY <1>2, RunsAssumption DEF CInit, RunInv, ChildFollowsThread, WaitsEndTold, ReplyFollowsChild
<1>3. QED BY <1>1, <1>2 DEF RunsInv

LEMMA RunsTypeStep == CTypeOK /\ [CNext]_cvars => CTypeOK'
<1> SUFFICES ASSUME CTypeOK, [CNext]_cvars PROVE CTypeOK'
  OBVIOUS
<1> USE DEF CTypeOK, LoopIdle, LoopFree, To, Child, Alive, threadSide, childOnly, BusyThreads
<1>1. ASSUME NEW r \in Runs, Begin(r) PROVE CTypeOK'
  BY <1>1 DEF Begin
<1>2. ASSUME NEW r \in Runs, Return(r) PROVE CTypeOK'
  BY <1>2 DEF Return
<1>3. ASSUME NEW r \in Runs, CancelRun(r) PROVE CTypeOK'
  BY <1>3 DEF CancelRun
<1>4. ASSUME NEW r \in Runs, CancelChild(r) PROVE CTypeOK'
  BY <1>4 DEF CancelChild
<1>5. ASSUME NEW r \in Runs, Signal(r) PROVE CTypeOK'
  BY <1>5 DEF Signal
<1>6. ASSUME NEW r \in Runs, Forsake(r) PROVE CTypeOK'
  BY <1>6 DEF Forsake
<1>7. ASSUME NEW r \in Runs, Start(r) PROVE CTypeOK'
  BY <1>7 DEF Start
<1>8. ASSUME NEW r \in Runs, Spawn(r) PROVE CTypeOK'
  BY <1>8 DEF Spawn
<1>9. ASSUME NEW r \in Runs, SpawnFails(r) PROVE CTypeOK'
  BY <1>9 DEF SpawnFails
<1>10. ASSUME NEW r \in Runs, Register(r) PROVE CTypeOK'
  BY <1>10 DEF Register
<1>11. ASSUME NEW r \in Runs, Doom(r) PROVE CTypeOK'
  BY <1>11 DEF Doom, KillOwn
<1>12. ASSUME NEW r \in Runs, Send(r) PROVE CTypeOK'
  BY <1>12 DEF Send
<1>13. ASSUME NEW r \in Runs, TooLarge(r) PROVE CTypeOK'
  BY <1>13 DEF TooLarge, KillOwn
<1>14. ASSUME NEW r \in Runs, Reap(r) PROVE CTypeOK'
  BY <1>14 DEF Reap
<1>15. ASSUME NEW r \in Runs, Close(r) PROVE CTypeOK'
  BY <1>15 DEF Close
<1>16. ASSUME NEW r \in Runs, Write(r) PROVE CTypeOK'
  BY <1>16 DEF Write
<1>17. ASSUME NEW r \in Runs, ExitChild(r) PROVE CTypeOK'
  BY <1>17 DEF ExitChild
<1>18. ASSUME NEW r \in Runs, Crash(r) PROVE CTypeOK'
  BY <1>18 DEF Crash
<1>19. ASSUME NEW r \in Runs, Die(r) PROVE CTypeOK'
  BY <1>19 DEF Die
<1>20. CASE Stop
  BY <1>20 DEF Stop
<1>21. CASE DropExecutor
  BY <1>21 DEF DropExecutor
<1>22. CASE UNCHANGED cvars
  BY <1>22 DEF cvars
<1>23. QED
  BY <1>1, <1>2, <1>3, <1>4, <1>5, <1>6, <1>7, <1>8, <1>9, <1>10, <1>11, <1>12, <1>13, <1>14, <1>15, <1>16, <1>17, <1>18, <1>19, <1>20, <1>21, <1>22 DEF CNext, ThreadStep

\* Every step of the loop, of a thread and of a child keeps the three parts for every run.
LEMMA RunStep ==
  ASSUME RunsInv, [CNext]_cvars, NEW q \in Runs
  PROVE  RunInv(q)'
<1> USE RunsAssumption DEF RunsInv, RunInv, ChildFollowsThread, WaitsEndTold, ReplyFollowsChild, Told,
        CTypeOK, LoopIdle, LoopFree, To, Child, Alive, threadSide, childOnly
<1>1. ASSUME NEW r \in Runs, Begin(r) PROVE RunInv(q)'
  BY <1>1 DEF Begin
<1>2. ASSUME NEW r \in Runs, Return(r) PROVE RunInv(q)'
  BY <1>2 DEF Return
<1>3. ASSUME NEW r \in Runs, CancelRun(r) PROVE RunInv(q)'
  BY <1>3 DEF CancelRun
<1>4. ASSUME NEW r \in Runs, CancelChild(r) PROVE RunInv(q)'
  <2>1. UNCHANGED <<await, thread, child, reply, known, outcome>>
    BY <1>4 DEF CancelChild
  <2>2. CASE q = r
    <3>1. flag'[q] /\ q \notin todo'
      BY <1>4, <2>2 DEF CancelChild
    <3>2. aim' # q => ~known[q] \/ child[q] = "reaped"
      BY <1>4, <2>2 DEF CancelChild
    <3>3. QED BY <2>1, <3>1, <3>2
  <2>3. CASE q # r
    <3>1. flag'[q] = flag[q] /\ aim # q /\ aim' # q /\ (q \in todo <=> q \in todo')
      BY <1>4, <2>3 DEF CancelChild
    <3>2. QED BY <2>1, <3>1
  <2>4. QED BY <2>2, <2>3
<1>5. ASSUME NEW r \in Runs, Signal(r) PROVE RunInv(q)'
  <2>1. UNCHANGED <<await, thread, reply, flag, known, outcome, todo>> /\ aim' # q
    BY <1>5 DEF Signal
  <2>2. CASE q = r
    <3>1. flag[q] /\ child'[q] = IF Alive(q) THEN "dying" ELSE child[q]
      BY <1>5, <2>2 DEF Signal
    <3>2. QED BY <2>1, <3>1
  <2>3. CASE q # r
    <3>1. child'[q] = child[q] /\ aim # q
      BY <1>5, <2>3 DEF Signal
    <3>2. QED BY <2>1, <3>1
  <2>4. QED BY <2>2, <2>3
<1>6. ASSUME NEW r \in Runs, Forsake(r) PROVE RunInv(q)'
  BY <1>6 DEF Forsake
<1>7. ASSUME NEW r \in Runs, Start(r) PROVE RunInv(q)'
  BY <1>7 DEF Start
<1>8. ASSUME NEW r \in Runs, Spawn(r) PROVE RunInv(q)'
  BY <1>8 DEF Spawn
<1>9. ASSUME NEW r \in Runs, SpawnFails(r) PROVE RunInv(q)'
  BY <1>9 DEF SpawnFails
<1>10. ASSUME NEW r \in Runs, Register(r) PROVE RunInv(q)'
  BY <1>10 DEF Register
<1>11. ASSUME NEW r \in Runs, Doom(r) PROVE RunInv(q)'
  BY <1>11 DEF Doom, KillOwn
<1>12. ASSUME NEW r \in Runs, Send(r) PROVE RunInv(q)'
  BY <1>12 DEF Send
<1>13. ASSUME NEW r \in Runs, TooLarge(r) PROVE RunInv(q)'
  BY <1>13 DEF TooLarge, KillOwn
<1>14. ASSUME NEW r \in Runs, Reap(r) PROVE RunInv(q)'
  BY <1>14 DEF Reap
<1>15. ASSUME NEW r \in Runs, Close(r) PROVE RunInv(q)'
  BY <1>15 DEF Close
<1>16. ASSUME NEW r \in Runs, Write(r) PROVE RunInv(q)'
  BY <1>16 DEF Write
<1>17. ASSUME NEW r \in Runs, ExitChild(r) PROVE RunInv(q)'
  BY <1>17 DEF ExitChild
<1>18. ASSUME NEW r \in Runs, Crash(r) PROVE RunInv(q)'
  BY <1>18 DEF Crash
<1>19. ASSUME NEW r \in Runs, Die(r) PROVE RunInv(q)'
  BY <1>19 DEF Die
<1>20. CASE Stop
  BY <1>20 DEF Stop
<1>21. CASE DropExecutor
  BY <1>21 DEF DropExecutor
<1>22. CASE UNCHANGED cvars
  BY <1>22 DEF cvars
<1>23. QED
  BY <1>1, <1>2, <1>3, <1>4, <1>5, <1>6, <1>7, <1>8, <1>9, <1>10, <1>11, <1>12, <1>13, <1>14, <1>15, <1>16, <1>17, <1>18, <1>19, <1>20, <1>21, <1>22 DEF CNext, ThreadStep

LEMMA RunsInvariant == CSpec => []RunsInv
<1>1. RunsInv /\ [CNext]_cvars => RunsInv'
  BY RunsTypeStep, RunStep DEF RunsInv
<1>2. QED BY <1>1, RunsInitially, PTL DEF CSpec

\* Every variable of the child runs keeps its type.
THEOREM RunsTypeCorrect == CSpec => []CTypeOK
<1>1. RunsInv => CTypeOK
  BY DEF RunsInv
<1>2. QED BY <1>1, RunsInvariant, PTL

\* A child that was not killed works under a CPU slot: a slot is given back while its child
\* still lives only to a child that has no request yet and will be killed before it gets one.
THEOREM ChildrenHoldTheirSlots == CSpec => []UnkilledChildHoldsASlot
<1>1. RunsInv => UnkilledChildHoldsASlot
  <2> SUFFICES ASSUME RunsInv, NEW r \in Runs, Alive(r), ~HoldsSlot(r)
               PROVE  flag[r] /\ child[r] = "idle" /\ thread[r] \in {"spawned", "dooming"}
    BY DEF UnkilledChildHoldsASlot
  <2>1. RunInv(r) /\ CTypeOK
    BY DEF RunsInv
  <2>2. await[r] \in {"returned", "cancelled"}
    BY <2>1 DEF RunInv, ChildFollowsThread, CTypeOK, HoldsSlot, Alive
  <2>3. await[r] = "cancelled" /\ Told(r)
    BY <2>1, <2>2 DEF RunInv, ChildFollowsThread, WaitsEndTold, Alive
  <2>4. QED BY <2>1, <2>3 DEF RunInv, ChildFollowsThread, Told, Alive
<1>2. QED BY <1>1, RunsInvariant, PTL

\* Sections come of a whole reply only: whatever crashed or was killed half way through its
\* reply, the caller is told an error.
RepliesAreWhole == \A r \in Runs : outcome[r] = "sections" => reply[r] = "whole"

\* sections_from_outcome never reads a part of a reply, whenever the child ended or was killed.
THEOREM OnlyWholeReplies == CSpec => []RepliesAreWhole
<1>1. RunsInv => RepliesAreWhole
  BY DEF RunsInv, RunInv, ReplyFollowsChild, RepliesAreWhole
<1>2. QED BY <1>1, RunsInvariant, PTL

\* The child runs take and give back CPU slots as the limiter promises them.
THEOREM RunsUseTheirSlots == CSpec => UsesItsSlots
<1>1. CInit => Holders = {}
  BY DEF CInit, Holders, HoldsSlot
<1>2. CTypeOK /\ [CNext]_cvars => [CpuSlots!Next]_Holders
  <2> SUFFICES ASSUME CTypeOK, [CNext]_cvars PROVE [CpuSlots!Next]_Holders
    OBVIOUS
  <2> USE DEF CTypeOK, Holders, HoldsSlot
  <2>1. ASSUME NEW r \in Runs, Begin(r) PROVE CpuSlots!Next
    <3>1. r \notin Holders /\ Holders' = Holders \union {r} /\ Cardinality(Holders) < Workers
      BY <2>1 DEF Begin
    <3>2. CpuSlots!Cardinality(Holders) = Cardinality(Holders)
      BY Zenon DEF CpuSlots!Cardinality, Cardinality
    <3>3. QED BY <3>1, <3>2 DEF CpuSlots!Next, CpuSlots!ComeIn
  <2>2. ASSUME NEW r \in Runs, Return(r) \/ Forsake(r) PROVE CpuSlots!Next
    <3>1. Holders' \in SUBSET Holders
      BY <2>2 DEF Return, Forsake
    <3>2. QED BY <3>1 DEF CpuSlots!Next, CpuSlots!GoOut
  <2>3. ASSUME NEW r \in Runs, CancelRun(r) PROVE Holders' = Holders
    BY <2>3 DEF CancelRun
  <2>4. CASE UNCHANGED await
    BY <2>4
  <2>5. ASSUME NEW r \in Runs, CancelChild(r) \/ Signal(r) \/ ThreadStep(r) \/ Write(r) \/ ExitChild(r)
                               \/ Crash(r) \/ Die(r)
        PROVE  UNCHANGED await
    BY <2>5 DEF CancelChild, Signal, ThreadStep, Start, Spawn, SpawnFails, Register, Doom, KillOwn, Send,
                TooLarge, Reap, Close, Write, ExitChild, Crash, Die, childOnly, threadSide
  <2>6. Stop \/ DropExecutor \/ UNCHANGED cvars => UNCHANGED await
    BY DEF Stop, DropExecutor, cvars
  <2>7. QED BY <2>1, <2>2, <2>3, <2>4, <2>5, <2>6 DEF CNext
<1>3. QED BY <1>1, <1>2, RunsTypeCorrect, PTL DEF CSpec, UsesItsSlots, CpuSlots!Spec, CpuSlots!Init
=============================================================================
