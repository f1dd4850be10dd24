------------------------ MODULE CourseDesign_proofs ------------------------
(***************************************************************************)
(* Proofs about CourseDesign, for any sections, batches, caps and grant.   *)
(***************************************************************************)
EXTENDS CourseDesign, FiniteSetTheorems, TLAPS

(* A job is between two awaits exactly when the event loop runs it. *)
OneRuns ==
  /\ \A j \in Jobs : job[j] = "ready" <=> running = j
  /\ running # NoJob => request = "running"

(* What was billed and what may still be is within the grant; a token the   *)
(* ledger misses, but for estimates, is known to be missing, and no call    *)
(* follows it.                                                              *)
SpendKnown ==
  /\ spent + reserved <= Allowance
  /\ output - over <= spent
  /\ spent # output - over => ~complete
  /\ spent # output - over => failure # NoJob \/ late \/ request \in {"stopping", "failed"}

(* The stages come one after the other. *)
StagesInOrder ==
  /\ job[Reduce] # "waiting" => \A s \in Sections : Settled(s)
  /\ \A b \in Batches : job[b] # "waiting" => Settled(Reduce)
  /\ job[W4] # "waiting" => \A b \in Batches : Settled(b)
  /\ request = "answered" => \A j \in Jobs : Settled(j)

NotCalled(j) == job[j] = "waiting" \/ (job[j] = "ready" /\ attempt[j] = 1)

(* Until a later stage makes its first call, its share is free, but for    *)
(* what estimates booked beyond the bill.                                  *)
SharesKept ==
  /\ NotCalled(Reduce) =>
       output + reserved <= Allowance + over - Minimum(ReduceCap) - Minimum(W2Cap) - Minimum(W4Cap)
  /\ (\A b \in Batches : NotCalled(b)) =>
       output + reserved <= Allowance + over - Minimum(W2Cap) - Minimum(W4Cap)
  /\ NotCalled(W4) => output + reserved <= Allowance + over - Minimum(W4Cap)

(* After a provider failure no later stage is written by the provider. *)
FailureIsSticky ==
  failure \in Sections \cup {Reduce} =>
    /\ failure \in Sections => job[Reduce] \in {"waiting", "ready", "fallback"}
    /\ failure = Reduce => job[Reduce] = "fallback"
    /\ \A j \in Batches \cup {W4} : job[j] \in {"waiting", "ready", "fallback"}

IInv == TypeOK /\ OneRuns /\ SpendKnown /\ StagesInOrder /\ SharesKept /\ FailureIsSticky
-----------------------------------------------------------------------------
LEMMA MinimumIsPositive ==
  ASSUME NEW c \in Nat \ {0}
  PROVE  Minimum(c) \in Nat /\ Minimum(c) >= 1
BY DEF Minimum

(* The shares of the later stages, and the caps, by the stage of the job. *)
LEMMA Shares ==
  /\ \A s \in Sections : Tail(s) = Minimum(ReduceCap) + Minimum(W2Cap) + Minimum(W4Cap) /\ StageCap(s) = MapCap
  /\ Tail(Reduce) = Minimum(W2Cap) + Minimum(W4Cap) /\ StageCap(Reduce) = ReduceCap
  /\ \A b \in Batches : Tail(b) = Minimum(W4Cap) /\ StageCap(b) = W2Cap
  /\ Tail(W4) = 0 /\ StageCap(W4) = W4Cap
BY JobsAssumption DEF Tail, StageCap

LEMMA Minima ==
  /\ Minimum(MapCap) \in Nat /\ Minimum(MapCap) >= 1
  /\ Minimum(ReduceCap) \in Nat /\ Minimum(ReduceCap) >= 1
  /\ Minimum(W2Cap) \in Nat /\ Minimum(W2Cap) >= 1
  /\ Minimum(W4Cap) \in Nat /\ Minimum(W4Cap) >= 1
BY CapsAssumption, MinimumIsPositive

(* The cap granted to a call fits in what is left beside the later stages. *)
LEMMA GrantFits ==
  ASSUME TypeOK, NEW j \in Jobs, Admitted(j)
  PROVE  /\ GrantedCap(j) \in Nat
         /\ output + reserved + GrantedCap(j) <= Allowance - Tail(j)
         /\ Tail(j) \in Nat
<1>1. StageCap(j) \in Nat /\ Tail(j) \in Nat /\ Minimum(StageCap(j)) \in Nat
  BY Shares, Minima, CapsAssumption DEF Jobs
<1>2. Available(j) \in Int /\ Available(j) >= Minimum(StageCap(j))
      /\ Available(j) = Allowance - output - reserved - Tail(j)
  BY <1>1, AllowanceAssumption DEF TypeOK, Available, Admitted, Affordable
<1>3. QED  BY <1>1, <1>2, AllowanceAssumption DEF TypeOK, GrantedCap

(* What an answered call books, and what a lost one leaves unbooked. *)
LEMMA Booked ==
  ASSUME TypeOK, NEW j \in Jobs, Book(j)
  PROVE  /\ reserved' = reserved - cap[j] /\ cap' = [cap EXCEPT ![j] = 0] /\ cap[j] \in Nat
         /\ output' \in Nat /\ spent' \in Nat /\ over' \in Nat
         /\ spent' + reserved' <= spent + reserved
         /\ output' - over' <= spent' <=> output - over <= spent
         /\ spent' # output' - over' <=> spent # output - over
         /\ output' - output <= cap[j] + (over' - over) /\ over <= over'
<1>1. PICK n \in 0 .. cap[j], m \in Nat :
        /\ Return(j, IF m < n THEN m ELSE n)
        /\ output' = output + m
        /\ over' = over + (IF m > n THEN m - n ELSE 0)
  BY EstimateAssumption DEF Book, TypeOK
<1>2. cap[j] \in Nat /\ n \in Nat /\ n <= cap[j]
  BY <1>1 DEF TypeOK
<1>3. /\ reserved' = reserved - cap[j] /\ cap' = [cap EXCEPT ![j] = 0]
      /\ spent' = spent + (IF m < n THEN m ELSE n)
  BY <1>1 DEF Return
<1>4. QED  BY <1>1, <1>2, <1>3 DEF TypeOK

LEMMA Lost ==
  ASSUME TypeOK, NEW j \in Jobs, NEW most \in Nat, most <= cap[j], Lose(j, most)
  PROVE  /\ reserved' = reserved - cap[j] /\ cap' = [cap EXCEPT ![j] = 0] /\ cap[j] \in Nat
         /\ output' = output /\ over' = over /\ complete' = FALSE
         /\ \E n \in Nat : n <= most /\ spent' = spent + n
<1>1. PICK n \in 0 .. most : Return(j, n)
  BY DEF Lose
<1>2. QED  BY <1>1 DEF Lose, Return, TypeOK

LEMMA Initially == Init => IInv
<1> SUFFICES ASSUME Init PROVE IInv
  OBVIOUS
<1> USE DEF Init
<1>8. complete \in BOOLEAN /\ late \in BOOLEAN
  BY Zenon
<1>9. job \in [Jobs -> {"waiting"}] /\ attempt \in [Jobs -> {1}] /\ cap \in [Jobs -> {0}]
  OBVIOUS
<1>1. TypeOK
  BY <1>8, <1>9 DEF TypeOK
<1>6. SpendKnown
  BY AllowanceAssumption DEF SpendKnown
<1>7. OneRuns
  BY JobsAssumption DEF OneRuns
<1>2. Reduce \in Jobs /\ W4 \in Jobs /\ Sections \subseteq Jobs /\ Batches \subseteq Jobs
  BY DEF Jobs
<1>3. StagesInOrder /\ FailureIsSticky
  BY <1>2, JobsAssumption DEF StagesInOrder, FailureIsSticky, Jobs
<1>4. SharesKept
  BY Minima, AllowanceAssumption DEF SharesKept
<1>5. QED  BY <1>1, <1>3, <1>4, <1>6, <1>7 DEF IInv
-----------------------------------------------------------------------------
(* Every step keeps the invariant. *)

LEMMA DispatchStep ==
  ASSUME IInv, NEW j \in Jobs, Dispatch(j)
  PROVE  IInv'
<1> USE DEF Dispatch, ledger
<1>0. TypeOK /\ OneRuns /\ SpendKnown /\ StagesInOrder /\ SharesKept /\ FailureIsSticky
  BY DEF IInv
<1>1. /\ GrantedCap(j) \in Nat /\ Tail(j) \in Nat
      /\ output + reserved + GrantedCap(j) <= Allowance - Tail(j)
  BY <1>0, GrantFits
<1>2. failure = NoJob /\ ~late /\ request = "running" /\ job[j] = "ready"
  BY <1>0, JobsAssumption DEF Admitted, OneRuns
<1>3. TypeOK'
  BY <1>0, <1>1 DEF TypeOK
<1>4. OneRuns'
  BY <1>0, JobsAssumption DEF OneRuns, TypeOK
<1>5. SpendKnown'
  BY <1>0, <1>1, <1>2, AllowanceAssumption DEF SpendKnown, TypeOK
<1>6. StagesInOrder'
  BY <1>0, <1>2, JobsAssumption DEF StagesInOrder, TypeOK, Settled, Jobs
<1>7. SharesKept'
  <2>1. CASE j \in Sections
    BY <1>0, <1>1, <2>1, Shares, Minima, AllowanceAssumption DEF SharesKept, TypeOK
  <2>2. CASE j = Reduce
    BY <1>0, <1>1, <2>2, Shares, Minima, AllowanceAssumption, JobsAssumption
    DEF SharesKept, NotCalled, TypeOK
  <2>3. CASE j \in Batches
    <3>1. ~NotCalled(Reduce)'
      BY <1>0, <1>2, <2>3, JobsAssumption DEF StagesInOrder, NotCalled, Settled, TypeOK, Jobs
    <3>2. ~NotCalled(j)'
      BY <1>0 DEF NotCalled, TypeOK
    <3>3. QED  BY <1>0, <1>1, <2>3, <3>1, <3>2, Shares, Minima, AllowanceAssumption DEF SharesKept, TypeOK
  <2>4. CASE j = W4
    <3>1. \A b \in Batches : ~NotCalled(b)'
      BY <1>0, <1>2, <2>4, JobsAssumption DEF StagesInOrder, NotCalled, Settled, TypeOK, Jobs
    <3>2. ~NotCalled(Reduce)'
      <4>1. PICK b \in Batches : Settled(b)
        BY <1>0, <1>2, <2>4, JobsAssumption DEF StagesInOrder
      <4>2. Settled(Reduce)
        BY <1>0, <4>1 DEF StagesInOrder, Settled
      <4>3. QED  BY <1>0, <2>4, <4>2, JobsAssumption DEF NotCalled, Settled, TypeOK, Jobs
    <3>3. ~NotCalled(W4)'
      BY <1>0, <2>4 DEF NotCalled, TypeOK
    <3>4. QED  BY <3>1, <3>2, <3>3, JobsAssumption DEF SharesKept
  <2>5. QED  BY <2>1, <2>2, <2>3, <2>4 DEF Jobs
<1>8. FailureIsSticky'
  BY <1>2, JobsAssumption DEF FailureIsSticky, Jobs
<1>9. QED  BY <1>3, <1>4, <1>5, <1>6, <1>7, <1>8 DEF IInv

LEMMA StartStep ==
  ASSUME IInv, NEW j \in Jobs, Start(j)
  PROVE  IInv'
<1> USE DEF Start, ledger, Idle
<1>0. TypeOK /\ OneRuns /\ SpendKnown /\ StagesInOrder /\ SharesKept /\ FailureIsSticky
  BY DEF IInv
<1>1. TypeOK'
  BY <1>0 DEF TypeOK
<1>2. OneRuns'
  BY <1>0, JobsAssumption DEF OneRuns, TypeOK
<1>3. SpendKnown'
  BY <1>0, AllowanceAssumption DEF SpendKnown, TypeOK
<1>4. StagesInOrder'
  <2>1. /\ j = Reduce => \A s \in Sections : Settled(s)
        /\ j \in Batches \cup {W4} => Settled(Reduce)
        /\ j = W4 => \A b \in Batches : Settled(b)
    BY JobsAssumption DEF Open
  <2>2. \A i \in Jobs : Settled(i) => Settled(i)'
    BY <1>0 DEF Settled, TypeOK
  <2>3. \A i \in Jobs : i # j => job'[i] = job[i]
    BY <1>0 DEF TypeOK
  <2>4. request' # "answered" /\ Reduce \in Jobs /\ W4 \in Jobs
        /\ Sections \subseteq Jobs /\ Batches \subseteq Jobs
    BY DEF Jobs
  <2>5. job'[Reduce] # "waiting" => \A s \in Sections : Settled(s)'
    BY <1>0, <2>1, <2>2, <2>3, <2>4 DEF StagesInOrder
  <2>6. \A b \in Batches : job'[b] # "waiting" => Settled(Reduce)'
    BY <1>0, <2>1, <2>2, <2>3, <2>4 DEF StagesInOrder
  <2>7. job'[W4] # "waiting" => \A b \in Batches : Settled(b)'
    BY <1>0, <2>1, <2>2, <2>3, <2>4 DEF StagesInOrder
  <2>8. QED  BY <2>4, <2>5, <2>6, <2>7 DEF StagesInOrder
<1>5. SharesKept'
  BY <1>0, Minima, AllowanceAssumption, JobsAssumption DEF SharesKept, NotCalled, TypeOK, Jobs
<1>6. FailureIsSticky'
  BY <1>0, JobsAssumption DEF FailureIsSticky, TypeOK, Jobs
<1>7. QED  BY <1>1, <1>2, <1>3, <1>4, <1>5, <1>6 DEF IInv

LEMMA RefuseStep ==
  ASSUME IInv, NEW j \in Jobs, Refuse(j)
  PROVE  IInv'
<1> USE DEF Refuse, ledger
<1>0. TypeOK /\ OneRuns /\ SpendKnown /\ StagesInOrder /\ SharesKept /\ FailureIsSticky
  BY DEF IInv
<1>1. TypeOK'
  BY <1>0 DEF TypeOK
<1>2. OneRuns'
  BY <1>0, JobsAssumption DEF OneRuns, TypeOK
<1>3. SpendKnown'
  BY <1>0, AllowanceAssumption DEF SpendKnown, TypeOK
<1>4. StagesInOrder'
  <2>1. job[j] = "ready"
    BY <1>0 DEF OneRuns
  <2>2. QED  BY <1>0, <2>1, JobsAssumption DEF StagesInOrder, TypeOK, Settled, Jobs
<1>5. SharesKept'
  BY <1>0, Minima, AllowanceAssumption, JobsAssumption DEF SharesKept, NotCalled, TypeOK, Jobs
<1>6. FailureIsSticky'
  BY <1>0, JobsAssumption DEF FailureIsSticky, TypeOK, Jobs
<1>7. QED  BY <1>1, <1>2, <1>3, <1>4, <1>5, <1>6 DEF IInv

LEMMA SkipStep ==
  ASSUME IInv, SkipW4
  PROVE  IInv'
<1> USE DEF SkipW4, ledger, Idle
<1>0. TypeOK /\ OneRuns /\ SpendKnown /\ StagesInOrder /\ SharesKept /\ FailureIsSticky
  BY DEF IInv
<1>1. TypeOK'
  BY <1>0 DEF TypeOK
<1>2. OneRuns'
  BY <1>0, JobsAssumption DEF OneRuns, TypeOK
<1>3. SpendKnown'
  BY <1>0, AllowanceAssumption DEF SpendKnown, TypeOK
<1>4. StagesInOrder'
  BY <1>0, JobsAssumption DEF StagesInOrder, TypeOK, Settled, Jobs, Open
<1>5. SharesKept'
  BY <1>0, Minima, AllowanceAssumption, JobsAssumption DEF SharesKept, NotCalled, TypeOK, Jobs
<1>6. FailureIsSticky'
  BY <1>0, JobsAssumption DEF FailureIsSticky, TypeOK, Jobs
<1>7. QED  BY <1>1, <1>2, <1>3, <1>4, <1>5, <1>6 DEF IInv

LEMMA AcceptStep ==
  ASSUME IInv, NEW j \in Jobs, Accept(j)
  PROVE  IInv'
<1> USE DEF Accept, Calling, Idle, ledger
<1>0. TypeOK /\ OneRuns /\ SpendKnown /\ StagesInOrder /\ SharesKept /\ FailureIsSticky
  BY DEF IInv
<1>a. /\ reserved' = reserved - cap[j] /\ cap' = [cap EXCEPT ![j] = 0] /\ cap[j] \in Nat
      /\ output' \in Nat /\ spent' \in Nat /\ over' \in Nat
      /\ spent' + reserved' <= spent + reserved
      /\ output' - over' <= spent' <=> output - over <= spent
      /\ spent' # output' - over' <=> spent # output - over
      /\ output' - output <= cap[j] + (over' - over) /\ over <= over'
  BY <1>0, Booked
<1>1. TypeOK'
  BY <1>0, <1>a DEF TypeOK
<1>2. OneRuns'
  BY <1>0, JobsAssumption DEF OneRuns, TypeOK
<1>3. SpendKnown'
  <2>1. complete' = complete /\ failure' = failure /\ late' = late /\ request' = request
    OBVIOUS
  <2>2. spent' + reserved' \in Int /\ spent + reserved \in Int
    BY <1>0, <1>a DEF TypeOK
  <2>3. spent' + reserved' <= Allowance
    BY <1>0, <1>a, <2>2, AllowanceAssumption DEF SpendKnown
  <2>4. output' - over' <= spent' /\ (spent' # output' - over' => spent # output - over)
    BY <1>0, <1>a, Zenon DEF SpendKnown
  <2>5. spent' # output' - over'
          => ~complete' /\ (failure' # NoJob \/ late' \/ request' \in {"stopping", "failed"})
    BY <1>0, <2>1, <2>4 DEF SpendKnown
  <2>6. QED  BY <2>3, <2>4, <2>5 DEF SpendKnown
<1>4. StagesInOrder'
  BY <1>0, JobsAssumption DEF StagesInOrder, TypeOK, Settled, Jobs
<1>5. SharesKept'
  BY <1>0, <1>a, Minima, AllowanceAssumption, JobsAssumption DEF SharesKept, NotCalled, TypeOK, Jobs
<1>6. FailureIsSticky'
  BY <1>0, JobsAssumption DEF FailureIsSticky, StagesInOrder, Settled, TypeOK, Jobs
<1>7. QED  BY <1>1, <1>2, <1>3, <1>4, <1>5, <1>6 DEF IInv

LEMMA RejectStep ==
  ASSUME IInv, NEW j \in Jobs, Reject(j)
  PROVE  IInv'
<1> USE DEF Reject, Calling, Idle, ledger
<1>0. TypeOK /\ OneRuns /\ SpendKnown /\ StagesInOrder /\ SharesKept /\ FailureIsSticky
  BY DEF IInv
<1>a. /\ reserved' = reserved - cap[j] /\ cap' = [cap EXCEPT ![j] = 0] /\ cap[j] \in Nat
      /\ output' \in Nat /\ spent' \in Nat /\ over' \in Nat
      /\ spent' + reserved' <= spent + reserved
      /\ output' - over' <= spent' <=> output - over <= spent
      /\ spent' # output' - over' <=> spent # output - over
      /\ output' - output <= cap[j] + (over' - over) /\ over <= over'
  BY <1>0, Booked
<1>1. TypeOK'
  BY <1>0, <1>a DEF TypeOK
<1>2. OneRuns'
  BY <1>0, JobsAssumption DEF OneRuns, TypeOK
<1>3. SpendKnown'
  <2>1. complete' = complete /\ failure' = failure /\ late' = late /\ request' = request
    OBVIOUS
  <2>2. spent' + reserved' \in Int /\ spent + reserved \in Int
    BY <1>0, <1>a DEF TypeOK
  <2>3. spent' + reserved' <= Allowance
    BY <1>0, <1>a, <2>2, AllowanceAssumption DEF SpendKnown
  <2>4. output' - over' <= spent' /\ (spent' # output' - over' => spent # output - over)
    BY <1>0, <1>a, Zenon DEF SpendKnown
  <2>5. spent' # output' - over'
          => ~complete' /\ (failure' # NoJob \/ late' \/ request' \in {"stopping", "failed"})
    BY <1>0, <2>1, <2>4 DEF SpendKnown
  <2>6. QED  BY <2>3, <2>4, <2>5 DEF SpendKnown
<1>4. StagesInOrder'
  BY <1>0, JobsAssumption DEF StagesInOrder, TypeOK, Settled, Jobs
<1>5. SharesKept'
  BY <1>0, <1>a, Minima, AllowanceAssumption, JobsAssumption DEF SharesKept, NotCalled, TypeOK, Jobs
<1>6. FailureIsSticky'
  BY <1>0, JobsAssumption DEF FailureIsSticky, StagesInOrder, Settled, TypeOK, Jobs
<1>7. QED  BY <1>1, <1>2, <1>3, <1>4, <1>5, <1>6 DEF IInv

LEMMA TransientStep ==
  ASSUME IInv, NEW j \in Jobs, Transient(j)
  PROVE  IInv'
<1> USE DEF Transient, Calling, Idle, ledger
<1>0. TypeOK /\ OneRuns /\ SpendKnown /\ StagesInOrder /\ SharesKept /\ FailureIsSticky
  BY DEF IInv
<1>l. cap[j] \in Nat /\ cap[j] <= cap[j]
  BY <1>0 DEF TypeOK
<1>a. /\ reserved' = reserved - cap[j] /\ cap' = [cap EXCEPT ![j] = 0] /\ cap[j] \in Nat
      /\ output' = output /\ over' = over /\ complete' = FALSE
      /\ \E n \in Nat : n <= cap[j] /\ spent' = spent + n
  BY <1>0, <1>l, Lost
<1>b. PICK n \in Nat : n <= cap[j] /\ spent' = spent + n
  BY <1>a
<1>d. complete' \in BOOLEAN /\ ~complete'
  BY <1>a, Zenon
<1>1. TypeOK'
  BY <1>0, <1>a, <1>b, <1>d DEF TypeOK
<1>2. OneRuns'
  BY <1>0, JobsAssumption DEF OneRuns, TypeOK
<1>3. SpendKnown'
  BY <1>0, <1>a, <1>b, <1>d, AllowanceAssumption, JobsAssumption DEF SpendKnown, TypeOK
<1>4. StagesInOrder'
  BY <1>0, JobsAssumption DEF StagesInOrder, TypeOK, Settled, Jobs
<1>5. SharesKept'
  BY <1>0, <1>a, <1>b, Minima, AllowanceAssumption, JobsAssumption DEF SharesKept, NotCalled, TypeOK, Jobs
<1>6. FailureIsSticky'
  BY <1>0, JobsAssumption DEF FailureIsSticky, StagesInOrder, Settled, TypeOK, Jobs
<1>7. QED  BY <1>1, <1>2, <1>3, <1>4, <1>5, <1>6 DEF IInv

LEMMA TerminalStep ==
  ASSUME IInv, NEW j \in Jobs, Terminal(j)
  PROVE  IInv'
<1> USE DEF Terminal, Calling, Idle, ledger
<1>0. TypeOK /\ OneRuns /\ SpendKnown /\ StagesInOrder /\ SharesKept /\ FailureIsSticky
  BY DEF IInv
<1>l. (IF late THEN cap[j] ELSE 0) \in Nat /\ (IF late THEN cap[j] ELSE 0) <= cap[j]
  BY <1>0 DEF TypeOK
<1>a. /\ reserved' = reserved - cap[j] /\ cap' = [cap EXCEPT ![j] = 0] /\ cap[j] \in Nat
      /\ output' = output /\ over' = over /\ complete' = FALSE
      /\ \E n \in Nat : n <= (IF late THEN cap[j] ELSE 0) /\ spent' = spent + n
  BY <1>0, <1>l, Lost
<1>b. PICK n \in Nat : n <= cap[j] /\ spent' = spent + n /\ (~late => n = 0)
  BY <1>0, <1>a DEF TypeOK
<1>d. complete' \in BOOLEAN /\ ~complete'
  BY <1>a, Zenon
<1>1. TypeOK'
  BY <1>0, <1>a, <1>b, <1>d DEF TypeOK
<1>2. OneRuns'
  BY <1>0, JobsAssumption DEF OneRuns, TypeOK
<1>3. SpendKnown'
  BY <1>0, <1>a, <1>b, <1>d, AllowanceAssumption DEF SpendKnown, TypeOK
<1>4. StagesInOrder'
  BY <1>0, JobsAssumption DEF StagesInOrder, TypeOK, Settled, Jobs
<1>5. SharesKept'
  BY <1>0, <1>a, <1>b, Minima, AllowanceAssumption, JobsAssumption DEF SharesKept, NotCalled, TypeOK, Jobs
<1>6. FailureIsSticky'
  BY <1>0, JobsAssumption DEF FailureIsSticky, StagesInOrder, Settled, TypeOK, Jobs
<1>7. QED  BY <1>1, <1>2, <1>3, <1>4, <1>5, <1>6 DEF IInv

LEMMA UnwindStep ==
  ASSUME IInv, NEW j \in Jobs, Unwind(j)
  PROVE  IInv'
<1> USE DEF Unwind, Calling, ledger
<1>0. TypeOK /\ OneRuns /\ SpendKnown /\ StagesInOrder /\ SharesKept /\ FailureIsSticky
  BY DEF IInv
<1>l. cap[j] \in Nat /\ cap[j] <= cap[j]
  BY <1>0 DEF TypeOK
<1>a. /\ reserved' = reserved - cap[j] /\ cap' = [cap EXCEPT ![j] = 0] /\ cap[j] \in Nat
      /\ output' = output /\ over' = over /\ complete' = FALSE
      /\ \E n \in Nat : n <= cap[j] /\ spent' = spent + n
  BY <1>0, <1>l, Lost
<1>b. PICK n \in Nat : n <= cap[j] /\ spent' = spent + n
  BY <1>a
<1>d. complete' \in BOOLEAN /\ ~complete'
  BY <1>a, Zenon
<1>1. TypeOK'
  BY <1>0, <1>a, <1>b, <1>d DEF TypeOK
<1>2. OneRuns'
  BY <1>0, JobsAssumption DEF OneRuns, TypeOK
<1>3. SpendKnown'
  BY <1>0, <1>a, <1>b, <1>d, AllowanceAssumption DEF SpendKnown, TypeOK
<1>4. StagesInOrder'
  BY <1>0, JobsAssumption DEF StagesInOrder, TypeOK, Settled, Jobs
<1>5. SharesKept'
  BY <1>0, <1>a, <1>b, Minima, AllowanceAssumption, JobsAssumption DEF SharesKept, NotCalled, TypeOK, Jobs
<1>6. FailureIsSticky'
  BY <1>0, JobsAssumption DEF FailureIsSticky, StagesInOrder, Settled, TypeOK, Jobs
<1>7. QED  BY <1>1, <1>2, <1>3, <1>4, <1>5, <1>6 DEF IInv

LEMMA TimeStep ==
  ASSUME IInv, TimePasses
  PROVE  IInv'
<1> USE DEF TimePasses, ledger
<1>0. TypeOK /\ OneRuns /\ SpendKnown /\ StagesInOrder /\ SharesKept /\ FailureIsSticky
  BY DEF IInv
<1>1. TypeOK'
  BY <1>0 DEF TypeOK
<1>2. OneRuns'
  BY <1>0, JobsAssumption DEF OneRuns, TypeOK
<1>3. SpendKnown'
  BY <1>0, AllowanceAssumption DEF SpendKnown, TypeOK
<1>4. StagesInOrder'
  BY <1>0, JobsAssumption DEF StagesInOrder, TypeOK, Settled, Jobs
<1>5. SharesKept'
  BY <1>0, Minima, AllowanceAssumption, JobsAssumption DEF SharesKept, NotCalled, TypeOK, Jobs
<1>6. FailureIsSticky'
  BY <1>0, JobsAssumption DEF FailureIsSticky, TypeOK, Jobs
<1>7. QED  BY <1>1, <1>2, <1>3, <1>4, <1>5, <1>6 DEF IInv

LEMMA StopStep ==
  ASSUME IInv, Stop
  PROVE  IInv'
<1> USE DEF Stop, ledger, Idle
<1>0. TypeOK /\ OneRuns /\ SpendKnown /\ StagesInOrder /\ SharesKept /\ FailureIsSticky
  BY DEF IInv
<1>1. TypeOK'
  BY <1>0 DEF TypeOK
<1>2. OneRuns'
  BY <1>0, JobsAssumption DEF OneRuns, TypeOK
<1>3. SpendKnown'
  BY <1>0, AllowanceAssumption DEF SpendKnown, TypeOK
<1>4. StagesInOrder'
  BY <1>0, JobsAssumption DEF StagesInOrder, TypeOK, Settled, Jobs
<1>5. SharesKept'
  BY <1>0, Minima, AllowanceAssumption, JobsAssumption DEF SharesKept, NotCalled, TypeOK, Jobs
<1>6. FailureIsSticky'
  BY <1>0, JobsAssumption DEF FailureIsSticky, TypeOK, Jobs
<1>7. QED  BY <1>1, <1>2, <1>3, <1>4, <1>5, <1>6 DEF IInv

LEMMA FailStep ==
  ASSUME IInv, Fail
  PROVE  IInv'
<1> USE DEF Fail, ledger
<1>0. TypeOK /\ OneRuns /\ SpendKnown /\ StagesInOrder /\ SharesKept /\ FailureIsSticky
  BY DEF IInv
<1>1. TypeOK'
  BY <1>0 DEF TypeOK
<1>2. OneRuns'
  BY <1>0, JobsAssumption DEF OneRuns, TypeOK
<1>3. SpendKnown'
  BY <1>0, AllowanceAssumption DEF SpendKnown, TypeOK
<1>4. StagesInOrder'
  BY <1>0, JobsAssumption DEF StagesInOrder, TypeOK, Settled, Jobs
<1>5. SharesKept'
  BY <1>0, Minima, AllowanceAssumption, JobsAssumption DEF SharesKept, NotCalled, TypeOK, Jobs
<1>6. FailureIsSticky'
  BY <1>0, JobsAssumption DEF FailureIsSticky, TypeOK, Jobs
<1>7. QED  BY <1>1, <1>2, <1>3, <1>4, <1>5, <1>6 DEF IInv

LEMMA AnswerStep ==
  ASSUME IInv, Answer
  PROVE  IInv'
<1> USE DEF Answer, ledger, Idle
<1>0. TypeOK /\ OneRuns /\ SpendKnown /\ StagesInOrder /\ SharesKept /\ FailureIsSticky
  BY DEF IInv
<1>1. TypeOK'
  BY <1>0 DEF TypeOK
<1>2. OneRuns'
  BY <1>0, JobsAssumption DEF OneRuns, TypeOK
<1>3. SpendKnown'
  BY <1>0, AllowanceAssumption DEF SpendKnown, TypeOK
<1>4. StagesInOrder'
  BY <1>0, JobsAssumption DEF StagesInOrder, TypeOK, Settled, Jobs
<1>5. SharesKept'
  BY <1>0, Minima, AllowanceAssumption, JobsAssumption DEF SharesKept, NotCalled, TypeOK, Jobs
<1>6. FailureIsSticky'
  BY <1>0, JobsAssumption DEF FailureIsSticky, TypeOK, Jobs
<1>7. QED  BY <1>1, <1>2, <1>3, <1>4, <1>5, <1>6 DEF IInv

LEMMA NextStep == IInv /\ [Next]_vars => IInv'
<1> SUFFICES ASSUME IInv, [Next]_vars PROVE IInv'
  OBVIOUS
<1>1. ASSUME NEW j \in Jobs, JobStep(j) PROVE IInv'
  BY <1>1, StartStep, DispatchStep, RefuseStep, AcceptStep, RejectStep, TransientStep,
     TerminalStep, UnwindStep DEF JobStep
<1>2. CASE SkipW4 \/ TimePasses \/ Stop \/ Fail \/ Answer
  BY <1>2, SkipStep, TimeStep, StopStep, FailStep, AnswerStep
<1>3. CASE UNCHANGED vars
  BY <1>3 DEF IInv, vars, ledger, TypeOK, OneRuns, SpendKnown, StagesInOrder, SharesKept,
              FailureIsSticky, NotCalled, Settled
<1>4. QED  BY <1>1, <1>2, <1>3 DEF Next

(* The ledger, the shares of the stages and the sticky failure, together,  *)
(* hold in every reachable state.                                          *)
THEOREM Invariant == Spec => []IInv
BY Initially, NextStep, PTL DEF Spec
-----------------------------------------------------------------------------
(* Every variable keeps its type, for any number of sections and batches.   *)
THEOREM TypeCorrect == Spec => []TypeOK
<1>1. IInv => TypeOK
  BY DEF IInv
<1>2. QED  BY <1>1, Invariant, PTL

(* Whatever calls overlap, fail or are cancelled, the provider never bills  *)
(* more output than Node granted the task, estimates that are too low left  *)
(* aside.                                                                   *)
THEOREM SpendStaysBounded == Spec => []SpendIsBounded
<1>1. IInv => SpendIsBounded
  BY DEF IInv, SpendKnown, SpendIsBounded
<1>2. QED  BY <1>1, Invariant, PTL

(* W1 reduce, the first W2 batch and W4 always find room for one call, but  *)
(* for what estimates booked beyond the bill.                               *)
THEOREM ShareIsGuaranteed == Spec => []LaterStagesKeepTheirShare
<1>1. IInv => LaterStagesKeepTheirShare
  <2> SUFFICES ASSUME IInv, NEW j \in Jobs, running = j, attempt[j] = 1, j \notin Sections,
                      j \in Batches => \A b \in Batches \ {j} : job[b] = "waiting"
               PROVE  Available(j) + over >= Minimum(StageCap(j))
    BY DEF LaterStagesKeepTheirShare
  <2>0. TypeOK /\ OneRuns /\ SharesKept
    BY DEF IInv
  <2>1. NotCalled(j)
    BY <2>0 DEF OneRuns, NotCalled
  <2>2. CASE j = Reduce
    BY <2>0, <2>1, <2>2, Shares, Minima, AllowanceAssumption
    DEF SharesKept, Available, TypeOK
  <2>3. CASE j \in Batches
    <3>1. \A b \in Batches : NotCalled(b)
      BY <2>1, <2>3 DEF NotCalled
    <3>2. QED  BY <2>0, <2>3, <3>1, Shares, Minima, AllowanceAssumption
               DEF SharesKept, Available, TypeOK
  <2>4. CASE j = W4
    BY <2>0, <2>1, <2>4, Shares, Minima, AllowanceAssumption
    DEF SharesKept, Available, TypeOK
  <2>5. QED  BY <2>2, <2>3, <2>4 DEF Jobs
<1>2. QED  BY <1>1, Invariant, PTL

(* An answer that says its usage comes from the provider misses no call     *)
(* that was billed: only local estimates may differ from the bill.          *)
THEOREM UsageStaysTruthful == Spec => []UsageIsTruthful
<1>1. IInv => UsageIsTruthful
  BY DEF IInv, SpendKnown, UsageIsTruthful, UsageComplete
<1>2. QED  BY <1>1, Invariant, PTL

(* A course whose provider was lost before the blueprint needs a review.    *)
THEOREM LossIsReviewed == Spec => []LostProviderIsReviewed
<1>1. IInv => LostProviderIsReviewed
  <2> SUFFICES ASSUME IInv, request = "answered", failure \in Sections \cup {Reduce}
               PROVE  Reviewable
    BY DEF LostProviderIsReviewed
  <2>0. TypeOK /\ StagesInOrder /\ FailureIsSticky
    BY DEF IInv
  <2>1. \A j \in Jobs : job[j] \in {"provider", "fallback"}
    BY <2>0 DEF StagesInOrder, Settled
  <2>2. job[Reduce] = "fallback" /\ job[W4] = "fallback"
    BY <2>0, <2>1 DEF FailureIsSticky, Jobs
  <2>3. FellBack({Reduce}) # {} /\ FellBack({W4}) # {}
    BY <2>2 DEF FellBack
  <2>4. QED  BY <2>3 DEF Reviewable, FallbackStages
<1>2. QED  BY <1>1, Invariant, PTL
-----------------------------------------------------------------------------
(* What is reserved, token by token: the ledger's counter is the size of   *)
(* this set, so that nothing is reserved when no call is in flight.        *)
TokensOf(j) == {j} \X (1 .. cap[j])
Tokens == {t \in Jobs \X Nat : t[2] \in 1 .. cap[t[1]]}

ReservationsKnown ==
  /\ IsFiniteSet(Tokens) /\ Cardinality(Tokens) = reserved
  /\ \A j \in Jobs : ~Calling(j) => cap[j] = 0
  /\ request \in {"answered", "failed"} => \A j \in Jobs : ~Calling(j)

LEMMA TokensOfAreCapMany ==
  ASSUME NEW j, NEW c \in Nat
  PROVE  IsFiniteSet({j} \X (1 .. c)) /\ Cardinality({j} \X (1 .. c)) = c
<1>1. IsFiniteSet({j}) /\ Cardinality({j}) = 1
  BY FS_Singleton
<1>2. IsFiniteSet(1 .. c) /\ Cardinality(1 .. c) = c
  BY FS_Interval
<1>3. /\ IsFiniteSet({j} \X (1 .. c))
      /\ Cardinality({j} \X (1 .. c)) = Cardinality({j}) * Cardinality(1 .. c)
  BY <1>1, <1>2, FS_Product, Zenon
<1>4. 1 * c = c
  OBVIOUS
<1>5. QED  BY <1>1, <1>2, <1>3, <1>4, Zenon

LEMMA GrantIsReserved ==
  ASSUME TypeOK, ReservationsKnown, NEW j \in Jobs, NEW c \in Nat, cap[j] = 0,
         cap' = [cap EXCEPT ![j] = c]
  PROVE  IsFiniteSet(Tokens') /\ Cardinality(Tokens') = reserved + c
<1>1. Tokens' = Tokens \cup ({j} \X (1 .. c)) /\ Tokens \cap ({j} \X (1 .. c)) = {}
  BY DEF Tokens, TypeOK
<1>2. IsFiniteSet({j} \X (1 .. c)) /\ Cardinality({j} \X (1 .. c)) = c
  BY TokensOfAreCapMany
<1>3. IsFiniteSet(Tokens) /\ Cardinality(Tokens) = reserved /\ reserved \in Int
  BY DEF ReservationsKnown, TypeOK
<1>4. QED  BY <1>1, <1>2, <1>3, FS_Union, FS_EmptySet

LEMMA ReturnReleases ==
  ASSUME TypeOK, ReservationsKnown, NEW j \in Jobs, cap' = [cap EXCEPT ![j] = 0]
  PROVE  IsFiniteSet(Tokens') /\ Cardinality(Tokens') = reserved - cap[j]
<1>1. cap[j] \in Nat
  BY DEF TypeOK
<1>2. Tokens' = Tokens \ TokensOf(j) /\ Tokens \cap TokensOf(j) = TokensOf(j)
  BY <1>1 DEF Tokens, TokensOf, TypeOK
<1>3. IsFiniteSet(TokensOf(j)) /\ Cardinality(TokensOf(j)) = cap[j]
  BY <1>1, TokensOfAreCapMany DEF TokensOf
<1>4. IsFiniteSet(Tokens) /\ Cardinality(Tokens) = reserved
  BY DEF ReservationsKnown
<1>5. /\ IsFiniteSet(Tokens \ TokensOf(j))
      /\ Cardinality(Tokens \ TokensOf(j)) = Cardinality(Tokens) - Cardinality(Tokens \cap TokensOf(j))
  BY <1>4, FS_Difference, Zenon
<1>6. QED  BY <1>2, <1>3, <1>4, <1>5, Zenon

(* A step that starts and ends no call. *)
LEMMA SameReservations ==
  ASSUME TypeOK, ReservationsKnown, UNCHANGED <<cap, reserved>>,
         \A j \in Jobs : Calling(j)' <=> Calling(j),
         request' \in {"answered", "failed"} => \A j \in Jobs : ~Calling(j)
  PROVE  ReservationsKnown'
<1>1. Tokens' = Tokens
  BY DEF Tokens
<1>2. QED  BY <1>1 DEF ReservationsKnown

LEMMA DispatchReserves ==
  ASSUME IInv, ReservationsKnown, NEW j \in Jobs, Dispatch(j)
  PROVE  ReservationsKnown'
<1>0. TypeOK /\ OneRuns
  BY DEF IInv
<1>1. GrantedCap(j) \in Nat
  BY <1>0, GrantFits DEF Dispatch
<1>2. job[j] = "ready" /\ request = "running"
  BY <1>0, JobsAssumption DEF OneRuns, Dispatch
<1>3. cap[j] = 0
  BY <1>2 DEF ReservationsKnown, Calling
<1>4. IsFiniteSet(Tokens') /\ Cardinality(Tokens') = reserved'
  BY <1>0, <1>1, <1>3, GrantIsReserved DEF Dispatch
<1>5. \A i \in Jobs : ~Calling(i)' => cap'[i] = 0
  BY <1>0 DEF Dispatch, ReservationsKnown, Calling, TypeOK
<1>6. request' = "running"
  BY <1>2 DEF Dispatch
<1>7. QED  BY <1>4, <1>5, <1>6 DEF ReservationsKnown

(* However a call ends, its whole reservation goes with it. *)
LEMMA CallEndReleases ==
  ASSUME IInv, ReservationsKnown, NEW j \in Jobs, NEW n, Return(j, n), Calling(j), ~Calling(j)',
         \A i \in Jobs : i # j => job'[i] = job[i],
         request' = request, request \in {"running", "stopping"}
  PROVE  ReservationsKnown'
<1>0. TypeOK
  BY DEF IInv
<1>1. IsFiniteSet(Tokens') /\ Cardinality(Tokens') = reserved'
  BY <1>0, ReturnReleases DEF Return
<1>2. \A i \in Jobs : ~Calling(i)' => cap'[i] = 0
  BY <1>0 DEF Return, ReservationsKnown, Calling, TypeOK
<1>3. QED  BY <1>1, <1>2 DEF ReservationsKnown

LEMMA JobKeepsReservations ==
  ASSUME IInv, ReservationsKnown, NEW j \in Jobs, JobStep(j)
  PROVE  ReservationsKnown'
<1>0. TypeOK /\ OneRuns
  BY DEF IInv
<1>1. CASE Start(j) \/ Refuse(j)
  <2>1. job[j] \in {"waiting", "ready"} /\ job'[j] \in {"ready", "fallback"}
        /\ \A i \in Jobs : i # j => job'[i] = job[i]
    BY <1>0, <1>1 DEF Start, Refuse, OneRuns, TypeOK
  <2>2. UNCHANGED <<cap, reserved, request>>
    BY <1>1 DEF Start, Refuse, ledger
  <2>3. QED  BY <1>0, <2>1, <2>2, SameReservations DEF Calling, ReservationsKnown
<1>2. CASE Dispatch(j)
  BY <1>2, DispatchReserves
<1>3. CASE Accept(j) \/ Reject(j) \/ Transient(j) \/ Terminal(j) \/ Unwind(j)
  <2>1. PICK n : Return(j, n)
    BY <1>3 DEF Accept, Reject, Transient, Terminal, Unwind, Book, Lose
  <2>2. Calling(j) /\ ~Calling(j)' /\ \A i \in Jobs : i # j => job'[i] = job[i]
    BY <1>0, <1>3 DEF Accept, Reject, Transient, Terminal, Unwind, Calling, TypeOK
  <2>3. request' = request /\ request \in {"running", "stopping"}
    BY <1>3 DEF Accept, Reject, Transient, Terminal, Unwind, Idle
  <2>4. QED  BY <2>1, <2>2, <2>3, CallEndReleases
<1>4. QED  BY <1>1, <1>2, <1>3 DEF JobStep

(* When the request ends no call is in flight and nothing stays reserved.  *)
THEOREM NothingIsLeftReserved == Spec => []NothingOutlivesTheRequest
<1>1. Init => ReservationsKnown
  <2> SUFFICES ASSUME Init PROVE ReservationsKnown
    OBVIOUS
  <2>1. Tokens = {}
    BY DEF Init, Tokens
  <2>2. QED  BY <2>1, FS_EmptySet DEF Init, ReservationsKnown, Calling
<1>2. IInv /\ ReservationsKnown /\ [Next]_vars => ReservationsKnown'
  <2> SUFFICES ASSUME IInv, ReservationsKnown, [Next]_vars PROVE ReservationsKnown'
    OBVIOUS
  <2>0. TypeOK /\ StagesInOrder
    BY DEF IInv
  <2>1. ASSUME NEW j \in Jobs, JobStep(j) PROVE ReservationsKnown'
    BY <2>1, JobKeepsReservations
  <2>2. CASE SkipW4
    <3>1. \A j \in Jobs : Calling(j)' <=> Calling(j)
      BY <2>0, <2>2 DEF SkipW4, Calling, TypeOK, Jobs
    <3>2. UNCHANGED <<cap, reserved, request>> /\ request = "running"
      BY <2>2 DEF SkipW4, ledger, Idle
    <3>3. QED  BY <2>0, <3>1, <3>2, SameReservations
  <2>3. CASE TimePasses \/ Stop \/ Fail \/ Answer
    <3>1. UNCHANGED <<job, cap, reserved>>
      BY <2>3 DEF TimePasses, Stop, Fail, Answer, ledger
    <3>2. request' \in {"answered", "failed"} => \A j \in Jobs : ~Calling(j)
      BY <2>3 DEF TimePasses, Stop, Fail, Answer, Settled, Calling
    <3>3. QED  BY <2>0, <3>1, <3>2, SameReservations DEF Calling
  <2>4. CASE UNCHANGED vars
    <3>1. UNCHANGED <<job, cap, reserved, request>>
      BY <2>4 DEF vars, ledger
    <3>2. QED  BY <2>0, <3>1, SameReservations DEF Calling, ReservationsKnown
  <2>5. QED  BY <2>1, <2>2, <2>3, <2>4 DEF Next
<1>3. TypeOK /\ ReservationsKnown => NothingOutlivesTheRequest
  <2> SUFFICES ASSUME TypeOK, ReservationsKnown, request \in {"answered", "failed"}
               PROVE  (\A j \in Jobs : ~Calling(j)) /\ reserved = 0
    BY DEF NothingOutlivesTheRequest
  <2>1. \A j \in Jobs : ~Calling(j) /\ cap[j] = 0
    BY DEF ReservationsKnown
  <2>2. Tokens = {}
    BY <2>1 DEF Tokens
  <2>3. QED  BY <2>1, <2>2, FS_EmptySet DEF ReservationsKnown
<1>4. IInv => TypeOK
  BY DEF IInv
<1>5. QED  BY <1>1, <1>2, <1>3, <1>4, Invariant, PTL DEF Spec
=============================================================================
