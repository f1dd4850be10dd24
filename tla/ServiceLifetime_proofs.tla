------------------------ MODULE ServiceLifetime_proofs ------------------------
(***************************************************************************)
(* Proofs about ServiceLifetime, for any number of requests.               *)
(***************************************************************************)
EXTENDS ServiceLifetime, FiniteSetTheorems, TLAPS

(* How a request and its app go together, whatever the server does. *)
RequestLife(r) ==
  /\ outer[r] \in {"none", "buffering"} => app[r] = "none"
  /\ app[r] = "none" => row[r] = "none"
  /\ app[r] \in {"none", "working", "holding"} => write[r] = "none" /\ ~shielded[r]
  /\ app[r] = "recording" => write[r] # "none"
  /\ write[r] = "written" => row[r] = "closed"
  /\ app[r] = "done" /\ write[r] = "none" => row[r] # "running"

(* ... and as long as uvicorn cancels nothing: only a request whose caller *)
(* hung up is cancelled, once, and it waits for its app.                   *)
Undisturbed(r) ==
  /\ ~cancelled[r]
  /\ interrupted[r] => outer[r] = "finishing" /\ Working(r)
  /\ shielded[r] => outer[r] \in {"finishing", "ended"} /\ ~interrupted[r]
  /\ Writing(r) => app[r] = "recording"
  /\ outer[r] = "ended" => ~Working(r)

(* The lifespan ends after uvicorn, and the pool with the lifespan. *)
InOrder ==
  /\ database \in {"closing", "closed"} => server \in {"closing", "stopped"}
  /\ ~expired /\ server \in {"leaving", "draining", "closing", "stopped"}
       => \A r \in Requests : ~Live(r)

IInv ==
  /\ TypeOK
  /\ \A r \in Requests : RequestLife(r)
  /\ ~expired => \A r \in Requests : Undisturbed(r)
  /\ InOrder
-----------------------------------------------------------------------------
LEMMA Initially == Init => IInv
<1> SUFFICES ASSUME Init PROVE IInv
  OBVIOUS
<1>1. expired \in BOOLEAN
  BY Zenon DEF Init
<1>2. TypeOK
  BY <1>1 DEF Init, TypeOK
<1>3. ASSUME NEW r \in Requests PROVE RequestLife(r) /\ Undisturbed(r)
  BY <1>3 DEF Init, RequestLife, Undisturbed, Working, Writing
<1>4. InOrder
  BY DEF Init, InOrder
<1>5. QED  BY <1>2, <1>3, <1>4 DEF IInv

LEMMA ArriveStep ==
  ASSUME IInv, NEW r \in Requests, Arrive(r) PROVE IInv'
<1>0. TypeOK /\ RequestLife(r) /\ (~expired => Undisturbed(r)) /\ InOrder
  BY DEF IInv
<1>1. TypeOK'
  BY <1>0 DEF Arrive, BeginRequest, TypeOK, process, counter, outside, inside
<1>2. \A q \in Requests : RequestLife(q)'
  <2> SUFFICES ASSUME NEW q \in Requests PROVE RequestLife(q)'
    OBVIOUS
  <2>1. RequestLife(q)
    BY DEF IInv
  <2>2. QED  BY <1>0, <2>1 DEF Arrive, BeginRequest, TypeOK, RequestLife, Undisturbed, Working, Writing, Live, process, counter, outside, inside
<1>3. ~expired' => \A q \in Requests : Undisturbed(q)'
  <2> SUFFICES ASSUME ~expired', NEW q \in Requests PROVE Undisturbed(q)'
    OBVIOUS
  <2>0. ~expired
    BY DEF Arrive, BeginRequest, process, counter, outside, inside
  <2>1. RequestLife(q) /\ Undisturbed(q)
    BY <2>0 DEF IInv
  <2>2. QED  BY <1>0, <2>0, <2>1 DEF Arrive, BeginRequest, TypeOK, RequestLife, Undisturbed, Working, Writing, Live, process, counter, outside, inside
<1>4. InOrder'
  BY <1>0 DEF Arrive, BeginRequest, TypeOK, InOrder, Live, process, counter, outside, inside
<1>5. QED  BY <1>1, <1>2, <1>3, <1>4 DEF IInv

LEMMA HangUpStep ==
  ASSUME IInv, NEW r \in Requests, HangUp(r) PROVE IInv'
<1>0. TypeOK /\ RequestLife(r) /\ (~expired => Undisturbed(r)) /\ InOrder
  BY DEF IInv
<1>1. TypeOK'
  BY <1>0 DEF HangUp, TypeOK, process, counter, outside, inside
<1>2. \A q \in Requests : RequestLife(q)'
  <2> SUFFICES ASSUME NEW q \in Requests PROVE RequestLife(q)'
    OBVIOUS
  <2>1. RequestLife(q)
    BY DEF IInv
  <2>2. QED  BY <1>0, <2>1 DEF HangUp, TypeOK, RequestLife, Undisturbed, Working, Writing, Live, process, counter, outside, inside
<1>3. ~expired' => \A q \in Requests : Undisturbed(q)'
  <2> SUFFICES ASSUME ~expired', NEW q \in Requests PROVE Undisturbed(q)'
    OBVIOUS
  <2>0. ~expired
    BY DEF HangUp, process, counter, outside, inside
  <2>1. RequestLife(q) /\ Undisturbed(q)
    BY <2>0 DEF IInv
  <2>2. QED  BY <1>0, <2>0, <2>1 DEF HangUp, TypeOK, RequestLife, Undisturbed, Working, Writing, Live, process, counter, outside, inside
<1>4. InOrder'
  BY <1>0 DEF HangUp, TypeOK, InOrder, Live, process, counter, outside, inside
<1>5. QED  BY <1>1, <1>2, <1>3, <1>4 DEF IInv

LEMMA BufferedStep ==
  ASSUME IInv, NEW r \in Requests, Buffered(r) PROVE IInv'
<1>0. TypeOK /\ RequestLife(r) /\ (~expired => Undisturbed(r)) /\ InOrder
  BY DEF IInv
<1>1. TypeOK'
  BY <1>0 DEF Buffered, TypeOK, process, counter, outside, inside
<1>2. \A q \in Requests : RequestLife(q)'
  <2> SUFFICES ASSUME NEW q \in Requests PROVE RequestLife(q)'
    OBVIOUS
  <2>1. RequestLife(q)
    BY DEF IInv
  <2>2. QED  BY <1>0, <2>1 DEF Buffered, TypeOK, RequestLife, Undisturbed, Working, Writing, Live, process, counter, outside, inside
<1>3. ~expired' => \A q \in Requests : Undisturbed(q)'
  <2> SUFFICES ASSUME ~expired', NEW q \in Requests PROVE Undisturbed(q)'
    OBVIOUS
  <2>0. ~expired
    BY DEF Buffered, process, counter, outside, inside
  <2>1. RequestLife(q) /\ Undisturbed(q)
    BY <2>0 DEF IInv
  <2>2. QED  BY <1>0, <2>0, <2>1 DEF Buffered, TypeOK, RequestLife, Undisturbed, Working, Writing, Live, process, counter, outside, inside
<1>4. InOrder'
  BY <1>0 DEF Buffered, TypeOK, InOrder, Live, process, counter, outside, inside
<1>5. QED  BY <1>1, <1>2, <1>3, <1>4 DEF IInv

LEMMA LeaveEarlyStep ==
  ASSUME IInv, NEW r \in Requests, LeaveEarly(r) PROVE IInv'
<1>0. TypeOK /\ RequestLife(r) /\ (~expired => Undisturbed(r)) /\ InOrder
  BY DEF IInv
<1>1. TypeOK'
  BY <1>0 DEF LeaveEarly, EndRequest, TypeOK, process, counter, outside, inside
<1>2. \A q \in Requests : RequestLife(q)'
  <2> SUFFICES ASSUME NEW q \in Requests PROVE RequestLife(q)'
    OBVIOUS
  <2>1. RequestLife(q)
    BY DEF IInv
  <2>2. QED  BY <1>0, <2>1 DEF LeaveEarly, EndRequest, TypeOK, RequestLife, Undisturbed, Working, Writing, Live, process, counter, outside, inside
<1>3. ~expired' => \A q \in Requests : Undisturbed(q)'
  <2> SUFFICES ASSUME ~expired', NEW q \in Requests PROVE Undisturbed(q)'
    OBVIOUS
  <2>0. ~expired
    BY DEF LeaveEarly, EndRequest, process, counter, outside, inside
  <2>1. RequestLife(q) /\ Undisturbed(q)
    BY <2>0 DEF IInv
  <2>2. QED  BY <1>0, <2>0, <2>1 DEF LeaveEarly, EndRequest, TypeOK, RequestLife, Undisturbed, Working, Writing, Live, process, counter, outside, inside
<1>4. InOrder'
  BY <1>0 DEF LeaveEarly, EndRequest, TypeOK, InOrder, Live, process, counter, outside, inside
<1>5. QED  BY <1>1, <1>2, <1>3, <1>4 DEF IInv

LEMMA ReturnStep ==
  ASSUME IInv, NEW r \in Requests, Return(r) PROVE IInv'
<1>0. TypeOK /\ RequestLife(r) /\ (~expired => Undisturbed(r)) /\ InOrder
  BY DEF IInv
<1>1. TypeOK'
  BY <1>0 DEF Return, EndRequest, TypeOK, process, counter, outside, inside
<1>2. \A q \in Requests : RequestLife(q)'
  <2> SUFFICES ASSUME NEW q \in Requests PROVE RequestLife(q)'
    OBVIOUS
  <2>1. RequestLife(q)
    BY DEF IInv
  <2>2. QED  BY <1>0, <2>1 DEF Return, EndRequest, TypeOK, RequestLife, Undisturbed, Working, Writing, Live, process, counter, outside, inside
<1>3. ~expired' => \A q \in Requests : Undisturbed(q)'
  <2> SUFFICES ASSUME ~expired', NEW q \in Requests PROVE Undisturbed(q)'
    OBVIOUS
  <2>0. ~expired
    BY DEF Return, EndRequest, process, counter, outside, inside
  <2>1. RequestLife(q) /\ Undisturbed(q)
    BY <2>0 DEF IInv
  <2>2. QED  BY <1>0, <2>0, <2>1 DEF Return, EndRequest, TypeOK, RequestLife, Undisturbed, Working, Writing, Live, process, counter, outside, inside
<1>4. InOrder'
  BY <1>0 DEF Return, EndRequest, TypeOK, InOrder, Live, process, counter, outside, inside
<1>5. QED  BY <1>1, <1>2, <1>3, <1>4 DEF IInv

LEMMA AbandonStep ==
  ASSUME IInv, NEW r \in Requests, Abandon(r) PROVE IInv'
<1>0. TypeOK /\ RequestLife(r) /\ (~expired => Undisturbed(r)) /\ InOrder
  BY DEF IInv
<1>1. TypeOK'
  BY <1>0 DEF Abandon, TypeOK, process, counter, outside, inside
<1>2. \A q \in Requests : RequestLife(q)'
  <2> SUFFICES ASSUME NEW q \in Requests PROVE RequestLife(q)'
    OBVIOUS
  <2>1. RequestLife(q)
    BY DEF IInv
  <2>2. QED  BY <1>0, <2>1 DEF Abandon, TypeOK, RequestLife, Undisturbed, Working, Writing, Live, process, counter, outside, inside
<1>3. ~expired' => \A q \in Requests : Undisturbed(q)'
  <2> SUFFICES ASSUME ~expired', NEW q \in Requests PROVE Undisturbed(q)'
    OBVIOUS
  <2>0. ~expired
    BY DEF Abandon, process, counter, outside, inside
  <2>1. RequestLife(q) /\ Undisturbed(q)
    BY <2>0 DEF IInv
  <2>2. QED  BY <1>0, <2>0, <2>1 DEF Abandon, TypeOK, RequestLife, Undisturbed, Working, Writing, Live, process, counter, outside, inside
<1>4. InOrder'
  BY <1>0 DEF Abandon, TypeOK, InOrder, Live, process, counter, outside, inside
<1>5. QED  BY <1>1, <1>2, <1>3, <1>4 DEF IInv

LEMMA ReapStep ==
  ASSUME IInv, NEW r \in Requests, Reap(r) PROVE IInv'
<1>0. TypeOK /\ RequestLife(r) /\ (~expired => Undisturbed(r)) /\ InOrder
  BY DEF IInv
<1>1. TypeOK'
  BY <1>0 DEF Reap, EndRequest, TypeOK, process, counter, outside, inside
<1>2. \A q \in Requests : RequestLife(q)'
  <2> SUFFICES ASSUME NEW q \in Requests PROVE RequestLife(q)'
    OBVIOUS
  <2>1. RequestLife(q)
    BY DEF IInv
  <2>2. QED  BY <1>0, <2>1 DEF Reap, EndRequest, TypeOK, RequestLife, Undisturbed, Working, Writing, Live, process, counter, outside, inside
<1>3. ~expired' => \A q \in Requests : Undisturbed(q)'
  <2> SUFFICES ASSUME ~expired', NEW q \in Requests PROVE Undisturbed(q)'
    OBVIOUS
  <2>0. ~expired
    BY DEF Reap, EndRequest, process, counter, outside, inside
  <2>1. RequestLife(q) /\ Undisturbed(q)
    BY <2>0 DEF IInv
  <2>2. QED  BY <1>0, <2>0, <2>1 DEF Reap, EndRequest, TypeOK, RequestLife, Undisturbed, Working, Writing, Live, process, counter, outside, inside
<1>4. InOrder'
  BY <1>0 DEF Reap, EndRequest, TypeOK, InOrder, Live, process, counter, outside, inside
<1>5. QED  BY <1>1, <1>2, <1>3, <1>4 DEF IInv

LEMMA CancelledStep ==
  ASSUME IInv, NEW r \in Requests, Cancelled(r) PROVE IInv'
<1>0. TypeOK /\ RequestLife(r) /\ (~expired => Undisturbed(r)) /\ InOrder
  BY DEF IInv
<1>a. Working(r) \in BOOLEAN
  BY SMT DEF Working
<1>b. interrupted' \in [Requests -> BOOLEAN]
  BY <1>0, <1>a DEF Cancelled, TypeOK
<1>1. TypeOK'
  BY <1>0, <1>b DEF Cancelled, EndRequest, TypeOK, process, counter, outside
<1>2. \A q \in Requests : RequestLife(q)'
  <2> SUFFICES ASSUME NEW q \in Requests PROVE RequestLife(q)'
    OBVIOUS
  <2>1. RequestLife(q)
    BY DEF IInv
  <2>2. QED  BY <1>0, <2>1 DEF Cancelled, EndRequest, TypeOK, RequestLife, Undisturbed, Working, Writing, Live, process, counter, outside, inside
<1>3. ~expired' => \A q \in Requests : Undisturbed(q)'
  <2> SUFFICES ASSUME ~expired', NEW q \in Requests PROVE Undisturbed(q)'
    OBVIOUS
  <2>0. ~expired
    BY DEF Cancelled, EndRequest, process, counter, outside, inside
  <2>1. RequestLife(q) /\ Undisturbed(q)
    BY <2>0 DEF IInv
  <2>2. QED  BY <1>0, <2>0, <2>1 DEF Cancelled, EndRequest, TypeOK, RequestLife, Undisturbed, Working, Writing, Live, process, counter, outside, inside
<1>4. InOrder'
  BY <1>0 DEF Cancelled, EndRequest, TypeOK, InOrder, Live, process, counter, outside, inside
<1>5. QED  BY <1>1, <1>2, <1>3, <1>4 DEF IInv

LEMMA AcquireStep ==
  ASSUME IInv, NEW r \in Requests, Acquire(r) PROVE IInv'
<1>0. TypeOK /\ RequestLife(r) /\ (~expired => Undisturbed(r)) /\ InOrder
  BY DEF IInv
<1>1. TypeOK'
  BY <1>0 DEF Acquire, TypeOK, process, counter, outside, inside
<1>2. \A q \in Requests : RequestLife(q)'
  <2> SUFFICES ASSUME NEW q \in Requests PROVE RequestLife(q)'
    OBVIOUS
  <2>1. RequestLife(q)
    BY DEF IInv
  <2>2. QED  BY <1>0, <2>1 DEF Acquire, TypeOK, RequestLife, Undisturbed, Working, Writing, Live, process, counter, outside, inside
<1>3. ~expired' => \A q \in Requests : Undisturbed(q)'
  <2> SUFFICES ASSUME ~expired', NEW q \in Requests PROVE Undisturbed(q)'
    OBVIOUS
  <2>0. ~expired
    BY DEF Acquire, process, counter, outside, inside
  <2>1. RequestLife(q) /\ Undisturbed(q)
    BY <2>0 DEF IInv
  <2>2. QED  BY <1>0, <2>0, <2>1 DEF Acquire, TypeOK, RequestLife, Undisturbed, Working, Writing, Live, process, counter, outside, inside
<1>4. InOrder'
  BY <1>0 DEF Acquire, TypeOK, InOrder, Live, process, counter, outside, inside
<1>5. QED  BY <1>1, <1>2, <1>3, <1>4 DEF IInv

LEMMA CommitStep ==
  ASSUME IInv, NEW r \in Requests, Commit(r) PROVE IInv'
<1>0. TypeOK /\ RequestLife(r) /\ (~expired => Undisturbed(r)) /\ InOrder
  BY DEF IInv
<1>1. TypeOK'
  BY <1>0 DEF Commit, TypeOK, process, counter, outside, inside
<1>2. \A q \in Requests : RequestLife(q)'
  <2> SUFFICES ASSUME NEW q \in Requests PROVE RequestLife(q)'
    OBVIOUS
  <2>1. RequestLife(q)
    BY DEF IInv
  <2>2. QED  BY <1>0, <2>1 DEF Commit, TypeOK, RequestLife, Undisturbed, Working, Writing, Live, process, counter, outside, inside
<1>3. ~expired' => \A q \in Requests : Undisturbed(q)'
  <2> SUFFICES ASSUME ~expired', NEW q \in Requests PROVE Undisturbed(q)'
    OBVIOUS
  <2>0. ~expired
    BY DEF Commit, process, counter, outside, inside
  <2>1. RequestLife(q) /\ Undisturbed(q)
    BY <2>0 DEF IInv
  <2>2. QED  BY <1>0, <2>0, <2>1 DEF Commit, TypeOK, RequestLife, Undisturbed, Working, Writing, Live, process, counter, outside, inside
<1>4. InOrder'
  BY <1>0 DEF Commit, TypeOK, InOrder, Live, process, counter, outside, inside
<1>5. QED  BY <1>1, <1>2, <1>3, <1>4 DEF IInv

LEMMA FinishStep ==
  ASSUME IInv, NEW r \in Requests, Finish(r) PROVE IInv'
<1>0. TypeOK /\ RequestLife(r) /\ (~expired => Undisturbed(r)) /\ InOrder
  BY DEF IInv
<1>1. TypeOK'
  BY <1>0 DEF Finish, TypeOK, process, counter, outside, inside
<1>2. \A q \in Requests : RequestLife(q)'
  <2> SUFFICES ASSUME NEW q \in Requests PROVE RequestLife(q)'
    OBVIOUS
  <2>1. RequestLife(q)
    BY DEF IInv
  <2>2. QED  BY <1>0, <2>1 DEF Finish, TypeOK, RequestLife, Undisturbed, Working, Writing, Live, process, counter, outside, inside
<1>3. ~expired' => \A q \in Requests : Undisturbed(q)'
  <2> SUFFICES ASSUME ~expired', NEW q \in Requests PROVE Undisturbed(q)'
    OBVIOUS
  <2>0. ~expired
    BY DEF Finish, process, counter, outside, inside
  <2>1. RequestLife(q) /\ Undisturbed(q)
    BY <2>0 DEF IInv
  <2>2. QED  BY <1>0, <2>0, <2>1 DEF Finish, TypeOK, RequestLife, Undisturbed, Working, Writing, Live, process, counter, outside, inside
<1>4. InOrder'
  BY <1>0 DEF Finish, TypeOK, InOrder, Live, process, counter, outside, inside
<1>5. QED  BY <1>1, <1>2, <1>3, <1>4 DEF IInv

LEMMA FailStep ==
  ASSUME IInv, NEW r \in Requests, Fail(r) PROVE IInv'
<1>0. TypeOK /\ RequestLife(r) /\ (~expired => Undisturbed(r)) /\ InOrder
  BY DEF IInv
<1>1. TypeOK'
  BY <1>0 DEF Fail, CloseRow, TypeOK, process, counter, outside, inside
<1>2. \A q \in Requests : RequestLife(q)'
  <2> SUFFICES ASSUME NEW q \in Requests PROVE RequestLife(q)'
    OBVIOUS
  <2>1. RequestLife(q)
    BY DEF IInv
  <2>2. QED  BY <1>0, <2>1 DEF Fail, CloseRow, TypeOK, RequestLife, Undisturbed, Working, Writing, Live, process, counter, outside, inside
<1>3. ~expired' => \A q \in Requests : Undisturbed(q)'
  <2> SUFFICES ASSUME ~expired', NEW q \in Requests PROVE Undisturbed(q)'
    OBVIOUS
  <2>0. ~expired
    BY DEF Fail, CloseRow, process, counter, outside, inside
  <2>1. RequestLife(q) /\ Undisturbed(q)
    BY <2>0 DEF IInv
  <2>2. QED  BY <1>0, <2>0, <2>1 DEF Fail, CloseRow, TypeOK, RequestLife, Undisturbed, Working, Writing, Live, process, counter, outside, inside
<1>4. InOrder'
  BY <1>0 DEF Fail, CloseRow, TypeOK, InOrder, Live, process, counter, outside, inside
<1>5. QED  BY <1>1, <1>2, <1>3, <1>4 DEF IInv

LEMMA InterruptStep ==
  ASSUME IInv, NEW r \in Requests, Interrupt(r) PROVE IInv'
<1>0. TypeOK /\ RequestLife(r) /\ (~expired => Undisturbed(r)) /\ InOrder
  BY DEF IInv
<1>1. TypeOK'
  BY <1>0 DEF Interrupt, CloseRow, TypeOK, process, counter, outside, inside
<1>2. \A q \in Requests : RequestLife(q)'
  <2> SUFFICES ASSUME NEW q \in Requests PROVE RequestLife(q)'
    OBVIOUS
  <2>1. RequestLife(q)
    BY DEF IInv
  <2>2. QED  BY <1>0, <2>1 DEF Interrupt, CloseRow, TypeOK, RequestLife, Undisturbed, Working, Writing, Live, process, counter, outside, inside
<1>3. ~expired' => \A q \in Requests : Undisturbed(q)'
  <2> SUFFICES ASSUME ~expired', NEW q \in Requests PROVE Undisturbed(q)'
    OBVIOUS
  <2>0. ~expired
    BY DEF Interrupt, CloseRow, process, counter, outside, inside
  <2>1. RequestLife(q) /\ Undisturbed(q)
    BY <2>0 DEF IInv
  <2>2. QED  BY <1>0, <2>0, <2>1 DEF Interrupt, CloseRow, TypeOK, RequestLife, Undisturbed, Working, Writing, Live, process, counter, outside, inside
<1>4. InOrder'
  BY <1>0 DEF Interrupt, CloseRow, TypeOK, InOrder, Live, process, counter, outside, inside
<1>5. QED  BY <1>1, <1>2, <1>3, <1>4 DEF IInv

LEMMA InterruptAgainStep ==
  ASSUME IInv, NEW r \in Requests, InterruptAgain(r) PROVE IInv'
<1>0. TypeOK /\ RequestLife(r) /\ (~expired => Undisturbed(r)) /\ InOrder
  BY DEF IInv
<1>1. TypeOK'
  BY <1>0 DEF InterruptAgain, TypeOK, process, counter, outside, inside
<1>2. \A q \in Requests : RequestLife(q)'
  <2> SUFFICES ASSUME NEW q \in Requests PROVE RequestLife(q)'
    OBVIOUS
  <2>1. RequestLife(q)
    BY DEF IInv
  <2>2. QED  BY <1>0, <2>1 DEF InterruptAgain, TypeOK, RequestLife, Undisturbed, Working, Writing, Live, process, counter, outside, inside
<1>3. ~expired' => \A q \in Requests : Undisturbed(q)'
  <2> SUFFICES ASSUME ~expired', NEW q \in Requests PROVE Undisturbed(q)'
    OBVIOUS
  <2>0. ~expired
    BY DEF InterruptAgain, process, counter, outside, inside
  <2>1. RequestLife(q) /\ Undisturbed(q)
    BY <2>0 DEF IInv
  <2>2. QED  BY <1>0, <2>0, <2>1 DEF InterruptAgain, TypeOK, RequestLife, Undisturbed, Working, Writing, Live, process, counter, outside, inside
<1>4. InOrder'
  BY <1>0 DEF InterruptAgain, TypeOK, InOrder, Live, process, counter, outside, inside
<1>5. QED  BY <1>1, <1>2, <1>3, <1>4 DEF IInv

LEMMA WriteStartsStep ==
  ASSUME IInv, NEW r \in Requests, WriteStarts(r) PROVE IInv'
<1>0. TypeOK /\ RequestLife(r) /\ (~expired => Undisturbed(r)) /\ InOrder
  BY DEF IInv
<1>1. TypeOK'
  BY <1>0 DEF WriteStarts, TypeOK, process, counter, outside, inside
<1>2. \A q \in Requests : RequestLife(q)'
  <2> SUFFICES ASSUME NEW q \in Requests PROVE RequestLife(q)'
    OBVIOUS
  <2>1. RequestLife(q)
    BY DEF IInv
  <2>2. QED  BY <1>0, <2>1 DEF WriteStarts, TypeOK, RequestLife, Undisturbed, Working, Writing, Live, process, counter, outside, inside
<1>3. ~expired' => \A q \in Requests : Undisturbed(q)'
  <2> SUFFICES ASSUME ~expired', NEW q \in Requests PROVE Undisturbed(q)'
    OBVIOUS
  <2>0. ~expired
    BY DEF WriteStarts, process, counter, outside, inside
  <2>1. RequestLife(q) /\ Undisturbed(q)
    BY <2>0 DEF IInv
  <2>2. QED  BY <1>0, <2>0, <2>1 DEF WriteStarts, TypeOK, RequestLife, Undisturbed, Working, Writing, Live, process, counter, outside, inside
<1>4. InOrder'
  BY <1>0 DEF WriteStarts, TypeOK, InOrder, Live, process, counter, outside, inside
<1>5. QED  BY <1>1, <1>2, <1>3, <1>4 DEF IInv

LEMMA WriteEndsStep ==
  ASSUME IInv, NEW r \in Requests, WriteEnds(r) PROVE IInv'
<1>0. TypeOK /\ RequestLife(r) /\ (~expired => Undisturbed(r)) /\ InOrder
  BY DEF IInv
<1>1. TypeOK'
  BY <1>0 DEF WriteEnds, TypeOK, process, counter, outside, inside
<1>2. \A q \in Requests : RequestLife(q)'
  <2> SUFFICES ASSUME NEW q \in Requests PROVE RequestLife(q)'
    OBVIOUS
  <2>1. RequestLife(q)
    BY DEF IInv
  <2>2. QED  BY <1>0, <2>1 DEF WriteEnds, TypeOK, RequestLife, Undisturbed, Working, Writing, Live, process, counter, outside, inside
<1>3. ~expired' => \A q \in Requests : Undisturbed(q)'
  <2> SUFFICES ASSUME ~expired', NEW q \in Requests PROVE Undisturbed(q)'
    OBVIOUS
  <2>0. ~expired
    BY DEF WriteEnds, process, counter, outside, inside
  <2>1. RequestLife(q) /\ Undisturbed(q)
    BY <2>0 DEF IInv
  <2>2. QED  BY <1>0, <2>0, <2>1 DEF WriteEnds, TypeOK, RequestLife, Undisturbed, Working, Writing, Live, process, counter, outside, inside
<1>4. InOrder'
  BY <1>0 DEF WriteEnds, TypeOK, InOrder, Live, process, counter, outside, inside
<1>5. QED  BY <1>1, <1>2, <1>3, <1>4 DEF IInv

LEMMA RecordedStep ==
  ASSUME IInv, NEW r \in Requests, Recorded(r) PROVE IInv'
<1>0. TypeOK /\ RequestLife(r) /\ (~expired => Undisturbed(r)) /\ InOrder
  BY DEF IInv
<1>1. TypeOK'
  BY <1>0 DEF Recorded, TypeOK, process, counter, outside, inside
<1>2. \A q \in Requests : RequestLife(q)'
  <2> SUFFICES ASSUME NEW q \in Requests PROVE RequestLife(q)'
    OBVIOUS
  <2>1. RequestLife(q)
    BY DEF IInv
  <2>2. QED  BY <1>0, <2>1 DEF Recorded, TypeOK, RequestLife, Undisturbed, Working, Writing, Live, process, counter, outside, inside
<1>3. ~expired' => \A q \in Requests : Undisturbed(q)'
  <2> SUFFICES ASSUME ~expired', NEW q \in Requests PROVE Undisturbed(q)'
    OBVIOUS
  <2>0. ~expired
    BY DEF Recorded, process, counter, outside, inside
  <2>1. RequestLife(q) /\ Undisturbed(q)
    BY <2>0 DEF IInv
  <2>2. QED  BY <1>0, <2>0, <2>1 DEF Recorded, TypeOK, RequestLife, Undisturbed, Working, Writing, Live, process, counter, outside, inside
<1>4. InOrder'
  BY <1>0 DEF Recorded, TypeOK, InOrder, Live, process, counter, outside, inside
<1>5. QED  BY <1>1, <1>2, <1>3, <1>4 DEF IInv

LEMMA ServerSteps ==
  ASSUME IInv, Connect \/ Retry \/ Started \/ Terminate \/ ServerStep PROVE IInv'
<1>0. TypeOK /\ (\A r \in Requests : RequestLife(r)) /\ InOrder
  BY DEF IInv
<1> USE DEF process, counter, outside, inside
<1>a. ASSUME GraceExpires PROVE TypeOK'
  <2>1. expired' \in BOOLEAN
    BY <1>a, Zenon DEF GraceExpires
  <2>2. ASSUME NEW r \in Requests PROVE Live(r) \in BOOLEAN
    BY SMT DEF Live
  <2>3. cancelled' \in [Requests -> BOOLEAN]
    BY <1>a, <2>2, Zenon DEF GraceExpires
  <2>4. QED  BY <1>0, <1>a, <2>1, <2>3 DEF TypeOK, GraceExpires
<1>b. ASSUME ~GraceExpires PROVE TypeOK'
  BY <1>0, <1>b DEF TypeOK, Connect, Retry, Started, Terminate, ServerStep, AllServed, DrainIdle,
     Drain, Drained, DrainExpires, CloseLate, PoolCloses, Stop, Close
<1>1. TypeOK'
  BY <1>a, <1>b
<1>2. UNCHANGED <<outer, gone, inside>>
  BY DEF Connect, Retry, Started, Terminate, ServerStep, AllServed, GraceExpires, DrainIdle,
     Drain, Drained, DrainExpires, CloseLate, PoolCloses, Stop, Close
<1>3. \A r \in Requests : RequestLife(r)'
  BY <1>0, <1>2 DEF RequestLife
<1>4. ~expired' => ~expired /\ UNCHANGED cancelled
  BY <1>0 DEF TypeOK, Connect, Retry, Started, Terminate, ServerStep, AllServed, GraceExpires, DrainIdle,
     Drain, Drained, DrainExpires, CloseLate, PoolCloses, Stop, Close
<1>5. ~expired' => \A r \in Requests : Undisturbed(r)'
  BY <1>2, <1>4 DEF IInv, Undisturbed, Working, Writing
<1>6. InOrder'
  BY <1>0, <1>2, <1>4 DEF TypeOK, InOrder, Live, Connect, Retry, Started, Terminate, ServerStep, AllServed,
     GraceExpires, DrainIdle, Drain, Drained, DrainExpires, CloseLate, PoolCloses, Stop, Close
<1>7. QED  BY <1>1, <1>3, <1>5, <1>6 DEF IInv

LEMMA NextStep == IInv /\ [Next]_vars => IInv'
<1> SUFFICES ASSUME IInv, [Next]_vars PROVE IInv'
  OBVIOUS
<1>1. ASSUME NEW r \in Requests, Arrive(r) \/ HangUp(r) \/ OuterStep(r) PROVE IInv'
  BY <1>1, ArriveStep, HangUpStep, BufferedStep, LeaveEarlyStep, ReturnStep, AbandonStep, ReapStep,
     CancelledStep DEF OuterStep
<1>2. ASSUME NEW r \in Requests, WorkStep(r) \/ WriteStep(r) PROVE IInv'
  BY <1>2, AcquireStep, CommitStep, FinishStep, FailStep, InterruptStep, InterruptAgainStep,
     WriteStartsStep, WriteEndsStep, RecordedStep DEF WorkStep, WriteStep
<1>3. CASE Connect \/ Retry \/ Started \/ Terminate \/ ServerStep
  BY <1>3, ServerSteps
<1>4. CASE UNCHANGED vars
  BY <1>4 DEF IInv, vars, process, counter, outside, inside, TypeOK, RequestLife, Undisturbed, InOrder,
              Live, Working, Writing
<1>5. QED  BY <1>1, <1>2, <1>3, <1>4 DEF Next

(* How requests, their apps and the end of the service go together, in     *)
(* every reachable state.                                                  *)
THEOREM Invariant == Spec => []IInv
BY Initially, NextStep, PTL DEF Spec
-----------------------------------------------------------------------------
(* Every variable keeps its type, for any number of requests. *)
THEOREM TypeCorrect == Spec => []TypeOK
<1>1. IInv => TypeOK
  BY DEF IInv
<1>2. QED  BY <1>1, Invariant, PTL

(* A request that ended leaves neither its app nor a write behind, unless  *)
(* uvicorn had to cancel it.                                               *)
THEOREM NothingIsLeftBehind == Spec => []NothingOutlivesItsRequest
<1>1. IInv => NothingOutlivesItsRequest
  BY DEF IInv, Undisturbed, NothingOutlivesItsRequest, Working
<1>2. QED  BY <1>1, Invariant, PTL

(* A stop within the grace period closes the database after the last work. *)
THEOREM GracefulStop == Spec => []GracefulStopSparesWork
<1>1. IInv => GracefulStopSparesWork
  <2> SUFFICES ASSUME IInv, ~expired, database \in {"closing", "closed"}, NEW r \in Requests
               PROVE  ~Working(r) /\ ~Writing(r)
    BY DEF GracefulStopSparesWork
  <2>1. ~Live(r) /\ RequestLife(r) /\ Undisturbed(r) /\ outer[r] \in {"none", "buffering", "running", "finishing", "ended"}
    BY DEF IInv, InOrder, TypeOK
  <2>2. QED  BY <2>1 DEF Live, RequestLife, Undisturbed, Working, Writing
<1>2. QED  BY <1>1, Invariant, PTL

(* No path through the except clauses forgets the row the request knows of. *)
THEOREM RowsAreRemembered == Spec => []NoRowIsForgotten
<1>1. IInv => NoRowIsForgotten
  <2> SUFFICES ASSUME IInv, NEW r \in Requests, app[r] = "done", row[r] = "running"
               PROVE  write[r] \in {"pending", "held", "failed"}
    BY DEF NoRowIsForgotten
  <2>1. RequestLife(r) /\ write[r] \in {"none", "pending", "held", "written", "failed"}
    BY DEF IInv, TypeOK
  <2>2. QED  BY <2>1 DEF RequestLife
<1>2. QED  BY <1>1, Invariant, PTL
-----------------------------------------------------------------------------
(* The drain of the lifespan: the counter is the number of requests that   *)
(* live, and its event exists while the server waits for it.               *)
LiveRequests == {r \in Requests : Live(r)}
DrainKnown == DrainIsNotMissed /\ (server = "draining" => idle # "none")

LEMMA LiveAreFinite ==
  /\ IsFiniteSet(LiveRequests) /\ Cardinality(LiveRequests) \in Nat
  /\ Cardinality(LiveRequests) = 0 <=> LiveRequests = {}
BY FS_Subset, FS_EmptySet, FS_CardinalityType, RequestsAssumption DEF LiveRequests

(* A step that moves no request into or out of its life. *)
LEMMA SameCount ==
  ASSUME TypeOK, DrainKnown, UNCHANGED <<server, inFlight, idle>>,
         \A r \in Requests : Live(r)' <=> Live(r)
  PROVE  DrainKnown'
<1>1. LiveRequests' = LiveRequests
  BY DEF LiveRequests
<1>2. QED  BY <1>1 DEF DrainKnown, DrainIsNotMissed, LiveRequests

(* The end of a request is counted once, and the last one sets the event. *)
LEMMA EndIsCounted ==
  ASSUME TypeOK, DrainKnown, NEW r \in Requests, Live(r), EndRequest,
         UNCHANGED server, outer' = [outer EXCEPT ![r] = "ended"]
  PROVE  DrainKnown'
<1>1. LiveRequests' = LiveRequests \ {r}
  BY DEF LiveRequests, Live, TypeOK
<1>2. r \in LiveRequests /\ inFlight = Cardinality(LiveRequests)
  BY DEF LiveRequests, DrainKnown, DrainIsNotMissed
<1>3. inFlight \in Nat /\ inFlight >= 1
  BY <1>2, LiveAreFinite DEF TypeOK
<1>4. Cardinality(LiveRequests') = inFlight - 1
  BY <1>1, <1>2, LiveAreFinite, FS_RemoveElement
<1>5. inFlight' = inFlight - 1
  BY <1>3 DEF EndRequest
<1>6. server' = "draining" => idle' # "none" /\ (idle' = "set" <=> inFlight' = 0)
  BY <1>3, <1>5 DEF EndRequest, DrainKnown, DrainIsNotMissed
<1>7. QED  BY <1>4, <1>5, <1>6 DEF DrainKnown, DrainIsNotMissed, LiveRequests

LEMMA ArrivalIsCounted ==
  ASSUME TypeOK, DrainKnown, NEW r \in Requests, Arrive(r)
  PROVE  DrainKnown'
<1>1. LiveRequests' = LiveRequests \cup {r} /\ r \notin LiveRequests
  BY DEF Arrive, LiveRequests, Live, TypeOK
<1>2. inFlight = Cardinality(LiveRequests) /\ inFlight' = inFlight + 1
  BY DEF Arrive, BeginRequest, LiveRequests, DrainKnown, DrainIsNotMissed
<1>3. Cardinality(LiveRequests') = inFlight + 1
  BY <1>1, <1>2, LiveAreFinite, FS_AddElement
<1>4. server' # "draining"
  BY DEF Arrive, process
<1>5. QED  BY <1>2, <1>3, <1>4 DEF DrainKnown, DrainIsNotMissed, LiveRequests

LEMMA OuterIsCounted ==
  ASSUME TypeOK, DrainKnown, NEW r \in Requests, HangUp(r) \/ OuterStep(r)
  PROVE  DrainKnown'
<1> USE DEF process, counter, outside, inside
<1>1. CASE HangUp(r) \/ Buffered(r) \/ Abandon(r) \/ (Cancelled(r) /\ outer[r] = "finishing")
  <2>1. UNCHANGED <<server, inFlight, idle>>
    BY <1>1 DEF HangUp, Buffered, Abandon, Cancelled
  <2>2. ASSUME NEW q \in Requests PROVE Live(q)' <=> Live(q)
    BY <1>1 DEF HangUp, Buffered, Abandon, Cancelled, Live, TypeOK
  <2>3. QED  BY <2>1, <2>2, SameCount
<1>2. CASE LeaveEarly(r) \/ Return(r) \/ Reap(r) \/ (Cancelled(r) /\ outer[r] # "finishing")
  <2>1. /\ Live(r) /\ EndRequest /\ UNCHANGED server
        /\ outer' = [outer EXCEPT ![r] = "ended"]
    BY <1>2 DEF LeaveEarly, Return, Reap, Cancelled, Live
  <2>2. QED  BY <2>1, EndIsCounted
<1>3. QED  BY <1>1, <1>2 DEF OuterStep

LEMMA AppIsNotCounted ==
  ASSUME TypeOK, DrainKnown, NEW r \in Requests, WorkStep(r) \/ WriteStep(r)
  PROVE  DrainKnown'
<1>1. UNCHANGED <<server, inFlight, idle, outer>>
  BY DEF WorkStep, WriteStep, Acquire, Commit, Finish, Fail, Interrupt, InterruptAgain, Recorded,
         WriteStarts, WriteEnds, process, counter, outside
<1>2. QED  BY <1>1, SameCount DEF Live

(* Only Drain makes the server wait, and it makes the event first. *)
LEMMA ServerIsNotCounted ==
  ASSUME TypeOK, DrainKnown, Connect \/ Retry \/ Started \/ Terminate \/ ServerStep
  PROVE  DrainKnown'
<1> USE DEF process, counter, outside, inside
<1>1. CASE Drain
  <2>1. inFlight' = inFlight /\ inFlight > 0 /\ idle' = "clear" /\ outer' = outer
    BY <1>1 DEF Drain
  <2>2. QED  BY <2>1 DEF DrainKnown, DrainIsNotMissed, Live, TypeOK
<1>2. CASE ~Drain
  <2>1. UNCHANGED <<inFlight, idle, outer>>
    BY <1>2 DEF Connect, Retry, Started, Terminate, ServerStep, AllServed, GraceExpires, DrainIdle,
       Drained, DrainExpires, CloseLate, PoolCloses, Stop, Close
  <2>2. server' = "draining" => server = "draining"
    BY <1>2 DEF Connect, Retry, Started, Terminate, ServerStep, AllServed, GraceExpires, DrainIdle,
       Drained, DrainExpires, CloseLate, PoolCloses, Stop, Close
  <2>3. QED  BY <2>1, <2>2 DEF DrainKnown, DrainIsNotMissed, Live
<1>3. QED  BY <1>1, <1>2

(* drain() never sleeps over an idle service, whoever ends while it looks. *)
THEOREM DrainWakesUp == Spec => []DrainIsNotMissed
<1>1. Init => DrainKnown
  <2> SUFFICES ASSUME Init PROVE DrainKnown
    OBVIOUS
  <2>1. LiveRequests = {}
    BY DEF Init, LiveRequests, Live
  <2>2. Cardinality(LiveRequests) = 0
    BY <2>1, FS_EmptySet
  <2>3. QED  BY <2>2 DEF Init, DrainKnown, DrainIsNotMissed, LiveRequests
<1>2. TypeOK /\ DrainKnown /\ [Next]_vars => DrainKnown'
  <2> SUFFICES ASSUME TypeOK, DrainKnown, [Next]_vars PROVE DrainKnown'
    OBVIOUS
  <2>1. CASE UNCHANGED vars
    BY <2>1, SameCount DEF vars, process, counter, outside, Live
  <2>2. CASE Next
    BY <2>2, ArrivalIsCounted, OuterIsCounted, AppIsNotCounted, ServerIsNotCounted DEF Next
  <2>3. QED  BY <2>1, <2>2
<1>3. DrainKnown => DrainIsNotMissed
  BY DEF DrainKnown
<1>4. QED  BY <1>1, <1>2, <1>3, TypeCorrect, PTL DEF Spec
=============================================================================
