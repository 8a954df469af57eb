--------------------------- MODULE SchedulerProofs ---------------------------
(* Theorems about Scheduler, for every set of requests, streams, closers and *)
(* every capacity.                                                           *)
EXTENDS Scheduler, FiniteSetTheorems, SequenceTheorems, TLAPS

-----------------------------------------------------------------------------
(* Types *)

LEMMA InitTypes == ASSUME Init PROVE TypeOK
  BY SchedulerAssumption, EmptySeq
  DEF Init, TypeOK, FutureStates, Outcomes, Holding, Carrying

LEMMA StepTypes == ASSUME TypeOK, [Next]_vars PROVE TypeOK'
<1> USE SchedulerAssumption DEF TypeOK, FutureStates, Outcomes, Holding, Carrying
<1>1. ASSUME NEW r \in Requests, RejectClosed(r) PROVE TypeOK'
  BY <1>1 DEF RejectClosed
<1>2. ASSUME NEW r \in Requests, Replace(r) PROVE TypeOK'
  <2>1. PICK old \in OlderFrames(r) :
            /\ pending' = (Live \ {old}) \cup {r}
            /\ slot' = [slot EXCEPT ![r] = slot[old]]
            /\ replaced' = [replaced EXCEPT ![r] = old]
    BY <1>2 DEF Replace
  <2>2. old \in Requests /\ Live \subseteq Requests
    BY DEF OlderFrames, Live
  <2> QED BY <1>2, <2>1, <2>2 DEF Replace, Notify
<1>3. ASSUME NEW r \in Requests, RejectFull(r) PROVE TypeOK'
  BY <1>3 DEF RejectFull, Live
<1>4. ASSUME NEW r \in Requests, Enqueue(r) PROVE TypeOK'
  BY <1>4 DEF Enqueue, Live, Notify
<1>5. ASSUME NEW r \in Requests, ClaimReplaced(r) PROVE TypeOK'
  BY <1>5 DEF ClaimReplaced, AfterClaim
<1>6. ASSUME NEW r \in Requests, FailReplaced(r) PROVE TypeOK'
  BY <1>6 DEF FailReplaced
<1>7. ASSUME NEW r \in Requests, Cancel(r) PROVE TypeOK'
  BY <1>7 DEF Cancel, AfterCancel
<1>8. CASE Wait BY <1>8 DEF Wait
<1>9. CASE Exit BY <1>9 DEF Exit
<1>10. CASE Pop BY <1>10 DEF Pop
<1>11. CASE Claim BY <1>11 DEF Claim, AfterClaim
<1>12. CASE Expire BY <1>12 DEF Expire
<1>13. CASE Execute BY <1>13, AppendProperties DEF Execute
<1>14. CASE Finish BY <1>14 DEF Finish
<1>15. ASSUME NEW c \in Closers, BeginClose(c) PROVE TypeOK'
  BY <1>15 DEF BeginClose, TakeQueue, Notify
<1>16. ASSUME NEW c \in Closers, CancelDrained(c) PROVE TypeOK'
  BY <1>16 DEF CancelDrained, AfterCancel
<1>17. ASSUME NEW c \in Closers, EndClose(c) PROVE TypeOK'
  BY <1>17 DEF EndClose
<1>18. CASE UNCHANGED vars BY <1>18 DEF vars
<1> QED
  BY <1>1, <1>2, <1>3, <1>4, <1>5, <1>6, <1>7, <1>8, <1>9, <1>10, <1>11,
     <1>12, <1>13, <1>14, <1>15, <1>16, <1>17, <1>18
  DEF Next, Submit, Resolve, Run, Close, Ended

\* Every variable keeps its type, and a thread has a job in hand exactly
\* where submit() and _run() are between taking one and settling it.
THEOREM TypeCorrect == Spec => []TypeOK
  BY InitTypes, StepTypes, PTL DEF Spec

-----------------------------------------------------------------------------
(* Who holds a request *)

\* Jobs in the queue, or taken from it by close(), have not been claimed, and
\* a request is in nobody's hands before it is submitted.
Unclaimed ==
    /\ \A r \in pending : future[r] \in {"PENDING", "CANCELLED"}
    /\ \A c \in Closers : \A r \in drained[c] : future[r] \in {"PENDING", "CANCELLED"}
    /\ \A r \in Requests :
        submitter[r] \in {"idle", "rejected"} <=> future[r] = "none"
    /\ \A c \in Closers : closer[c] = "idle" => drained[c] = {}

\* A future is settled by the thread that claimed it because no other thread
\* has its request: the one fact is not inductive without the other.
Hands == NothingShared /\ FutureProtocol /\ Unclaimed

LEMMA InitHands == ASSUME Init PROVE Hands
  BY SchedulerAssumption
  DEF Init, Hands, NothingShared, FutureProtocol, Unclaimed

LEMMA StepHands ==
  ASSUME TypeOK, Hands, [Next]_vars PROVE Hands'
<1> USE SchedulerAssumption
    DEF TypeOK, FutureStates, Outcomes, Holding, Carrying,
        Hands, NothingShared, FutureProtocol, Unclaimed
<1>1. ASSUME NEW r \in Requests, RejectClosed(r) PROVE Hands'
  BY <1>1 DEF RejectClosed
<1>2. ASSUME NEW r \in Requests, Replace(r) PROVE Hands'
  BY <1>2 DEF Replace, Notify, Live, OlderFrames
<1>3. ASSUME NEW r \in Requests, RejectFull(r) PROVE Hands'
  BY <1>3 DEF RejectFull, Live
<1>4. ASSUME NEW r \in Requests, Enqueue(r) PROVE Hands'
  <2>0. /\ future[r] = "none" /\ r # job
        /\ \A c \in Closers : r \notin drained[c]
        /\ \A s \in Requests : replaced[s] # r
    <3>1. future[r] = "none"
      BY <1>4 DEF Enqueue
    <3>2. r # job
      BY <3>1
    <3>3. ASSUME NEW c \in Closers PROVE r \notin drained[c]
      BY <3>1
    <3>4. ASSUME NEW s \in Requests, replaced[s] = r PROVE FALSE
      <4>1. submitter[s] \in {"replacing", "failing"}
        BY <3>4
      <4> QED
        BY <3>1, <3>4, <4>1
    <3> QED
      BY <3>1, <3>2, <3>3, <3>4
  <2>1. NothingShared'
    BY <1>4, <2>0 DEF Enqueue, Live, Notify
  <2>2. FutureProtocol'
    BY <1>4 DEF Enqueue, Live, Notify
  <2>3. Unclaimed'
    BY <1>4 DEF Enqueue, Live, Notify
  <2> QED
    BY <2>1, <2>2, <2>3
<1>5. ASSUME NEW r \in Requests, ClaimReplaced(r) PROVE Hands'
  BY <1>5 DEF ClaimReplaced, AfterClaim
<1>6. ASSUME NEW r \in Requests, FailReplaced(r) PROVE Hands'
  BY <1>6 DEF FailReplaced
<1>7. ASSUME NEW r \in Requests, Cancel(r) PROVE Hands'
  BY <1>7 DEF Cancel, AfterCancel
<1>8. CASE Wait BY <1>8 DEF Wait
<1>9. CASE Exit BY <1>9 DEF Exit
<1>10. CASE Pop BY <1>10 DEF Pop, IsFirst
<1>11. CASE Claim BY <1>11 DEF Claim, AfterClaim
<1>12. CASE Expire BY <1>12 DEF Expire
<1>13. CASE Execute BY <1>13 DEF Execute
<1>14. CASE Finish BY <1>14 DEF Finish
<1>15. ASSUME NEW c \in Closers, BeginClose(c) PROVE Hands'
  BY <1>15 DEF BeginClose, TakeQueue, Notify
<1>16. ASSUME NEW c \in Closers, CancelDrained(c) PROVE Hands'
  BY <1>16 DEF CancelDrained, AfterCancel, IsFirst
<1>17. ASSUME NEW c \in Closers, EndClose(c) PROVE Hands'
  BY <1>17 DEF EndClose
<1>18. CASE UNCHANGED vars BY <1>18 DEF vars
<1> QED
  BY <1>1, <1>2, <1>3, <1>4, <1>5, <1>6, <1>7, <1>8, <1>9, <1>10, <1>11,
     <1>12, <1>13, <1>14, <1>15, <1>16, <1>17, <1>18
  DEF Next, Submit, Resolve, Run, Close, Ended

LEMMA AlwaysHands == Spec => []Hands
  BY InitHands, StepHands, TypeCorrect, PTL DEF Spec

\* No operation on a future meets a state it would raise on, whenever callers
\* cancel: the dispatcher thread never dies of an InvalidStateError.
THEOREM FuturesAreUsedRightly == Spec => []FutureProtocol
  BY AlwaysHands, PTL DEF Hands

-----------------------------------------------------------------------------
(* Nothing is lost *)

\* Somebody has q in hand.
Held(q) ==
    \/ q \in pending
    \/ q = job
    \/ \E s \in Requests : replaced[s] = q
    \/ \E c \in Closers : q \in drained[c]

LEMMA StepHeld ==
  ASSUME TypeOK, Hands, NothingLost, [Next]_vars,
         NEW q \in Requests, future'[q] \in {"PENDING", "RUNNING"}
  PROVE  Held(q)'
<1>0. future[q] \in {"PENDING", "RUNNING"} => Held(q)
  BY DEF NothingLost, Held
<1> USE SchedulerAssumption DEF TypeOK, Holding, Carrying, Held
<1>1. ASSUME NEW r \in Requests, RejectClosed(r) PROVE Held(q)'
  BY <1>1, <1>0 DEF RejectClosed
<1>2. ASSUME NEW r \in Requests, Replace(r) PROVE Held(q)'
  <2>1. PICK old \in OlderFrames(r) :
            /\ pending' = (Live \ {old}) \cup {r}
            /\ replaced' = [replaced EXCEPT ![r] = old]
    BY <1>2 DEF Replace
  <2>2. replaced[r] = NoRequest
    BY <1>2 DEF Replace
  <2>3. CASE q = r BY <2>1, <2>3
  <2>4. CASE q = old
    <3>1. replaced'[r] = q BY <2>1, <2>4
    <3> QED BY <3>1
  <2>5. CASE q # r /\ q # old
    <3>1. future[q] = future'[q] BY <1>2, <2>5 DEF Replace
    <3>2. q \in pending => q \in pending'
      BY <2>1, <2>5, <3>1 DEF Live
    <3>3. \A s \in Requests : replaced[s] = q => replaced'[s] = q
      BY <2>1, <2>2
    <3> QED BY <1>2, <1>0, <3>1, <3>2, <3>3 DEF Replace
  <2> QED BY <2>3, <2>4, <2>5
<1>3. ASSUME NEW r \in Requests, RejectFull(r) PROVE Held(q)'
  BY <1>3, <1>0 DEF RejectFull, Live
<1>4. ASSUME NEW r \in Requests, Enqueue(r) PROVE Held(q)'
  BY <1>4, <1>0 DEF Enqueue, Live
<1>5. ASSUME NEW r \in Requests, ClaimReplaced(r) PROVE Held(q)'
  <2>1. CASE q = replaced[r]
    <3>1. replaced'[r] = q
      BY <1>5, <2>1 DEF ClaimReplaced, AfterClaim, FutureStates, Outcomes
    <3> QED BY <3>1
  <2>2. CASE q # replaced[r]
    <3>1. future[q] = future'[q] BY <1>5, <2>2 DEF ClaimReplaced
    <3>2. \A s \in Requests : replaced[s] = q => replaced'[s] = q
      BY <1>5, <2>2 DEF ClaimReplaced
    <3> QED BY <1>5, <1>0, <3>1, <3>2 DEF ClaimReplaced
  <2> QED BY <2>1, <2>2
<1>6. ASSUME NEW r \in Requests, FailReplaced(r) PROVE Held(q)'
  <2>1. q # replaced[r] /\ future[q] = future'[q]
    BY <1>6 DEF FailReplaced
  <2>2. \A s \in Requests : replaced[s] = q => replaced'[s] = q
    BY <1>6, <2>1 DEF FailReplaced
  <2> QED BY <1>6, <1>0, <2>1, <2>2 DEF FailReplaced
<1>7. ASSUME NEW r \in Requests, Cancel(r) PROVE Held(q)'
  <2>1. future[q] = future'[q]
    BY <1>7 DEF Cancel, AfterCancel, FutureStates, Outcomes
  <2> QED BY <1>7, <1>0, <2>1 DEF Cancel
<1>8. CASE Wait
  BY <1>8, <1>0 DEF Wait
<1>9. CASE Exit
  BY <1>9, <1>0 DEF Exit
<1>10. CASE Pop
  BY <1>10, <1>0 DEF Pop
<1>11. CASE Claim
  <2>1. q = job \/ future[q] = future'[q]
    BY <1>11 DEF Claim
  <2>2. q = job => q = job'
    BY <1>11 DEF Claim, AfterClaim, FutureStates, Outcomes
  <2> QED BY <1>11, <1>0, <2>1, <2>2 DEF Claim
<1>12. CASE Expire
  <2>1. q # job /\ future[q] = future'[q]
    BY <1>12 DEF Expire
  <2> QED BY <1>12, <1>0, <2>1 DEF Expire
<1>13. CASE Execute
  BY <1>13, <1>0 DEF Execute
<1>14. CASE Finish
  <2>1. q # job /\ future[q] = future'[q]
    BY <1>14 DEF Finish
  <2> QED BY <1>14, <1>0, <2>1 DEF Finish
<1>15. ASSUME NEW c \in Closers, BeginClose(c) PROVE Held(q)'
  <2>1. drained[c] = {}
    BY <1>15 DEF BeginClose, Hands, Unclaimed
  <2>2. q \in pending => q \in drained'[c]
    BY <1>15 DEF BeginClose, TakeQueue
  <2>3. \A d \in Closers : q \in drained[d] => q \in drained'[d]
    BY <1>15, <2>1 DEF BeginClose, TakeQueue
  <2> QED BY <1>15, <1>0, <2>2, <2>3 DEF BeginClose
<1>16. ASSUME NEW c \in Closers, CancelDrained(c) PROVE Held(q)'
  <2>1. PICK p \in drained[c] :
            /\ future' = [future EXCEPT ![p] = AfterCancel(@)]
            /\ drained' = [drained EXCEPT ![c] = @ \ {p}]
    BY <1>16 DEF CancelDrained
  <2>2. future[p] \in {"PENDING", "CANCELLED"} /\ p \in Requests
    BY <2>1 DEF Hands, Unclaimed
  <2>3. q # p /\ future[q] = future'[q]
    BY <2>1, <2>2 DEF AfterCancel
  <2>4. \A d \in Closers : q \in drained[d] => q \in drained'[d]
    BY <2>1, <2>3
  <2> QED BY <1>16, <1>0, <2>3, <2>4 DEF CancelDrained
<1>17. ASSUME NEW c \in Closers, EndClose(c) PROVE Held(q)'
  BY <1>17, <1>0 DEF EndClose
<1>18. CASE UNCHANGED vars
  BY <1>18, <1>0 DEF vars
<1> QED
  BY <1>1, <1>2, <1>3, <1>4, <1>5, <1>6, <1>7, <1>8, <1>9, <1>10, <1>11,
     <1>12, <1>13, <1>14, <1>15, <1>16, <1>17, <1>18
  DEF Next, Submit, Resolve, Run, Close, Ended

LEMMA StepNothingLost ==
  ASSUME TypeOK, Hands, NothingLost, [Next]_vars PROVE NothingLost'
  BY StepHeld DEF Held, NothingLost

\* No interleaving of submissions, replacements, cancellations and close()
\* leaves an unanswered request behind, or puts one into the hands of two
\* threads that would both settle it.
THEOREM EveryRequestInOneHand == Spec => []InOneHand
<1>1. Init => NothingLost
  BY DEF Init, NothingLost
<1> QED
  BY <1>1, StepNothingLost, TypeCorrect, AlwaysHands, PTL
  DEF Spec, Hands, InOneHand

-----------------------------------------------------------------------------
(* The queue *)

\* The queue is finite and within its capacity, and a stream has one frame.
FiniteQueue == IsFiniteSet(pending) /\ BoundedQueue /\ OneFramePerStream

LEMMA StepFiniteQueue ==
  ASSUME TypeOK, Hands, FiniteQueue, [Next]_vars PROVE FiniteQueue'
<1> USE SchedulerAssumption DEF TypeOK, FiniteQueue, BoundedQueue, OneFramePerStream
<1> DEFINE Kept == IsFiniteSet(Live) /\ Cardinality(Live) <= Cardinality(pending)
                   /\ Cardinality(Live) \in Nat /\ Cardinality(pending) \in Nat
<1>0. Kept
  BY FS_Subset, FS_CardinalityType DEF Live
<1> HIDE DEF Kept
<1>1. ASSUME NEW r \in Requests, RejectClosed(r) PROVE FiniteQueue'
  BY <1>1 DEF RejectClosed
<1>2. ASSUME NEW r \in Requests, Replace(r) PROVE FiniteQueue'
  <2>1. PICK old \in OlderFrames(r) : pending' = (Live \ {old}) \cup {r}
    BY <1>2 DEF Replace
  <2>2. old \in Live /\ r \notin Live \ {old}
    BY <1>2, <2>1 DEF Replace, OlderFrames, Live, Hands, Unclaimed
  <2>3. IsFiniteSet(pending') /\ Cardinality(pending') = Cardinality(Live)
    <3>1. IsFiniteSet(Live \ {old}) /\ Cardinality(Live \ {old}) = Cardinality(Live) - 1
      BY <1>0, <2>2, FS_RemoveElement DEF Kept
    <3>2. r \notin Live \ {old} BY <2>2
    <3>3. /\ IsFiniteSet((Live \ {old}) \cup {r})
          /\ Cardinality((Live \ {old}) \cup {r}) = Cardinality(Live \ {old}) + 1
      BY <3>1, <3>2, FS_AddElement
    <3> QED BY <1>0, <2>1, <3>1, <3>3 DEF Kept
  <2>4. OneFramePerStream'
    BY <1>2, <2>1 DEF Replace, OlderFrames, Live
  <2> QED BY <1>0, <2>3, <2>4 DEF Kept
<1>3. ASSUME NEW r \in Requests, RejectFull(r) PROVE FiniteQueue'
  BY <1>3, <1>0 DEF RejectFull, Live, Kept
<1>4. ASSUME NEW r \in Requests, Enqueue(r) PROVE FiniteQueue'
  <2>1. IsFiniteSet(pending') /\ Cardinality(pending') <= Cardinality(Live) + 1
    <3>1. pending' = Live \cup {r} BY <1>4 DEF Enqueue
    <3>2. /\ IsFiniteSet(Live \cup {r})
          /\ Cardinality(Live \cup {r}) =
                IF r \in Live THEN Cardinality(Live) ELSE Cardinality(Live) + 1
      <4>1. IsFiniteSet(Live) BY <1>0 DEF Kept
      <4> QED BY <4>1, FS_AddElement
    <3> QED BY <1>0, <3>1, <3>2 DEF Kept
  <2>2. OneFramePerStream'
    BY <1>4 DEF Enqueue, OlderFrames, Live
  <2>3. Cardinality(Live) + 1 <= Capacity /\ Cardinality(pending') \in Nat
    BY <1>4, <1>0, <2>1, FS_CardinalityType DEF Enqueue, Full, Kept
  <2> QED BY <1>0, <2>1, <2>2, <2>3 DEF Kept
<1>5. ASSUME NEW r \in Requests, ClaimReplaced(r) PROVE FiniteQueue'
  BY <1>5 DEF ClaimReplaced, AfterClaim
<1>6. ASSUME NEW r \in Requests, FailReplaced(r) PROVE FiniteQueue'
  BY <1>6 DEF FailReplaced
<1>7. ASSUME NEW r \in Requests, Cancel(r) PROVE FiniteQueue'
  BY <1>7 DEF Cancel, AfterCancel
<1>8. CASE Wait BY <1>8 DEF Wait
<1>9. CASE Exit BY <1>9 DEF Exit
<1>10. CASE Pop
  <2>1. pending' \subseteq pending
    BY <1>10 DEF Pop
  <2>2. IsFiniteSet(pending') /\ Cardinality(pending') <= Cardinality(pending)
    BY <2>1, FS_Subset
  <2>3. Cardinality(pending') \in Nat
    BY <2>2, FS_CardinalityType
  <2> QED BY <1>0, <2>1, <2>2, <2>3 DEF Kept
<1>11. CASE Claim BY <1>11 DEF Claim, AfterClaim
<1>12. CASE Expire BY <1>12 DEF Expire
<1>13. CASE Execute BY <1>13 DEF Execute
<1>14. CASE Finish BY <1>14 DEF Finish
<1>15. ASSUME NEW c \in Closers, BeginClose(c) PROVE FiniteQueue'
  <2>1. pending' = {}
    BY <1>15 DEF BeginClose, TakeQueue
  <2> QED BY <2>1, FS_EmptySet
<1>16. ASSUME NEW c \in Closers, CancelDrained(c) PROVE FiniteQueue'
  BY <1>16 DEF CancelDrained, AfterCancel, IsFirst
<1>17. ASSUME NEW c \in Closers, EndClose(c) PROVE FiniteQueue'
  BY <1>17 DEF EndClose
<1>18. CASE UNCHANGED vars BY <1>18 DEF vars
<1> QED
  BY <1>1, <1>2, <1>3, <1>4, <1>5, <1>6, <1>7, <1>8, <1>9, <1>10, <1>11,
     <1>12, <1>13, <1>14, <1>15, <1>16, <1>17, <1>18
  DEF Next, Submit, Resolve, Run, Close, Ended

LEMMA AlwaysFiniteQueue == Spec => []FiniteQueue
<1>1. Init => FiniteQueue
  BY SchedulerAssumption, FS_EmptySet
  DEF Init, FiniteQueue, BoundedQueue, OneFramePerStream
<1> QED
  BY <1>1, StepFiniteQueue, TypeCorrect, AlwaysHands, PTL DEF Spec

\* The queue never holds more than its capacity, nor two frames of a stream.
THEOREM QueueKeepsShape == Spec => []QueueShape
  BY AlwaysFiniteQueue, PTL DEF FiniteQueue, QueueShape

-----------------------------------------------------------------------------
(* Order *)

\* The place of the job in hand lies between those already served and those
\* still queued; no two queued jobs have one place.
Places ==
    /\ \A r \in Requests : slot[r] <= arrivals
    /\ \A q, r \in pending : slot[q] = slot[r] => q = r
    /\ job # NoRequest =>
        /\ future[job] # "none"
        /\ \A r \in pending : slot[job] < slot[r]
    /\ dispatcher \in {"popped", "claimed"} =>
        \A i \in DOMAIN served : slot[served[i]] < slot[job]
    /\ \A i \in DOMAIN served : future[served[i]] # "none"
    /\ ServedInOrder

LEMMA StepPlaces ==
  ASSUME TypeOK, Hands, Places, [Next]_vars PROVE Places'
<1> USE SchedulerAssumption
    DEF TypeOK, Holding, Carrying, FutureStates, Outcomes, Places, ServedInOrder
<1>0. /\ \A r \in pending : future[r] # "none"
      /\ \A r \in Requests : submitter[r] = "idle" => future[r] = "none"
      /\ \A r \in Requests : replaced[r] # NoRequest => future[replaced[r]] # "none"
      /\ \A c \in Closers : \A r \in drained[c] : future[r] # "none"
  <2>1. /\ \A r \in Requests : submitter[r] = "idle" => future[r] = "none"
        /\ \A r \in pending : future[r] # "none"
        /\ \A c \in Closers : \A r \in drained[c] : future[r] # "none"
    BY DEF Hands, Unclaimed
  <2>2. \A r \in Requests : replaced[r] # NoRequest => future[replaced[r]] # "none"
    BY DEF Hands, FutureProtocol
  <2> QED
    BY <2>1, <2>2
<1>1. ASSUME NEW r \in Requests, RejectClosed(r) PROVE Places'
  BY <1>1 DEF RejectClosed
<1>2. ASSUME NEW r \in Requests, Replace(r) PROVE Places'
  <2>1. PICK old \in OlderFrames(r) :
            /\ pending' = (Live \ {old}) \cup {r}
            /\ slot' = [slot EXCEPT ![r] = slot[old]]
    BY <1>2 DEF Replace
  <2>2. old \in pending /\ Live \subseteq pending
    BY DEF OlderFrames, Live
  <2>3. \A q \in Requests : future[q] # "none" => slot'[q] = slot[q] /\ future'[q] # "none"
    BY <1>2, <1>0, <2>1 DEF Replace
  <2>4. \A q \in pending' : q = r \/ (q \in pending /\ q # old)
    BY <2>1, <2>2
  <2>5. slot'[r] = slot[old]
    BY <2>1
  <2> QED BY <1>2, <1>0, <2>2, <2>3, <2>4, <2>5 DEF Replace, Notify
<1>3. ASSUME NEW r \in Requests, RejectFull(r) PROVE Places'
  BY <1>3 DEF RejectFull, Live
<1>4. ASSUME NEW r \in Requests, Enqueue(r) PROVE Places'
  <2>1. \A q \in pending' : q = r \/ q \in pending
    BY <1>4 DEF Enqueue, Live
  <2>2. \A q \in Requests : future[q] # "none" => slot'[q] = slot[q] /\ future'[q] # "none"
    BY <1>4, <1>0 DEF Enqueue
  <2>3. slot'[r] = arrivals + 1 /\ arrivals' = arrivals + 1
    BY <1>4 DEF Enqueue
  <2> QED BY <1>4, <1>0, <2>1, <2>2, <2>3 DEF Enqueue, Notify
<1>5. ASSUME NEW r \in Requests, ClaimReplaced(r) PROVE Places'
  BY <1>5, <1>0 DEF ClaimReplaced, AfterClaim
<1>6. ASSUME NEW r \in Requests, FailReplaced(r) PROVE Places'
  BY <1>6 DEF FailReplaced
<1>7. ASSUME NEW r \in Requests, Cancel(r) PROVE Places'
  BY <1>7 DEF Cancel, AfterCancel
<1>8. CASE Wait BY <1>8 DEF Wait
<1>9. CASE Exit BY <1>9 DEF Exit
<1>10. CASE Pop
  <2>1. PICK r \in pending : IsFirst(r, pending) /\ pending' = pending \ {r} /\ job' = r
    BY <1>10 DEF Pop
  <2>2. \A q \in pending' : q \in pending /\ slot[r] < slot[q]
    BY <2>1 DEF IsFirst
  <2>3. r \in Requests /\ future[r] # "none"
    BY <1>0, <2>1
  <2>4. \A i \in DOMAIN served : slot[served[i]] < slot[r]
    BY <2>1
  <2> QED BY <1>10, <2>1, <2>2, <2>3, <2>4 DEF Pop
<1>11. CASE Claim BY <1>11 DEF Claim, AfterClaim
<1>12. CASE Expire BY <1>12 DEF Expire
<1>13. CASE Execute
  <2>1. served \in Seq(Requests) /\ job \in Requests
    BY <1>13  DEF Execute
  <2>2. /\ Len(served') = Len(served) + 1
        /\ \A i \in 1 .. Len(served) : served'[i] = served[i]
        /\ served'[Len(served) + 1] = job
        /\ DOMAIN served' = 1 .. Len(served) + 1
        /\ DOMAIN served = 1 .. Len(served)
    BY <1>13, <2>1, AppendProperties DEF Execute
  <2> QED BY <1>13, <2>1, <2>2 DEF Execute
<1>14. CASE Finish BY <1>14 DEF Finish
<1>15. ASSUME NEW c \in Closers, BeginClose(c) PROVE Places'
  BY <1>15 DEF BeginClose, TakeQueue, Notify
<1>16. ASSUME NEW c \in Closers, CancelDrained(c) PROVE Places'
  BY <1>16, <1>0 DEF CancelDrained, AfterCancel, IsFirst
<1>17. ASSUME NEW c \in Closers, EndClose(c) PROVE Places'
  BY <1>17 DEF EndClose
<1>18. CASE UNCHANGED vars BY <1>18 DEF vars
<1> QED
  BY <1>1, <1>2, <1>3, <1>4, <1>5, <1>6, <1>7, <1>8, <1>9, <1>10, <1>11,
     <1>12, <1>13, <1>14, <1>15, <1>16, <1>17, <1>18
  DEF Next, Submit, Resolve, Run, Close, Ended

LEMMA AlwaysPlaces == Spec => []Places
<1>1. Init => Places
  BY SchedulerAssumption DEF Init, Places, ServedInOrder
<1> QED
  BY <1>1, StepPlaces, TypeCorrect, AlwaysHands, PTL DEF Spec

\* Requests run in the order of their places, a replacement in the place of
\* the frame it replaced.
THEOREM RequestsRunInOrder == Spec => []ServedInOrder
  BY AlwaysPlaces, PTL DEF Places

-----------------------------------------------------------------------------
(* Answers *)

\* A request reaches the engine only with a future that stays open for its
\* answer: none that was cancelled, expired or superseded ever runs.
OnlyLiveRequestsRun ==
    \A i \in DOMAIN served : future[served[i]] \in {"RUNNING", "result", "error"}

\* A request that runs or ran is the dispatcher's until it is answered.
Answers ==
    /\ OnlyLiveRequestsRun
    /\ \A i \in DOMAIN served : future[served[i]] = "RUNNING" =>
        dispatcher = "executing" /\ served[i] = job

LEMMA StepAnswers ==
  ASSUME TypeOK, Hands, Answers, [Next]_vars PROVE Answers'
<1> USE SchedulerAssumption
    DEF TypeOK, Holding, Carrying, Answers, OnlyLiveRequestsRun
<1>0. /\ \A r \in pending : future[r] \in {"PENDING", "CANCELLED"}
      /\ \A c \in Closers : \A r \in drained[c] : future[r] \in {"PENDING", "CANCELLED"}
      /\ \A r \in Requests : submitter[r] = "idle" => future[r] = "none"
      /\ \A r \in Requests : replaced[r] # NoRequest =>
            replaced[r] # job /\ future[replaced[r]] \in {"PENDING", "CANCELLED", "RUNNING"}
      /\ dispatcher = "popped" => future[job] \in {"PENDING", "CANCELLED"}
      /\ dispatcher \in {"claimed", "executing"} => future[job] = "RUNNING"
  BY DEF Hands, Unclaimed, FutureProtocol, NothingShared
<1>1. ASSUME NEW r \in Requests, RejectClosed(r) PROVE Answers'
  BY <1>1 DEF RejectClosed
<1>2. ASSUME NEW r \in Requests, Replace(r) PROVE Answers'
  BY <1>2, <1>0 DEF Replace, Notify, Live, OlderFrames
<1>3. ASSUME NEW r \in Requests, RejectFull(r) PROVE Answers'
  BY <1>3 DEF RejectFull, Live
<1>4. ASSUME NEW r \in Requests, Enqueue(r) PROVE Answers'
  BY <1>4, <1>0 DEF Enqueue, Live, Notify
<1>5. ASSUME NEW r \in Requests, ClaimReplaced(r) PROVE Answers'
  <2>1. PICK old \in Requests : old = replaced[r] /\ future[old] \in {"PENDING", "CANCELLED"}
    BY <1>5 DEF ClaimReplaced, Hands, FutureProtocol
  <2>2. \A i \in DOMAIN served : served[i] # old
    BY <2>1
  <2> QED
    BY <1>5, <2>1, <2>2 DEF ClaimReplaced
<1>6. ASSUME NEW r \in Requests, FailReplaced(r) PROVE Answers'
  BY <1>6, <1>0 DEF FailReplaced
<1>7. ASSUME NEW r \in Requests, Cancel(r) PROVE Answers'
  BY <1>7, <1>0 DEF Cancel, AfterCancel
<1>8. CASE Wait BY <1>8 DEF Wait
<1>9. CASE Exit BY <1>9 DEF Exit
<1>10. CASE Pop
  BY <1>10, <1>0 DEF Pop, IsFirst
<1>11. CASE Claim
  BY <1>11, <1>0 DEF Claim, AfterClaim
<1>12. CASE Expire
  BY <1>12, <1>0 DEF Expire
<1>13. CASE Execute
  <2>1. /\ DOMAIN served' = 1 .. Len(served) + 1
        /\ DOMAIN served = 1 .. Len(served)
        /\ \A i \in 1 .. Len(served) : served'[i] = served[i]
        /\ served'[Len(served) + 1] = job
    BY <1>13, AppendProperties DEF Execute
  <2> QED BY <1>13, <1>0, <2>1 DEF Execute
<1>14. CASE Finish
  BY <1>14, <1>0 DEF Finish
<1>15. ASSUME NEW c \in Closers, BeginClose(c) PROVE Answers'
  BY <1>15 DEF BeginClose, TakeQueue, Notify
<1>16. ASSUME NEW c \in Closers, CancelDrained(c) PROVE Answers'
  BY <1>16, <1>0 DEF CancelDrained, AfterCancel, IsFirst
<1>17. ASSUME NEW c \in Closers, EndClose(c) PROVE Answers'
  BY <1>17 DEF EndClose
<1>18. CASE UNCHANGED vars BY <1>18 DEF vars
<1> QED
  BY <1>1, <1>2, <1>3, <1>4, <1>5, <1>6, <1>7, <1>8, <1>9, <1>10, <1>11,
     <1>12, <1>13, <1>14, <1>15, <1>16, <1>17, <1>18
  DEF Next, Submit, Resolve, Run, Close, Ended

LEMMA AlwaysAnswers == Spec => []Answers
<1>1. Init => Answers
  BY DEF Init, Answers, OnlyLiveRequestsRun
<1> QED
  BY <1>1, StepAnswers, TypeCorrect, AlwaysHands, PTL DEF Spec

\* The engine never works for a caller that has cancelled, was superseded or
\* has expired.
THEOREM OnlyOpenRequestsRun == Spec => []OnlyLiveRequestsRun
  BY AlwaysAnswers, PTL DEF Answers

\* A caller is told "superseded" only when a newer frame of the same stream
\* has taken the very place of its request.
SupersededByNewerFrame ==
    \A r \in Requests : future[r] = "superseded" =>
        /\ r \in Latest
        /\ \E q \in Latest \ {r} :
            /\ Stream[q] = Stream[r]
            /\ slot[q] = slot[r]
            /\ future[q] # "none"

\* q is a newer frame in the place of r.
Overtakes(q, r) ==
    /\ r \in Latest
    /\ q \in Latest \ {r}
    /\ Stream[q] = Stream[r]
    /\ slot[q] = slot[r]
    /\ future[q] # "none"

\* A submit() that holds a replaced job is the newer frame's.
Superseding ==
    /\ SupersededByNewerFrame
    /\ \A s \in Requests : replaced[s] # NoRequest =>
        Overtakes(s, replaced[s]) /\ future[replaced[s]] # "none"

LEMMA StepOvertakes ==
  ASSUME TypeOK, Hands, [Next]_vars,
         NEW q \in Requests, NEW r \in Requests, future[r] # "none", Overtakes(q, r)
  PROVE  Overtakes(q, r)' /\ future'[r] # "none"
<1> USE SchedulerAssumption
    DEF TypeOK, Overtakes, Holding, Carrying, FutureStates, Outcomes
<1>0. \A p \in Requests : submitter[p] = "idle" => future[p] = "none"
  BY DEF Hands, Unclaimed
<1>1. ASSUME NEW p \in Requests, RejectClosed(p) PROVE Overtakes(q, r)' /\ future'[r] # "none"
  BY <1>1, <1>0 DEF RejectClosed
<1>2. ASSUME NEW p \in Requests, Replace(p) PROVE Overtakes(q, r)' /\ future'[r] # "none"
  BY <1>2, <1>0 DEF Replace, Notify, Live, OlderFrames
<1>3. ASSUME NEW p \in Requests, RejectFull(p) PROVE Overtakes(q, r)' /\ future'[r] # "none"
  BY <1>3, <1>0 DEF RejectFull, Live
<1>4. ASSUME NEW p \in Requests, Enqueue(p) PROVE Overtakes(q, r)' /\ future'[r] # "none"
  BY <1>4, <1>0 DEF Enqueue, Live, Notify
<1>5. ASSUME NEW p \in Requests, ClaimReplaced(p) PROVE Overtakes(q, r)' /\ future'[r] # "none"
  BY <1>5, <1>0 DEF ClaimReplaced, AfterClaim
<1>6. ASSUME NEW p \in Requests, FailReplaced(p) PROVE Overtakes(q, r)' /\ future'[r] # "none"
  BY <1>6, <1>0 DEF FailReplaced
<1>7. ASSUME NEW p \in Requests, Cancel(p) PROVE Overtakes(q, r)' /\ future'[r] # "none"
  BY <1>7, <1>0 DEF Cancel, AfterCancel
<1>8. CASE Wait BY <1>8, <1>0 DEF Wait
<1>9. CASE Exit BY <1>9, <1>0 DEF Exit
<1>10. CASE Pop BY <1>10, <1>0 DEF Pop, IsFirst
<1>11. CASE Claim BY <1>11, <1>0 DEF Claim, AfterClaim
<1>12. CASE Expire BY <1>12, <1>0 DEF Expire
<1>13. CASE Execute BY <1>13, <1>0 DEF Execute
<1>14. CASE Finish BY <1>14, <1>0 DEF Finish
<1>15. ASSUME NEW c \in Closers, BeginClose(c) PROVE Overtakes(q, r)' /\ future'[r] # "none"
  BY <1>15, <1>0 DEF BeginClose, TakeQueue, Notify
<1>16. ASSUME NEW c \in Closers, CancelDrained(c) PROVE Overtakes(q, r)' /\ future'[r] # "none"
  BY <1>16, <1>0 DEF CancelDrained, AfterCancel, IsFirst
<1>17. ASSUME NEW c \in Closers, EndClose(c) PROVE Overtakes(q, r)' /\ future'[r] # "none"
  BY <1>17, <1>0 DEF EndClose
<1>18. CASE UNCHANGED vars BY <1>18, <1>0 DEF vars
<1> QED
  BY <1>1, <1>2, <1>3, <1>4, <1>5, <1>6, <1>7, <1>8, <1>9, <1>10, <1>11,
     <1>12, <1>13, <1>14, <1>15, <1>16, <1>17, <1>18
  DEF Next, Submit, Resolve, Run, Close, Ended

LEMMA StepSuperseding ==
  ASSUME TypeOK, Hands, Superseding, [Next]_vars PROVE Superseding'
<1> USE SchedulerAssumption DEF TypeOK, Holding
<1>1. ASSUME NEW s \in Requests, NEW r \in Requests, replaced'[s] = r
      PROVE  Overtakes(s, r)' /\ future'[r] # "none"
  <2>1. CASE replaced[s] = r
    <3>1. Overtakes(s, r) /\ future[r] # "none"
      BY <2>1 DEF Superseding
    <3> QED BY <3>1, StepOvertakes
  <2>2. CASE replaced[s] # r
    <3>1. Replace(s)
      BY <1>1, <2>2
      DEF Next, Submit, Resolve, Run, Close, Ended, vars, RejectClosed, Replace,
          RejectFull, Enqueue, ClaimReplaced, FailReplaced, Cancel, Wait, Exit,
          Pop, Claim, Expire, Execute, Finish, BeginClose, CancelDrained, EndClose
    <3>2. /\ slot' = [slot EXCEPT ![s] = slot[r]]
          /\ r \in OlderFrames(s)
      BY <1>1, <3>1 DEF Replace, OlderFrames, Live
    <3>3. /\ r \in pending /\ s \in Latest /\ r \in Latest /\ Stream[r] = Stream[s]
          /\ r # s /\ future[r] # "none"
      BY <3>1, <3>2 DEF OlderFrames, Live, Replace, Hands, Unclaimed
    <3>4. slot'[s] = slot'[r] /\ future'[s] = "PENDING" /\ future'[r] = future[r]
      BY <3>1, <3>2, <3>3 DEF Replace
    <3> QED BY <3>3, <3>4 DEF Overtakes
  <2> QED BY <2>1, <2>2
<1>2. ASSUME NEW r \in Requests, future'[r] = "superseded"
      PROVE  \E q \in Requests : Overtakes(q, r)'
  <2>1. CASE future[r] = "superseded"
    <3>1. PICK q \in Requests : Overtakes(q, r)
      BY <2>1, SchedulerAssumption DEF Superseding, SupersededByNewerFrame, Overtakes
    <3> QED BY <2>1, <3>1, StepOvertakes
  <2>2. CASE future[r] # "superseded"
    <3>1. PICK s \in Requests : FailReplaced(s) /\ r = replaced[s]
      <4>1. AfterCancel(future[r]) # "superseded" /\ AfterClaim(future[r]) # "superseded"
        BY <2>2 DEF AfterCancel, AfterClaim
      <4> QED
        BY <1>2, <2>2, <4>1
        DEF Next, Submit, Resolve, Run, Close, Ended, vars, RejectClosed, Replace,
            RejectFull, Enqueue, ClaimReplaced, FailReplaced, Cancel, Wait, Exit,
            Pop, Claim, Expire, Execute, Finish, BeginClose, CancelDrained, EndClose
    <3>2. Overtakes(s, r) /\ future[r] # "none"
      BY <3>1 DEF Superseding, FailReplaced
    <3> QED BY <3>2, StepOvertakes
  <2> QED BY <2>1, <2>2
<1>3. TypeOK'
  BY StepTypes
<1>4. ASSUME NEW s \in Requests, replaced'[s] # NoRequest
      PROVE  replaced'[s] \in Requests
  BY <1>3, <1>4
<1> QED BY <1>1, <1>2, <1>4 DEF Superseding, SupersededByNewerFrame, Overtakes

LEMMA AlwaysSuperseding == Spec => []Superseding
<1>1. Init => Superseding
  BY DEF Init, Superseding, SupersededByNewerFrame
<1> QED
  BY <1>1, StepSuperseding, TypeCorrect, AlwaysHands, PTL DEF Spec

\* "Superseded" is told only of a frame whose place a newer one has taken.
THEOREM SupersededRightly == Spec => []SupersededByNewerFrame
  BY AlwaysSuperseding, PTL DEF Superseding

-----------------------------------------------------------------------------
(* The ledger *)

\* The engine has q in hand.
Running(q) == dispatcher = "executing" /\ job = q

\* The status of q in the ledger, read off the scheduler's state.
StatusReads(q) ==
    /\ submitter[q] = "rejected" => LedgerStatus(q) = "rejected"
    /\ submitter[q] = "idle" => LedgerStatus(q) = "new"
    /\ submitter[q] \notin {"idle", "rejected"} =>
            LedgerStatus(q) \notin {"new", "rejected"}
    /\ future[q] = "PENDING" => LedgerStatus(q) = "open"
    /\ future[q] = "RUNNING" /\ ~Running(q) => LedgerStatus(q) = "open"
    /\ LedgerStatus(q) = "running" <=> Running(q)
    /\ future[q] \in {"CANCELLED", "CANCELLED_AND_NOTIFIED"} =>
            LedgerStatus(q) = "cancelled"
    /\ future[q] \in Outcomes => LedgerStatus(q) = future[q]

LEMMA LedgerStatusIs ==
  ASSUME TypeOK, Hands, NEW q \in Requests PROVE StatusReads(q)
  BY DEF StatusReads, LedgerStatus, Running, TypeOK, FutureStates, Outcomes,
         Holding, Carrying, Hands, Unclaimed, FutureProtocol

LEMMA LedgerStatusWillBe ==
  ASSUME TypeOK', Hands', NEW q \in Requests PROVE StatusReads(q)'
  BY DEF StatusReads, LedgerStatus, Running, TypeOK, FutureStates, Outcomes,
         Holding, Carrying, Hands, Unclaimed, FutureProtocol

\* What a caller can tell of q changes only if one of these does.
LEMMA LedgerStatusSame ==
  ASSUME NEW q \in Requests, future'[q] = future[q],
         (submitter'[q] = "rejected") <=> (submitter[q] = "rejected"),
         Running(q)' <=> Running(q)
  PROVE  LedgerStatus(q)' = LedgerStatus(q)
  BY DEF LedgerStatus, Running

\* A step that changes what is told of r, and of nobody else.
LEMMA LedgerBecomes ==
  ASSUME NEW r \in Requests, NEW to, LedgerStatus(r)' = to,
         \A q \in Requests \ {r} : LedgerStatus(q)' = LedgerStatus(q)
  PROVE  [q \in Requests |-> LedgerStatus(q)]'
            = [[q \in Requests |-> LedgerStatus(q)] EXCEPT ![r] = to]
  OBVIOUS

LEMMA LedgerStutters ==
  ASSUME \A q \in Requests : LedgerStatus(q)' = LedgerStatus(q), closed' = closed
  PROVE  UNCHANGED Ledger!vars
  BY DEF Ledger!vars

LEMMA StepLedger ==
  ASSUME TypeOK, TypeOK', Hands, Hands', Superseding, [Next]_vars
  PROVE  [Ledger!Next]_(Ledger!vars)
<1> USE SchedulerAssumption DEF TypeOK, Holding, Carrying, Running, StatusReads
<1>1. ASSUME NEW r \in Requests, RejectClosed(r) PROVE [Ledger!Next]_(Ledger!vars)
  <2>1. LedgerStatus(r) = "new" /\ LedgerStatus(r)' = "rejected"
    BY <1>1, LedgerStatusIs, LedgerStatusWillBe DEF RejectClosed
  <2>2. \A q \in Requests \ {r} : LedgerStatus(q)' = LedgerStatus(q)
    BY <1>1, LedgerStatusSame DEF RejectClosed
  <2>3. Ledger!Reject(r)
    BY <1>1, <2>1, <2>2, LedgerBecomes DEF RejectClosed, Ledger!Reject, Ledger!Become
  <2> QED BY <2>3 DEF Ledger!Next
<1>2. ASSUME NEW r \in Requests, Replace(r) PROVE [Ledger!Next]_(Ledger!vars)
  <2>1. LedgerStatus(r) = "new" /\ LedgerStatus(r)' = "open"
    BY <1>2, LedgerStatusIs, LedgerStatusWillBe DEF Replace, Notify
  <2>2. \A q \in Requests \ {r} : LedgerStatus(q)' = LedgerStatus(q)
    BY <1>2, LedgerStatusSame DEF Replace, Notify
  <2>3. Ledger!Accept(r)
    BY <1>2, <2>1, <2>2, LedgerBecomes DEF Replace, Ledger!Accept, Ledger!Become
  <2> QED BY <2>3 DEF Ledger!Next
<1>3. ASSUME NEW r \in Requests, RejectFull(r) PROVE [Ledger!Next]_(Ledger!vars)
  <2>1. LedgerStatus(r) = "new" /\ LedgerStatus(r)' = "rejected"
    BY <1>3, LedgerStatusIs, LedgerStatusWillBe DEF RejectFull
  <2>2. \A q \in Requests \ {r} : LedgerStatus(q)' = LedgerStatus(q)
    BY <1>3, LedgerStatusSame DEF RejectFull
  <2>3. Ledger!Reject(r)
    BY <1>3, <2>1, <2>2, LedgerBecomes DEF RejectFull, Ledger!Reject, Ledger!Become
  <2> QED BY <2>3 DEF Ledger!Next
<1>4. ASSUME NEW r \in Requests, Enqueue(r) PROVE [Ledger!Next]_(Ledger!vars)
  <2>1. LedgerStatus(r) = "new" /\ LedgerStatus(r)' = "open"
    BY <1>4, LedgerStatusIs, LedgerStatusWillBe DEF Enqueue, Notify
  <2>2. \A q \in Requests \ {r} : LedgerStatus(q)' = LedgerStatus(q)
    BY <1>4, LedgerStatusSame DEF Enqueue, Notify
  <2>3. Ledger!Accept(r)
    BY <1>4, <2>1, <2>2, LedgerBecomes DEF Enqueue, Ledger!Accept, Ledger!Become
  <2> QED BY <2>3 DEF Ledger!Next
<1>5. ASSUME NEW r \in Requests, ClaimReplaced(r) PROVE [Ledger!Next]_(Ledger!vars)
  <2>0. PICK old \in Requests : old = replaced[r]
    BY <1>5 DEF ClaimReplaced
  <2>1. /\ ~Running(old) /\ ~Running(old)'
        /\ future[old] \in {"PENDING", "CANCELLED"} /\ future'[old] = AfterClaim(future[old])
    BY <1>5, <2>0 DEF ClaimReplaced, Hands, FutureProtocol, NothingShared
  <2>2. LedgerStatus(old)' = LedgerStatus(old)
    BY <2>1, LedgerStatusIs, LedgerStatusWillBe DEF AfterClaim
  <2>3. \A q \in Requests \ {old} : LedgerStatus(q)' = LedgerStatus(q)
    BY <1>5, <2>0, LedgerStatusSame DEF ClaimReplaced
  <2> QED BY <1>5, <2>2, <2>3, LedgerStutters DEF ClaimReplaced
<1>6. ASSUME NEW r \in Requests, FailReplaced(r) PROVE [Ledger!Next]_(Ledger!vars)
  <2>0. PICK old \in Requests : old = replaced[r]
    BY <1>6 DEF FailReplaced
  <2>1. /\ ~Running(old) /\ future[old] = "RUNNING"
        /\ future'[old] = "superseded"
    <3>1. ~Running(old)
      BY <1>6, <2>0 DEF FailReplaced, Hands, NothingShared
    <3>2. future[old] = "RUNNING" /\ future'[old] = "superseded"
      BY <1>6, <2>0 DEF FailReplaced, Hands, FutureProtocol
    <3> QED
      BY <3>1, <3>2
  <2>2. LedgerStatus(old) = "open" /\ LedgerStatus(old)' = "superseded"
    BY <2>1, LedgerStatusIs, LedgerStatusWillBe DEF Outcomes
  <2>3. \A q \in Requests \ {old} : LedgerStatus(q)' = LedgerStatus(q)
    BY <1>6, <2>0, LedgerStatusSame DEF FailReplaced
  <2>4. /\ old \in Latest /\ r \in Latest \ {old} /\ Stream[r] = Stream[old]
        /\ future[r] # "none" /\ submitter[r] # "rejected"
    BY <1>6, <2>0 DEF FailReplaced, Superseding, Overtakes
  <2>5. LedgerStatus(r) \notin {"new", "rejected"}
    BY <2>4, LedgerStatusIs DEF TypeOK, FutureStates, StatusReads, Outcomes
  <2>6. Ledger!Become(old, "open", "superseded")
    BY <1>6, <2>2, <2>3, LedgerBecomes DEF FailReplaced, Ledger!Become
  <2>7. Ledger!Supersede(old)
    BY <2>4, <2>5, <2>6 DEF Ledger!Supersede, Ledger!Accepted
  <2> QED BY <2>1, <2>7 DEF Ledger!Next
<1>7. ASSUME NEW r \in Requests, Cancel(r) PROVE [Ledger!Next]_(Ledger!vars)
  <2>1. \A q \in Requests \ {r} : LedgerStatus(q)' = LedgerStatus(q)
    BY <1>7, LedgerStatusSame DEF Cancel
  <2>2. CASE future[r] = "PENDING"
    <3>1. LedgerStatus(r) = "open" /\ LedgerStatus(r)' = "cancelled"
      BY <1>7, <2>2, LedgerStatusIs, LedgerStatusWillBe DEF Cancel, AfterCancel
    <3>2. Ledger!Cancel(r)
      BY <1>7, <2>1, <3>1, LedgerBecomes DEF Cancel, Ledger!Cancel, Ledger!Become
    <3> QED BY <3>2 DEF Ledger!Next
  <2>3. CASE future[r] # "PENDING"
    <3>1. LedgerStatus(r)' = LedgerStatus(r)
      BY <1>7, <2>3, LedgerStatusSame DEF Cancel, AfterCancel
    <3> QED BY <1>7, <2>1, <3>1, LedgerStutters DEF Cancel
  <2> QED BY <2>2, <2>3
<1>8. CASE Wait
  BY <1>8, LedgerStatusSame, LedgerStutters DEF Wait
<1>9. CASE Exit
  BY <1>9, LedgerStatusSame, LedgerStutters DEF Exit
<1>10. CASE Pop
  BY <1>10, LedgerStatusSame, LedgerStutters DEF Pop
<1>11. CASE Claim
  <2>1. PICK r \in Requests : r = job
    BY <1>11 DEF Claim
  <2>2. /\ future[r] \in {"PENDING", "CANCELLED"}
        /\ future' = [future EXCEPT ![r] = AfterClaim(future[r])]
        /\ ~Running(r) /\ ~Running(r)'
    BY <1>11, <2>1 DEF Claim, Hands, FutureProtocol
  <2>3. LedgerStatus(r)' = LedgerStatus(r)
    BY <2>2, LedgerStatusIs, LedgerStatusWillBe DEF AfterClaim
  <2>4. \A q \in Requests \ {r} : LedgerStatus(q)' = LedgerStatus(q)
    BY <1>11, <2>1, <2>2, LedgerStatusSame DEF Claim
  <2> QED BY <1>11, <2>3, <2>4, LedgerStutters DEF Claim
<1>12. CASE Expire
  <2>1. PICK r \in Requests : r = job /\ r \in Limited
    BY <1>12 DEF Expire
  <2>2. LedgerStatus(r) = "open" /\ LedgerStatus(r)' = "expired"
    BY <1>12, <2>1, LedgerStatusIs, LedgerStatusWillBe DEF Expire, Hands, FutureProtocol, Outcomes
  <2>3. \A q \in Requests \ {r} : LedgerStatus(q)' = LedgerStatus(q)
    BY <1>12, <2>1, LedgerStatusSame DEF Expire
  <2>4. Ledger!Expire(r)
    BY <1>12, <2>1, <2>2, <2>3, LedgerBecomes DEF Expire, Ledger!Expire, Ledger!Become
  <2> QED BY <2>4 DEF Ledger!Next
<1>13. CASE Execute
  <2>1. PICK r \in Requests : r = job /\ Running(r)'
    BY <1>13 DEF Execute
  <2>2. LedgerStatus(r) = "open" /\ LedgerStatus(r)' = "running"
    BY <1>13, <2>1, LedgerStatusIs, LedgerStatusWillBe DEF Execute, Hands, FutureProtocol
  <2>3. \A q \in Requests \ {r} : LedgerStatus(q)' = LedgerStatus(q)
    BY <1>13, <2>1, LedgerStatusSame DEF Execute
  <2>4. \A q \in Requests : LedgerStatus(q) # "running"
    BY <1>13, LedgerStatusIs, LedgerStatusWillBe DEF Execute
  <2>5. Ledger!Start(r)
    BY <1>13, <2>2, <2>3, <2>4, LedgerBecomes DEF Execute, Ledger!Start, Ledger!Become
  <2> QED BY <2>5 DEF Ledger!Next
<1>14. CASE Finish
  <2>1. PICK r \in Requests, outcome \in {"result", "error"} :
            r = job /\ future' = [future EXCEPT ![r] = outcome]
    BY <1>14 DEF Finish
  <2>2. LedgerStatus(r) = "running" /\ LedgerStatus(r)' = outcome
    BY <1>14, <2>1, LedgerStatusIs, LedgerStatusWillBe DEF Finish, Outcomes
  <2>3. \A q \in Requests \ {r} : LedgerStatus(q)' = LedgerStatus(q)
    BY <1>14, <2>1, LedgerStatusSame DEF Finish
  <2>4. Ledger!Answer(r)
    BY <1>14, <2>1, <2>2, <2>3, LedgerBecomes DEF Finish, Ledger!Answer, Ledger!Become
  <2> QED BY <2>4 DEF Ledger!Next
<1>15. ASSUME NEW c \in Closers, BeginClose(c) PROVE [Ledger!Next]_(Ledger!vars)
  <2>1. \A q \in Requests : LedgerStatus(q)' = LedgerStatus(q)
    BY <1>15, LedgerStatusSame DEF BeginClose, Notify
  <2>2. Ledger!Close
    BY <1>15, <2>1 DEF BeginClose, Ledger!Close
  <2> QED BY <2>2 DEF Ledger!Next
<1>16. ASSUME NEW c \in Closers, CancelDrained(c) PROVE [Ledger!Next]_(Ledger!vars)
  <2>1. PICK r \in drained[c] : future' = [future EXCEPT ![r] = AfterCancel(@)]
    BY <1>16 DEF CancelDrained
  <2>2. r \in Requests /\ future[r] \in {"PENDING", "CANCELLED"}
    BY <2>1 DEF Hands, Unclaimed
  <2>3. \A q \in Requests \ {r} : LedgerStatus(q)' = LedgerStatus(q)
    BY <1>16, <2>1, LedgerStatusSame DEF CancelDrained
  <2>4. CASE future[r] = "PENDING"
    <3>1. LedgerStatus(r) = "open" /\ LedgerStatus(r)' = "cancelled"
      BY <2>1, <2>2, <2>4, LedgerStatusIs, LedgerStatusWillBe DEF AfterCancel
    <3>2. Ledger!Cancel(r)
      BY <1>16, <2>2, <2>3, <3>1, LedgerBecomes
      DEF CancelDrained, Ledger!Cancel, Ledger!Become
    <3> QED BY <2>2, <3>2 DEF Ledger!Next
  <2>5. CASE future[r] = "CANCELLED"
    <3>1. LedgerStatus(r)' = LedgerStatus(r)
      BY <1>16, <2>1, <2>2, <2>5, LedgerStatusSame DEF CancelDrained, AfterCancel
    <3> QED BY <1>16, <2>3, <3>1, LedgerStutters DEF CancelDrained
  <2> QED BY <2>2, <2>4, <2>5
<1>17. ASSUME NEW c \in Closers, EndClose(c) PROVE [Ledger!Next]_(Ledger!vars)
  BY <1>17, LedgerStatusSame, LedgerStutters DEF EndClose
<1>18. CASE UNCHANGED vars
  BY <1>18, LedgerStatusSame, LedgerStutters DEF vars
<1> QED
  BY <1>1, <1>2, <1>3, <1>4, <1>5, <1>6, <1>7, <1>8, <1>9, <1>10, <1>11,
     <1>12, <1>13, <1>14, <1>15, <1>16, <1>17, <1>18
  DEF Next, Submit, Resolve, Run, Close, Ended

\* The scheduler implements the ledger: whatever its threads do between them,
\* a caller sees its request rejected, or accepted and answered once.
THEOREM SchedulerImplementsLedger == Spec => ImplementsLedger
<1>1. Init => Ledger!Init
  <2> SUFFICES ASSUME Init PROVE Ledger!Init
    OBVIOUS
  <2>1. \A r \in Requests : LedgerStatus(r) = "new"
    BY DEF Init, LedgerStatus, Outcomes
  <2> QED BY <2>1 DEF Init, Ledger!Init
<1> QED
  BY <1>1, StepLedger, TypeCorrect, AlwaysHands, AlwaysSuperseding, PTL
  DEF Spec, Ledger!Spec, ImplementsLedger

=============================================================================
