---------------------------- MODULE ServerProofs ----------------------------
(* Theorems about Server, for any connections, any capacities and any number *)
(* of requests.                                                              *)
EXTENDS Server, FiniteSetTheorems, TLAPS

-----------------------------------------------------------------------------
(* Where a handler is and what it has written *)

Places == {"away", "starting", "parsing", "reading", "evaluating", "replying",
           "leaving", "ended", "gone"}
Codes == {200, 401, 404, 408, 409, 422, 500, 503, 529}

\* TypeOK less the counting: what is true or false, and the rest.
Flags ==
    /\ closed \in BOOLEAN
    /\ admitted \in [Clients -> BOOLEAN]
    /\ unread \in [Clients -> BOOLEAN]
    /\ keep \in [Clients -> BOOLEAN]

Progress ==
    /\ connections \in Int
    /\ admission \in Int
    /\ where \in [Clients -> Places]
    /\ outcome \in [Clients -> Outcomes \cup {"none"}]
    /\ status \in [Clients -> Codes \cup {0}]
    /\ answers \in [Clients -> 0 .. 1]
    /\ written \in [Clients -> 0 .. 2]
    /\ command \in [Clients -> {"none", "GET", "POST"}]
    /\ asked \in [Clients -> Nat]

\* What is replied before a body is read.
Immediate == {200, 401, 404, 422, 503, 529}

\* Nothing of the response is written before "replying", where its status line
\* is counted with its headers.
Wire(c) ==
    /\ where[c] \in {"reading", "evaluating"} => answers[c] = 0 /\ written[c] = 0
    /\ where[c] = "replying" => written[c] \in 0 .. 1 /\ answers[c] = written[c]

\* A connection that will be used again has no body of a POST on it when a
\* handler is past reading one, and its response is whole when the handler leaves.
Clean(c) ==
    /\ where[c] \in {"evaluating", "replying", "leaving", "parsing"} /\ keep[c] /\ asked[c] > 0
            => (command[c] = "POST" => ~unread[c])
    /\ where[c] = "leaving" /\ keep[c] => written[c] = 2
    /\ where[c] = "parsing" /\ asked[c] > 0 => written[c] = 2
    /\ where[c] \in {"away", "starting", "parsing"} => keep[c]

\* The status that is replied, and the slot its request has.
Told(c) ==
    /\ where[c] \in {"away", "starting", "parsing", "reading", "evaluating"} => outcome[c] = "none"
    /\ where[c] = "replying" /\ outcome[c] # "none" =>
        /\ status[c] = StatusOf(outcome[c])
        /\ outcome[c] = "CancelledError" => closed
    /\ where[c] = "replying" /\ outcome[c] = "none" =>
        status[c] \in Immediate

Holds(c) ==
    /\ admitted[c] => where[c] \in {"reading", "evaluating", "replying", "leaving"}
    /\ where[c] \in {"away", "starting"} => asked[c] = 0

Exchange(c) == Wire(c) /\ Clean(c) /\ Told(c) /\ Holds(c)

Local == Flags /\ Progress /\ \A c \in Clients : Exchange(c)

LEMMA InitLocal == ASSUME Init PROVE Local
<1> USE ServerAssumption
    DEF Init, request, reply, Places, Codes, Outcomes
<1>1. Flags
  BY DEF Flags
<1>2. Progress
  BY DEF Progress
<1>3. ASSUME NEW c \in Clients PROVE Exchange(c)
  BY DEF Exchange, Wire, Clean, Told, Holds
<1> QED
  BY <1>1, <1>2, <1>3 DEF Local

\* What came is answered at once or admitted; only a GET and what is
\* admitted keep the connection.
LEMMA StepReceive ==
    ASSUME Local, NEW d \in Clients, Receive(d) PROVE Local'
<1>1. PICK kind \in Kinds : Answer(d, kind)
  BY DEF Receive
<1>2. admitted' \in [Clients -> BOOLEAN] /\ unread' \in [Clients -> BOOLEAN]
  BY <1>1 DEF Local, Flags, Answer
<1>3. CASE Refuse(d, 401) \/ Refuse(d, 404) \/ Refuse(d, 422) \/ Refuse(d, 529)
  <2>1. Flags'
    <3>1. keep' = [keep EXCEPT ![d] = FALSE]
      BY <1>3 DEF Refuse
    <3>2. keep' \in [Clients -> BOOLEAN]
      BY <3>1 DEF Local, Flags
    <3>3. closed' \in BOOLEAN
      BY DEF Receive, Local, Flags
    <3> QED
      BY <1>2, <3>2, <3>3 DEF Flags
  <2> USE ServerAssumption
      DEF Local, Flags, Progress, Places, Codes, GoTo, Receive, Answer, Refuse, Gets
  <2>2. Progress'
    BY <1>1, <1>3
  <2>3. ASSUME NEW c \in Clients PROVE Exchange(c)'
    BY <1>1, <1>3 DEF Exchange, Immediate, Wire, Clean, Told, Holds
  <2> QED
    BY <2>1, <2>2, <2>3
<1>4. CASE kind \in Gets \/ (kind = "post" /\ admission > 0)
  <2>1. keep' = keep
    BY <1>1, <1>4 DEF Answer, Reply, Gets
  <2>2. Flags'
    BY <1>2, <2>1 DEF Receive, Local, Flags
  <2> USE ServerAssumption
      DEF Local, Flags, Progress, Places, Codes, GoTo, Receive, Answer, Reply, Gets
  <2>3. Progress'
    BY <1>1, <1>4
  <2>4. ASSUME NEW c \in Clients PROVE Exchange(c)'
    BY <1>1, <1>4, <2>1 DEF Exchange, Immediate, Wire, Clean, Told, Holds
  <2> QED
    BY <2>2, <2>3, <2>4
<1> QED
  BY <1>1, <1>3, <1>4 DEF Answer, Gets

LEMMA StepLocal == ASSUME Local, [Next]_vars PROVE Local'
<1> USE ServerAssumption
    DEF Local, Flags, Progress, Exchange, Places, Codes, Outcomes, Wire, Clean,
        Told, Holds, Immediate, GoTo, StatusOf, request, reply
<1>1. ASSUME NEW d \in Clients, Accept(d) PROVE Local'
  BY <1>1 DEF Accept
<1>2. ASSUME NEW d \in Clients, Start(d) PROVE Local'
  BY <1>2 DEF Start
<1>3. ASSUME NEW d \in Clients, StartFails(d) PROVE Local'
  BY <1>3 DEF StartFails
<1>4. ASSUME NEW d \in Clients, Receive(d) PROVE Local'
  BY <1>4, StepReceive
<1>5. ASSUME NEW d \in Clients, Hangup(d) PROVE Local'
  BY <1>5 DEF Hangup
<1>6. ASSUME NEW d \in Clients, ReadBody(d) PROVE Local'
  BY <1>6 DEF ReadBody
<1>7. ASSUME NEW d \in Clients, BadBody(d) PROVE Local'
  BY <1>7 DEF BadBody, Reply
<1>8. ASSUME NEW d \in Clients, Evaluate(d) PROVE Local'
  BY <1>8 DEF Evaluate, Reply
<1>9. ASSUME NEW d \in Clients, Write(d) PROVE Local'
  BY <1>9 DEF Write
<1>10. ASSUME NEW d \in Clients, Unserializable(d) PROVE Local'
  BY <1>10 DEF Unserializable
<1>11. ASSUME NEW d \in Clients, Break(d) PROVE Local'
  BY <1>11 DEF Break
<1>12. ASSUME NEW d \in Clients, Leave(d) PROVE Local'
  BY <1>12 DEF Leave, ReleaseAdmission, ForgetReply
<1>13. ASSUME NEW d \in Clients, Release(d) PROVE Local'
  BY <1>13 DEF Release
<1>14. CASE Interrupt BY <1>14 DEF Interrupt
<1>15. CASE UNCHANGED vars BY <1>15 DEF vars
<1> HIDE DEF Local
<1> QED
  BY <1>1, <1>2, <1>3, <1>4, <1>5, <1>6, <1>7, <1>8, <1>9, <1>10, <1>11,
     <1>12, <1>13, <1>14, <1>15
  DEF Next, Handle, Ended

THEOREM LocalHolds == Spec => []Local
  BY InitLocal, StepLocal, PTL DEF Spec

\* Where a POST was answered and the connection kept, the next request finds
\* nothing of it in its way.
THEOREM KeptPostsAreClean == Spec => []PostsLeaveNothing
<1>1. Local => PostsLeaveNothing
  BY DEF Local, Flags, Progress, Places, Exchange, Clean, PostsLeaveNothing
<1> QED
  BY <1>1, LocalHolds, PTL

\* No request gets a second status line, whatever breaks.
THEOREM AnsweredOnce == Spec => []OneResponse
<1>1. Local => OneResponse
  BY DEF Local, Progress, OneResponse
<1> QED
  BY <1>1, LocalHolds, PTL

\* What a client may conclude from a status is what happened to its request.
THEOREM StatusIsTrue == Spec => []StatusTellsOutcome
<1>1. Local => StatusTellsOutcome
  BY DEF Local, Progress, Outcomes, Codes, Exchange, Told, Immediate, StatusOf, StatusTellsOutcome
<1> QED
  BY <1>1, LocalHolds, PTL

-----------------------------------------------------------------------------
(* The slots *)

\* What a semaphore and the slots taken from it add up to.
Slots ==
    /\ IsFiniteSet(Accepted) /\ connections = Capacity - Cardinality(Accepted)
    /\ IsFiniteSet(Trying) /\ admission = RequestCapacity - Cardinality(Trying)
    /\ connections >= 0
    /\ admission >= 0

\* Taking one slot, or giving one back.
LEMMA Add ==
    ASSUME NEW S, NEW T, IsFiniteSet(S), NEW c, c \notin S, T = S \cup {c}
    PROVE  IsFiniteSet(T) /\ Cardinality(T) = Cardinality(S) + 1 /\ Cardinality(S) \in Nat
  BY FS_AddElement, FS_CardinalityType

LEMMA Remove ==
    ASSUME NEW S, NEW T, IsFiniteSet(S), NEW c, c \in S, T = S \ {c}
    PROVE  IsFiniteSet(T) /\ Cardinality(T) = Cardinality(S) - 1 /\ Cardinality(S) \in Nat
                 /\ Cardinality(S) >= 1
  <1>1. IsFiniteSet(T) /\ Cardinality(T) = Cardinality(S) - 1
    BY FS_RemoveElement
  <1>2. Cardinality(T) \in Nat /\ Cardinality(S) \in Nat
    BY <1>1, FS_CardinalityType
  <1> QED
    BY <1>1, <1>2

LEMMA InitSlots == ASSUME Init PROVE Slots
<1>1. Accepted = {} /\ Trying = {}
  BY DEF Init, Accepted, Trying
<1> QED
  BY <1>1, FS_EmptySet, ServerAssumption DEF Init, Slots

\* A step of one handler takes or returns at most its own slots.
LEMMA StepSlots == ASSUME Local, Slots, [Next]_vars PROVE Slots'
<1> USE ServerAssumption
    DEF Local, Flags, Progress, Exchange, Holds, Places, GoTo, request, reply
<1>1. ASSUME Accepted' = Accepted, Trying' = Trying, connections' = connections,
             admission' = admission
      PROVE  Slots'
  BY <1>1 DEF Slots
<1>2. ASSUME NEW d \in Clients, Accept(d) PROVE Slots'
  <2>1. CASE connections = 0
    BY <1>1, <1>2, <2>1 DEF Accept, Accepted, Trying
  <2>2. CASE connections # 0
    <3>1. d \notin Accepted /\ Accepted' = Accepted \cup {d} /\ Trying' = Trying
      BY <1>2, <2>2 DEF Accept, Accepted, Trying
    <3>2. connections' = connections - 1 /\ admission' = admission /\ connections \in Int
      BY <1>2, <2>2 DEF Accept
    <3> HIDE DEF Local, Accepted, Trying
    <3> QED
      BY <2>2, <3>1, <3>2, Add DEF Slots
  <2> QED
    BY <2>1, <2>2
<1>3. ASSUME NEW d \in Clients, StartFails(d) \/ Release(d) PROVE Slots'
  <2>1. d \in Accepted /\ Accepted' = Accepted \ {d} /\ Trying' = Trying
    BY <1>3 DEF StartFails, Release, Accepted, Trying
  <2> QED
    BY <1>3, <2>1, Remove DEF StartFails, Release, Slots
<1>4. ASSUME NEW d \in Clients, Receive(d) PROVE Slots'
  <2>1. PICK kind \in Kinds : Answer(d, kind)
    BY <1>4 DEF Receive
  <2>2. Accepted' = Accepted
    BY <1>4, <2>1 DEF Receive, Answer, Reply, Refuse, Accepted, Gets
  <2>3. CASE kind = "post" /\ admission > 0
    <3>1. d \notin Trying
      BY <1>4 DEF Receive, Trying
    <3>2. admitted' = [admitted EXCEPT ![d] = TRUE]
      BY <2>1, <2>3 DEF Answer
    <3>3. Trying' = Trying \cup {d}
      BY <3>2 DEF Trying
    <3> QED
      BY <3>3, <1>4, <2>1, <2>2, <2>3, <3>1, Add DEF Receive, Answer, Slots
  <2>4. CASE ~(kind = "post" /\ admission > 0)
    <3>1. Trying' = Trying
      BY <1>4, <2>1, <2>4 DEF Receive, Answer, Trying
    <3> QED
      BY <1>1, <1>4, <2>1, <2>2, <2>4, <3>1 DEF Receive, Answer
  <2> QED
    BY <2>3, <2>4
<1>5. ASSUME NEW d \in Clients, Leave(d) PROVE Slots'
  <2>1. Accepted' = Accepted
    BY <1>5 DEF Leave, Accepted
  <2>2. CASE admitted[d]
    <3>1. d \in Trying /\ Trying' = Trying \ {d}
      BY <1>5, <2>2 DEF Leave, ReleaseAdmission, Trying
    <3> QED
      BY <1>5, <2>1, <2>2, <3>1, Remove DEF Leave, ReleaseAdmission, Slots
  <2>3. CASE ~admitted[d]
    <3>1. Trying' = Trying
      BY <1>5, <2>3 DEF Leave, ReleaseAdmission, Trying
    <3> QED
      BY <1>1, <1>5, <2>1, <2>3, <3>1 DEF Leave, ReleaseAdmission
  <2> QED
    BY <2>2, <2>3
<1>6. ASSUME NEW d \in Clients,
             Start(d) \/ Hangup(d) \/ ReadBody(d) \/ BadBody(d) \/ Evaluate(d)
               \/ Write(d) \/ Unserializable(d) \/ Break(d)
      PROVE  Slots'
  <2>1. Accepted' = Accepted /\ Trying' = Trying
    BY <1>6 DEF Accepted, Trying, Start, Hangup, ReadBody, BadBody, Evaluate,
                Write, Unserializable, Break, Reply
  <2>2. connections' = connections /\ admission' = admission
    BY <1>6 DEF Start, Hangup, ReadBody, BadBody, Evaluate, Write, Unserializable, Break
  <2> QED
    BY <1>1, <2>1, <2>2
<1>7. CASE Interrupt \/ UNCHANGED vars
  BY <1>1, <1>7 DEF Interrupt, vars, Accepted, Trying
<1> QED
  BY <1>2, <1>3, <1>4, <1>5, <1>6, <1>7 DEF Next, Handle, Ended

\* Slots are neither lost nor made, so neither bound is ever exceeded.
THEOREM TypeCorrect == Spec => []TypeOK
<1>1. Local /\ Slots => TypeOK
  <2> SUFFICES ASSUME Local, Slots PROVE TypeOK
    OBVIOUS
  <2>1. Cardinality(Accepted) \in Nat /\ Cardinality(Trying) \in Nat
    BY FS_CardinalityType DEF Slots
  <2> QED
    BY <2>1, ServerAssumption
    DEF Local, Flags, Progress, Places, Codes, Slots, TypeOK
<1>2. Init => Slots
  BY InitSlots
<1>3. Local /\ Slots /\ [Next]_vars => Slots'
  BY StepSlots
<1> QED
  BY <1>1, <1>2, <1>3, LocalHolds, PTL DEF Spec

=============================================================================
