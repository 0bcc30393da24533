----------------------------- MODULE BarProofs ------------------------------
(***************************************************************************)
(* Proofs about the bars: Mt5Bridge, for every horizon, number of bars in  *)
(* a request, cap of the capture file, and number of bars, polls and       *)
(* faults; MarketData, for every limit of a page, number of tries,         *)
(* warm-up, history and number of bars and failures; Features, for every   *)
(* window, optional source and buffer that WindowsFit admits; Sources, for *)
(* every set of bars and of times of a source.                             *)
(***************************************************************************)
EXTENDS Mt5Bridge, MarketData, Features, Sources, FoldProofs, FunctionTheorems, SequenceTheorems

LEMMA Idle == NoRequest \in RequestType /\ NoAnswer \in AnswerType
  BY BridgeAssumption DEF NoRequest, NoAnswer, RequestType, AnswerType, Positions, BridgeAssumption

\* A time exit closes; only a request without a position is told to open, only one with a
\* position to close.
LEMMA DecisionFact ==
  ASSUME NEW q \in RequestType, NEW gate \in BOOLEAN
  PROVE  /\ Decision(q, gate) \in Sides \cup {"close", "hold", "none"}
         /\ q.side # "flat" /\ TooOld(q.held) => Decision(q, gate) = "close"
         /\ Decision(q, gate) \in Sides => q.side = "flat"
  BY DEF Decision, RequestType, Positions, Sides

-----------------------------------------------------------------------------
(* The server's part of a poll.                                            *)

\* What was decided for request r suits the position it was about, which is the one r reported.
Suits(r) ==
  place[r] \in {"append", "merged", "writing", "answer"} =>
    /\ answer[r].about = request[r].side
    /\ answer[r].action \in Sides => answer[r].about = "flat"
    /\ answer[r].due => answer[r].action = "close"

\* While the terminal waits for r, the broker may have closed the position r reported, but there
\* is no other one.
Unchanged(r) == asking = r /\ place[r] # "over" => side \in {"flat", request[r].side}

BridgeInv ==
  /\ BridgeTypeOK
  /\ asking <= polls
  /\ side # "flat" => since \in 1..closedBars
  /\ \A r \in Requests : Suits(r) /\ Unchanged(r)

LEMMA BridgeInitial == BridgeInit => BridgeInv
  <1> SUFFICES ASSUME BridgeInit PROVE BridgeInv
    OBVIOUS
  <1> USE BridgeAssumption DEF BridgeAssumption, BridgeInit
  <1>1. BridgeTypeOK
    <2>1. closedBars \in Bars /\ MaxPolls \in Nat /\ MaxBars \in Nat /\ MaxFaults \in Nat
      BY DEF Bars
    <2>2. side \in Positions /\ signal \in Sides \cup {"none"}
      BY DEF Positions
    <2>3. /\ place \in [Requests -> {"over", "decide", "append", "merged", "writing", "answer"}]
          /\ request \in [Requests -> RequestType] /\ answer \in [Requests -> AnswerType]
          /\ merged \in [Requests -> SUBSET Bars]
      BY Idle
    <2>4. since \in 0..MaxBars /\ polls \in 0..MaxPolls /\ asking \in 0..MaxPolls /\ faults \in 0..MaxFaults
      BY <2>1
    <2>5. readable \in BOOLEAN /\ torn \in BOOLEAN /\ captured \subseteq Bars /\ arrived \subseteq Bars
      OBVIOUS
    <2> QED
      BY <2>1, <2>2, <2>3, <2>4, <2>5 DEF BridgeTypeOK
  <1>2. \A r \in Requests : Suits(r) /\ Unchanged(r)
    BY DEF Suits, Unchanged
  <1> QED
    BY <1>1, <1>2 DEF BridgeInv

LEMMA NewestFact == ASSUME NEW S \in SUBSET Bars PROVE Newest(S) \subseteq S
  BY DEF Newest

LEMMA BridgeStep == BridgeInv /\ [BridgeNext]_bridgeVars => BridgeInv'
  <1> SUFFICES ASSUME BridgeInv, [BridgeNext]_bridgeVars PROVE BridgeInv'
    OBVIOUS
  <1> USE BridgeAssumption DEF BridgeAssumption
  <1>a. BridgeTypeOK /\ asking <= polls /\ (side # "flat" => since \in 1..closedBars)
        /\ \A r \in Requests : Suits(r) /\ Unchanged(r)
    BY DEF BridgeInv
  <1>b. /\ closedBars \in Bars /\ since \in 0..MaxBars /\ polls \in 0..MaxPolls
        /\ side \in Positions /\ signal \in Sides \cup {"none"}
        /\ asking \in 0..MaxPolls /\ faults \in 0..MaxFaults
        /\ place \in [Requests -> {"over", "decide", "append", "merged", "writing", "answer"}]
        /\ request \in [Requests -> RequestType] /\ answer \in [Requests -> AnswerType]
        /\ merged \in [Requests -> SUBSET Bars]
        /\ captured \subseteq Bars /\ arrived \subseteq Bars
        /\ readable \in BOOLEAN /\ torn \in BOOLEAN
    BY <1>a DEF BridgeTypeOK
  \* The market, the broker and a wait that times out leave the server alone.
  <1>1. ASSUME BarCloses \/ NativeExit \/ PollTimesOut PROVE BridgeInv'
    <2>1. UNCHANGED server
      BY <1>1 DEF BarCloses, NativeExit, PollTimesOut
    <2>2. \A r \in Requests : Suits(r)'
      BY <2>1, <1>a DEF server, Suits
    <2>3. \A r \in Requests : Unchanged(r)'
      BY <1>1, <2>1, <1>a DEF BarCloses, NativeExit, PollTimesOut, Unchanged, broker, server, Requests
    <2>4. BridgeTypeOK'
      <3>1. /\ closedBars' \in Bars /\ since' \in 0..MaxBars /\ side' \in Positions /\ signal' \in Sides \cup {"none"}
            /\ polls' = polls /\ asking' \in 0..MaxPolls /\ faults' \in 0..MaxFaults
        BY <1>1, <1>b DEF BarCloses, NativeExit, PollTimesOut, broker, Bars, Positions
      <3>2. UNCHANGED captureFile
        BY <1>1 DEF BarCloses, NativeExit, PollTimesOut
      <3> QED
        BY <1>b, <2>1, <3>1, <3>2 DEF BridgeTypeOK, server, captureFile
    <2>5. asking' <= polls' /\ (side' # "flat" => since' \in 1..closedBars')
      BY <1>1, <1>a, <1>b DEF BarCloses, NativeExit, PollTimesOut, broker, Bars
    <2> QED
      BY <2>2, <2>3, <2>4, <2>5 DEF BridgeInv
  <1>2. ASSUME Poll PROVE BridgeInv'
    <2> DEFINE n == polls + 1
               q == [bars |-> {b \in 1..closedBars : b + BarsToSend > closedBars},
                     side |-> side, held |-> BarsHeld, signal |-> signal]
    <2>1. /\ polls' = n /\ asking' = n /\ n \in Requests
          /\ place' = [place EXCEPT ![n] = "decide"] /\ request' = [request EXCEPT ![n] = q]
          /\ UNCHANGED <<closedBars, side, since, signal, answer, merged, captured, readable, arrived, torn, faults>>
      BY <1>2, <1>b DEF Poll, broker, captureFile, Requests
    <2>2. BarsHeld \in 0..MaxBars
      BY <1>a, <1>b DEF BarsHeld, Bars
    <2>3. q \in RequestType
      BY <1>b, <2>2 DEF RequestType, Bars
    <2> HIDE DEF q
    <2>4. BridgeTypeOK'
      BY <1>b, <2>1, <2>3 DEF Requests, BridgeTypeOK
    <2>5. \A r \in Requests : Suits(r)'
      BY <1>a, <1>b, <2>1 DEF Suits
    <2>6. \A r \in Requests : Unchanged(r)'
      BY <1>b, <2>1 DEF Unchanged, q
    <2> QED
      BY <1>a, <2>1, <2>4, <2>5, <2>6, <1>b DEF BridgeInv
  <1>3. ASSUME NEW r \in Requests, Decide(r) PROVE BridgeInv'
    <2>1. PICK known \in BOOLEAN, gate \in BOOLEAN :
            answer' = [answer EXCEPT ![r] =
              [action |-> IF known THEN Decision(request[r], gate) ELSE "none", about |-> request[r].side,
               due |-> known /\ request[r].side # "flat" /\ TooOld(request[r].held)]]
      BY <1>3 DEF Decide
    <2> DEFINE a == [action |-> IF known THEN Decision(request[r], gate) ELSE "none", about |-> request[r].side,
                     due |-> known /\ request[r].side # "flat" /\ TooOld(request[r].held)]
    <2>2. a \in AnswerType /\ a.about = request[r].side
          /\ (a.action \in Sides => a.about = "flat") /\ (a.due => a.action = "close")
      <3>1. request[r] \in RequestType /\ request[r].side \in Positions
        BY <1>b DEF RequestType
      <3>2. a.action \in Sides \cup {"close", "hold", "none"}
        BY <3>1, DecisionFact
      <3>3. a.due \in BOOLEAN
        BY DEF TooOld
      <3>4. a \in AnswerType
        BY <3>1, <3>2, <3>3 DEF AnswerType
      <3> QED
        BY <3>1, <3>4, DecisionFact DEF Sides
    <2> HIDE DEF a
    <2>3. /\ answer' = [answer EXCEPT ![r] = a] /\ place' = [place EXCEPT ![r] = "append"] /\ place[r] = "decide"
          /\ UNCHANGED <<closedBars, side, since, signal, polls, asking, request, merged, captured, readable, arrived, torn, faults>>
      BY <1>3, <2>1 DEF Decide, broker, captureFile, a
    <2>4. BridgeTypeOK'
      BY <1>b, <2>2, <2>3 DEF BridgeTypeOK
    <2>5. \A s \in Requests : Suits(s)'
      BY <1>a, <1>b, <2>2, <2>3 DEF Suits
    <2>6. \A s \in Requests : Unchanged(s)'
      BY <1>a, <1>b, <2>3 DEF Unchanged
    <2> QED
      BY <1>a, <2>3, <2>4, <2>5, <2>6 DEF BridgeInv
  <1>4. ASSUME NEW r \in Requests, ReadAndMerge(r) \/ BeginWrite(r) \/ EndWrite(r) \/ AppendFails(r) PROVE BridgeInv'
    <2>1. /\ UNCHANGED <<closedBars, side, since, signal, polls, asking, request, answer, faults>>
          /\ place[r] \in {"append", "merged", "writing"}
          /\ \E to \in {"merged", "writing", "answer"} : place' = [place EXCEPT ![r] = to]
      BY <1>4 DEF ReadAndMerge, BeginWrite, EndWrite, AppendFails, broker
    <2>2. request[r].bars \subseteq Bars
      BY <1>b DEF RequestType
    <2>3. Newest(captured \cup request[r].bars) \subseteq Bars
      BY <1>b, <2>2, NewestFact
    <2>4. merged' \in [Requests -> SUBSET Bars] /\ captured' \subseteq Bars /\ arrived' \subseteq Bars
      BY <1>4, <1>b, <2>2, <2>3 DEF ReadAndMerge, BeginWrite, EndWrite, AppendFails, captureFile
    <2>5. readable' \in BOOLEAN /\ torn' \in BOOLEAN
      BY <1>4, <1>b DEF ReadAndMerge, BeginWrite, EndWrite, AppendFails, captureFile
    <2>6. BridgeTypeOK'
      BY <1>b, <2>1, <2>4, <2>5 DEF BridgeTypeOK
    <2>7. \A s \in Requests : Suits(s)' /\ Unchanged(s)'
      BY <1>a, <1>b, <2>1 DEF Suits, Unchanged
    <2> QED
      BY <1>a, <2>1, <2>6, <2>7 DEF BridgeInv
  <1>5. ASSUME ServerDies PROVE BridgeInv'
    <2>1. /\ UNCHANGED <<closedBars, side, since, signal, polls, captured, readable, arrived>>
          /\ asking' = 0 /\ faults' \in 0..MaxFaults /\ torn' \in BOOLEAN
          /\ place' = [r \in Requests |-> "over"] /\ request' = [r \in Requests |-> NoRequest]
          /\ answer' = [r \in Requests |-> NoAnswer] /\ merged' = [r \in Requests |-> {}]
      BY <1>5, <1>b DEF ServerDies, broker
    <2>2. BridgeTypeOK'
      BY <1>b, <2>1, Idle DEF BridgeTypeOK
    <2>3. \A s \in Requests : Suits(s)' /\ Unchanged(s)'
      BY <2>1 DEF Suits, Unchanged
    <2> QED
      BY <1>a, <1>b, <2>1, <2>2, <2>3 DEF BridgeInv
  <1>6. ASSUME NEW r \in Requests, Answered(r) \/ CloseRefused(r) \/ AnsweredLate(r) PROVE BridgeInv'
    <2>1. /\ Over(r) /\ UNCHANGED <<closedBars, signal, polls, captured, readable, arrived, torn>>
          /\ faults' \in 0..MaxFaults
          /\ asking' = 0 \/ UNCHANGED <<asking, side, since>>
          /\ asking' = asking \/ asking' = 0
      BY <1>6, <1>b DEF Answered, CloseRefused, AnsweredLate, captureFile, broker
    <2>2. side' \in Positions /\ since' \in 0..MaxBars /\ (side' # "flat" => since' \in 1..closedBars)
      BY <1>6, <1>a, <1>b DEF Answered, CloseRefused, AnsweredLate, CarryOut, broker, Positions, Bars
    <2>3. /\ place' = [place EXCEPT ![r] = "over"] /\ request' = [request EXCEPT ![r] = NoRequest]
          /\ answer' = [answer EXCEPT ![r] = NoAnswer] /\ merged' = merged
      BY <2>1 DEF Over
    <2>4. BridgeTypeOK'
      BY <1>b, <2>1, <2>2, <2>3, Idle DEF BridgeTypeOK
    <2>5. \A s \in Requests : Suits(s)'
      BY <1>a, <1>b, <2>3 DEF Suits
    <2>6. \A s \in Requests : Unchanged(s)'
      BY <1>a, <1>b, <2>1, <2>3 DEF Unchanged, Requests
    <2> QED
      BY <1>a, <1>b, <2>1, <2>2, <2>4, <2>5, <2>6 DEF BridgeInv
  <1>7. CASE UNCHANGED bridgeVars
    BY <1>7, <1>a, <1>b DEF bridgeVars, BridgeInv, Suits, Unchanged, BridgeTypeOK
  <1> QED
    BY <1>1, <1>2, <1>3, <1>4, <1>5, <1>6, <1>7 DEF BridgeNext

THEOREM BridgeInvariant == BridgeSpec => []BridgeInv
  BY BridgeInitial, BridgeStep, PTL DEF BridgeSpec

-----------------------------------------------------------------------------

\* The types of the bridge's state, among them: every request, answer and captured bar is
\* well formed, and a bar count never exceeds the bars there are.
THEOREM BridgeTypes == BridgeSpec => []BridgeTypeOK
  <1>1. BridgeInv => BridgeTypeOK
    BY DEF BridgeInv
  <1> QED
    BY <1>1, BridgeInvariant, PTL

\* What a step that carries out an answer does, whatever the broker and the market did since
\* the request was built.
LEMMA ActsStep ==
  ASSUME BridgeInv, BridgeNext, NEW r \in Requests,
         place[r] = "answer", asking = r, asking' = 0, faults' = faults
  PROVE  /\ side = "flat" /\ side' # "flat" => answer[r].about = "flat"
         /\ side # "flat" => answer[r].about = side /\ side' \in {side, "flat"}
         /\ answer[r].due => side' = "flat"
  <1>1. faults \in Nat /\ r \in Nat \ {0} /\ polls \in Nat /\ asking # 0
    BY DEF BridgeInv, Requests, BridgeTypeOK
  <1>2. Suits(r) /\ Unchanged(r)
    BY DEF BridgeInv
  <1>3. /\ answer[r].about = request[r].side
        /\ (answer[r].action \in Sides => answer[r].about = "flat") /\ (answer[r].due => answer[r].action = "close")
        /\ side \in {"flat", answer[r].about}
    BY <1>2 DEF Suits, Unchanged
  <1>4. CASE Answered(r)
    BY <1>3, <1>4 DEF Answered, CarryOut, Sides, broker
  <1>5. ~ Answered(r) => FALSE
    <2>1. CASE BarCloses \/ NativeExit \/ Poll \/ PollTimesOut \/ ServerDies
      BY <2>1, <1>1 DEF BarCloses, NativeExit, Poll, PollTimesOut, ServerDies
    <2>2. ASSUME NEW s \in Requests,
                 Decide(s) \/ ReadAndMerge(s) \/ BeginWrite(s) \/ EndWrite(s) \/ AppendFails(s) \/ CloseRefused(s) \/ AnsweredLate(s)
          PROVE  FALSE
      <3>1. asking' = asking \/ faults' = faults + 1
        BY <2>2 DEF Decide, ReadAndMerge, BeginWrite, EndWrite, AppendFails, CloseRefused, AnsweredLate
      <3> QED
        BY <3>1, <1>1
    <2>3. ASSUME NEW s \in Requests, Answered(s) PROVE s = r
      BY <2>3 DEF Answered
    <2> QED
      BY <2>1, <2>2, <2>3 DEF BridgeNext
  <1> QED
    BY <1>4, <1>5

\* The EA acts on the position its answer is about, however late the answer, whatever the broker
\* closed meanwhile and whichever requests are still in progress; a position past the time barrier
\* is closed by it (integrations/mt5/bridge.py:221).
THEOREM ActsOnItsAnswer == BridgeSpec => ActsOnWhatItSaw
  <1>1. BridgeInv /\ [BridgeNext]_bridgeVars =>
          [\A r \in Requests : place[r] = "answer" /\ asking = r /\ asking' = 0 /\ faults' = faults =>
             /\ side = "flat" /\ side' # "flat" => answer[r].about = "flat"
             /\ side # "flat" => answer[r].about = side /\ side' \in {side, "flat"}
             /\ answer[r].due => side' = "flat"]_bridgeVars
    BY ActsStep
  <1> QED
    BY <1>1, BridgeInvariant, PTL DEF BridgeSpec, ActsOnWhatItSaw

-----------------------------------------------------------------------------
(* The capture file                                                        *)

Capped(S) == CaptureCap = 0 \/ Cardinality(S) <= CaptureCap

\* Of the bars T the set S lacks only those that CaptureCap newer ones pushed out.
Lacks(S, T) ==
  /\ S \subseteq T
  /\ \A b \in T \ S : CaptureCap # 0 /\ Cardinality({c \in S : c > b}) = CaptureCap

LEMMA FiniteBars ==
  ASSUME NEW S \in SUBSET Bars
  PROVE  IsFiniteSet(S) /\ Cardinality(S) \in Nat /\ S \in SUBSET Nat /\ \A x \in S : x <= MaxBars
  <1>1. MaxBars \in Nat /\ IsFiniteSet(1..MaxBars)
    BY BridgeAssumption, FS_Interval DEF BridgeAssumption
  <1>2. S \in SUBSET (1..MaxBars)
    BY DEF Bars
  <1>3. IsFiniteSet(S)
    BY <1>1, <1>2, FS_Subset
  <1> QED
    BY <1>1, <1>2, <1>3, FS_CardinalityType

\* What has a subset T of size n has n elements or more.
LEMMA AtLeast ==
  ASSUME NEW S \in SUBSET Bars, NEW T \in SUBSET S
  PROVE  Cardinality(T) <= Cardinality(S) /\ (Cardinality(T) = Cardinality(S) => S = T)
  BY FiniteBars, FS_Subset

\* The cap keeps the newest bars: none that it drops is newer than one it keeps, it keeps no
\* more than the cap, and exactly the cap when it drops any.
LEMMA NewestKeeps ==
  ASSUME NEW U \in SUBSET Bars, CaptureCap # 0
  PROVE  /\ \A b \in U \ Newest(U), n \in Newest(U) : b < n
         /\ Cardinality(Newest(U)) <= CaptureCap
         /\ Newest(U) # U => Cardinality(Newest(U)) = CaptureCap
  <1> DEFINE N == Newest(U)
             UpFrom(b) == {c \in U : c >= b}
  <1>0. CaptureCap \in Nat \ {0}
    BY BridgeAssumption DEF BridgeAssumption
  <1>1. N \subseteq U /\ \A b \in U : b \in N <=> Cardinality(UpFrom(b)) <= CaptureCap
    BY <1>0 DEF Newest
  <1>2. U \subseteq Nat /\ \A b : UpFrom(b) \in SUBSET U /\ Cardinality(UpFrom(b)) \in Nat
    BY FiniteBars
  <1>3. ASSUME NEW b \in U \ N, NEW n \in N PROVE b < n
    <2>1. b \in Nat /\ n \in Nat /\ n \in U
      BY <1>1, <1>2
    <2>2. ASSUME n <= b PROVE UpFrom(b) \subseteq UpFrom(n)
      <3> SUFFICES ASSUME NEW c \in U, c >= b PROVE c >= n
        OBVIOUS
      <3>1. c \in Nat
        BY <1>2
      <3> QED
        BY <2>1, <2>2, <3>1
    <2>3. n <= b => Cardinality(UpFrom(b)) <= Cardinality(UpFrom(n))
      BY <1>2, <2>2, AtLeast
    <2>4. Cardinality(UpFrom(n)) <= CaptureCap /\ ~ (Cardinality(UpFrom(b)) <= CaptureCap)
      BY <1>1
    <2> HIDE DEF UpFrom
    <2> QED
      BY <1>0, <1>2, <2>1, <2>3, <2>4
  <1>4. Cardinality(N) <= CaptureCap
    <2>1. CASE N = {}
      BY <1>0, <2>1, FS_EmptySet
    <2>2. CASE N # {}
      <3>1. N \in SUBSET Nat
        BY <1>1, <1>2
      <3>2. PICK m \in N : \A x \in N : m <= x
        <4> HIDE DEF N
        <4> QED
          BY <2>2, <3>1, LeastElement
      <3>3. N \subseteq UpFrom(m)
        BY <1>1, <1>2, <3>1, <3>2
      <3>4. Cardinality(N) <= Cardinality(UpFrom(m)) /\ Cardinality(UpFrom(m)) <= CaptureCap /\ Cardinality(N) \in Nat
        BY <1>1, <1>2, <3>2, <3>3, AtLeast, FiniteBars
      <3> HIDE DEF N, UpFrom
      <3> QED
        BY <1>0, <1>2, <3>4
    <2> QED
      BY <2>1, <2>2
  <1>5. ASSUME N # U PROVE Cardinality(N) = CaptureCap
    <2>1. U \ N \in SUBSET Nat /\ U \ N # {} /\ MaxBars \in Nat /\ \A x \in U \ N : x <= MaxBars
      BY <1>1, <1>2, <1>5, FiniteBars, BridgeAssumption DEF BridgeAssumption
    <2>2. PICK x \in U \ N : \A y \in U \ N : y <= x
      <3> HIDE DEF N
      <3> QED
        BY <2>1, GreatestElement
    <2>3. UpFrom(x) \subseteq N \cup {x}
      <3> SUFFICES ASSUME NEW c \in UpFrom(x), c \notin N PROVE c = x
        OBVIOUS
      <3> HIDE DEF N
      <3> QED
        BY <1>2, <2>1, <2>2
    <2>4. IsFiniteSet(N) /\ Cardinality(N) \in Nat /\ N \cup {x} \in SUBSET Bars
      BY <1>1, <2>2, FiniteBars
    <2>5. Cardinality(N \cup {x}) = Cardinality(N) + 1
      BY <2>2, <2>4, FS_AddElement
    <2>6. Cardinality(UpFrom(x)) <= Cardinality(N) + 1
      <3> HIDE DEF N, UpFrom
      <3> QED
        BY <2>3, <2>4, <2>5, AtLeast
    <2>7. ~ (Cardinality(UpFrom(x)) <= CaptureCap)
      BY <1>1, <2>2
    <2> HIDE DEF N, UpFrom
    <2> QED
      BY <1>0, <1>2, <1>4, <2>4, <2>6, <2>7
  <1> QED
    BY <1>3, <1>4, <1>5

\* An append whose merge read the file as it is.
LEMMA AppendKeepsNewest ==
  ASSUME NEW T \in SUBSET Bars, NEW S \in SUBSET T, Capped(S), Lacks(S, T), NEW B \in SUBSET Bars
  PROVE  Capped(Newest(S \cup B)) /\ Lacks(Newest(S \cup B), T \cup B)
  <1> DEFINE U == S \cup B
             N == Newest(U)
  <1>1. N \subseteq U /\ U \in SUBSET Bars /\ N \subseteq T \cup B
    BY DEF Newest
  <1>2. CASE CaptureCap = 0
    <2>1. N = U
      BY <1>2 DEF Newest
    <2> QED
      BY <1>1, <1>2, <2>1 DEF Capped, Lacks
  <1>3. CASE CaptureCap # 0
    <2>1. /\ \A b \in U \ N, n \in N : b < n
          /\ Cardinality(N) <= CaptureCap
          /\ N # U => Cardinality(N) = CaptureCap
      <3> HIDE DEF U
      <3> QED
        BY <1>1, <1>3, NewestKeeps
    <2>2. CaptureCap \in Nat /\ IsFiniteSet(N) /\ Cardinality(N) \in Nat /\ N \in SUBSET Nat
      BY <1>1, FiniteBars, BridgeAssumption DEF BridgeAssumption
    <2>3. ASSUME NEW b \in (T \cup B) \ N PROVE Cardinality({c \in N : c > b}) = CaptureCap
      <3>1. CASE b \in U
        <4>1. N # U /\ {c \in N : c > b} = N
          <5>1. \A n \in N : n > b
            BY <2>1, <2>2, <2>3, <3>1, <1>1 DEF Bars
          <5> QED
            BY <2>3, <3>1, <5>1
        <4> QED
          BY <2>1, <4>1
      <3>2. CASE b \notin U
        <4> DEFINE D == {c \in S : c > b}
        <4>1. b \in T \ S /\ b \in Bars /\ D \in SUBSET U
          BY <2>3, <3>2
        <4>2. Cardinality(D) = CaptureCap
          BY <4>1 DEF Lacks
        <4>3. \A n \in N : n > b
          <5> SUFFICES ASSUME NEW n \in N, ~ (n > b) PROVE FALSE
            OBVIOUS
          <5> DEFINE E == {c \in U : c >= n}
          <5>1. n \in Nat /\ b \in Nat /\ n # b /\ n \in U /\ U \subseteq Nat
            BY <1>1, <2>2, <3>2, <4>1 DEF Bars
          <5>2. D \cup {n} \subseteq E /\ n \notin D
            <6>1. ASSUME NEW c \in D PROVE c \in E /\ c # n
              <7>1. c \in U /\ c > b
                BY <4>1
              <7>2. c \in Nat /\ c > n
                BY <5>1, <7>1
              <7> QED
                BY <5>1, <7>1, <7>2
            <6>2. n \in E
              BY <5>1
            <6> QED
              BY <6>1, <6>2
          <5>3. Cardinality(E) <= CaptureCap /\ E \in SUBSET Bars
            BY <1>1, <1>3 DEF Newest
          <5>4. D \in SUBSET Bars /\ IsFiniteSet(D) /\ Cardinality(D) \in Nat
            BY <1>1, <4>1, FiniteBars
          <5> HIDE DEF D, E, N, U
          <5>5. Cardinality(D \cup {n}) = CaptureCap + 1
            BY <4>2, <5>2, <5>4, FS_AddElement
          <5>6. Cardinality(D \cup {n}) <= Cardinality(E) /\ Cardinality(E) \in Nat
            BY <5>2, <5>3, AtLeast, FiniteBars
          <5> QED
            BY <2>2, <5>3, <5>5, <5>6
        <4>4. {c \in N : c > b} = N
          BY <4>3
        <4>5. CASE N = U
          <5>1. CaptureCap <= Cardinality(N)
            <6> HIDE DEF D, U, N
            <6> QED
              BY <1>1, <4>1, <4>2, <4>5, AtLeast
          <5> QED
            BY <2>1, <2>2, <4>4, <5>1
        <4> QED
          BY <2>1, <4>4, <4>5
      <3> QED
        BY <3>1, <3>2
    <2> QED
      BY <1>1, <1>3, <2>1, <2>3 DEF Capped, Lacks
  <1> QED
    BY <1>2, <1>3

\* While appends do not overlap, each writes back the file it read, and the file lacks only
\* what was pushed out.
CaptureSound ==
  /\ Capped(captured) /\ Lacks(captured, arrived)
  /\ \A r \in Requests : Appending(r) => merged[r] = Newest(captured \cup request[r].bars)
  /\ \A r, s \in Requests : Appending(r) /\ Appending(s) => r = s

CaptureInv == torn \/ CaptureSound

LEMMA CaptureStep == BridgeInv /\ CaptureInv /\ [BridgeNext]_bridgeVars => CaptureInv'
  <1> SUFFICES ASSUME BridgeInv, CaptureInv, [BridgeNext]_bridgeVars, torn' # TRUE
               PROVE  CaptureSound'
    BY DEF CaptureInv
  <1>a. /\ place \in [Requests -> {"over", "decide", "append", "merged", "writing", "answer"}]
        /\ request \in [Requests -> RequestType] /\ merged \in [Requests -> SUBSET Bars]
        /\ captured \subseteq Bars /\ arrived \subseteq Bars /\ torn \in BOOLEAN
    BY DEF BridgeInv, BridgeTypeOK
  <1>b. \A r \in Requests : request[r].bars \in SUBSET Bars
    BY <1>a DEF RequestType
  \* torn never falls.
  <1>c. ~ torn /\ CaptureSound
    <2>1. torn => torn'
      BY DEF BridgeNext, BarCloses, NativeExit, Poll, PollTimesOut, ServerDies, Decide, ReadAndMerge, BeginWrite, EndWrite,
             AppendFails, Answered, CloseRefused, AnsweredLate, captureFile, bridgeVars
    <2> QED
      BY <1>a, <2>1 DEF CaptureInv
  <1>d. /\ Capped(captured) /\ Lacks(captured, arrived)
        /\ \A r \in Requests : Appending(r) => merged[r] = Newest(captured \cup request[r].bars)
        /\ \A r, s \in Requests : Appending(r) /\ Appending(s) => r = s
    BY <1>c DEF CaptureSound
  \* Requests that are not appending may change as they like.
  <1>1. ASSUME UNCHANGED <<captured, arrived>>,
               \A r \in Requests : Appending(r)' => /\ Appending(r) /\ merged'[r] = merged[r]
                                                    /\ request'[r] = request[r]
        PROVE  CaptureSound'
    BY <1>1, <1>d DEF CaptureSound, Capped, Lacks
  <1>2. CASE BarCloses \/ NativeExit \/ PollTimesOut \/ UNCHANGED bridgeVars
    BY <1>1, <1>2 DEF BarCloses, NativeExit, PollTimesOut, server, captureFile, bridgeVars, Appending
  <1>3. CASE Poll
    BY <1>1, <1>3, <1>a DEF Poll, captureFile, Appending
  <1>4. ASSUME NEW r \in Requests, Decide(r) \/ BeginWrite(r) \/ AppendFails(r)
        PROVE  CaptureSound'
    BY <1>1, <1>4, <1>a DEF Decide, BeginWrite, AppendFails, captureFile, Appending
  <1>5. ASSUME NEW r \in Requests, Answered(r) \/ CloseRefused(r) \/ AnsweredLate(r)
        PROVE  CaptureSound'
    <2>1. UNCHANGED <<captured, arrived>> /\ Over(r)
      BY <1>5 DEF Answered, CloseRefused, AnsweredLate, captureFile
    <2> QED
      BY <1>1, <2>1, <1>a DEF Over, Appending
  <1>6. CASE ServerDies
    BY <1>1, <1>6, <1>a DEF ServerDies, Appending
  <1>7. ASSUME NEW r \in Requests, ReadAndMerge(r)
        PROVE  CaptureSound'
    <2>1. /\ \A s \in Requests : ~ Appending(s)
          /\ place' = [place EXCEPT ![r] = "merged"]
          /\ merged' = [merged EXCEPT ![r] = Newest(captured \cup request[r].bars)]
          /\ UNCHANGED <<request, captured, arrived>>
      BY <1>7 DEF ReadAndMerge
    <2>2. \A s \in Requests : Appending(s)' => s = r
      BY <1>a, <2>1 DEF Appending
    <2>3. merged'[r] = Newest(captured \cup request[r].bars)
      BY <1>a, <2>1
    <2> QED
      BY <1>d, <2>1, <2>2, <2>3 DEF CaptureSound, Capped, Lacks, Newest
  <1>8. ASSUME NEW r \in Requests, EndWrite(r)
        PROVE  CaptureSound'
    <2> DEFINE B == request[r].bars
    <2>1. /\ Appending(r) /\ place' = [place EXCEPT ![r] = "answer"]
          /\ captured' = merged[r] /\ arrived' = arrived \cup B
      BY <1>8 DEF EndWrite, Appending
    <2>2. \A s \in Requests : ~ Appending(s)'
      BY <1>a, <1>d, <2>1 DEF Appending
    <2>3. captured' = Newest(captured \cup B)
      BY <1>d, <2>1
    <2>4. captured \subseteq arrived
      BY <1>d DEF Lacks
    <2>5. B \in SUBSET Bars
      BY <1>b
    <2> HIDE DEF B
    <2>6. Capped(Newest(captured \cup B)) /\ Lacks(Newest(captured \cup B), arrived \cup B)
      BY <1>a, <1>d, <2>4, <2>5, AppendKeepsNewest
    <2>7. Capped(captured)' /\ Lacks(captured, arrived)'
      BY <2>1, <2>3, <2>6 DEF Capped, Lacks
    <2> QED
      BY <2>2, <2>7 DEF CaptureSound
  <1> QED
    BY <1>2, <1>3, <1>4, <1>5, <1>6, <1>7, <1>8 DEF BridgeNext

\* Of all the bars that were appended the file lacks only those that as many newer ones as
\* its cap holds pushed out, whatever was in a request, how late it was and in which order
\* requests were worked on, as long as no two appends overlapped and the server
\* did not die during one (integrations/mt5/store.py:50).
THEOREM CaptureLosesOnlyTheOldest == BridgeSpec => []CaptureIsNewest
  <1>1. BridgeInit => CaptureInv
    <2> SUFFICES ASSUME BridgeInit PROVE CaptureSound
      BY DEF CaptureInv
    <2>1. captured = {} /\ arrived = {} /\ \A r \in Requests : ~ Appending(r)
      BY DEF BridgeInit, Appending
    <2>2. Capped({})
      BY FS_EmptySet, BridgeAssumption DEF Capped, BridgeAssumption
    <2> QED
      BY <2>1, <2>2 DEF CaptureSound, Lacks
  <1>2. CaptureInv => CaptureIsNewest
    BY DEF CaptureInv, CaptureSound, Lacks, CaptureIsNewest
  <1> QED
    BY <1>1, <1>2, BridgeInvariant, CaptureStep, PTL DEF BridgeSpec

-----------------------------------------------------------------------------
(* The bars of a feed                                                      *)

\* The bars from a to b, oldest first.
LEMMA SortedInterval ==
  ASSUME NEW a \in Nat, NEW b \in Nat, a <= b + 1
  PROVE  Sorted(a..b) = [i \in 1..(b + 1 - a) |-> a + i - 1]
  <1> DEFINE S == a..b
             n == b + 1 - a
             UpTo(x) == {c \in S : c <= x}
  <1>1. Cardinality(S) = n
    BY FS_Interval
  <1>2. ASSUME NEW x \in S PROVE Cardinality(UpTo(x)) = x + 1 - a
    <2>1. UpTo(x) = a..x
      BY <1>2
    <2> HIDE DEF UpTo
    <2> QED
      BY <1>2, <2>1, FS_Interval
  <1>3. ASSUME NEW i \in 1..n PROVE (CHOOSE x \in S : Cardinality(UpTo(x)) = i) = a + i - 1
    <2>1. a + i - 1 \in S
      BY <1>3
    <2>2. \A x \in S : Cardinality(UpTo(x)) = i <=> x = a + i - 1
      BY <1>2, <1>3
    <2> HIDE DEF S, UpTo
    <2> QED
      BY <2>1, <2>2
  <1> QED
    BY <1>1, <1>3 DEF Sorted

\* Numbers in steps of one, and numbers that only grow.
Consecutive(s) == \A i \in 1..(Len(s) - 1) : s[i + 1] = s[i] + 1
Growing(s) == \A i \in 1..(Len(s) - 1) : s[i] < s[i + 1]
Ascending(s) == \A i, j \in 1..Len(s) : i < j => s[i] < s[j]

Positive == Nat \ {0}

LEMMA SortedFacts ==
  ASSUME NEW a \in Positive, NEW b \in Nat, a <= b + 1
  PROVE  /\ Sorted(a..b) \in Seq(Positive) /\ Len(Sorted(a..b)) = b + 1 - a
         /\ Consecutive(Sorted(a..b)) /\ Ascending(Sorted(a..b))
         /\ ToSet(Sorted(a..b)) = a..b
         /\ \A i \in 1..(b + 1 - a) : Sorted(a..b)[i] = a + i - 1
  <1> DEFINE s == Sorted(a..b)
             n == b + 1 - a
  <1>1. s = [i \in 1..n |-> a + i - 1] /\ n \in Nat
    BY SortedInterval DEF Positive
  <1>2. s \in Seq(Positive) /\ Len(s) = n /\ DOMAIN s = 1..n
    <2>1. \A i \in 1..n : a + i - 1 \in Positive
      BY DEF Positive
    <2>2. DOMAIN s = 1..n
      BY <1>1
    <2> QED
      BY <1>1, <2>1, <2>2
  <1>3. \A i \in 1..n : s[i] = a + i - 1
    BY <1>1
  <1> HIDE DEF s
  <1>4. Consecutive(s) /\ Ascending(s)
    BY <1>1, <1>2, <1>3 DEF Consecutive, Ascending, Positive
  <1>5. ToSet(s) = a..b
    <2>1. ASSUME NEW x \in a..b PROVE x \in ToSet(s)
      <3>1. x - a + 1 \in 1..n /\ s[x - a + 1] = x
        BY <1>3, <2>1 DEF Positive
      <3> QED
        BY <1>2, <3>1 DEF ToSet
    <2>2. ASSUME NEW x \in ToSet(s) PROVE x \in a..b
      <3>1. PICK i \in 1..n : x = s[i]
        BY <1>2, <2>2 DEF ToSet
      <3> QED
        BY <1>3, <3>1 DEF Positive
    <2> QED
      BY <2>1, <2>2
  <1> QED
    BY <1>2, <1>3, <1>4, <1>5 DEF s

LEMMA MaxInterval ==
  ASSUME NEW a \in Nat, NEW b \in Nat, a <= b
  PROVE  Max(a..b) = b
  <1>1. b \in a..b /\ \A y \in a..b : b >= y
    OBVIOUS
  <1>2. \A x \in a..b : (\A y \in a..b : x >= y) => x = b
    BY <1>1
  <1> QED
    BY <1>1, <1>2 DEF Max

\* What is left of a sequence between two places.
LEMMA PartOf ==
  ASSUME NEW s \in Seq(Positive), Consecutive(s), NEW m \in 1..(Len(s) + 1), NEW n \in 0..Len(s)
  PROVE  /\ SubSeq(s, m, n) \in Seq(Positive)
         /\ Consecutive(SubSeq(s, m, n))
         /\ \A x \in ToSet(SubSeq(s, m, n)) : \E i \in m..n : x = s[i]
  <1> DEFINE t == SubSeq(s, m, n)
  <1>1. \A i \in m..n : s[i] \in Positive
    BY ElementOfSeq
  <1>2. /\ t \in Seq(Positive) /\ Len(t) = (IF m <= n THEN n - m + 1 ELSE 0)
        /\ \A i \in 1..(n - m + 1) : t[i] = s[m + i - 1]
    BY <1>1, SubSeqProperties
  <1> HIDE DEF t
  <1>3. Consecutive(t)
    <2> SUFFICES ASSUME NEW i \in 1..(Len(t) - 1) PROVE t[i + 1] = t[i] + 1
      BY DEF Consecutive
    <2>1. i \in 1..(n - m + 1) /\ i + 1 \in 1..(n - m + 1) /\ m + i - 1 \in 1..(Len(s) - 1)
      BY <1>2
    <2>2. t[i] = s[m + i - 1] /\ t[i + 1] = s[m + i]
      BY <1>2, <2>1
    <2>3. s[(m + i - 1) + 1] = s[m + i - 1] + 1
      BY <2>1 DEF Consecutive
    <2> QED
      BY <2>1, <2>2, <2>3
  <1>4. ASSUME NEW x \in ToSet(t) PROVE \E i \in m..n : x = s[i]
    <2>1. DOMAIN t = 1..Len(t)
      BY <1>2
    <2>2. PICK i \in 1..Len(t) : x = t[i]
      BY <1>4, <2>1 DEF ToSet
    <2>3. i \in 1..(n - m + 1) /\ m + i - 1 \in m..n
      BY <1>2, <2>2
    <2>4. t[i] = s[m + i - 1]
      BY <1>2, <2>3
    <2> QED
      BY <2>2, <2>3, <2>4
  <1> QED
    BY <1>2, <1>3, <1>4 DEF t

\* The warm-up: the newest bars of a download but the last row.
LEMMA WarmupFacts ==
  ASSUME NEW k \in Nat
  PROVE  LET w == LastOf(WithoutForming(Sorted(1..k)), Need)
         IN  w \in Seq(Positive) /\ Consecutive(w) /\ (k # 1 => ToSet(w) \subseteq 1..(k - 1))
  <1> DEFINE s == Sorted(1..k)
             f == WithoutForming(s)
             w == LastOf(f, Need)
  <1>0. Need \in Nat \ {0}
    BY MarketDataAssumption DEF MarketDataAssumption
  <1>1. s \in Seq(Positive) /\ Len(s) = k /\ Consecutive(s) /\ \A i \in 1..k : s[i] = i
    <2>1. 1 \in Positive /\ 1 <= k + 1
      BY DEF Positive
    <2>2. /\ s \in Seq(Positive) /\ Len(s) = k + 1 - 1 /\ Consecutive(s)
          /\ \A i \in 1..(k + 1 - 1) : s[i] = 1 + i - 1
      BY <2>1, SortedFacts
    <2> HIDE DEF s
    <2> QED
      BY <2>2
  <1> HIDE DEF s
  <1>2. /\ f \in Seq(Positive) /\ Consecutive(f)
        /\ k # 1 => ToSet(f) \subseteq 1..(k - 1)
    <2>1. CASE k > 1
      <3>1. f = SubSeq(s, 1, k - 1)
        BY <1>1, <2>1 DEF WithoutForming, Front
      <3>2. 1 \in 1..(Len(s) + 1) /\ k - 1 \in 0..Len(s)
        BY <1>1, <2>1
      <3>3. /\ SubSeq(s, 1, k - 1) \in Seq(Positive) /\ Consecutive(SubSeq(s, 1, k - 1))
            /\ \A x \in ToSet(SubSeq(s, 1, k - 1)) : \E i \in 1..(k - 1) : x = s[i]
        BY <1>1, <3>2, PartOf
      <3> HIDE DEF f
      <3>4. ASSUME NEW x \in ToSet(f) PROVE x \in 1..(k - 1)
        <4>1. PICK i \in 1..(k - 1) : x = s[i]
          BY <3>1, <3>3, <3>4
        <4> QED
          BY <1>1, <4>1
      <3> QED
        BY <3>1, <3>3, <3>4
    <2>2. CASE k <= 1
      <3>1. f = s
        BY <1>1, <2>2 DEF WithoutForming
      <3>2. k = 0 => ToSet(s) = {}
        BY <1>1 DEF ToSet
      <3> QED
        BY <1>1, <2>2, <3>1, <3>2
    <2> QED
      BY <2>1, <2>2
  <1> HIDE DEF f
  <1>3. CASE Len(f) > Need
    <2> DEFINE m == Len(f) - Need + 1
    <2>1. w = SubSeq(f, m, Len(f)) /\ m \in 1..(Len(f) + 1) /\ Len(f) \in 0..Len(f)
      BY <1>0, <1>2, <1>3 DEF LastOf
    <2> HIDE DEF m, w
    <2>2. /\ w \in Seq(Positive) /\ Consecutive(w)
          /\ \A x \in ToSet(w) : \E i \in m..Len(f) : x = f[i]
      BY <1>2, <2>1, PartOf
    <2>3. \A i \in m..Len(f) : f[i] \in ToSet(f)
      BY <1>2, <2>1 DEF ToSet
    <2> QED
      BY <1>2, <2>2, <2>3 DEF w, f, s
  <1>4. CASE ~(Len(f) > Need)
    BY <1>2, <1>4 DEF LastOf, f, s
  <1> QED
    BY <1>3, <1>4

\* The bars but the last, and then the last.
LEMMA LastLast ==
  ASSUME NEW s \in Seq(Positive), s # << >>, Consecutive(s)
  PROVE  /\ Front(s) \in Seq(Positive) /\ Growing(Front(s)) /\ Last(s) \in Positive
         /\ Append(Front(s), Last(s)) = s
         /\ Growing(s)
  <1>0. Len(s) \in Nat \ {0}
    BY EmptySeq
  <1> DEFINE n == Len(s) - 1
             f == Front(s)
  <1>1. /\ f \in Seq(Positive) /\ Len(f) = n /\ \A i \in 1..n : f[i] = s[i]
    <2>1. \A i \in 1..n : s[i] \in Positive
      BY ElementOfSeq
    <2>2. /\ SubSeq(s, 1, n) \in Seq(Positive)
          /\ Len(SubSeq(s, 1, n)) = IF 1 <= n THEN n - 1 + 1 ELSE 0
          /\ \A i \in 1..(n - 1 + 1) : SubSeq(s, 1, n)[i] = s[1 + i - 1]
      BY <1>0, <2>1, SubSeqProperties
    <2>3. /\ f \in Seq(Positive) /\ Len(f) = IF 1 <= n THEN n - 1 + 1 ELSE 0
          /\ \A i \in 1..(n - 1 + 1) : f[i] = s[1 + i - 1]
      BY <2>2 DEF Front
    <2> HIDE DEF f
    <2>4. n \in Nat /\ n - 1 + 1 = n /\ \A i \in 1..n : 1 + i - 1 = i
      BY <1>0
    <2> HIDE DEF n
    <2> QED
      BY <2>3, <2>4
  <1>2. Last(s) \in Positive /\ Last(s) = s[Len(s)]
    BY <1>0, ElementOfSeq DEF Last
  <1>3. Growing(s)
    <2> SUFFICES ASSUME NEW i \in 1..(Len(s) - 1) PROVE s[i] < s[i + 1]
      BY DEF Growing
    <2>1. s[i] \in Positive /\ s[i + 1] = s[i] + 1
      BY <1>0, ElementOfSeq DEF Consecutive
    <2> QED
      BY <2>1 DEF Positive
  <1> HIDE DEF f
  <1>4. Growing(f)
    <2> SUFFICES ASSUME NEW i \in 1..(Len(f) - 1) PROVE f[i] < f[i + 1]
      BY DEF Growing
    <2>1. i \in 1..n /\ i + 1 \in 1..n /\ i \in 1..(Len(s) - 1)
      BY <1>0, <1>1
    <2> QED
      BY <1>1, <1>3, <2>1 DEF Growing
  <1>5. Append(f, Last(s)) = s
    <2> DEFINE a == Append(f, Last(s))
    <2>1. a \in Seq(Positive) /\ Len(a) = n + 1 /\ a[n + 1] = s[Len(s)] /\ \A i \in 1..n : a[i] = f[i]
      BY <1>1, <1>2, AppendProperties
    <2> HIDE DEF a
    <2>2. Len(a) = Len(s)
      BY <1>0, <2>1
    <2>3. ASSUME NEW i \in 1..Len(a) PROVE a[i] = s[i]
      <3>1. i \in 1..n \/ i = n + 1
        BY <1>0, <2>2, <2>3
      <3> QED
        BY <1>0, <1>1, <2>1, <3>1
    <2> QED
      BY <2>1, <2>2, <2>3, SeqEqual DEF a
  <1> QED
    BY <1>1, <1>2, <1>3, <1>4, <1>5 DEF f

\* A newer bar at the end.
LEMMA GrowingAppend ==
  ASSUME NEW s \in Seq(Positive), Growing(s), NEW b \in Positive, s # << >> => s[Len(s)] < b
  PROVE  /\ Append(s, b) \in Seq(Positive) /\ Growing(Append(s, b))
         /\ Append(s, b) # << >> /\ Append(s, b)[Len(Append(s, b))] = b
         /\ ToSet(Append(s, b)) = ToSet(s) \cup {b}
  <1> DEFINE a == Append(s, b)
             n == Len(s)
  <1>1. /\ a \in Seq(Positive) /\ Len(a) = n + 1 /\ a[n + 1] = b
        /\ \A i \in 1..n : a[i] = s[i]
    BY AppendProperties
  <1>2. n \in Nat /\ (n # 0 => s # << >>)
    OBVIOUS
  <1> HIDE DEF a
  <1>3. Growing(a)
    <2> SUFFICES ASSUME NEW i \in 1..n PROVE a[i] < a[i + 1]
      BY <1>1, <1>2 DEF Growing
    <2>1. CASE i = n
      BY <1>1, <1>2, <2>1
    <2>2. CASE i < n
      <3>1. i \in 1..(Len(s) - 1) /\ i + 1 \in 1..n
        BY <1>2, <2>2
      <3> QED
        BY <1>1, <3>1 DEF Growing
    <2> QED
      BY <1>2, <2>1, <2>2
  <1>4. a # << >> /\ a[Len(a)] = b
    BY <1>1, <1>2
  <1>5. DOMAIN a = 1..(n + 1) /\ DOMAIN s = 1..n
    BY <1>1
  <1>6. ToSet(a) = ToSet(s) \cup {b}
    <2>1. ASSUME NEW x \in ToSet(a) PROVE x \in ToSet(s) \cup {b}
      <3>1. PICK i \in 1..(n + 1) : x = a[i]
        BY <1>5, <2>1 DEF ToSet
      <3>2. i = n + 1 \/ i \in 1..n
        BY <1>2
      <3> QED
        BY <1>1, <1>5, <3>1, <3>2 DEF ToSet
    <2>2. ASSUME NEW x \in ToSet(s) PROVE x \in ToSet(a)
      <3>1. PICK i \in 1..n : x = s[i]
        BY <1>5, <2>2 DEF ToSet
      <3>2. a[i] = x /\ i \in DOMAIN a
        BY <1>1, <1>2, <1>5, <3>1
      <3> QED
        BY <3>2 DEF ToSet
    <2>3. b \in ToSet(a)
      BY <1>1, <1>2, <1>5 DEF ToSet
    <2> QED
      BY <2>1, <2>2, <2>3
  <1> QED
    BY <1>1, <1>3, <1>4, <1>6 DEF a

\* Taking the first of ascending bars.
LEMMA TakeFirst ==
  ASSUME NEW s \in Seq(Positive), s # << >>, Ascending(s)
  PROVE  /\ Head(s) \in Positive /\ Tail(s) \in Seq(Positive) /\ Ascending(Tail(s))
         /\ ToSet(s) = {Head(s)} \cup ToSet(Tail(s))
         /\ \A x \in ToSet(Tail(s)) : Head(s) < x
  <1> DEFINE t == Tail(s)
             n == Len(s)
  <1>1. /\ Head(s) \in Positive /\ t \in Seq(Positive) /\ Len(t) = n - 1
        /\ \A i \in 1..Len(t) : t[i] = s[i + 1]
    BY HeadTailProperties
  <1>2. n \in Nat /\ n # 0 /\ Head(s) = s[1] /\ DOMAIN s = 1..n
    OBVIOUS
  <1> HIDE DEF t
  <1>3. DOMAIN t = 1..(n - 1)
    BY <1>1
  <1>4. Ascending(t)
    <2> SUFFICES ASSUME NEW i \in 1..Len(t), NEW j \in 1..Len(t), i < j PROVE t[i] < t[j]
      BY DEF Ascending
    <2>1. i + 1 \in 1..n /\ j + 1 \in 1..n /\ i + 1 < j + 1
      BY <1>1, <1>2
    <2> QED
      BY <1>1, <2>1 DEF Ascending
  <1>5. ASSUME NEW x \in ToSet(t) PROVE Head(s) < x /\ x \in ToSet(s)
    <2>1. PICK i \in 1..(n - 1) : x = t[i]
      BY <1>3, <1>5 DEF ToSet
    <2>2. i + 1 \in 1..n /\ 1 \in 1..n /\ 1 < i + 1 /\ x = s[i + 1]
      BY <1>1, <1>2, <2>1
    <2> QED
      BY <1>2, <2>2 DEF Ascending, ToSet
  <1>6. ASSUME NEW x \in ToSet(s) PROVE x = Head(s) \/ x \in ToSet(t)
    <2>1. PICK i \in 1..n : x = s[i]
      BY <1>2, <1>6 DEF ToSet
    <2>2. CASE i = 1
      BY <1>2, <2>1, <2>2
    <2>3. CASE i # 1
      <3>1. i - 1 \in 1..(n - 1) /\ t[i - 1] = s[(i - 1) + 1]
        BY <1>1, <1>2, <2>3
      <3> QED
        BY <1>2, <1>3, <2>1, <3>1 DEF ToSet
    <2> QED
      BY <2>2, <2>3
  <1>7. Head(s) \in ToSet(s)
    BY <1>2 DEF ToSet
  <1> QED
    BY <1>1, <1>4, <1>5, <1>6, <1>7 DEF t

-----------------------------------------------------------------------------
(* Every bar once                                                          *)

Streams == {"websocket", "poll", "ended"}

\* The download holds the bars from the first on; a row that was still forming is its last.
DownloadInv ==
  /\ feed = "history" => rows = 1..(nextBar - 1) /\ (excused \/ partial = {})
  /\ feed = "prime" => \E k \in Nat : rows = 1..k /\ (excused \/ partial \subseteq {k})
  /\ feed \in {"history", "prime"} => warmup = << >> /\ fed = << >>
  /\ feed = "first" => fed = IF warmup = << >> THEN << >> ELSE Front(warmup)

\* The warm-up has no gap and no bar that was forming; the engine stands at the last bar it got.
FedInv ==
  /\ warmup \in Seq(Positive) /\ Consecutive(warmup)
  /\ excused \/ ToSet(warmup) \cap partial = {}
  /\ fed \in Seq(Positive) /\ Growing(fed)
  /\ lastTs = IF feed \in Streams /\ fed # << >> THEN fed[Len(fed)] ELSE 0

\* What is due was got, or comes and is newer than the engine's last; the feed never gets
\* ahead of the engine.
DueInv ==
  /\ batch \in Seq(Positive) /\ Ascending(batch)
  /\ feed \notin Streams => batch = << >> /\ due = {}
  /\ feedTs <= lastTs
  /\ \A b \in due : b \in ToSet(fed) \/ (b \in ToSet(batch) /\ b > lastTs)

DataTypes ==
  /\ DataTypeOK /\ nextBar \in Positive /\ until \in Nat /\ feedTs \in Nat /\ lastTs \in Nat
  /\ feed \in {"history", "prime", "first"} \cup Streams /\ excused \in BOOLEAN

DataInv == DataTypes /\ DownloadInv /\ FedInv /\ DueInv

LEMMA DataInitially == DataInit => DataInv
  <1> SUFFICES ASSUME DataInit PROVE DataInv
    OBVIOUS
  <1>1. << >> \in Seq(Nat) /\ << >> \in Seq(Positive) /\ Len(<< >>) = 0
    OBVIOUS
  <1>2. DataTypes
    <2>1. lastClosed \in Nat /\ nextBar \in Positive /\ until \in Nat
      BY MarketDataAssumption DEF DataInit, Positive, MarketDataAssumption
    <2>2. forming \in BOOLEAN /\ excused \in BOOLEAN
      BY DEF DataInit
    <2>3. rows \subseteq Nat /\ partial \subseteq rows
      BY DEF DataInit
    <2>4. warmup \in Seq(Nat) /\ fed \in Seq(Nat) /\ batch \in Seq(Nat)
      BY <1>1 DEF DataInit
    <2> QED
      BY <2>1, <2>2, <2>3, <2>4 DEF DataInit, DataTypes, DataTypeOK
  <1>3. DownloadInv
    BY DEF DataInit, DownloadInv
  <1>4. FedInv
    BY <1>1 DEF DataInit, FedInv, Streams, Consecutive, Growing
  <1>5. DueInv
    BY <1>1 DEF DataInit, DueInv, Ascending
  <1> QED
    BY <1>2, <1>3, <1>4, <1>5 DEF DataInv

\* A page is the next stretch of the listed bars, at most Limit of them; only its last row
\* may still be forming.
LEMMA PageFacts ==
  ASSUME DataTypes
  PROVE  \E m \in Nat :
           /\ Page = nextBar..m /\ nextBar <= m + 1
           /\ Cardinality(Page) = m + 1 - nextBar /\ Cardinality(Page) <= Limit
           /\ (IF Page = {} THEN nextBar ELSE Max(Page) + 1) = m + 1
           /\ Page \ (1..lastClosed) \subseteq {m}
  <1>0. nextBar \in Nat /\ nextBar >= 1 /\ lastClosed \in Nat /\ Limit \in Nat /\ Limit >= 1
    BY MarketDataAssumption DEF DataTypes, DataTypeOK, Positive, MarketDataAssumption
  <1> DEFINE n == IF forming THEN lastClosed + 1 ELSE lastClosed
             m == IF n < nextBar THEN nextBar - 1
                  ELSE IF n < nextBar + Limit THEN n ELSE nextBar + Limit - 1
  <1>1. n \in Nat /\ n <= lastClosed + 1 /\ Listed = 1..n
    BY <1>0 DEF Listed
  <1> HIDE DEF n
  <1>2. m \in Nat /\ nextBar <= m + 1 /\ m < nextBar + Limit
    BY <1>0, <1>1
  <1>3. Page = nextBar..m
    BY <1>0, <1>1 DEF Page
  <1>4. m <= n \/ m < nextBar
    BY <1>0, <1>1
  <1> HIDE DEF m
  <1>5. Cardinality(Page) = m + 1 - nextBar
    <2>1. Cardinality(nextBar..m) = IF nextBar > m THEN 0 ELSE m - nextBar + 1
      BY <1>0, <1>2, FS_Interval
    <2> QED
      BY <1>0, <1>2, <1>3, <2>1
  <1>6. Page # {} => nextBar <= m /\ Max(Page) = m
    BY <1>0, <1>2, <1>3, MaxInterval
  <1>7. Page = {} => m + 1 = nextBar
    <2>1. nextBar <= m => nextBar \in nextBar..m
      BY <1>0, <1>2
    <2> QED
      BY <1>0, <1>2, <1>3, <2>1
  <1>8. Page \ (1..lastClosed) \subseteq {m}
    <2> SUFFICES ASSUME NEW x \in Page, x \notin 1..lastClosed PROVE x = m
      OBVIOUS
    <2> QED
      BY <1>0, <1>1, <1>2, <1>3, <1>4
  <1>9. Cardinality(Page) <= Limit
    BY <1>0, <1>2, <1>5
  <1>10. (IF Page = {} THEN nextBar ELSE Max(Page) + 1) = m + 1
    BY <1>6, <1>7
  <1> QED
    BY <1>2, <1>3, <1>5, <1>8, <1>9, <1>10

LEMMA PageStep ==
  ASSUME DataInv, PageArrives
  PROVE  DataInv'
  <1>0. DataTypes /\ DownloadInv /\ FedInv /\ DueInv
    BY DEF DataInv
  <1>1. PICK m \in Nat :
           /\ Page = nextBar..m /\ nextBar <= m + 1
           /\ Cardinality(Page) = m + 1 - nextBar /\ Cardinality(Page) <= Limit
           /\ (IF Page = {} THEN nextBar ELSE Max(Page) + 1) = m + 1
           /\ Page \ (1..lastClosed) \subseteq {m}
    BY <1>0, PageFacts
  <1>2. /\ feed = "history" /\ rows = 1..(nextBar - 1) /\ (excused \/ partial = {})
        /\ warmup = << >> /\ fed = << >> /\ nextBar \in Nat /\ nextBar >= 1
    BY <1>0 DEF PageArrives, DownloadInv, DataTypes, Positive
  <1>3. rows' = 1..m /\ nextBar' = m + 1
    BY <1>1, <1>2 DEF PageArrives
  <1>4. feed' \in {"history", "prime"} /\ (feed' = "history" => ~(Cardinality(Page) < Limit))
    BY DEF PageArrives
  <1>5. Limit \in Nat
    BY MarketDataAssumption DEF MarketDataAssumption
  <1>6. /\ partial' = partial \cup (Page \ (1..lastClosed)) /\ excused' \in BOOLEAN
        /\ excused' = (excused \/ (Cardinality(Page) = Limit /\ ~ Page \subseteq 1..lastClosed))
    BY <1>0 DEF PageArrives, DataTypes
  <1>7. ~excused' => partial' \subseteq {m} /\ (feed' = "history" => partial' = {})
    <2> SUFFICES ASSUME ~excused' PROVE partial' \subseteq {m} /\ (feed' = "history" => partial' = {})
      OBVIOUS
    <2>1. ~excused /\ (Cardinality(Page) = Limit => Page \ (1..lastClosed) = {})
      BY <1>6
    <2>2. partial' = Page \ (1..lastClosed)
      BY <1>2, <1>6, <2>1
    <2>3. feed' = "history" => Cardinality(Page) = Limit
      <3> DEFINE c == Cardinality(Page)
      <3>1. c \in Int /\ c <= Limit
        BY <1>1, <1>2
      <3>2. feed' = "history" => ~(c < Limit)
        BY <1>4
      <3> HIDE DEF c
      <3>3. feed' = "history" => c = Limit
        BY <1>5, <3>1, <3>2
      <3> QED
        BY <3>3 DEF c
    <2> QED
      BY <1>1, <2>1, <2>2, <2>3
  <1>8. partial' \subseteq rows'
    <2>1. Page \subseteq 1..m
      BY <1>1, <1>2
    <2>2. partial \subseteq 1..m
      BY <1>0, <1>1, <1>2 DEF DataTypes, DataTypeOK
    <2> QED
      BY <1>3, <1>6, <2>1, <2>2
  <1>9. UNCHANGED <<lastClosed, forming, until, warmup, lastTs, fed, batch, feedTs, due>>
    BY DEF PageArrives, exchange, engineTs
  <1>10. DataTypes'
    BY <1>0, <1>3, <1>4, <1>6, <1>8, <1>9 DEF DataTypes, DataTypeOK, Positive
  <1>11. DownloadInv'
    BY <1>2, <1>3, <1>4, <1>7, <1>9 DEF DownloadInv
  <1>12. FedInv'
    <2>1. ToSet(<< >>) = {}
      BY DEF ToSet
    <2> QED
      BY <1>0, <1>2, <1>4, <1>9, <2>1 DEF FedInv, Streams
  <1>13. DueInv'
    BY <1>0, <1>2, <1>4, <1>9 DEF DueInv, Streams
  <1> QED
    BY <1>10, <1>11, <1>12, <1>13 DEF DataInv

LEMMA PrimeStep ==
  ASSUME DataInv, Prime
  PROVE  DataInv'
  <1>0. DataTypes /\ DownloadInv /\ FedInv /\ DueInv
    BY DEF DataInv
  <1>1. PICK k \in Nat : rows = 1..k /\ (excused \/ partial \subseteq {k})
    BY <1>0 DEF Prime, DownloadInv
  <1> DEFINE j == IF k <= until THEN k ELSE until
             w == LastOf(WithoutForming(Sorted(1..j)), Need)
  <1>2. j \in Nat /\ j <= k /\ {b \in rows : b <= until} = 1..j
    BY <1>0, <1>1 DEF DataTypes
  <1>3. warmup' = w /\ Len(InWindow) = j
    <2>1. InWindow = Sorted(1..j)
      BY <1>2 DEF InWindow
    <2> HIDE DEF j
    <2>2. 1 \in Positive /\ 1 <= j + 1 /\ j + 1 - 1 = j
      BY <1>2 DEF Positive
    <2>3. Len(Sorted(1..j)) = j
      BY <1>2, <2>2, SortedFacts
    <2> QED
      BY <2>1, <2>3 DEF Prime
  <1> HIDE DEF j
  <1>4. w \in Seq(Positive) /\ Consecutive(w) /\ (j # 1 => ToSet(w) \subseteq 1..(j - 1))
    BY <1>2, WarmupFacts
  <1> HIDE DEF w
  <1>5. w # << >> => Front(w) \in Seq(Positive) /\ Growing(Front(w))
    BY <1>4, LastLast
  <1>6. /\ feed' = "first" /\ excused' = (excused \/ j = 1) /\ excused' \in BOOLEAN
        /\ fed' = IF w = << >> THEN << >> ELSE Front(w)
        /\ UNCHANGED <<lastClosed, forming, nextBar, until, rows, partial, batch, feedTs, lastTs, due>>
    BY <1>0, <1>3 DEF Prime, exchange, download, DataTypes
  <1>7. excused' \/ ToSet(w) \cap partial = {}
    <2> SUFFICES ASSUME ~excused' PROVE ToSet(w) \cap partial = {}
      OBVIOUS
    <2>1. j # 1 /\ partial \subseteq {k} /\ ToSet(w) \subseteq 1..(j - 1)
      BY <1>1, <1>4, <1>6
    <2>2. k \notin 1..(j - 1)
      BY <1>2
    <2> QED
      BY <2>1, <2>2
  <1>8. << >> \in Seq(Positive) /\ Growing(<< >>)
    BY DEF Growing
  <1>9. fed' \in Seq(Positive) /\ Growing(fed)'
    <2>1. CASE w = << >>
      BY <1>6, <1>8, <2>1 DEF Growing
    <2>2. CASE w # << >>
      BY <1>5, <1>6, <2>2 DEF Growing
    <2> QED
      BY <2>1, <2>2
  <1>10. Positive \subseteq Nat /\ w \in Seq(Nat) /\ fed' \in Seq(Nat)
    BY <1>4, <1>9, SeqMonotonic DEF Positive
  <1>11. DataTypes'
    BY <1>0, <1>3, <1>6, <1>10 DEF DataTypes, DataTypeOK
  <1>12. DownloadInv'
    BY <1>3, <1>6 DEF DownloadInv
  <1>13. FedInv'
    BY <1>0, <1>3, <1>4, <1>6, <1>7, <1>9 DEF FedInv, Streams, Consecutive, Prime
  <1>14. DueInv'
    BY <1>0, <1>6 DEF DueInv, Streams, Prime
  <1> QED
    BY <1>11, <1>12, <1>13, <1>14 DEF DataInv

LEMMA ActStep ==
  ASSUME DataInv, ActAtOnce
  PROVE  DataInv'
  <1>0. DataTypes /\ DownloadInv /\ FedInv /\ DueInv
    BY DEF DataInv
  <1>1. /\ feed = "first" /\ feed' = "websocket" /\ batch = << >> /\ due = {} /\ lastTs = 0
        /\ fed = IF warmup = << >> THEN << >> ELSE Front(warmup)
        /\ warmup \in Seq(Positive) /\ Consecutive(warmup) /\ feedTs \in Nat /\ feedTs <= lastTs
    BY <1>0 DEF ActAtOnce, DueInv, FedInv, DownloadInv, Streams, DataTypes
  <1>2. UNCHANGED <<lastClosed, forming, nextBar, until, rows, partial, warmup, batch, feedTs, due, excused>>
    BY DEF ActAtOnce, exchange, download
  <1>3. /\ fed' \in Seq(Positive) /\ Growing(fed)' /\ lastTs' \in Nat /\ feedTs <= lastTs'
        /\ lastTs' = IF fed' # << >> THEN fed'[Len(fed')] ELSE 0
    <2>1. CASE warmup = << >>
      BY <1>0, <1>1, <2>1 DEF ActAtOnce, FedInv, Growing
    <2>2. CASE warmup # << >>
      <3>1. fed' = warmup /\ lastTs' = Last(warmup)
        BY <1>1, <2>2, LastLast DEF ActAtOnce
      <3>2. Growing(warmup) /\ Last(warmup) \in Positive
        BY <1>1, <2>2, LastLast
      <3> QED
        BY <1>1, <2>2, <3>1, <3>2 DEF Last, Growing, Positive
    <2> QED
      BY <2>1, <2>2
  <1>4. fed' \in Seq(Nat)
    BY <1>3, SeqMonotonic DEF Positive
  <1>5. DataTypes'
    BY <1>0, <1>1, <1>2, <1>3, <1>4 DEF DataTypes, DataTypeOK, Streams
  <1>6. DownloadInv'
    BY <1>1 DEF DownloadInv
  <1>7. FedInv'
    BY <1>0, <1>1, <1>2, <1>3 DEF FedInv, Streams, Consecutive
  <1>8. DueInv'
    BY <1>0, <1>1, <1>2, <1>3 DEF DueInv, Ascending
  <1> QED
    BY <1>5, <1>6, <1>7, <1>8 DEF DataInv

\* Bars a to b reach a feed that has nothing left to yield.
LEMMA ShowsStep ==
  ASSUME DataInv, feed \in Streams, batch = << >>, NEW a \in Positive, NEW b \in Nat, a <= b + 1,
         Shows(a..b),
         UNCHANGED <<exchange, feed, download, engineTs, feedTs, failures, excused>>
  PROVE  DataInv'
  <1>0. DataTypes /\ DownloadInv /\ FedInv /\ DueInv
    BY DEF DataInv
  <1>1. UNCHANGED <<lastClosed, forming, nextBar, until, rows, partial, warmup, lastTs, fed, feed, feedTs, excused>>
    BY DEF exchange, download, engineTs
  <1> DEFINE s == Sorted(a..b)
  <1>2. s \in Seq(Positive) /\ Ascending(s) /\ ToSet(s) = a..b
    BY SortedFacts
  <1>3. batch' = s /\ due' = due \cup {x \in a..b : x > lastTs}
    BY DEF Shows
  <1> HIDE DEF s
  <1>4. ToSet(<< >>) = {} /\ batch' \in Seq(Nat)
    BY <1>2, <1>3, SeqMonotonic DEF ToSet, Positive
  <1>5. DataTypes'
    BY <1>0, <1>1, <1>4 DEF DataTypes, DataTypeOK
  <1>6. DownloadInv' /\ FedInv'
    BY <1>0, <1>1 DEF DownloadInv, FedInv, Consecutive, Growing
  <1>7. \A x \in due' : x \in ToSet(fed) \/ (x \in ToSet(s) /\ x > lastTs)
    BY <1>0, <1>2, <1>3, <1>4 DEF DueInv
  <1>8. Ascending(batch)'
    BY <1>2, <1>3 DEF Ascending
  <1>9. DueInv'
    BY <1>0, <1>1, <1>2, <1>3, <1>7, <1>8 DEF DueInv
  <1> QED
    BY <1>5, <1>6, <1>9 DEF DataInv

LEMMA YieldStep ==
  ASSUME DataInv, NextOfBatch
  PROVE  DataInv'
  <1>0. DataTypes /\ DownloadInv /\ FedInv /\ DueInv
    BY DEF DataInv
  <1> DEFINE h == Head(batch)
             t == Tail(batch)
  <1>1. /\ batch # << >> /\ feed \in Streams /\ batch' = t
        /\ feedTs' = (IF feedTs = 0 \/ h > feedTs THEN h ELSE feedTs)
        /\ IF Seen(h) THEN UNCHANGED <<lastTs, fed>>
           ELSE lastTs' = h /\ fed' = Append(fed, h)
        /\ UNCHANGED <<lastClosed, forming, nextBar, until, rows, partial, feed, warmup, due, excused>>
    BY DEF NextOfBatch, Streams, exchange, download
  <1>2. /\ h \in Positive /\ t \in Seq(Positive) /\ Ascending(t)
        /\ ToSet(batch) = {h} \cup ToSet(t) /\ \A x \in ToSet(t) : h < x
    BY <1>0, <1>1, TakeFirst DEF DueInv
  <1> HIDE DEF h, t
  <1>3. feedTs \in Nat /\ lastTs \in Nat /\ feedTs <= lastTs /\ h \in Nat /\ h > 0
    BY <1>0, <1>2 DEF DataTypes, DueInv, Positive
  <1>4. Seen(h) <=> h <= lastTs
    BY <1>3 DEF Seen
  <1>5. fed \in Seq(Positive) /\ Growing(fed) /\ lastTs = IF fed # << >> THEN fed[Len(fed)] ELSE 0
    BY <1>0, <1>1 DEF FedInv
  <1>6. /\ fed' \in Seq(Positive) /\ Growing(fed)' /\ lastTs' \in Nat /\ feedTs' \in Nat
        /\ feedTs' <= lastTs'
        /\ lastTs' = IF fed' # << >> THEN fed'[Len(fed')] ELSE 0
        /\ \A x \in due : x \in ToSet(fed') \/ (x \in ToSet(t) /\ x > lastTs')
    <2>1. CASE h <= lastTs
      <3>1. lastTs' = lastTs /\ fed' = fed /\ feedTs' \in Nat /\ feedTs' <= lastTs
        BY <1>1, <1>3, <1>4, <2>1
      <3>2. ASSUME NEW x \in due, x \notin ToSet(fed) PROVE x \in ToSet(t) /\ x > lastTs
        <4>1. x \in ToSet(batch) /\ x > lastTs
          BY <1>0, <3>2 DEF DueInv
        <4>2. x # h
          BY <1>3, <2>1, <4>1
        <4> QED
          BY <1>2, <4>1, <4>2
      <3> QED
        BY <1>3, <1>5, <3>1, <3>2 DEF Growing
    <2>2. CASE ~(h <= lastTs)
      <3>1. lastTs' = h /\ fed' = Append(fed, h) /\ feedTs' = h
        BY <1>1, <1>3, <1>4, <2>2
      <3>2. fed # << >> => fed[Len(fed)] < h
        BY <1>3, <1>5, <2>2
      <3>3. /\ fed' \in Seq(Positive) /\ Growing(Append(fed, h)) /\ fed' # << >> /\ fed'[Len(fed')] = h
            /\ ToSet(fed') = ToSet(fed) \cup {h}
        BY <1>2, <1>5, <3>1, <3>2, GrowingAppend
      <3>4. Growing(fed)'
        BY <3>1, <3>3 DEF Growing
      <3>5. ASSUME NEW x \in due, x \notin ToSet(fed') PROVE x \in ToSet(t) /\ x > h
        <4>1. x \in ToSet(batch) /\ x # h
          BY <1>0, <3>3, <3>5 DEF DueInv
        <4>2. x \in ToSet(t) /\ h < x
          BY <1>2, <4>1
        <4>3. x \in Nat
          BY <1>2, <4>2 DEF ToSet, Positive
        <4> QED
          BY <1>3, <4>2, <4>3
      <3> QED
        BY <1>3, <3>1, <3>3, <3>4, <3>5
    <2> QED
      BY <2>1, <2>2
  <1>7. fed' \in Seq(Nat) /\ batch' \in Seq(Nat)
    BY <1>1, <1>2, <1>6, SeqMonotonic DEF Positive
  <1>8. DataTypes'
    BY <1>0, <1>1, <1>6, <1>7 DEF DataTypes, DataTypeOK
  <1>9. DownloadInv'
    BY <1>1 DEF DownloadInv, Streams
  <1>10. FedInv'
    BY <1>0, <1>1, <1>6 DEF FedInv, Consecutive
  <1>11. DueInv'
    BY <1>1, <1>2, <1>6 DEF DueInv, Ascending
  <1> QED
    BY <1>8, <1>9, <1>10, <1>11 DEF DataInv

LEMMA DataStep ==
  ASSUME DataInv, [DataNext]_dataVars
  PROVE  DataInv'
  <1>0. DataTypes /\ DownloadInv /\ FedInv /\ DueInv
    BY DEF DataInv
  <1>1. CASE CandleCloses \/ FormingShows
    <2>0. forming' \in BOOLEAN
      BY <1>1 DEF CandleCloses, FormingShows
    <2>1. /\ lastClosed' \in Nat /\ forming' \in BOOLEAN
          /\ UNCHANGED <<feed, nextBar, until, rows, partial, warmup, lastTs, fed, batch, feedTs, due, excused>>
      BY <1>0, <1>1, <2>0 DEF CandleCloses, FormingShows, download, engineTs, DataTypes, DataTypeOK
    <2>2. DataTypes'
      BY <1>0, <2>1 DEF DataTypes, DataTypeOK
    <2>3. DownloadInv' /\ FedInv'
      BY <1>0, <2>1 DEF DownloadInv, FedInv, Consecutive, Growing
    <2>4. DueInv'
      BY <1>0, <2>1 DEF DueInv, Ascending
    <2> QED
      BY <2>2, <2>3, <2>4 DEF DataInv
  <1>2. CASE PageFails
    <2>1. /\ feed = "history" /\ feed' \in {"history", "prime"}
          /\ \/ rows' = {} /\ partial' = {} /\ feed' = "prime"
             \/ UNCHANGED <<feed, rows, partial>>
          /\ UNCHANGED <<lastClosed, forming, nextBar, until, warmup, lastTs, fed, batch, feedTs, due, excused>>
      BY <1>2 DEF PageFails, exchange, engineTs
    <2>2. DataTypes'
      BY <1>0, <2>1 DEF DataTypes, DataTypeOK
    <2>3. DownloadInv'
      <3>1. {} = 1..0 /\ 0 \in Nat
        OBVIOUS
      <3> QED
        BY <1>0, <2>1, <3>1 DEF DownloadInv
    <2>4. FedInv'
      BY <1>0, <2>1 DEF FedInv, Streams, Consecutive, Growing
    <2>5. DueInv'
      BY <1>0, <2>1 DEF DueInv, Streams, Ascending
    <2> QED
      BY <2>2, <2>3, <2>4, <2>5 DEF DataInv
  <1>3. CASE Watch
    <2>1. PICK oldest \in Listed : Shows({b \in Listed : oldest <= b /\ b < NewestListed})
      BY <1>3 DEF Watch
    <2>2. NewestListed \in Nat /\ Listed = 1..NewestListed
      BY <1>0 DEF NewestListed, Listed, DataTypes, DataTypeOK
    <2>3. /\ oldest \in Positive /\ NewestListed - 1 \in Nat /\ oldest <= NewestListed - 1 + 1
          /\ {b \in Listed : oldest <= b /\ b < NewestListed} = oldest..(NewestListed - 1)
      BY <2>2 DEF Positive
    <2>4. Shows(oldest..(NewestListed - 1))
      BY <2>1, <2>3
    <2> QED
      BY <1>3, <2>3, <2>4, ShowsStep DEF Watch, Streams
  <1>4. CASE PollLastTwo
    <2>1. NewestListed \in Nat /\ Listed = 1..NewestListed
      BY <1>0 DEF NewestListed, Listed, DataTypes, DataTypeOK
    <2>2. NewestListed >= 2
      <3>1. Cardinality(1..NewestListed) = IF 1 > NewestListed THEN 0 ELSE NewestListed - 1 + 1
        BY <2>1, FS_Interval
      <3> QED
        BY <1>4, <2>1, <3>1 DEF PollLastTwo
    <2> DEFINE x == NewestListed - 1
    <2>3. x \in Positive /\ x \in Nat /\ x <= x + 1 /\ {x} = x..x
      BY <2>1, <2>2 DEF Positive
    <2>4. Shows(x..x)
      BY <1>4, <2>3 DEF PollLastTwo
    <2> HIDE DEF x
    <2> QED
      BY <1>4, <2>3, <2>4, ShowsStep DEF PollLastTwo, Streams
  <1>5. CASE FallBack \/ FeedFails
    <2>1. /\ feed \in Streams /\ feed' \in Streams /\ feedTs' \in {0, feedTs}
          /\ UNCHANGED <<lastClosed, forming, nextBar, until, rows, partial, warmup, lastTs, fed, batch, due, excused>>
      BY <1>5 DEF FallBack, FeedFails, Streams, exchange, download, engineTs
    <2>2. DataTypes'
      BY <1>0, <2>1 DEF DataTypes, DataTypeOK
    <2>3. DownloadInv'
      BY <2>1 DEF DownloadInv, Streams
    <2>4. FedInv'
      BY <1>0, <2>1 DEF FedInv, Consecutive, Growing
    <2>5. DueInv'
      BY <1>0, <2>1 DEF DueInv, DataTypes, Ascending
    <2> QED
      BY <2>2, <2>3, <2>4, <2>5 DEF DataInv
  <1>6. CASE UNCHANGED dataVars
    <2>1. /\ UNCHANGED <<lastClosed, forming, feed, nextBar, until, rows, partial, warmup, lastTs>>
          /\ UNCHANGED <<fed, batch, feedTs, due, excused>>
      BY <1>6 DEF dataVars
    <2> QED
      BY <1>0, <2>1 DEF DataInv, DataTypes, DataTypeOK, DownloadInv, FedInv, DueInv, Consecutive, Growing, Ascending
  <1> QED
    BY <1>1, <1>2, <1>3, <1>4, <1>5, <1>6, PageStep, PrimeStep, ActStep, YieldStep DEF DataNext

\* The engine gets every closed bar once and in order, whatever closes, fails or falls back
\* during the download, the first decision and the streams: for every page size, history and
\* warm-up.
THEOREM BarsReachTheEngineOnce == DataSpec => []EngineSeesEachBarOnce
  <1>1. DataInv => EngineSeesEachBarOnce
    <2> SUFFICES ASSUME DataInv PROVE EngineSeesEachBarOnce
      OBVIOUS
    <2>1. Growing(fed) /\ Consecutive(warmup)
      BY DEF DataInv, FedInv
    <2>2. due \subseteq ToSet(fed) \cup ToSet(batch)
      BY DEF DataInv, DueInv
    <2>3. excused \/ ToSet(warmup) \cap partial = {}
      BY DEF DataInv, FedInv
    <2> QED
      BY <2>1, <2>2, <2>3 DEF EngineSeesEachBarOnce, Growing, Consecutive
  <1> QED
    BY <1>1, DataInitially, DataStep, PTL DEF DataSpec

\* The types along the way.
THEOREM DataTypesHold == DataSpec => []DataTypeOK
  <1>1. DataInv => DataTypeOK
    BY DEF DataInv, DataTypes
  <1> QED
    BY <1>1, DataInitially, DataStep, PTL DEF DataSpec

-----------------------------------------------------------------------------
(* Features: the greatest window                                           *)

\* A finite set of numbers that is not empty has a greatest element.
LEMMA FiniteGreatest ==
  ASSUME NEW S \in SUBSET Nat, IsFiniteSet(S), S # {}
  PROVE  \E m \in S : \A x \in S : x <= m
  <1> DEFINE Top(T) == \E m \in T : \A x \in T : x <= m
             Bad == {n \in Nat : \E T \in SUBSET S : T # {} /\ Cardinality(T) = n /\ ~Top(T)}
  <1>1. \A T \in SUBSET S : IsFiniteSet(T) /\ Cardinality(T) \in Nat
    BY FewerInPart
  <1>2. Bad = {}
    <2> SUFFICES ASSUME Bad # {} PROVE FALSE
      OBVIOUS
    <2>1. PICK n \in Bad : \A k \in Bad : n <= k
      <3>1. Bad \in SUBSET Nat
        OBVIOUS
      <3> HIDE DEF Bad
      <3> QED
        BY <3>1, LeastElement
    <2>2. PICK T \in SUBSET S : T # {} /\ Cardinality(T) = n /\ ~Top(T)
      BY DEF Bad
    <2>3. PICK x \in T : TRUE
      BY <2>2
    <2> DEFINE R == T \ {x}
    <2>4. R \in SUBSET S /\ T = R \cup {x} /\ x \in Nat
      BY <2>3
    <2>5. Cardinality(R) = Cardinality(T) - 1
      BY <1>1, <2>3, FS_RemoveElement
    <2> HIDE DEF R
    <2>6. Cardinality(R) \in Nat /\ Cardinality(T) \in Nat
      BY <1>1, <2>4
    <2>7. ~(n <= Cardinality(R))
      BY <2>2, <2>5, <2>6
    <2>8. Cardinality(R) \notin Bad
      <3> HIDE DEF Bad
      <3> QED
        BY <2>1, <2>7
    <2>9. R = {} \/ Top(R)
      <3> HIDE DEF Top
      <3> QED
        BY <2>4, <2>6, <2>8
    <2>10. CASE R = {}
      <3>1. x \in T /\ \A y \in T : y <= x
        BY <2>3, <2>4, <2>10
      <3> QED
        BY <2>2, <3>1
    <2>11. CASE Top(R)
      <3>1. PICK m \in R : \A y \in R : y <= m
        BY <2>11
      <3>2. m \in Nat /\ R \in SUBSET Nat
        BY <2>4
      <3> DEFINE t == IF x <= m THEN m ELSE x
      <3>3. t \in T /\ \A y \in T : y <= t
        BY <2>4, <3>1, <3>2
      <3> HIDE DEF t
      <3> QED
        BY <2>2, <3>3
    <2> QED
      BY <2>9, <2>10, <2>11
  <1>3. Cardinality(S) \in Nat
    BY <1>1
  <1> HIDE DEF Top
  <1>4. Top(S)
    BY <1>2, <1>3
  <1> QED
    BY <1>4 DEF Top

LEMMA MaxOf ==
  ASSUME NEW S \in SUBSET Nat, \E m \in S : \A x \in S : x <= m
  PROVE  Max(S) \in S /\ \A x \in S : x <= Max(S)
  <1>1. PICK m \in S : \A x \in S : x <= m
    OBVIOUS
  <1>2. \A x \in S : m >= x
    BY <1>1
  <1>3. Max(S) \in S /\ \A x \in S : Max(S) >= x
    BY <1>2 DEF Max
  <1> QED
    BY <1>3

LEMMA MinOf ==
  ASSUME NEW S \in SUBSET Nat, S # {}
  PROVE  Min(S) \in S
  <1>1. PICK m \in S : \A x \in S : m <= x
    BY LeastElement
  <1> QED
    BY <1>1 DEF Min

LEMMA Momenta ==
  /\ Longest \in MomentumWindows /\ Shortest \in MomentumWindows
  /\ \A w \in MomentumWindows : w \in Nat \ {0} /\ w <= Longest
  <1>1. MomentumWindows \in SUBSET Nat /\ MomentumWindows # {} /\ IsFiniteSet(MomentumWindows)
        /\ \A w \in MomentumWindows : w \in Nat \ {0}
    BY FeatureAssumption
  <1>2. \E m \in MomentumWindows : \A x \in MomentumWindows : x <= m
    BY <1>1, FiniteGreatest
  <1> QED
    BY <1>1, <1>2, MaxOf, MinOf DEF Longest, Shortest

LEMMA WindowNumbers == \A name \in WindowNames : W[name] \in Nat \ {0}
  BY FeatureAssumption DEF W

LEMMA SevenFinite ==
  ASSUME NEW a, NEW b, NEW c, NEW d, NEW e, NEW f, NEW g
  PROVE  IsFiniteSet({a, b, c, d, e, f, g})
  <1>1. /\ IsFiniteSet({a}) /\ IsFiniteSet({b}) /\ IsFiniteSet({c}) /\ IsFiniteSet({d})
        /\ IsFiniteSet({e}) /\ IsFiniteSet({f}) /\ IsFiniteSet({g})
    BY FS_Singleton
  <1>2. /\ IsFiniteSet({a} \cup {b}) /\ IsFiniteSet({c} \cup {d}) /\ IsFiniteSet({e} \cup {f})
    BY <1>1, FS_Union
  <1>3. IsFiniteSet(({a} \cup {b}) \cup ({c} \cup {d})) /\ IsFiniteSet(({e} \cup {f}) \cup {g})
    BY <1>1, <1>2, FS_Union
  <1>4. IsFiniteSet((({a} \cup {b}) \cup ({c} \cup {d})) \cup (({e} \cup {f}) \cup {g}))
    BY <1>3, FS_Union
  <1>5. {a, b, c, d, e, f, g} = (({a} \cup {b}) \cup ({c} \cup {d})) \cup (({e} \cup {f}) \cup {g})
    OBVIOUS
  <1> QED
    BY <1>4, <1>5

LEMMA WindowNamesFinite == IsFiniteSet(WindowNames)
  <1> DEFINE a == {"atr_period", "vwap_window", "extra_momentum", "volume_spike_window",
                   "zscore_window", "rsi_fast", "rsi_slow"}
             b == {"macd_slow", "stoch_k", "stoch_d", "bollinger_window", "adx_period",
                   "donchian", "parkinson"}
             c == {"obv_z", "amihud", "fracdiff_window", "trend_ema", "cross_corr_window",
                   "vol_pct_window", "htf_lookback_bars"}
  <1>1. IsFiniteSet(a) /\ IsFiniteSet(b) /\ IsFiniteSet(c)
    BY SevenFinite
  <1>2. WindowNames = (a \cup b) \cup c
    BY DEF WindowNames
  <1> HIDE DEF a, b, c
  <1>3. IsFiniteSet(a \cup b)
    BY <1>1, FS_Union
  <1> QED
    BY <1>1, <1>2, <1>3, FS_Union

Unwarmed == {"rsi_fast", "stoch_k", "stoch_d", "htf_lookback_bars"}

\* The windows that count for the warm-up fit into it, and so does the longest momentum.
LEMMA WarmupCovers ==
  /\ WarmupRows \in Nat /\ WarmupRows >= 3 /\ Longest + 2 <= WarmupRows
  /\ \A name \in WindowNames \ Unwarmed : W[name] + 2 <= WarmupRows
  <1> DEFINE named == {W[name] : name \in WindowNames \ Unwarmed}
             htf == IF "use_htf" \in Optional THEN {W.htf_lookback_bars} ELSE {}
             all == named \cup {Longest} \cup htf
  <1>1. "htf_lookback_bars" \in WindowNames /\ "atr_period" \in WindowNames \ Unwarmed
    BY DEF WindowNames, Unwarmed
  <1>2. Longest \in Nat \ {0}
    BY Momenta
  <1>3. WarmupWindows = all
    BY DEF WarmupWindows, Unwarmed
  <1>4. all \in SUBSET Nat /\ all # {}
    BY <1>1, <1>2, WindowNumbers
  <1>5. IsFiniteSet(all)
    <2>1. IsFiniteSet(WindowNames \ Unwarmed)
      <3>1. IsFiniteSet(WindowNames)
        BY WindowNamesFinite
      <3> QED
        BY <3>1, FS_Difference
    <2>2. IsFiniteSet(named)
      <3> DEFINE f == [name \in WindowNames \ Unwarmed |-> W[name]]
      <3>1. f \in Surjection(WindowNames \ Unwarmed, named)
        BY DEF Surjection
      <3> HIDE DEF f, named
      <3> QED
        BY <2>1, <3>1, FS_Surjection
    <2>3. IsFiniteSet({Longest}) /\ IsFiniteSet({W.htf_lookback_bars}) /\ IsFiniteSet({})
      BY FS_Singleton, FS_EmptySet
    <2>4. IsFiniteSet(htf)
      BY <2>3
    <2> HIDE DEF named, htf
    <2>5. IsFiniteSet(named \cup {Longest})
      BY <2>2, <2>3, FS_Union
    <2> QED
      BY <2>4, <2>5, FS_Union
  <1>6. Max(all) \in all /\ \A x \in all : x <= Max(all)
    <2> HIDE DEF all
    <2>1. \E m \in all : \A x \in all : x <= m
      BY <1>4, <1>5, FiniteGreatest
    <2> QED
      BY <1>4, <2>1, MaxOf
  <1> DEFINE top == Max(all)
  <1>7. WarmupRows = top + 2
    BY <1>3 DEF WarmupRows
  <1>8. Longest \in all /\ \A name \in WindowNames \ Unwarmed : W[name] \in all
    OBVIOUS
  <1>9. top \in Nat /\ Longest <= top /\ \A name \in WindowNames \ Unwarmed : W[name] <= top
    BY <1>4, <1>6, <1>8
  <1> HIDE DEF top, all
  <1>10. \A name \in WindowNames \ Unwarmed : W[name] \in Nat
    BY WindowNumbers
  <1> QED
    BY <1>2, <1>7, <1>9, <1>10

-----------------------------------------------------------------------------
(* Features: what a column reads                                           *)

\* A series is defined from row n on at the latest, ...
By(s, n) == s.first \in Nat \ {0} /\ s.back \in Nat /\ s.first <= n
\* ... and from the row on for which it has all the rows it reads, if it reads a window.
Windowed(s) == s.whole \/ s.first = s.back + 1

LEMMA RawBy ==
  ASSUME NEW n \in Nat \ {0}
  PROVE  By(Raw, n) /\ Windowed(Raw)
  BY DEF By, Windowed, Raw

LEMMA ShiftBy ==
  ASSUME NEW s, NEW n \in Int, NEW k \in Nat, NEW m \in Int, By(s, n), n + k <= m
  PROVE  By(Shift(s, k), m) /\ (Windowed(s) => Windowed(Shift(s, k)))
  BY DEF By, Windowed, Shift

LEMMA RollingBy ==
  ASSUME NEW s, NEW n \in Int, NEW w \in Nat \ {0}, NEW m \in Int, By(s, n), n + w - 1 <= m
  PROVE  By(Rolling(s, w), m) /\ (Windowed(s) => Windowed(Rolling(s, w)))
  <1>1. w - 1 \in Nat /\ n + (w - 1) <= m
    OBVIOUS
  <1> QED
    BY <1>1, ShiftBy DEF Rolling

LEMMA WilderBy ==
  ASSUME NEW s, NEW n \in Int, NEW p \in Nat \ {0}, NEW m \in Int, By(s, n), n + p - 1 <= m
  PROVE  By(Wilder(s, p), m) /\ Windowed(Wilder(s, p)) /\ Wilder(s, p).whole
  BY DEF By, Windowed, Wilder

LEMMA WithBy ==
  ASSUME NEW s, NEW t, NEW n \in Int, By(s, n), By(t, n)
  PROVE  By(With(s, t), n) /\ (Windowed(s) /\ Windowed(t) => Windowed(With(s, t)))
  <1> DEFINE r == With(s, t)
  <1>1. /\ r.first = Larger(s.first, t.first) /\ r.back = Larger(s.back, t.back)
        /\ (s.whole \/ t.whole => r.whole)
    BY Zenon DEF With
  <1> HIDE DEF r
  <1>2. By(r, n)
    BY <1>1 DEF By, Larger
  <1>3. ASSUME s.first = s.back + 1, t.first = t.back + 1 PROVE r.first = r.back + 1
    BY <1>1, <1>3 DEF By, Larger
  <1>4. Windowed(s) /\ Windowed(t) => Windowed(r)
    BY <1>1, <1>3 DEF Windowed
  <1> QED
    BY <1>2, <1>4 DEF r

LEMMA FilledBy ==
  ASSUME NEW s, NEW n \in Nat \ {0}, s.back \in Nat
  PROVE  By(Filled(s), n) /\ Filled(s).back = s.back /\ Filled(s).whole = s.whole
  BY DEF By, Filled

LEMMA WidenBy ==
  ASSUME NEW s, NEW n \in Int, NEW m \in Int, By(s, n), n <= m
  PROVE  By(s, m)
  BY DEF By

\* The columns that are not filled: defined by row n when the windows fit, and windowed.
LEMMA UnfilledBy ==
  ASSUME NEW n \in Nat, 5 * WarmupRows <= n, W.rsi_fast < n, W.stoch_k + W.stoch_d - 1 <= n
  PROVE  \A s \in CoreColumns \ {Filled(Ewm(Raw)), Filled(Rolling(RealizedVol, W.vol_pct_window))} :
           By(s, n) /\ Windowed(s)
  <1> DEFINE M == WarmupRows
             Fits(s) == By(s, n) /\ Windowed(s)
  <1>1. M \in Nat /\ M >= 3 /\ 5 * M <= n
    BY WarmupCovers
  <1>2. \A name \in WindowNames \ Unwarmed : W[name] \in Nat \ {0} /\ W[name] + 2 <= M
    BY WarmupCovers, WindowNumbers
  <1>3. /\ W.atr_period \in Nat \ {0} /\ W.atr_period + 2 <= M
        /\ W.vwap_window \in Nat \ {0} /\ W.vwap_window + 2 <= M
        /\ W.extra_momentum \in Nat \ {0} /\ W.extra_momentum + 2 <= M
        /\ W.volume_spike_window \in Nat \ {0} /\ W.volume_spike_window + 2 <= M
        /\ W.zscore_window \in Nat \ {0} /\ W.zscore_window + 2 <= M
        /\ W.rsi_slow \in Nat \ {0} /\ W.rsi_slow + 2 <= M
    BY <1>2 DEF WindowNames, Unwarmed
  <1>4. /\ W.bollinger_window \in Nat \ {0} /\ W.bollinger_window + 2 <= M
        /\ W.adx_period \in Nat \ {0} /\ W.adx_period + 2 <= M
        /\ W.donchian \in Nat \ {0} /\ W.donchian + 2 <= M
        /\ W.parkinson \in Nat \ {0} /\ W.parkinson + 2 <= M
        /\ W.obv_z \in Nat \ {0} /\ W.obv_z + 2 <= M
        /\ W.amihud \in Nat \ {0} /\ W.amihud + 2 <= M
        /\ W.fracdiff_window \in Nat \ {0} /\ W.fracdiff_window + 2 <= M
    BY <1>2 DEF WindowNames, Unwarmed
  <1>5. W.rsi_fast \in Nat \ {0} /\ W.stoch_k \in Nat \ {0} /\ W.stoch_d \in Nat \ {0}
    BY WindowNumbers DEF WindowNames
  <1>6. /\ Longest \in Nat \ {0} /\ Shortest \in Nat \ {0} /\ Longest + 2 <= M /\ Shortest <= Longest
        /\ \A w \in MomentumWindows : w \in Nat \ {0} /\ w <= Longest
    BY Momenta, WarmupCovers
  <1> HIDE DEF M
  <1> USE DEF Spread, ZScore
  <1>7. By(Raw, 1) /\ Windowed(Raw) /\ Fits(Raw)
    BY <1>1, RawBy
  <1>8. By(Change, 2) /\ Windowed(Change)
    <2>1. By(Shift(Raw, 1), 2) /\ Windowed(Shift(Raw, 1)) /\ By(Raw, 2)
      BY <1>7, ShiftBy, RawBy
    <2> QED
      BY <1>7, <2>1, WithBy DEF Change
  <1>9. By(TrueRange, 1)
    BY <1>8, FilledBy DEF TrueRange, By
  <1>10. ASSUME NEW w \in Nat, NEW m \in Int, w + 1 <= m
         PROVE  By(Momentum(w), m) /\ Windowed(Momentum(w))
    <2>1. By(Shift(Raw, w), m) /\ Windowed(Shift(Raw, w)) /\ By(Raw, m)
      BY <1>7, <1>10, ShiftBy, WidenBy
    <2> QED
      BY <1>7, <2>1, WithBy DEF Momentum
  <1>11. ASSUME NEW w \in Nat \ {0}, NEW m \in Int, w <= m
         PROVE  /\ By(Rolling(Raw, w), m) /\ Windowed(Rolling(Raw, w))
                /\ By(Spread(w), m) /\ Windowed(Spread(w))
    <2>1. By(Rolling(Raw, w), m) /\ Windowed(Rolling(Raw, w)) /\ By(Raw, m)
      BY <1>7, <1>11, RollingBy, WidenBy
    <2> QED
      BY <1>7, <2>1, WithBy
  <1>12. ASSUME NEW p \in Nat \ {0}, p + 1 <= n PROVE Fits(Rsi(p))
    BY <1>8, <1>12, WilderBy DEF Rsi
  <1>13. ASSUME NEW w \in Nat \ {0}, w + 1 <= n
         PROVE  Fits(Rolling(Change, w)) /\ Fits(ZScore(Change, w))
    <2>1. Fits(Rolling(Change, w)) /\ Fits(Change)
      BY <1>1, <1>8, <1>13, RollingBy, WidenBy
    <2> QED
      BY <2>1, WithBy
  <1>14. ASSUME NEW w \in Nat \ {0}, w + 2 <= M PROVE w <= n /\ w + 1 <= n
    BY <1>1, <1>14
  <1>15. Fits(Change)
    BY <1>1, <1>8, WidenBy
  <1>16. Fits(Momentum(W.extra_momentum)) /\ \A w \in MomentumWindows : Fits(Momentum(w))
    <2>1. \A w \in MomentumWindows : w \in Nat /\ w + 1 <= n
      BY <1>1, <1>6
    <2> QED
      BY <1>3, <1>10, <1>14, <2>1
  <1>17. Fits(With(Momentum(Shortest), Shift(Momentum(Shortest), Shortest)))
    <2> DEFINE s == Momentum(Shortest)
               m == Shortest + 1
    <2>1. m \in Int /\ m <= n /\ m + Shortest <= n
      BY <1>1, <1>6
    <2>2. By(s, m) /\ Windowed(s)
      BY <1>6, <1>10
    <2> HIDE DEF s, m
    <2>3. Fits(s) /\ Fits(Shift(s, Shortest))
      BY <1>6, <2>1, <2>2, WidenBy, ShiftBy
    <2> QED
      BY <2>3, WithBy DEF s
  <1>18. Fits(Rsi(W.atr_period)) /\ Fits(Rsi(W.rsi_fast)) /\ Fits(Rsi(W.rsi_slow))
    <2>1. W.rsi_fast + 1 <= n
      BY <1>5
    <2> QED
      BY <1>3, <1>5, <1>12, <1>14, <2>1
  <1>19. Fits(Ewm(Raw))
    BY <1>1, <1>7, WilderBy DEF Ewm
  <1>20. Fits(Directional) /\ Fits(Wilder(Directional, W.adx_period)) /\ Fits(Atr)
    <2> DEFINE p == W.adx_period
    <2>1. p \in Nat \ {0} /\ p \in Int /\ 1 + p - 1 <= p /\ p <= n /\ p + p - 1 <= n
      BY <1>1, <1>4
    <2>2. W.atr_period \in Nat \ {0} /\ 1 + W.atr_period - 1 <= n
      BY <1>1, <1>3
    <2>3. Directional = Wilder(TrueRange, p) /\ Atr = Wilder(TrueRange, W.atr_period)
      BY DEF Directional, Atr
    <2> HIDE DEF p
    <2>4. By(Directional, p) /\ Windowed(Directional)
      BY <1>9, <2>1, <2>3, WilderBy
    <2>5. Fits(Directional) /\ Fits(Wilder(Directional, p))
      BY <2>1, <2>4, WidenBy, WilderBy
    <2>6. Fits(Atr)
      BY <1>9, <2>2, <2>3, WilderBy
    <2> QED
      BY <2>5, <2>6 DEF p
  <1>21. Fits(RealizedVol) /\ Fits(Rolling(Raw, W.parkinson))
    BY <1>4, <1>6, <1>11, <1>13, <1>14 DEF RealizedVol
  <1>22. Fits(VwapDev) /\ Fits(ZScore(VwapDev, W.zscore_window))
    <2> DEFINE v == W.vwap_window
               z == W.zscore_window
    <2>1. v \in Nat \ {0} /\ z \in Nat \ {0} /\ v \in Int /\ v <= n /\ v + z - 1 <= n
      BY <1>1, <1>3
    <2>2. VwapDev = Spread(v)
      BY DEF VwapDev
    <2> HIDE DEF v, z
    <2>3. By(VwapDev, v) /\ Windowed(VwapDev)
      BY <1>11, <2>1, <2>2
    <2>4. Fits(VwapDev) /\ Fits(Rolling(VwapDev, z))
      BY <2>1, <2>3, WidenBy, RollingBy
    <2> QED
      BY <2>4, WithBy DEF z
  <1>23. /\ Fits(ZScore(Raw, W.zscore_window)) /\ Fits(Spread(W.bollinger_window))
         /\ Fits(Spread(W.donchian)) /\ Fits(Rolling(Raw, W.fracdiff_window))
         /\ Fits(Spread(W.volume_spike_window))
    BY <1>3, <1>4, <1>11, <1>14
  <1>24. Fits(Stochastic) /\ Fits(Rolling(Stochastic, W.stoch_d))
    <2> DEFINE k == W.stoch_k
               d == W.stoch_d
    <2>1. k \in Nat \ {0} /\ d \in Nat \ {0} /\ k \in Int /\ k <= n /\ k + d - 1 <= n
      BY <1>5
    <2>2. Stochastic = Spread(k)
      BY DEF Stochastic
    <2> HIDE DEF k, d
    <2>3. By(Stochastic, k) /\ Windowed(Stochastic)
      BY <1>11, <2>1, <2>2
    <2> QED
      BY <2>1, <2>3, WidenBy, RollingBy DEF d
  <1>25. Fits(ZScore(Change, W.obv_z)) /\ Fits(Rolling(Change, W.amihud))
    BY <1>4, <1>13, <1>14
  <1> HIDE DEF Fits
  <1>26. \A s \in CoreColumns \ {Filled(Ewm(Raw)), Filled(Rolling(RealizedVol, W.vol_pct_window))} :
           Fits(s)
    BY <1>7, <1>15, <1>16, <1>17, <1>18, <1>19, <1>20, <1>21, <1>22, <1>23, <1>24, <1>25
    DEF CoreColumns
  <1> QED
    BY <1>26 DEF Fits

-----------------------------------------------------------------------------
(* Features: rows are whole                                                *)

\* The settings under which a row the engine answers has every bar it needs.  vol_pct is filled
\* where its window is cut short, so that only a longer window, or one of another column, keeps
\* update() silent until it is whole; rsi_fast and the stochastic do not count for the warm-up,
\* from which the length of the buffer comes.  They hold for the shipped configuration.
WindowsFit ==
  /\ \/ Longest + W.vol_pct_window <= WarmupRows
     \/ \E s \in Columns : Longest + W.vol_pct_window <= s.first
  /\ W.rsi_fast < BufferRows /\ W.stoch_k + W.stoch_d - 1 <= BufferRows

LEMMA BufferLarge == BufferRows \in Nat /\ 5 * WarmupRows <= BufferRows
  BY WarmupCovers, FeatureAssumption DEF BufferRows, Larger

\* The filled columns are defined from the first row on.
LEMMA FilledColumns ==
  /\ By(Filled(Ewm(Raw)), 1) /\ Filled(Ewm(Raw)).whole
  /\ By(Filled(Rolling(RealizedVol, W.vol_pct_window)), 1)
  /\ Filled(Rolling(RealizedVol, W.vol_pct_window)).back + 1 = Longest + W.vol_pct_window
  <1>1. By(Ewm(Raw), 1) /\ Ewm(Raw).whole
    BY RawBy, WilderBy DEF Ewm
  <1>2. Longest \in Nat \ {0} /\ W.vol_pct_window \in Nat \ {0}
    BY Momenta, WindowNumbers DEF WindowNames
  <1> DEFINE s == Rolling(RealizedVol, W.vol_pct_window)
  <1>3. s.back + 1 = Longest + W.vol_pct_window /\ s.back \in Nat
    <2>1. Change.back = 1
      BY DEF Change, With, Raw, Shift, Larger
    <2>2. RealizedVol.back = 1 + (Longest - 1)
      BY <2>1 DEF RealizedVol, Rolling, Shift
    <2>3. s.back = 1 + (Longest - 1) + (W.vol_pct_window - 1)
      BY <2>2 DEF Rolling, Shift
    <2> QED
      BY <1>2, <2>3
  <1> HIDE DEF s
  <1> QED
    BY <1>1, <1>3, FilledBy DEF s, By

\* The optional columns, too; what they read is shorter than the warm-up.
LEMMA OptionalWhole ==
  \A s \in OptionalColumns : By(s, 1) /\ (s.whole \/ s.back < WarmupRows)
  <1> DEFINE M == WarmupRows
             Good(s) == By(s, 1) /\ (s.whole \/ s.back < M)
  <1>1. /\ M \in Nat /\ M >= 3
        /\ W.zscore_window \in Nat \ {0} /\ W.zscore_window + 2 <= M
        /\ W.volume_spike_window \in Nat \ {0} /\ W.volume_spike_window + 2 <= M
        /\ W.cross_corr_window \in Nat \ {0} /\ W.cross_corr_window + 2 <= M
        /\ Longest \in Nat \ {0} /\ Longest + 2 <= M
    BY WarmupCovers, WindowNumbers, Momenta DEF WindowNames, Unwarmed
  <1> HIDE DEF M
  <1>2. Good(Raw)
    BY <1>1, RawBy DEF Raw
  <1>3. ASSUME NEW s, s.back \in Nat, s.whole \/ s.back < M PROVE Good(Filled(s))
    BY <1>3, FilledBy
  <1>4. Change.back = 1
    BY DEF Change, With, Raw, Shift, Larger
  <1>5. ASSUME NEW name PROVE Good(Filled(OptionalColumn(name)))
    <2>1. Good(Filled(Rolling(Raw, W.volume_spike_window)))
      <3>1. Rolling(Raw, W.volume_spike_window).back = W.volume_spike_window - 1
        BY <1>1 DEF Rolling, Shift, Raw
      <3> QED
        BY <1>1, <1>3, <3>1
    <2>2. Good(Filled(Rolling(Raw, W.zscore_window)))
      <3>1. Rolling(Raw, W.zscore_window).back = W.zscore_window - 1
        BY <1>1 DEF Rolling, Shift, Raw
      <3> QED
        BY <1>1, <1>3, <3>1
    <2>3. Good(Filled(ZScore(Change, W.zscore_window)))
      <3>1. Rolling(Change, W.zscore_window).back = 1 + (W.zscore_window - 1)
        BY <1>4 DEF Rolling, Shift
      <3>2. ZScore(Change, W.zscore_window).back
              = Larger(Change.back, Rolling(Change, W.zscore_window).back)
        BY DEF ZScore, With
      <3>3. ZScore(Change, W.zscore_window).back = W.zscore_window
        BY <1>1, <1>4, <3>1, <3>2 DEF Larger
      <3> QED
        BY <1>1, <1>3, <3>3
    <2>4. Good(Filled(With(Rolling(Change, W.cross_corr_window), Momentum(Longest))))
      <3> DEFINE a == Rolling(Change, W.cross_corr_window)
                 b == Momentum(Longest)
      <3>1. a.back = 1 + (W.cross_corr_window - 1)
        BY <1>4 DEF Rolling, Shift
      <3>2. b.back = Longest
        BY <1>1 DEF Momentum, With, Raw, Shift, Larger
      <3>3. With(a, b).back = Larger(a.back, b.back)
        BY DEF With
      <3> HIDE DEF a, b
      <3>4. With(a, b).back \in Nat /\ With(a, b).back < M
        BY <1>1, <3>1, <3>2, <3>3 DEF Larger
      <3> QED
        BY <1>3, <3>4 DEF a, b
    <2>5. Good(Filled(Ewm(Raw)))
      BY FilledColumns
    <2>6. Good(Filled(Change)) /\ Good(Filled(Raw))
      BY <1>1, <1>3, <1>4 DEF Raw
    <2> HIDE DEF Good
    <2>7. \/ OptionalColumn(name) = Rolling(Raw, W.volume_spike_window)
          \/ OptionalColumn(name) = Rolling(Raw, W.zscore_window)
          \/ OptionalColumn(name) = ZScore(Change, W.zscore_window)
          \/ OptionalColumn(name) = With(Rolling(Change, W.cross_corr_window), Momentum(Longest))
          \/ OptionalColumn(name) = Ewm(Raw)
          \/ OptionalColumn(name) = Change \/ OptionalColumn(name) = Raw
      BY DEF OptionalColumn
    <2> QED
      BY <2>1, <2>2, <2>3, <2>4, <2>5, <2>6, <2>7
  <1> HIDE DEF Good
  <1>6. \A s \in OptionalColumns : Good(s)
    BY <1>2, <1>5 DEF OptionalColumns
  <1> QED
    BY <1>6 DEF Good, M

\* A full buffer answers, and a row that is answered is whole.
LEMMA AnswersWhole ==
  ASSUME WindowsFit
  PROVE  /\ Answers(BufferRows)
         /\ \A n \in Nat : Answers(n) => \A s \in Columns : s.whole \/ s.back < n
  <1> DEFINE exp == Filled(Ewm(Raw))
             pct == Filled(Rolling(RealizedVol, W.vol_pct_window))
             rest == CoreColumns \ {exp, pct}
  <1>1. BufferRows \in Nat /\ WarmupRows \in Nat /\ WarmupRows >= 3 /\ WarmupRows <= BufferRows
    BY BufferLarge, WarmupCovers
  <1>2. \A s \in rest : By(s, BufferRows) /\ Windowed(s)
    BY BufferLarge, UnfilledBy DEF WindowsFit
  <1>3. By(exp, 1) /\ exp.whole /\ By(pct, 1) /\ pct.back + 1 = Longest + W.vol_pct_window
    BY FilledColumns
  <1>4. \A s \in OptionalColumns : By(s, 1) /\ (s.whole \/ s.back < WarmupRows)
    BY OptionalWhole
  <1> HIDE DEF exp, pct
  <1>5. \A s \in Columns : s \in rest \/ s = exp \/ s = pct \/ s \in OptionalColumns
    BY DEF Columns
  <1>6. Answers(BufferRows)
    <2> SUFFICES ASSUME NEW s \in Columns PROVE s.first <= BufferRows
      BY <1>1 DEF Answers, NoneMissing
    <2>1. By(s, BufferRows) \/ By(s, 1)
      BY <1>2, <1>3, <1>4, <1>5
    <2> QED
      BY <1>1, <2>1 DEF By
  <1>7. ASSUME NEW n \in Nat, Answers(n), NEW s \in Columns PROVE s.whole \/ s.back < n
    <2>1. n >= WarmupRows /\ \A t \in Columns : t.first <= n
      BY <1>7 DEF Answers, NoneMissing
    <2>2. CASE s \in rest
      <3>1. s.first \in Nat /\ s.back \in Nat /\ (s.whole \/ s.first = s.back + 1) /\ s.first <= n
        BY <1>2, <1>7, <2>1, <2>2 DEF By, Windowed
      <3> QED
        BY <3>1
    <2>3. CASE s = exp
      BY <1>3, <2>3
    <2>4. CASE s = pct
      <3>1. /\ pct.back \in Nat /\ \A t \in Columns : t.first \in Nat /\ t.first <= n
        BY <1>2, <1>3, <1>4, <1>5, <2>1 DEF By
      <3>2. Longest + W.vol_pct_window <= n
        <4>1. CASE Longest + W.vol_pct_window <= WarmupRows
          <5> DEFINE l == Longest + W.vol_pct_window
          <5>1. l \in Nat /\ l <= WarmupRows
            BY <1>3, <3>1, <4>1
          <5> HIDE DEF l
          <5>2. l <= n
            BY <1>1, <2>1, <5>1
          <5> QED
            BY <5>2 DEF l
        <4>2. CASE \E t \in Columns : Longest + W.vol_pct_window <= t.first
          <5> DEFINE l == Longest + W.vol_pct_window
          <5>1. PICK t \in Columns : l <= t.first
            BY <4>2
          <5>2. l \in Nat /\ t.first \in Nat /\ t.first <= n
            BY <1>3, <3>1
          <5> HIDE DEF l
          <5>3. l <= n
            BY <5>1, <5>2
          <5> QED
            BY <5>3 DEF l
        <4> QED
          BY <4>1, <4>2 DEF WindowsFit
      <3>3. pct.back + 1 <= n
        BY <1>3, <3>2
      <3> QED
        BY <2>4, <3>1, <3>3
    <2>5. CASE s \in OptionalColumns
      <3>1. s.back \in Nat /\ (s.whole \/ s.back < WarmupRows)
        BY <1>4, <2>5 DEF By
      <3> QED
        BY <1>1, <2>1, <3>1
    <2> QED
      BY <1>5, <2>2, <2>3, <2>4, <2>5
  <1> QED
    BY <1>6, <1>7

\* What update() answered is what it answers for the rows it holds.
AnswerInv == held \in Nat /\ answered = Answers(held)

\* Every row the strategy gets live was computed like the row of a backtest, and an engine whose
\* buffer is full answers, for all windows, optional sources and buffers that fit.
THEOREM LiveRowsHold ==
  ASSUME WindowsFit
  PROVE  FeatureSpec => []LiveRowsAreWhole
  <1>1. FeatureInit => AnswerInv
    <2>1. Answers(0) = FALSE
      BY WarmupCovers DEF Answers
    <2>2. FeatureInit => held \in Nat /\ held = 0 /\ answered = FALSE
      BY DEF FeatureInit
    <2>3. held = 0 /\ answered = FALSE => answered = Answers(held)
      BY <2>1
    <2> QED
      BY <2>2, <2>3 DEF AnswerInv
  <1>2. AnswerInv /\ [FeatureNext]_featureVars => AnswerInv'
    <2> SUFFICES ASSUME AnswerInv, [FeatureNext]_featureVars PROVE AnswerInv'
      OBVIOUS
    <2>1. CASE PrimeFeatures
      BY <2>1, WarmupCovers, FeatureAssumption DEF PrimeFeatures, AnswerInv, Larger
    <2>2. CASE Update
      BY <2>2 DEF Update, AnswerInv
    <2>3. CASE NewEngine
      <3>1. Answers(0) = FALSE
        BY WarmupCovers DEF Answers
      <3> QED
        BY <2>3, <3>1 DEF NewEngine, AnswerInv
    <2>4. CASE UNCHANGED featureVars
      BY <2>4 DEF featureVars, AnswerInv
    <2> QED
      BY <2>1, <2>2, <2>3, <2>4 DEF FeatureNext
  <1>3. AnswerInv => LiveRowsAreWhole
    BY AnswersWhole DEF AnswerInv, LiveRowsAreWhole
  <1> QED
    BY <1>1, <1>2, <1>3, PTL DEF FeatureSpec

-----------------------------------------------------------------------------
(* Sources: what is attached to a bar                                        *)

\* A time lies in its bin.
LEMMA BinFacts ==
  ASSUME NEW size \in Nat \ {0}, NEW t \in Int
  PROVE  Bin(size, t) \in Int /\ Bin(size, t) <= t /\ t < Bin(size, t) + size
         /\ \E q \in Int : Bin(size, t) = q * size
  <1>1. t \div size \in Int
    OBVIOUS
  <1>2. size * (t \div size) <= t /\ t < size * (t \div size + 1)
    OBVIOUS
  <1> QED
    BY <1>1, <1>2 DEF Bin

\* Bins that differ do not overlap.
LEMMA BinsApart ==
  ASSUME NEW size \in Nat \ {0}, NEW t \in Int, NEW u \in Int, Bin(size, t) < Bin(size, u)
  PROVE  Bin(size, t) + size <= Bin(size, u)
  <1>1. PICK p \in Int : Bin(size, t) = p * size
    BY BinFacts
  <1>2. PICK q \in Int : Bin(size, u) = q * size
    BY BinFacts
  <1>3. p < q
    BY <1>1, <1>2
  <1> QED
    BY <1>1, <1>2, <1>3

\* The bin of a time is a time.
LEMMA BinIsTime ==
  ASSUME NEW size \in Nat \ {0}, NEW t \in Nat
  PROVE  Bin(size, t) \in Nat
  <1>1. Bin(size, t) \in Int /\ t < Bin(size, t) + size /\ \E q \in Int : Bin(size, t) = q * size
    <2>1. t \in Int
      OBVIOUS
    <2> QED
      BY <2>1, BinFacts
  <1>2. PICK q \in Int : Bin(size, t) = q * size
    BY <1>1
  <1>3. q >= 0
    <2> SUFFICES ASSUME q <= -1 PROVE FALSE
      BY <1>2
    <2>1. q * size <= (-1) * size
      OBVIOUS
    <2> QED
      BY <1>1, <1>2, <2>1
  <1> QED
    BY <1>2, <1>3

\* The latest of some times that are bounded is one of them, and no other is later.
LEMMA LatestFacts ==
  ASSUME NEW S \in SUBSET Nat, NEW last \in Nat, \A t \in S : t <= last
  PROVE  /\ S = {} => Latest(S) = NoValue
         /\ S # {} => Latest(S) \in S /\ \A u \in S : u <= Latest(S)
  <1>1. CASE S = {}
    BY <1>1 DEF Latest
  <1>2. CASE S # {}
    <2>1. \E t \in S : \A u \in S : u <= t
      BY <1>2, GreatestElement
    <2> QED
      BY <1>2, <2>1 DEF Latest
  <1> QED
    BY <1>1, <1>2

\* What a bin holds lies in it.
LEMMA InBinFacts ==
  ASSUME NEW last \in Nat, NEW source \in SUBSET (0..last), NEW size \in Nat \ {0}, NEW start \in Int, 0 <= start + size
  PROVE  InBin(source, size, start) \in Int /\ InBin(source, size, start) < start + size
  <1> DEFINE S == {t \in source : Bin(size, t) = start}
  <1>1. \A t \in S : t \in Nat /\ t <= last
    OBVIOUS
  <1>2. InBin(source, size, start) = Latest(S)
    BY DEF InBin
  <1>3. \A t \in S : t < start + size
    BY <1>1, BinFacts
  <1> HIDE DEF S
  <1>4. (S = {} /\ Latest(S) = NoValue) \/ Latest(S) \in S
    <2>1. S \in SUBSET Nat
      BY <1>1
    <2> QED
      BY <1>1, <2>1, LatestFacts
  <1> QED
    BY <1>1, <1>2, <1>3, <1>4 DEF NoValue

\* The bin that is looked up for a bar is the bar's own or an older one.
LEMMA BinForFacts ==
  ASSUME NEW last \in Nat, NEW source \in SUBSET (0..last), source # {}, NEW size \in Nat \ {0}, NEW bar \in Nat
  PROVE  BinFor(source, size, bar) \in Nat /\ BinFor(source, size, bar) <= Bin(size, bar)
  <1> DEFINE S == {Bin(size, t) : t \in source}
  <1>0. \A t \in source : t \in Nat /\ t <= last
    OBVIOUS
  <1>1. S # {} /\ \A b \in S : b \in Nat /\ b <= last
    <2>1. \A t \in source : Bin(size, t) \in Nat /\ Bin(size, t) <= last
      <3> SUFFICES ASSUME NEW t \in source PROVE Bin(size, t) \in Nat /\ Bin(size, t) <= last
        OBVIOUS
      <3>1. t \in Nat /\ t \in Int /\ t <= last
        BY <1>0
      <3>2. Bin(size, t) \in Nat /\ Bin(size, t) <= t
        BY <3>1, BinIsTime, BinFacts
      <3> QED
        BY <3>1, <3>2
    <2> QED
      BY <2>1
  <1>2. Bin(size, bar) \in Nat
    BY BinIsTime
  <1> HIDE DEF S
  <1>3. Latest(S) \in Nat
    <2>1. S \in SUBSET Nat
      BY <1>1
    <2> QED
      BY <1>1, <2>1, LatestFacts
  <1> QED
    BY <1>2, <1>3 DEF BinFor, S

\* The nearest row is within a bar's length.
LEMMA ExactOrNearestFacts ==
  ASSUME NEW last \in Nat, NEW source \in SUBSET (0..last), NEW index \in SUBSET Nat, NEW bar \in Nat,
         NEW tf \in Nat
  PROVE  /\ ExactOrNearest(source, index, tf, bar) \in Int
         /\ ExactOrNearest(source, index, tf, bar) <= IF Matched(source, index) # {} THEN bar ELSE bar + tf
  <1> DEFINE S == Nearest(source, tf, bar)
             x == ExactOrNearest(source, index, tf, bar)
  <1>0. \A t \in source : t \in Nat /\ t <= last
    OBVIOUS
  <1>1. S \in SUBSET Nat /\ \A t \in S : t <= last /\ t <= bar + tf
    <2> SUFFICES ASSUME NEW t \in S PROVE t \in Nat /\ t <= last /\ t <= bar + tf
      OBVIOUS
    <2>1. t \in source /\ Distance(t, bar) <= tf
      BY DEF Nearest
    <2>2. t \in Nat /\ t <= last
      BY <1>0, <2>1
    <2> QED
      BY <2>1, <2>2 DEF Distance
  <1>2. x \in {bar, NoValue} \/ (Matched(source, index) = {} /\ x = Latest(S))
    BY DEF ExactOrNearest
  <1> HIDE DEF S, x
  <1>3. Latest(S) = NoValue \/ (Latest(S) \in S /\ Latest(S) \in Nat)
    BY <1>1, LatestFacts
  <1> QED
    BY <1>1, <1>2, <1>3 DEF NoValue, x

\* How late a forward-filled value may be: as the bar, else as the first bar that can have one.
FilledUpTo(source, index, bar) ==
  IF \E t \in source : t <= bar THEN bar ELSE Earliest({b \in index : \E t \in source : t <= b})

\* Funding and open interest: the last value up to the bar, else the first that any bar can have.
LEMMA AlignForwardFacts ==
  ASSUME NEW last \in Nat, NEW source \in SUBSET (0..last), NEW index \in SUBSET Nat, NEW bar \in Nat
  PROVE  AlignForward(source, index, bar) <= FilledUpTo(source, index, bar)
  <1> DEFINE known == {t \in source : t <= bar}
             filled == {b \in index : \E t \in source : t <= b}
             first == Earliest(filled)
             firsts == {t \in source : t <= first}
  <1>1. AlignForward(source, index, bar) =
          IF known # {} THEN Latest(known) ELSE IF filled = {} THEN NoValue ELSE Latest(firsts)
    BY DEF AlignForward
  <1>0. \A t \in source : t \in Nat /\ t <= last
    OBVIOUS
  <1>2. known \in SUBSET Nat /\ (\A t \in known : t <= bar) /\ (known # {} <=> \E t \in source : t <= bar)
    BY <1>0
  <1>3. firsts \in SUBSET Nat /\ (\A t \in firsts : t <= last /\ t <= first)
    <2> HIDE DEF first
    <2> QED
      BY <1>0
  <1>4. filled # {} => first \in filled /\ first \in Nat /\ firsts # {}
    <2>1. filled \in SUBSET Nat
      OBVIOUS
    <2>2. filled # {} => \E b \in filled : \A u \in filled : b <= u
      <3> HIDE DEF filled
      <3> QED
        BY <2>1, LeastElement
    <2>3. filled # {} => first \in filled
      <3> HIDE DEF filled
      <3> QED
        BY <2>2 DEF Earliest
    <2> QED
      BY <2>1, <2>3
  <1>5. filled = {} => first = NoValue
    BY DEF Earliest
  <1>9. FilledUpTo(source, index, bar) = IF known # {} THEN bar ELSE first
    <2>1. FilledUpTo(source, index, bar) = IF \E t \in source : t <= bar THEN bar ELSE first
      BY DEF FilledUpTo
    <2> HIDE DEF known, first
    <2> QED
      BY <1>2, <2>1
  <1> HIDE DEF known, firsts, filled, first
  <1>6. CASE known # {}
    <2>1. Latest(known) \in known
      BY <1>2, <1>6, LatestFacts
    <2> QED
      BY <1>1, <1>2, <1>6, <1>9, <2>1
  <1>7. CASE known = {} /\ filled = {}
    BY <1>1, <1>5, <1>7, <1>9 DEF NoValue
  <1>8. CASE known = {} /\ filled # {}
    <2>1. Latest(firsts) \in firsts
      BY <1>3, <1>4, <1>8, LatestFacts
    <2>2. Latest(firsts) <= first
      BY <1>3, <2>1
    <2> QED
      BY <1>1, <1>4, <1>8, <1>9, <2>2
  <1> QED
    BY <1>6, <1>7, <1>8

\* The other asset's close is of a bar up to this one.
LEMMA CrossCloseFacts ==
  ASSUME NEW last \in Nat, NEW source \in SUBSET (0..last), NEW index \in SUBSET Nat, NEW bar \in Nat,
         NEW tf \in Nat
  PROVE  CrossClose(source, index, tf, bar) <= IF Matched(source, index) # {} THEN bar ELSE bar + tf
  <1> DEFINE matched == {b \in index : b <= bar /\ ExactOrNearest(source, index, tf, b) # NoValue}
             m == Latest(matched)
  <1>1. matched \in SUBSET Nat /\ \A b \in matched : b <= bar
    OBVIOUS
  <1>2. CrossClose(source, index, tf, bar) = IF matched = {} THEN NoValue ELSE ExactOrNearest(source, index, tf, m)
    BY DEF CrossClose
  <1> HIDE DEF matched
  <1>3. CASE matched = {}
    BY <1>2, <1>3 DEF NoValue
  <1>4. CASE matched # {}
    <2>1. m \in Nat /\ m <= bar
      BY <1>1, <1>4, LatestFacts
    <2> HIDE DEF m
    <2>2. /\ ExactOrNearest(source, index, tf, m) \in Int
          /\ ExactOrNearest(source, index, tf, m) <= IF Matched(source, index) # {} THEN m ELSE m + tf
      BY <2>1, ExactOrNearestFacts
    <2> QED
      BY <1>2, <1>4, <2>1, <2>2
  <1> QED
    BY <1>3, <1>4

\* The sentiment is of a day that is over.
LEMMA FearGreedFacts ==
  ASSUME NEW last \in Nat, NEW source \in SUBSET (0..last), NEW bar \in Nat, NEW long \in Nat \ {0}
  PROVE  FearGreed(source, long, bar) \in Int /\ FearGreed(source, long, bar) < Bin(long, bar)
  <1>1. bar \in Int /\ Bin(long, bar) \in Nat
    BY BinIsTime
  <1>2. FearGreed(source, long, bar) \in Int /\ FearGreed(source, long, bar) < Bin(long, bar)
    <2>1. CASE source = {}
      BY <1>1, <2>1 DEF FearGreed, NoValue
    <2>2. CASE source # {}
      <3> DEFINE start == BinFor(source, long, bar) - long
      <3>1. start \in Int /\ 0 <= start + long /\ start + long <= Bin(long, bar)
        <4>1. BinFor(source, long, bar) \in Nat /\ BinFor(source, long, bar) <= Bin(long, bar)
          BY <1>1, <2>2, BinForFacts
        <4> QED
          BY <1>1, <4>1
      <3>2. FearGreed(source, long, bar) = InBin(source, long, start)
        BY <2>2 DEF FearGreed
      <3> HIDE DEF start
      <3>3. InBin(source, long, start) \in Int /\ InBin(source, long, start) < start + long
        BY <3>1, InBinFacts
      <3> QED
        BY <1>1, <3>1, <3>2, <3>3
    <2> QED
      BY <2>1, <2>2
  <1> QED
    BY <1>2

\* How far a bar sees, for every source, the times it has, the bars there are and their lengths: no
\* value is of a time beyond Reach; an observation lies before the bar's end, the newest one is not
\* of the future, a higher bar is over when the bar opens.  The future comes in by two ways only,
\* both in Reach: rows that match no bar and funding or open interest that begin after the bar
\* (data/sources.py:37, 51).
THEOREM SourcesReach ==
  ASSUME NEW last \in Nat, NEW source \in SUBSET (0..last), NEW index \in SUBSET (0..last), NEW bar \in index,
         NEW tf \in Nat \ {0}, NEW long \in Nat \ {0}, NEW answering, NEW now \in Nat, Bin(tf, bar) = bar
  PROVE  /\ \A name \in SourceNames :
              Attached(name, answering, source, index, tf, long, bar) <= Reach(name, source, index, tf, long, bar)
         /\ Recorded(source, tf, bar) < bar + tf
         /\ LatestObservation(source, now) <= now
         /\ \/ HigherTimeframe(index, long, bar) = NoValue
            \/ HigherTimeframe(index, long, bar) + long <= bar
  <1>0. (\A t \in source : t \in Nat) /\ (\A b \in index : b \in Nat) /\ index \in SUBSET Nat
    OBVIOUS
  <1>1. bar \in Nat /\ bar \in Int /\ Bin(long, bar) \in Nat /\ Bin(long, bar) <= bar
    <2>1. bar \in Nat /\ bar \in Int
      BY <1>0
    <2> QED
      BY <2>1, BinIsTime, BinFacts
  <1>2. ASSUME NEW name \in {"use_taker_flow", "use_breadth", "use_cross_asset"}
        PROVE  Attached(name, answering, source, index, tf, long, bar) <= Reach(name, source, index, tf, long, bar)
    <2> DEFINE reach == IF Matched(source, index) # {} THEN bar ELSE bar + tf
    <2>1. Reach(name, source, index, tf, long, bar) = reach
      BY DEF Reach
    <2>2. ExactOrNearest(source, index, tf, bar) <= reach
      BY <1>0, <1>1, ExactOrNearestFacts
    <2>3. CrossClose(source, index, tf, bar) <= reach
      BY <1>0, <1>1, CrossCloseFacts
    <2>4. Attached(name, answering, source, index, tf, long, bar) \in
            {NoValue, ExactOrNearest(source, index, tf, bar), CrossClose(source, index, tf, bar)}
      BY DEF Attached
    <2>5. NoValue <= reach
      BY <1>1 DEF NoValue
    <2> QED
      BY <2>1, <2>2, <2>3, <2>4, <2>5
  <1>3. ASSUME NEW name \in {"use_funding", "use_open_interest"}
        PROVE  Attached(name, answering, source, index, tf, long, bar) <= Reach(name, source, index, tf, long, bar)
    <2> DEFINE filled == {b \in index : \E t \in source : t <= b}
               reach == FilledUpTo(source, index, bar)
    <2>1. Reach(name, source, index, tf, long, bar) = reach
      BY DEF Reach, FilledUpTo
    <2>2. AlignForward(source, index, bar) <= reach
      <3>1. index \in SUBSET Nat /\ bar \in Nat
        BY <1>0, <1>1
      <3> QED
        BY <3>1, AlignForwardFacts
    <2>3. Attached(name, answering, source, index, tf, long, bar) \in {NoValue, AlignForward(source, index, bar)}
      BY DEF Attached
    <2>4. NoValue <= reach
      <3>1. filled \in SUBSET Nat
        BY <1>0
      <3>2. filled # {} => \E b \in filled : \A u \in filled : b <= u
        <4> HIDE DEF filled
        <4> QED
          BY <3>1, LeastElement
      <3>3. Earliest(filled) = NoValue \/ Earliest(filled) \in filled
        <4> HIDE DEF filled
        <4> QED
          BY <3>2 DEF Earliest
      <3>4. reach \in {bar, Earliest(filled)}
        BY DEF FilledUpTo
      <3> HIDE DEF filled, reach
      <3> QED
        BY <1>1, <3>1, <3>3, <3>4 DEF NoValue
    <2> HIDE DEF reach
    <2> QED
      BY <2>1, <2>2, <2>3, <2>4
  <1>4. Attached("use_coinbase_premium", answering, source, index, tf, long, bar)
          <= Reach("use_coinbase_premium", source, index, tf, long, bar)
    <2>1. Reach("use_coinbase_premium", source, index, tf, long, bar) = bar + tf - 1
      BY DEF Reach
    <2>2. Premium(source, tf, bar) \in Int /\ Premium(source, tf, bar) < bar + tf
      <3>1. 0 <= bar + tf
        BY <1>1
      <3> QED
        BY <1>1, <3>1, InBinFacts DEF Premium
    <2>3. Attached("use_coinbase_premium", answering, source, index, tf, long, bar) \in {NoValue, Premium(source, tf, bar)}
      BY DEF Attached
    <2> QED
      BY <1>1, <2>1, <2>2, <2>3 DEF NoValue
  <1>5. Attached("use_fear_greed", answering, source, index, tf, long, bar)
          <= Reach("use_fear_greed", source, index, tf, long, bar)
    <2>1. Reach("use_fear_greed", source, index, tf, long, bar) = Bin(long, bar) - 1
      BY DEF Reach
    <2>2. FearGreed(source, long, bar) \in Int /\ FearGreed(source, long, bar) < Bin(long, bar)
      BY <1>1, FearGreedFacts
    <2>3. Attached("use_fear_greed", answering, source, index, tf, long, bar) \in {NoValue, FearGreed(source, long, bar)}
      BY DEF Attached
    <2> QED
      BY <1>1, <2>1, <2>2, <2>3 DEF NoValue
  <1>6. Recorded(source, tf, bar) < bar + tf
    <2>1. CASE source = {}
      BY <1>1, <2>1 DEF Recorded, NoValue
    <2>2. CASE source # {}
      <3> DEFINE start == BinFor(source, tf, bar)
      <3>1. start \in Int /\ 0 <= start + tf /\ start <= bar
        <4>1. BinFor(source, tf, bar) \in Nat /\ BinFor(source, tf, bar) <= bar
          BY <1>1, <2>2, BinForFacts
        <4> QED
          BY <1>1, <4>1
      <3>2. Recorded(source, tf, bar) = InBin(source, tf, start)
        BY <2>2 DEF Recorded
      <3> HIDE DEF start
      <3>3. InBin(source, tf, start) \in Int /\ InBin(source, tf, start) < start + tf
        BY <3>1, InBinFacts
      <3> QED
        BY <1>1, <3>1, <3>2, <3>3
    <2> QED
      BY <2>1, <2>2
  <1>7. LatestObservation(source, now) <= now
    <2> DEFINE S == {t \in source : t <= now}
    <2>1. S \in SUBSET Nat /\ \A t \in S : t <= now
      BY <1>0
    <2>2. LatestObservation(source, now) = Latest(S)
      BY DEF LatestObservation
    <2> HIDE DEF S
    <2>3. Latest(S) = NoValue \/ Latest(S) \in S
      BY <2>1, LatestFacts
    <2>4. NoValue <= now
      BY DEF NoValue
    <2> QED
      BY <2>1, <2>2, <2>3, <2>4
  <1>8. HigherTimeframe(index, long, bar) = NoValue \/ HigherTimeframe(index, long, bar) + long <= bar
    <2> DEFINE over == {b \in HigherCloses(index, long) : b < Bin(long, bar)}
    <2>1. over \in SUBSET Nat /\ \A b \in over : b <= bar
      BY <1>0, <1>1, BinIsTime DEF HigherCloses
    <2>2. \A b \in over : b + long <= Bin(long, bar)
      BY <1>0, <1>1, BinsApart DEF HigherCloses
    <2>3. HigherTimeframe(index, long, bar) = NoValue \/ HigherTimeframe(index, long, bar) = Latest(over)
      BY DEF HigherTimeframe
    <2> HIDE DEF over
    <2>4. Latest(over) = NoValue \/ (Latest(over) \in over /\ Latest(over) \in Nat)
      BY <1>1, <2>1, LatestFacts
    <2> QED
      BY <1>1, <2>2, <2>3, <2>4
  <1> QED
    BY <1>2, <1>3, <1>4, <1>5, <1>6, <1>7, <1>8 DEF SourceNames

=============================================================================
