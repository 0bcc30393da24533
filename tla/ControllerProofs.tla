--------------------------- MODULE ControllerProofs ---------------------------
(***************************************************************************)
(* Proofs about Controller, for every number of symbols, calls, sessions,  *)
(* days and faults, and every setting of the breaker's limits.             *)
(***************************************************************************)
EXTENDS Controller, FoldProofs

-----------------------------------------------------------------------------
(* Sessions                                                                *)

Phases == {"none", "new", "run", "cancel", "ended"}

\* What holds of the lists and the tasks between any two steps: whatever may still act is listed,
\* what stop() has gone through acts no more, and a start() past its check has nothing that acts.
SessionInv ==
  /\ listed \in Nat /\ built \in Nat /\ joined \in Nat /\ phase \in [Engines -> Phases]
  /\ lock = "build" => listed = built
  /\ \A e \in Acting : e <= listed
  /\ lock = "start" => Acting = {}
  /\ lock = "stop" => joined <= listed /\ \A e \in Acting : joined < e

LEMMA EnginesAreNumbers == Engines \subseteq Nat \ {0}
  BY ControllerAssumption DEF Engines, ControllerAssumption

\* The actions that leave the lists and the lock alone and start no task.
LEMMA Frame ==
  ASSUME SessionInv, UNCHANGED <<lock, joined, built, listed>>, phase' \in [Engines -> Phases],
         Acting' \subseteq Acting
  PROVE  SessionInv'
  BY DEF SessionInv

\* ... such as those that end a task, or cancel it.
LEMMA FrameOne ==
  ASSUME SessionInv, UNCHANGED <<lock, joined, built, listed>>, NEW e \in Engines,
         NEW p \in {"cancel", "ended"}, phase' = [phase EXCEPT ![e] = p]
  PROVE  SessionInv'
  <1>1. phase' \in [Engines -> Phases] /\ Acting' \subseteq Acting
    BY DEF SessionInv, Phases, Acting
  <1> QED
    BY <1>1, Frame

LEMMA SessionInit == Init => SessionInv
  BY DEF Init, SessionInv, Acting, Phases

LEMMA SessionNext == SessionInv /\ [Next]_vars => SessionInv'
  <1> SUFFICES ASSUME SessionInv, [Next]_vars PROVE SessionInv'
    OBVIOUS
  <1>a. /\ phase \in [Engines -> Phases] /\ listed \in Nat /\ built \in Nat /\ joined \in Nat
        /\ \A e \in Acting : e \in Engines /\ e \in Nat \ {0} /\ e <= listed
    BY EnginesAreNumbers DEF SessionInv, Acting
  <1>1. CASE StartBegin
    <2>1. Acting = {}
      <3>1. listed = 0 \/ Live = {}
        BY <1>1 DEF StartBegin, CanStart, IsRunning
      <3>2. listed = 0 => Acting = {}
        BY <1>a
      <3>3. Acting \subseteq Live
        BY DEF Acting, Live
      <3> QED
        BY <3>1, <3>2, <3>3
    <2> QED
      BY <1>1, <1>a, <2>1 DEF StartBegin, SessionInv, Acting
  <1>2. CASE StartReset
    BY <1>2, <1>a DEF StartReset, SessionInv, Acting, Phases
  <1>3. CASE StartOne
    <2>1. lock = "build" /\ listed = built /\ listed' = listed + 1 /\ built' = built + 1
          /\ lock' \in {"free", "build"} /\ joined' = joined /\ phase' = [phase EXCEPT ![built + 1] = "new"]
      BY <1>3 DEF StartOne, SessionInv
    <2>2. phase' \in [Engines -> Phases]
      BY <1>a, <2>1 DEF Phases
    <2>3. \A e \in Acting' : e \in Acting \/ e = built + 1
      BY <1>a, <2>1 DEF Acting
    <2>4. \A e \in Acting' : e <= listed'
      BY <1>a, <2>1, <2>3
    <2> QED
      BY <1>a, <2>1, <2>2, <2>4 DEF SessionInv
  <1>4. CASE StartFails
    BY <1>4, <1>a DEF StartFails, SessionInv, Acting
  <1>5. CASE StopBegin
    <2>1. lock' = "stop" /\ joined' = 0 /\ UNCHANGED <<listed, built, phase>>
      BY <1>5 DEF StopBegin
    <2>2. Acting' = Acting
      BY <2>1 DEF Acting
    <2>3. \A e \in Acting' : joined' < e /\ e <= listed'
      BY <1>a, <2>1, <2>2
    <2> QED
      BY <1>a, <2>1, <2>3 DEF SessionInv
  <1>6. CASE StopNext
    <2>1. /\ lock = "stop" /\ joined < listed /\ phase[joined + 1] = "ended" /\ joined' = joined + 1
          /\ UNCHANGED <<lock, listed, built, phase>>
      BY <1>6 DEF StopNext
    <2>2. joined + 1 \notin Acting
      BY <2>1 DEF Acting
    <2>3. Acting' = Acting
      BY <2>1 DEF Acting
    <2>4. \A e \in Acting' : joined' < e
      BY <1>a, <2>1, <2>2, <2>3 DEF SessionInv
    <2> QED
      BY <1>a, <2>1, <2>3, <2>4 DEF SessionInv
  <1>7. ASSUME NEW d \in Engines, StopTimesOut(d) PROVE SessionInv'
    <2>1. /\ lock = "stop" /\ d = joined + 1 /\ d <= listed /\ joined' = d
          /\ phase' = [phase EXCEPT ![d] = "cancel"] /\ UNCHANGED <<lock, listed, built>>
      BY <1>7 DEF StopTimesOut, TimesOut, Cancelled
    <2>2. phase' \in [Engines -> Phases] /\ Acting' = Acting \ {d}
      BY <1>a, <2>1 DEF Phases, Acting
    <2>3. \A e \in Acting' : joined' < e /\ e <= listed'
      BY <1>a, <2>1, <2>2 DEF SessionInv
    <2> QED
      BY <1>a, <2>1, <2>2, <2>3 DEF SessionInv
  <1>8. CASE StopDone
    <2>1. /\ lock = "stop" /\ joined = listed /\ lock' = "free" /\ listed' = 0
          /\ UNCHANGED <<joined, built, phase>>
      BY <1>8 DEF StopDone
    <2>2. Acting = {}
      BY <1>a, <2>1 DEF SessionInv
    <2>3. Acting' = {}
      BY <2>1, <2>2 DEF Acting
    <2> QED
      BY <1>a, <2>1, <2>3 DEF SessionInv
  <1>9. ASSUME NEW e \in Engines, EngineAction(e) PROVE SessionInv'
    <2>1. CASE EngineInit(e)
      <3>1. /\ phase[e] = "new" /\ phase' = [phase EXCEPT ![e] = "run"]
            /\ UNCHANGED <<lock, joined, built, listed>>
        BY <2>1 DEF EngineInit
      <3>2. phase' \in [Engines -> Phases] /\ Acting' \subseteq Acting
        BY <1>a, <3>1 DEF Phases, Acting
      <3> QED
        BY <3>1, <3>2, Frame
    <2>2. CASE EngineEnds(e) \/ CancelLands(e)
      <3>1. phase' = [phase EXCEPT ![e] = "ended"] /\ UNCHANGED <<lock, joined, built, listed>>
        BY <2>2 DEF EngineEnds, CancelLands
      <3> QED
        BY <3>1, FrameOne
    <2>3. CASE EngineStep(e) \/ EngineEnters(e) \/ EntryReply(e)
      <3>1. UNCHANGED sessionVars
        BY <2>3 DEF EngineStep, EngineEnters, EntryReply
      <3> QED
        BY <3>1, <1>a, Frame DEF sessionVars, Acting
    <2> QED
      BY <1>9, <1>7, <2>1, <2>2, <2>3 DEF EngineAction
  <1>10. ASSUME Resume \/ Midnight \/ UNCHANGED vars \/ \E f \in Calls : CallAction(f)
         PROVE  SessionInv'
    <2>1. UNCHANGED sessionVars
      BY <1>10 DEF Resume, Midnight, vars, CallAction, FlattenAll, ExitReply, OldExitReply
    <2> QED
      BY <2>1, <1>a, Frame DEF sessionVars, Acting
  <1> QED
    BY <1>1, <1>2, <1>3, <1>4, <1>5, <1>6, <1>7, <1>8, <1>9, <1>10 DEF Next

\* stop() loses no task that goes on: whatever ends by itself, is cancelled and not waited for, or
\* is left behind by a start() that failed half-way, a task that is not listed does nothing more.
THEOREM StopForgetsNothing == Spec => []NothingUntracked
  <1>1. SessionInv => NothingUntracked
    <2> SUFFICES ASSUME SessionInv, listed = 0 PROVE Acting = {}
      BY DEF NothingUntracked
    <2>1. \A e \in Acting : e \in Nat \ {0} /\ e <= 0
      BY EnginesAreNumbers DEF SessionInv, Acting
    <2> QED
      BY <2>1
  <1> QED
    BY <1>1, SessionInit, SessionNext, PTL DEF Spec

\* A start() never replaces engines that still trade, also while a task that an earlier stop()
\* cancelled has not ended.
THEOREM StartIsExclusive == Spec => OneSession
  <1>1. SessionInv /\ [Next]_vars => [session' # session => Acting = {}]_vars
    <2> SUFFICES ASSUME SessionInv, Next, session' # session PROVE Acting = {}
      BY DEF vars, sessionVars
    <2>1. CASE StartReset
      BY <2>1 DEF StartReset, SessionInv
    <2>2. ASSUME StartBegin \/ StartOne \/ StartFails \/ StopBegin \/ StopNext \/ StopDone PROVE FALSE
      BY <2>2 DEF StartBegin, StartOne, StartFails, StopBegin, StopNext, StopDone
    <2>3. ASSUME NEW e \in Engines, EngineAction(e) PROVE FALSE
      BY <2>3 DEF EngineAction, EngineInit, EngineStep, EngineEnters, EntryReply, EngineEnds,
                  StopTimesOut, CancelLands, sessionVars
    <2>4. ASSUME NEW f \in Calls, CallAction(f) PROVE FALSE
      BY <2>4 DEF CallAction, FlattenAll, ExitReply, OldExitReply, sessionVars
    <2>5. ASSUME Resume \/ Midnight PROVE FALSE
      BY <2>5 DEF Resume, Midnight, sessionVars
    <2> QED
      BY <2>1, <2>2, <2>3, <2>4, <2>5 DEF Next
  <1> QED
    BY <1>1, SessionInit, SessionNext, PTL DEF Spec, OneSession

-----------------------------------------------------------------------------
(* The account                                                             *)

\* The order in which an account is added up.
AnyOf(S) == [s \in SUBSET S |-> CHOOSE x \in s : TRUE]

\* The total of the equities is a sum.
LEMMA TotalIsSum ==
  ASSUME NEW eq, built \in 0..N
  PROVE  /\ IsFiniteSet(1..built) /\ 1..built \subseteq Engines /\ Picks(AnyOf(1..built), 1..built)
         /\ IsSums(SumsOf(1..built, AnyOf(1..built), eq), 1..built, AnyOf(1..built), eq)
         /\ TotalOf(eq) = SumsOf(1..built, AnyOf(1..built), eq)[1..built]
  <1> DEFINE S == 1..built
  <1>1. IsFiniteSet(S) /\ S \subseteq Engines
    BY ControllerAssumption, FS_Interval DEF Engines, ControllerAssumption
  <1>2. Picks(AnyOf(S), S)
    BY DEF Picks, AnyOf
  <1>3. TotalOf(eq) = SumsOf(S, AnyOf(S), eq)[S]
    BY DEF TotalOf, FoldFunctionOnSet, MapThenFoldSet, SumsOf, IsSums, AnyOf
  <1>4. IsSums(SumsOf(S, AnyOf(S), eq), S, AnyOf(S), eq)
    BY <1>1, <1>2, SumsExist
  <1> QED
    BY <1>1, <1>2, <1>3, <1>4

\* What the engines have together is a number.
LEMMA TotalType ==
  ASSUME NEW eq, \A e \in Engines : eq[e] \in Int, built \in 0..N
  PROVE  TotalOf(eq) \in Int
  <1> DEFINE S == 1..built
             g == SumsOf(S, AnyOf(S), eq)
  <1>1. /\ IsFiniteSet(S) /\ S \subseteq Engines /\ Picks(AnyOf(S), S)
        /\ IsSums(g, S, AnyOf(S), eq) /\ TotalOf(eq) = g[S]
    BY TotalIsSum
  <1> HIDE DEF S, g
  <1> QED
    BY <1>1, SumType

\* With one engine built it is that engine's equity.
LEMMA TotalOfOne ==
  ASSUME NEW eq, built = 1, eq[1] \in Int
  PROVE  TotalOf(eq) = eq[1]
  <1> DEFINE S == 1..built
             g == SumsOf(S, AnyOf(S), eq)
             pick == AnyOf(S)
  <1>1. IsSums(g, S, pick, eq) /\ TotalOf(eq) = g[S] /\ Picks(pick, S)
    <2>1. built \in 0..N
      BY ControllerAssumption DEF ControllerAssumption
    <2> QED
      BY <2>1, TotalIsSum
  <1>2. S = {1}
    OBVIOUS
  <1> HIDE DEF S, g, pick
  <1>3. pick[S] = 1 /\ S \ {1} = {} /\ S # {} /\ S \in SUBSET S /\ {} \in SUBSET S
    BY <1>1, <1>2 DEF Picks
  <1>4. g[{}] = 0 /\ g[S] = eq[1] + g[{}]
    BY <1>1, <1>3 DEF IsSums
  <1> QED
    BY <1>1, <1>4

\* ... and with none it is nothing.
LEMMA TotalOfNone ==
  ASSUME NEW eq, built = 0
  PROVE  TotalOf(eq) = 0
  <1> DEFINE S == 1..built
             g == SumsOf(S, AnyOf(S), eq)
             pick == AnyOf(S)
  <1>1. IsSums(g, S, pick, eq) /\ TotalOf(eq) = g[S]
    <2>1. built \in 0..N
      BY ControllerAssumption DEF ControllerAssumption
    <2> QED
      BY <2>1, TotalIsSum
  <1>2. S = {}
    OBVIOUS
  <1> HIDE DEF S, g, pick
  <1> QED
    BY <1>1, <1>2, SumLast

-----------------------------------------------------------------------------
(* Types                                                                   *)

\* A call that waits for an exit knows the engine.
CallRecords == [at : {"idle", "scheduled", "exit"}, engine : 0..N, session : Nat, resumed : BOOLEAN]
KnowsEngine(c) ==
  c \in [Calls -> CallRecords] /\ \A f \in Calls : c[f].at = "exit" => c[f].engine \in Engines

ControllerTypes == TypeOK /\ (lock = "build" => listed = built) /\ KnowsEngine(call)

\* What an engine's step does to the breaker: a check, or nothing.
LEMMA EngineUpdates ==
  ASSUME NEW e \in Engines, EngineAction(e)
  PROVE  \/ UNCHANGED <<riskVars, today, call>>
         \/ \E eq \in {equity, equity'} : OnEngineUpdate(eq, call) /\ UNCHANGED <<halted, today>>
  <1>1. EngineInit(e) \/ EngineEnters(e) \/ StopTimesOut(e) => UNCHANGED <<riskVars, today, call>>
    BY DEF EngineInit, EngineEnters, StopTimesOut
  <1>2. EngineStep(e) => OnEngineUpdate(equity', call) /\ UNCHANGED <<halted, today>>
    BY DEF EngineStep
  <1>3. EntryReply(e) \/ EngineEnds(e) \/ CancelLands(e)
          => OnEngineUpdate(equity, call) /\ UNCHANGED <<halted, today>>
    BY DEF EntryReply, EngineEnds, CancelLands
  <1> QED
    BY <1>1, <1>2, <1>3 DEF EngineAction

\* A check of the breaker keeps its types, and creates at most one task.
LEMMA UpdateTypes ==
  ASSUME RiskTypes, built \in 0..N, NEW eq, \A e \in Engines : eq[e] \in Int, NEW c, KnowsEngine(c),
         OnEngineUpdate(eq, c)
  PROVE  /\ breakerActive' \in BOOLEAN /\ peak' \in Int /\ dayStart' \in Int /\ day' \in Nat
         /\ KnowsEngine(call')
  <1> DEFINE total == TotalOf(eq)
             b == Baselines(total)
             trip == Breach(b.start, total, MaxDailyLoss) \/ Breach(b.peak, total, MaxDrawdown)
  <1>1. total \in Int
    BY TotalType
  <1>2. b.start \in Int /\ b.peak \in Int
    <2> HIDE DEF total
    <2> QED
      BY <1>1 DEF Baselines, NewDay, RiskTypes
  <1>3. trip \in BOOLEAN
    BY DEF Breach
  <1>4. ASSUME NEW f \in Calls PROVE KnowsEngine(TripCall(c, f))
    <2> DEFINE s == [NoCall EXCEPT !.at = "scheduled"]
    <2>b. 0 \in 0..N /\ 0 \in Nat
      BY ControllerAssumption DEF ControllerAssumption
    <2>a. NoCall \in CallRecords
      BY <2>b DEF NoCall, CallRecords
    <2>1. s \in CallRecords /\ s.at = "scheduled"
      BY <2>a DEF CallRecords
    <2>2. TripCall(c, f) = [c EXCEPT ![f] = s]
      BY DEF TripCall
    <2> HIDE DEF s
    <2> QED
      BY <2>1, <2>2 DEF KnowsEngine
  <1>5. \/ peak' = b.peak /\ dayStart' = b.start /\ day' = today /\ breakerActive' = trip
           /\ (call' = c \/ \E f \in Calls : call' = TripCall(c, f))
        \/ UNCHANGED <<peak, dayStart, day, breakerActive>> /\ call' = c
    <2> HIDE DEF b
    <2> QED
      BY DEF OnEngineUpdate, b
  <1> HIDE DEF b, trip, total
  <1>6. KnowsEngine(call')
    BY <1>4, <1>5
  <1> QED
    BY <1>2, <1>3, <1>5, <1>6 DEF RiskTypes

LEMMA SessionTypesStep ==
  ASSUME SessionTypes, lock = "build" => listed = built, [Next]_vars
  PROVE  SessionTypes' /\ (lock' = "build" => listed' = built')
  <1>a. N \in Nat \ {0} /\ built \in 0..N /\ Engines = 1..N
    BY ControllerAssumption DEF SessionTypes, ControllerAssumption, Engines
  <1>1. CASE StartReset
    BY <1>1, <1>a DEF StartReset, SessionTypes
  <1>2. CASE StartOne
    <2>1. lock = "build" /\ built < N /\ listed = built /\ built' = built + 1 /\ listed' = listed + 1
      BY <1>2 DEF StartOne, SessionTypes
    <2>2. built' \in 0..N /\ listed' = built'
      BY <1>a, <2>1
    <2>3. lock' \in {"free", "build"} /\ (lock' = "build" => built' < N)
      BY <1>2, <1>a, <2>1 DEF StartOne, LastOne
    <2>4. phase' = [phase EXCEPT ![built + 1] = "new"] /\ session' = session
      BY <1>2 DEF StartOne
    <2>5. phase' \in [Engines -> {"none", "new", "run", "cancel", "ended"}]
          /\ \A e \in Engines : phase'[e] = "none" <=> e > built'
      <3>1. \A e \in Engines : phase'[e] = IF e = built + 1 THEN "new" ELSE phase[e]
        BY <2>4 DEF SessionTypes
      <3>2. \A e \in Engines : e > built' <=> e > built /\ e # built + 1
        BY <1>a, <2>1
      <3> QED
        BY <2>4, <3>1, <3>2 DEF SessionTypes
    <2>6. joined' = joined
      BY <1>2 DEF StartOne
    <2> QED
      BY <2>2, <2>3, <2>4, <2>5, <2>6 DEF SessionTypes
  <1>3. CASE StartBegin \/ StartFails \/ StopBegin \/ StopNext \/ StopDone
    <2>1. /\ UNCHANGED <<session, built, phase>> /\ listed' \in {0, listed}
          /\ lock' \in {"free", "start", "stop"}
      BY <1>3 DEF StartBegin, StartFails, StopBegin, StopNext, StopDone
    <2>2. joined' \in {0, joined} \/ (joined < listed /\ joined' = joined + 1)
      BY <1>3 DEF StartBegin, StartFails, StopBegin, StopNext, StopDone
    <2>3. joined \in 0..N /\ listed \in 0..N
      BY <1>a DEF SessionTypes
    <2>4. joined' \in 0..N
      BY <1>a, <2>2, <2>3
    <2> QED
      BY <2>1, <2>4 DEF SessionTypes
  <1>4. ASSUME NEW e \in Engines, EngineAction(e)
        PROVE  SessionTypes' /\ (lock' = "build" => listed' = built')
    <2>1. CASE EngineInit(e) \/ EngineEnds(e) \/ CancelLands(e) \/ StopTimesOut(e)
      <3>1. /\ phase[e] \in {"new", "run", "cancel"} /\ UNCHANGED <<lock, session, built, listed>>
            /\ \E p \in {"run", "cancel", "ended"} : phase' = [phase EXCEPT ![e] = p]
            /\ joined' \in {joined, e}
        BY <2>1 DEF EngineInit, EngineEnds, CancelLands, StopTimesOut, TimesOut, Cancelled
      <3>2. joined' \in 0..N
        BY <1>a, <3>1 DEF SessionTypes
      <3> QED
        BY <3>1, <3>2 DEF SessionTypes
    <2>2. CASE EngineStep(e) \/ EngineEnters(e) \/ EntryReply(e)
      BY <2>2 DEF EngineStep, EngineEnters, EntryReply, sessionVars, SessionTypes
    <2> QED
      BY <1>4, <2>1, <2>2 DEF EngineAction
  <1>5. CASE UNCHANGED sessionVars
    BY <1>5 DEF sessionVars, SessionTypes
  <1>6. ASSUME Resume \/ Midnight \/ UNCHANGED vars \/ \E f \in Calls : CallAction(f)
        PROVE  UNCHANGED sessionVars
    BY <1>6 DEF Resume, Midnight, vars, CallAction, FlattenAll, ExitReply, OldExitReply
  <1> QED
    BY <1>1, <1>2, <1>3, <1>4, <1>5, <1>6 DEF Next

\* Sweeping on: the calls, the halts and the engines swept keep their types.
LEMMA SweepTypes ==
  ASSUME NEW f \in Calls, NEW from \in Nat \ {0}, NEW len \in 0..N, NEW o,
         KnowsEngine(call), session \in Nat, {swept, missed, overtaken} \subseteq SUBSET Engines,
         NEW s, s = SweepFrom(f, from, len, o)
  PROVE  /\ KnowsEngine(s.call) /\ s.halted \in [Engines -> BOOLEAN]
         /\ s.swept \subseteq Engines /\ s.missed \subseteq Engines /\ s.overtaken \subseteq Engines
  <1> DEFINE waits == ToClose(from, len, o)
             stops == IF waits = {} THEN len ELSE Min(waits)
             there == [call[f] EXCEPT !.at = "exit", !.engine = stops, !.session = session]
             next == IF waits = {} THEN NoCall ELSE there
  <1>1. waits \subseteq from..len
    BY DEF ToClose
  <1>2. waits # {} => stops \in waits
    <2> SUFFICES ASSUME waits # {} PROVE Min(waits) \in waits
      OBVIOUS
    <2>1. waits \in SUBSET Nat
      BY <1>1
    <2> HIDE DEF waits
    <2>2. \E m \in waits : \A x \in waits : m <= x
      BY <2>1, LeastElement
    <2> QED
      BY <2>2 DEF Min
  <1>3. N \in Nat /\ Engines = 1..N
    BY ControllerAssumption DEF Engines, ControllerAssumption
  <1>4. stops \in 0..N /\ (waits # {} => stops \in Engines)
    <2>1. CASE waits = {}
      <3>1. stops = len
        BY <2>1
      <3> HIDE DEF waits, stops
      <3> QED
        BY <1>3, <2>1, <3>1
    <2>2. CASE waits # {}
      <3> HIDE DEF waits, stops
      <3>1. stops \in from..len
        BY <1>1, <1>2, <2>2
      <3>2. stops \in Int /\ from <= stops /\ stops <= len
        BY <3>1
      <3> QED
        BY <1>3, <3>2
    <2> QED
      BY <2>1, <2>2
  <1>5. call[f] \in CallRecords
    BY DEF KnowsEngine
  <1>6. next \in CallRecords /\ (next.at = "exit" => next.engine \in Engines)
    <2> HIDE DEF waits, stops
    <2>1. there \in CallRecords /\ there.engine = stops
      BY <1>4, <1>5 DEF CallRecords
    <2>2. NoCall \in CallRecords /\ NoCall.at = "idle"
      BY <1>3 DEF CallRecords, NoCall
    <2> HIDE DEF there
    <2> QED
      BY <1>4, <2>1, <2>2
  <1>7. /\ SweepFrom(f, from, len, o).call = [call EXCEPT ![f] = next]
        /\ SweepFrom(f, from, len, o).halted = [e \in Engines |-> engineHalted[e] \/ e \in from..stops]
        /\ SweepFrom(f, from, len, o).swept = swept \cup (from..stops)
        /\ SweepFrom(f, from, len, o).missed = (missed \ (from..stops)) \cup ((from..stops) \cap entering)
        /\ SweepFrom(f, from, len, o).overtaken \in {overtaken, overtaken \cup (from..stops)}
    BY DEF SweepFrom, Reached
  <1> HIDE DEF waits, stops, there, next
  <1>8. KnowsEngine([call EXCEPT ![f] = next])
    BY <1>6 DEF KnowsEngine
  <1>9. from..stops \subseteq Engines
    BY <1>3, <1>4
  <1>10. [e \in Engines |-> engineHalted[e] \/ e \in from..stops] \in [Engines -> BOOLEAN]
    OBVIOUS
  <1> QED
    BY <1>7, <1>8, <1>9, <1>10

LEMMA EngineTypesStep ==
  ASSUME ControllerTypes, [Next]_vars
  PROVE  EngineTypes' /\ HistoryTypes'
  <1>a. /\ EngineTypes /\ HistoryTypes /\ SessionTypes /\ KnowsEngine(call) /\ session \in Nat
        /\ N \in Nat \ {0} /\ Engines = 1..N /\ Each \in 0..MaxEquity /\ MaxEquity \in Nat /\ Each \in Nat
        /\ built \in 0..N /\ listed \in 0..N
    BY ControllerAssumption DEF ControllerTypes, TypeOK, SessionTypes, Engines, ControllerAssumption
  <1>b. /\ engineHalted \in [Engines -> BOOLEAN] /\ open \in [Engines -> BOOLEAN]
        /\ equity \in [Engines -> 0..MaxEquity] /\ faults \in 0..MaxFaults /\ account \in Int /\ high \in Int
        /\ entering \subseteq Engines
        /\ swept \subseteq Engines /\ missed \subseteq Engines /\ overtaken \subseteq Engines
        /\ killed \in BOOLEAN
    BY <1>a DEF EngineTypes, HistoryTypes
  \* A publication of one engine.
  <1>c. ASSUME NEW e \in Engines, NEW eq \in Moves(e), Record(e, eq)
        PROVE  eq \in [Engines -> 0..MaxEquity] /\ account' \in Int /\ high' \in Int
    <2>1. PICK q \in 1..MaxEquity : eq = [equity EXCEPT ![e] = q]
      BY DEF Moves
    <2>2. eq \in [Engines -> 0..MaxEquity] /\ eq[e] \in Int /\ equity[e] \in Int
      BY <1>a, <1>b, <2>1
    <2>3. account' = account + eq[e] - equity[e] /\ high' = IF account' > high THEN account' ELSE high
      BY <1>c DEF Record
    <2>4. account' \in Int
      BY <1>b, <2>2, <2>3
    <2> QED
      BY <1>b, <2>2, <2>3, <2>4
  <1>1. CASE StartReset
    <2>1. /\ engineHalted' \in [Engines -> BOOLEAN] /\ open' \in [Engines -> BOOLEAN]
          /\ equity' \in [Engines -> 0..MaxEquity]
      BY <1>1, <1>a DEF StartReset
    <2>2. /\ account' \in Int /\ high' \in Int /\ entering' = {} /\ swept' = {} /\ missed' = {}
          /\ overtaken' = {} /\ faults' = faults /\ killed' = killed
      BY <1>1, <1>a DEF StartReset
    <2> QED
      BY <1>b, <2>1, <2>2 DEF EngineTypes, HistoryTypes
  <1>2. CASE \/ StartBegin \/ StartOne \/ StartFails \/ StopBegin \/ StopNext \/ StopDone
             \/ Midnight \/ UNCHANGED vars
    <2>1. /\ UNCHANGED <<engineHalted, entering, open, equity, account, high, swept, missed, overtaken>>
          /\ killed' \in BOOLEAN
          /\ (faults' = faults \/ (faults < MaxFaults /\ faults' = faults + 1))
      BY <1>2, <1>b DEF StartBegin, StartOne, StartFails, StopBegin, StopNext, StopDone, Midnight, vars, historyVars
    <2>2. faults' \in 0..MaxFaults
      BY <1>b, <2>1, ControllerAssumption DEF ControllerAssumption
    <2> QED
      BY <1>b, <2>1, <2>2 DEF EngineTypes, HistoryTypes
  <1>3. ASSUME NEW e \in Engines, EngineAction(e) PROVE EngineTypes' /\ HistoryTypes'
    <2>1. CASE EngineInit(e) \/ EngineEnters(e) \/ EngineEnds(e) \/ StopTimesOut(e) \/ CancelLands(e)
      <3>1. /\ UNCHANGED <<engineHalted, open, faults, historyVars>> /\ equity' \in [Engines -> 0..MaxEquity]
            /\ entering' \subseteq Engines
        BY <2>1, <1>a, <1>b DEF EngineInit, EngineEnters, EngineEnds, StopTimesOut, CancelLands
      <3> QED
        BY <1>b, <3>1 DEF EngineTypes, HistoryTypes, historyVars
    <2>2. CASE EngineStep(e)
      <3>1. PICK eq \in Moves(e), o \in {FALSE, open[e]} :
              equity' = eq /\ open' = [open EXCEPT ![e] = o] /\ Record(e, eq)
        BY <2>2 DEF EngineStep
      <3>2. UNCHANGED <<engineHalted, entering, faults, swept, missed, overtaken, killed>>
        BY <2>2 DEF EngineStep
      <3>3. equity' \in [Engines -> 0..MaxEquity] /\ account' \in Int /\ high' \in Int
        BY <1>c, <3>1
      <3>4. open' \in [Engines -> BOOLEAN]
        BY <1>b, <3>1
      <3> QED
        BY <1>b, <3>2, <3>3, <3>4 DEF EngineTypes, HistoryTypes
    <2>3. CASE EntryReply(e)
      <3>1. /\ UNCHANGED <<engineHalted, equity, faults, historyVars>> /\ entering' \subseteq Engines
            /\ \E o \in BOOLEAN : open' = [open EXCEPT ![e] = o]
        BY <2>3, <1>b DEF EntryReply
      <3>2. open' \in [Engines -> BOOLEAN]
        BY <1>b, <3>1
      <3> QED
        BY <1>b, <3>1, <3>2 DEF EngineTypes, HistoryTypes, historyVars
    <2> QED
      BY <1>3, <2>1, <2>2, <2>3 DEF EngineAction
  <1>4. ASSUME NEW f \in Calls, CallAction(f) PROVE EngineTypes' /\ HistoryTypes'
    <2>1. CASE FlattenAll(f)
      <3>1. /\ engineHalted' = SweepFrom(f, 1, listed, open).halted
            /\ swept' = SweepFrom(f, 1, listed, open).swept
            /\ missed' = SweepFrom(f, 1, listed, open).missed
            /\ overtaken' = SweepFrom(f, 1, listed, open).overtaken
            /\ UNCHANGED <<entering, open, equity, faults, account, high>> /\ killed' = TRUE
        BY <2>1 DEF FlattenAll
      <3> DEFINE s == SweepFrom(f, 1, listed, open)
      <3>3. /\ s.halted \in [Engines -> BOOLEAN]
            /\ s.swept \subseteq Engines /\ s.missed \subseteq Engines /\ s.overtaken \subseteq Engines
        <4>1. 1 \in Nat \ {0}
          OBVIOUS
        <4>2. {swept, missed, overtaken} \subseteq SUBSET Engines
          BY <1>b
        <4> HIDE DEF s
        <4>3. s = SweepFrom(f, 1, listed, open)
          BY DEF s
        <4> QED
          BY <1>a, <4>1, <4>2, <4>3, SweepTypes
      <3>2. /\ engineHalted' \in [Engines -> BOOLEAN]
            /\ swept' \subseteq Engines /\ missed' \subseteq Engines /\ overtaken' \subseteq Engines
        BY <3>1, <3>3
      <3> QED
        BY <1>b, <3>1, <3>2 DEF EngineTypes, HistoryTypes
    <2>2. CASE ExitReply(f)
      <3> DEFINE e == call[f].engine
                 s(o) == SweepFrom(f, e + 1, built, [open EXCEPT ![e] = o])
      <3>1. PICK eq \in Moves(e), o \in {FALSE, open[e]} :
              /\ equity' = eq /\ open' = [open EXCEPT ![e] = o]
              /\ (faults' = faults \/ (faults < MaxFaults /\ faults' = faults + 1))
              /\ engineHalted' = s(o).halted /\ swept' = s(o).swept /\ overtaken' = s(o).overtaken
              /\ missed' = s(o).missed \cup (IF o THEN {e} ELSE {})
              /\ Record(e, eq)
        BY <2>2 DEF ExitReply
      <3>2. e \in Engines /\ killed' = killed /\ entering' = entering
        BY <1>a, <2>2 DEF ExitReply, KnowsEngine
      <3> HIDE DEF e
      <3>3. equity' \in [Engines -> 0..MaxEquity] /\ account' \in Int /\ high' \in Int
        BY <1>c, <3>1, <3>2
      <3>4. /\ s(o).halted \in [Engines -> BOOLEAN]
            /\ s(o).swept \subseteq Engines /\ s(o).missed \subseteq Engines /\ s(o).overtaken \subseteq Engines
        <4>1. e + 1 \in Nat \ {0}
          BY <1>a, <3>2
        <4>2. {swept, missed, overtaken} \subseteq SUBSET Engines
          BY <1>b
        <4> HIDE DEF s
        <4>3. s(o) = SweepFrom(f, e + 1, built, [open EXCEPT ![e] = o])
          BY DEF s
        <4> QED
          BY <1>a, <4>1, <4>2, <4>3, SweepTypes
      <3>5. open' \in [Engines -> BOOLEAN] /\ faults' \in 0..MaxFaults
        <4>1. o \in BOOLEAN
          BY <1>b, <3>2
        <4>2. faults' \in 0..MaxFaults
          BY <1>b, <3>1, ControllerAssumption DEF ControllerAssumption
        <4> QED
          BY <1>b, <3>1, <4>1, <4>2
      <3> HIDE DEF s
      <3>6. /\ engineHalted' \in [Engines -> BOOLEAN]
            /\ swept' \subseteq Engines /\ missed' \subseteq Engines /\ overtaken' \subseteq Engines
        BY <3>1, <3>2, <3>4
      <3> QED
        BY <1>b, <3>2, <3>3, <3>5, <3>6 DEF EngineTypes, HistoryTypes
    <2>3. CASE OldExitReply(f)
      BY <1>b, <2>3 DEF OldExitReply, EngineTypes, HistoryTypes, historyVars
    <2> QED
      BY <1>4, <2>1, <2>2, <2>3 DEF CallAction
  <1>5. CASE Resume
    <2>1. /\ engineHalted' = [e \in Engines |-> engineHalted[e] /\ e \notin Released]
          /\ high' = account /\ swept' = swept \ Released /\ overtaken' = overtaken \ Released
          /\ killed' = FALSE
          /\ UNCHANGED <<entering, open, equity, faults, account, missed>>
      BY <1>5 DEF Resume
    <2>2. engineHalted' \in [Engines -> BOOLEAN]
      BY <1>b, <2>1
    <2> QED
      BY <1>b, <2>1, <2>2 DEF EngineTypes, HistoryTypes
  <1> QED
    BY <1>1, <1>2, <1>3, <1>4, <1>5 DEF Next

LEMMA RiskTypesStep ==
  ASSUME ControllerTypes, EngineTypes', [Next]_vars
  PROVE  RiskTypes' /\ KnowsEngine(call')
  <1>a. /\ RiskTypes /\ KnowsEngine(call) /\ built \in 0..N /\ listed \in 0..N /\ session \in Nat
        /\ {swept, missed, overtaken} \subseteq SUBSET Engines
        /\ Engines = 1..N /\ N \in Nat \ {0} /\ Each \in Nat
    BY ControllerAssumption DEF ControllerTypes, TypeOK, SessionTypes, HistoryTypes, Engines, ControllerAssumption
  <1>b. (\A e \in Engines : equity[e] \in Int) /\ \A e \in Engines : equity'[e] \in Int
    BY ControllerAssumption DEF ControllerTypes, TypeOK, EngineTypes, ControllerAssumption
  <1>1. CASE StartReset
    <2>1. N * Each \in Int
      BY <1>a
    <2>2. /\ halted' = FALSE /\ breakerActive' = FALSE /\ peak' = N * Each /\ dayStart' = N * Each
          /\ day' = today /\ UNCHANGED <<today, call>>
      BY <1>1 DEF StartReset
    <2> QED
      BY <1>a, <2>1, <2>2 DEF RiskTypes
  <1>2. CASE StartBegin \/ StartOne \/ StartFails \/ StopBegin \/ StopNext \/ StopDone \/ UNCHANGED vars
    <2>1. UNCHANGED <<riskVars, today, call>>
      BY <1>2 DEF StartBegin, StartOne, StartFails, StopBegin, StopNext, StopDone, vars
    <2> QED
      BY <1>a, <2>1 DEF RiskTypes, riskVars
  <1>3. ASSUME NEW e \in Engines, EngineAction(e) PROVE RiskTypes' /\ KnowsEngine(call')
    <2>1. CASE UNCHANGED <<riskVars, today, call>>
      BY <1>a, <2>1 DEF RiskTypes, riskVars
    <2>2. CASE \E eq \in {equity, equity'} : OnEngineUpdate(eq, call) /\ UNCHANGED <<halted, today>>
      BY <1>a, <1>b, <2>2, UpdateTypes DEF RiskTypes
    <2> QED
      BY <1>3, <2>1, <2>2, EngineUpdates
  <1>4. ASSUME NEW f \in Calls, CallAction(f) PROVE RiskTypes' /\ KnowsEngine(call')
    <2>1. CASE FlattenAll(f)
      <3>1. /\ halted' = TRUE /\ UNCHANGED <<breakerActive, peak, dayStart, day, today>>
            /\ call' = SweepFrom(f, 1, listed, open).call
        BY <2>1 DEF FlattenAll
      <3>2. KnowsEngine(call')
        BY <1>a, <3>1, SweepTypes
      <3> QED
        BY <1>a, <3>1, <3>2 DEF RiskTypes
    <2>2. CASE ExitReply(f)
      <3> DEFINE e == call[f].engine
                 s(o) == SweepFrom(f, e + 1, built, [open EXCEPT ![e] = o])
      <3>1. PICK o \in {FALSE, open[e]} : OnEngineUpdate(equity', s(o).call) /\ UNCHANGED <<halted, today>>
        BY <2>2 DEF ExitReply
      <3>2. e + 1 \in Nat \ {0}
        <4>1. e \in Engines
          BY <1>a, <2>2 DEF ExitReply, KnowsEngine
        <4> QED
          BY <1>a, <4>1
      <3> HIDE DEF e
      <3>3. KnowsEngine(s(o).call)
        BY <1>a, <3>2, SweepTypes
      <3> HIDE DEF s
      <3> QED
        BY <1>a, <1>b, <3>1, <3>3, UpdateTypes DEF RiskTypes
    <2>3. CASE OldExitReply(f)
      <3>1. OnEngineUpdate(equity, [call EXCEPT ![f] = NoCall]) /\ UNCHANGED <<halted, today>>
        BY <2>3 DEF OldExitReply
      <3>2. KnowsEngine([call EXCEPT ![f] = NoCall])
        BY <1>a DEF KnowsEngine, NoCall, CallRecords
      <3> QED
        BY <1>a, <1>b, <3>1, <3>2, UpdateTypes DEF RiskTypes
    <2> QED
      BY <1>4, <2>1, <2>2, <2>3 DEF CallAction
  <1>5. CASE Resume
    <2>1. ResumePeak \in Int
      BY <1>a, <1>b, TotalType DEF ResumePeak, RiskTypes
    <2>2. RiskTypes'
      BY <1>5, <1>a, <2>1 DEF Resume, RiskTypes
    <2>3. call' = [f \in Calls |-> [call[f] EXCEPT !.resumed = call[f].at = "exit"]]
      BY <1>5 DEF Resume
    <2>4. ASSUME NEW f \in Calls PROVE call'[f] \in CallRecords /\ call'[f].at = call[f].at
                                        /\ call'[f].engine = call[f].engine
      <3>1. call[f] \in CallRecords
        BY <1>a DEF KnowsEngine
      <3> QED
        BY <2>3, <3>1 DEF CallRecords
    <2> QED
      BY <1>a, <2>2, <2>3, <2>4 DEF KnowsEngine
  <1>6. CASE Midnight
    BY <1>6, <1>a DEF Midnight, RiskTypes, riskVars
  <1> QED
    BY <1>1, <1>2, <1>3, <1>4, <1>5, <1>6 DEF Next

LEMMA ControllerTypesInvariant == Spec => []ControllerTypes
  <1>1. Init => ControllerTypes
    <2> SUFFICES ASSUME Init PROVE ControllerTypes
      OBVIOUS
    <2>1. N \in Nat \ {0} /\ Engines = 1..N /\ MaxEquity \in Nat /\ MaxFaults \in Nat
      BY ControllerAssumption DEF Engines, ControllerAssumption
    <2>2. SessionTypes /\ lock # "build"
      BY <2>1 DEF Init, SessionTypes
    <2>a. halted \in BOOLEAN /\ breakerActive \in BOOLEAN /\ killed \in BOOLEAN
      BY DEF Init
    <2>d. peak \in Int /\ dayStart \in Int /\ day \in Nat /\ today \in Nat
      BY DEF Init
    <2>e. /\ faults \in 0..MaxFaults /\ account \in Int /\ high \in Int
          /\ {swept, missed, overtaken} \subseteq SUBSET Engines /\ entering \subseteq Engines
      BY <2>1 DEF Init
    <2>b. engineHalted \in [Engines -> BOOLEAN] /\ open \in [Engines -> BOOLEAN]
      BY DEF Init
    <2>c. equity \in [Engines -> 0..MaxEquity]
      BY <2>1 DEF Init
    <2>3. RiskTypes /\ EngineTypes /\ HistoryTypes
      BY <2>a, <2>b, <2>c, <2>d, <2>e DEF RiskTypes, EngineTypes, HistoryTypes
    <2>4. NoCall \in CallRecords /\ NoCall.at = "idle"
      BY <2>1 DEF NoCall, CallRecords
    <2>5. KnowsEngine(call) /\ CallTypes
      BY <2>4 DEF Init, KnowsEngine, CallTypes, CallRecords
    <2> QED
      BY <2>2, <2>3, <2>5 DEF ControllerTypes, TypeOK
  <1>2. ControllerTypes /\ [Next]_vars => ControllerTypes'
    <2> SUFFICES ASSUME ControllerTypes, [Next]_vars PROVE ControllerTypes'
      OBVIOUS
    <2>1. SessionTypes' /\ (lock' = "build" => listed' = built')
      BY SessionTypesStep DEF ControllerTypes, TypeOK
    <2>2. EngineTypes' /\ HistoryTypes' /\ RiskTypes' /\ KnowsEngine(call')
      BY EngineTypesStep, RiskTypesStep
    <2> QED
      BY <2>1, <2>2 DEF ControllerTypes, TypeOK, CallTypes, KnowsEngine, CallRecords
  <1> QED
    BY <1>1, <1>2, PTL DEF Spec

\* The state of the controller stays well typed.
THEOREM TypeCorrect == Spec => []TypeOK
  BY ControllerTypesInvariant, PTL DEF ControllerTypes

-----------------------------------------------------------------------------
(* The breaker                                                             *)

\* Only a check trips the breaker.
LEMMA TripIsACheck ==
  ASSUME [Next]_vars, breakerActive', ~breakerActive
  PROVE  \E eq \in {equity, equity'} : \E c : OnEngineUpdate(eq, c)
  <1>1. ASSUME StartBegin \/ StartReset \/ StartOne \/ StartFails \/ StopBegin \/ StopNext
               \/ StopDone \/ Resume \/ Midnight \/ UNCHANGED vars
        PROVE  FALSE
    BY <1>1 DEF StartBegin, StartReset, StartOne, StartFails, StopBegin, StopNext, StopDone, Resume,
                Midnight, vars, riskVars
  <1>2. ASSUME NEW e \in Engines, EngineAction(e)
        PROVE  OnEngineUpdate(equity, call) \/ OnEngineUpdate(equity', call)
    <2>1. ~ UNCHANGED riskVars
      BY DEF riskVars
    <2> QED
      BY <1>2, <2>1, EngineUpdates
  <1>3. ASSUME NEW f \in Calls, CallAction(f)
        PROVE  \E c : OnEngineUpdate(equity, c) \/ OnEngineUpdate(equity', c)
    <2>1. ~FlattenAll(f)
      BY DEF FlattenAll
    <2>2. ASSUME ExitReply(f) PROVE \E c : OnEngineUpdate(equity', c)
      BY <2>2 DEF ExitReply
    <2>3. ASSUME OldExitReply(f) PROVE \E c : OnEngineUpdate(equity, c)
      BY <2>3 DEF OldExitReply
    <2> QED
      BY <1>3, <2>1, <2>2, <2>3 DEF CallAction
  <1> QED
    BY <1>1, <1>2, <1>3 DEF Next

\* A check on a new day compares the total with itself.
LEMMA NoTripOnANewDay ==
  ASSUME NEW eq, TotalOf(eq) \in Int, NEW c, OnEngineUpdate(eq, c), breakerActive', ~breakerActive
  PROVE  day = today
  <1> DEFINE total == TotalOf(eq)
             b == Baselines(total)
  <1>1. total \in Int /\ total > 0 /\ (Breach(b.start, total, MaxDailyLoss) \/ Breach(b.peak, total, MaxDrawdown))
    BY DEF OnEngineUpdate
  <1> HIDE DEF total
  <1>2. ASSUME day # today PROVE FALSE
    <2>1. b.start = total /\ b.peak = total
      BY <1>1, <1>2 DEF Baselines, NewDay
    <2> HIDE DEF b
    <2>2. ASSUME NEW limit \in Int, Breach(total, total, limit) PROVE FALSE
      <3>1. limit > 0 /\ (total - total) * 100 >= limit * total
        BY <2>2 DEF Breach
      <3>2. (total - total) * 100 = 0
        BY <1>1
      <3>3. limit * total > 0
        BY <1>1, <3>1
      <3>4. limit * total \in Int
        BY <1>1
      <3> QED
        BY <3>1, <3>2, <3>3, <3>4
    <2>3. MaxDailyLoss \in Int /\ MaxDrawdown \in Int
      BY ControllerAssumption DEF ControllerAssumption
    <2> QED
      BY <1>1, <2>1, <2>2, <2>3
  <1> QED
    BY <1>2

\* The breaker never charges yesterday's losses to today: any number of engines, limits and days.
THEOREM NewDayNeverTrips == Spec => FreshDay
  <1>1. ControllerTypes /\ ControllerTypes' /\ [Next]_vars => [breakerActive' /\ ~breakerActive => day = today]_vars
    <2> SUFFICES ASSUME ControllerTypes, ControllerTypes', [Next]_vars, breakerActive', ~breakerActive
                 PROVE  day = today
      OBVIOUS
    <2>1. PICK eq \in {equity, equity'} : \E c : OnEngineUpdate(eq, c)
      BY TripIsACheck
    <2>2. \A e \in Engines : eq[e] \in Int
      BY ControllerAssumption DEF ControllerTypes, TypeOK, EngineTypes, ControllerAssumption
    <2>3. TotalOf(eq) \in Int
      BY <2>2, TotalType DEF ControllerTypes, TypeOK, SessionTypes
    <2> QED
      BY <2>1, <2>3, NoTripOnANewDay
  <1> QED
    BY <1>1, ControllerTypesInvariant, PTL DEF Spec, FreshDay

-----------------------------------------------------------------------------
(* Sweeping                                                                *)

\* Result s of a sweep of call f from engine `from` up to engine `stops` under positions o.
PassesUpTo(s, f, from, len, o, stops) ==
  /\ from..stops \subseteq from..len
  /\ s.halted = [e \in Engines |-> engineHalted[e] \/ e \in from..stops]
  /\ s.swept = swept \cup (from..stops)
  /\ s.missed = (missed \ (from..stops)) \cup ((from..stops) \cap entering)
  /\ s.overtaken = IF call[f].resumed THEN overtaken \cup (from..stops) ELSE overtaken
  /\ \A e \in from..stops : o[e] => s.call[f].at = "exit" /\ s.call[f].engine = e
Passes(s, f, from, len, o) == \E stops \in Int : PassesUpTo(s, f, from, len, o, stops)

\* A sweep halts the engines it passes, and suspends at one of them that has a position; no other
\* engine it passes has one.
LEMMA SweepFacts ==
  ASSUME NEW f \in Calls, NEW from \in Nat \ {0}, NEW len \in 0..N, NEW o, KnowsEngine(call),
         NEW s, s = SweepFrom(f, from, len, o)
  PROVE  /\ \A g \in Calls \ {f} : s.call[g] = call[g]
         /\ s.call[f].at = "exit" => /\ s.call[f].engine \in from..len /\ o[s.call[f].engine]
                                     /\ s.call[f].session = session
                                     /\ s.call[f].resumed = call[f].resumed
         /\ Passes(s, f, from, len, o)
  <1> DEFINE waits == ToClose(from, len, o)
             stops == IF waits = {} THEN len ELSE Min(waits)
             there == [call[f] EXCEPT !.at = "exit", !.engine = stops, !.session = session]
             next == IF waits = {} THEN NoCall ELSE there
  <1>1. waits = {e \in from..len : o[e]}
    BY DEF ToClose
  <1>2. waits # {} => stops \in waits /\ \A x \in waits : stops <= x
    <2> SUFFICES ASSUME waits # {} PROVE Min(waits) \in waits /\ \A x \in waits : Min(waits) <= x
      OBVIOUS
    <2>1. waits \in SUBSET Nat
      BY <1>1
    <2> HIDE DEF waits
    <2>2. \E m \in waits : \A x \in waits : m <= x
      BY <2>1, LeastElement
    <2> QED
      BY <2>2 DEF Min
  <1>a. waits = {} => stops = len
    OBVIOUS
  <1>4. call[f] \in CallRecords /\ NoCall.at = "idle" /\ call \in [Calls -> CallRecords]
    BY DEF KnowsEngine, NoCall
  <1>5. /\ SweepFrom(f, from, len, o).call = [call EXCEPT ![f] = next]
        /\ SweepFrom(f, from, len, o).halted = [e \in Engines |-> engineHalted[e] \/ e \in from..stops]
        /\ SweepFrom(f, from, len, o).swept = swept \cup (from..stops)
        /\ SweepFrom(f, from, len, o).missed = (missed \ (from..stops)) \cup ((from..stops) \cap entering)
        /\ SweepFrom(f, from, len, o).overtaken
             = IF call[f].resumed THEN overtaken \cup (from..stops) ELSE overtaken
    BY DEF SweepFrom, Reached
  <1>6. /\ waits = {} => next = NoCall
        /\ waits # {} => /\ next.at = "exit" /\ next.engine = stops /\ next.session = session
                         /\ next.resumed = call[f].resumed
    <2> HIDE DEF waits, stops
    <2>1. there.at = "exit" /\ there.engine = stops /\ there.session = session /\ there.resumed = call[f].resumed
      BY <1>4 DEF CallRecords
    <2> HIDE DEF there
    <2> QED
      BY <2>1
  <1> HIDE DEF waits, stops, there, next
  <1>b. len \in Int /\ from \in Int /\ from >= 1
    BY ControllerAssumption DEF ControllerAssumption
  <1>3. stops \in Int /\ from..stops \subseteq from..len
    <2>1. CASE waits = {}
      BY <1>a, <1>b, <2>1
    <2>2. CASE waits # {}
      <3>1. stops \in Int /\ stops <= len
        BY <1>1, <1>2, <1>b, <2>2
      <3> QED
        BY <1>b, <3>1
    <2> QED
      BY <2>1, <2>2
  <1>7. SweepFrom(f, from, len, o).call[f] = next
    BY <1>4, <1>5
  <1>8. \A g \in Calls \ {f} : SweepFrom(f, from, len, o).call[g] = call[g]
    BY <1>4, <1>5
  <1>9. next.at = "exit" => /\ next.engine \in from..len /\ o[next.engine] /\ next.session = session
                            /\ next.resumed = call[f].resumed
    BY <1>1, <1>2, <1>4, <1>6
  <1>10. ASSUME NEW e \in from..stops, o[e] PROVE next.at = "exit" /\ next.engine = e
    <2>1. e \in waits
      BY <1>1, <1>3, <1>10
    <2>2. stops <= e /\ e <= stops /\ e \in Int
      BY <1>2, <1>3, <1>b, <2>1
    <2>3. e = stops
      BY <1>3, <2>2
    <2> QED
      BY <1>6, <2>1, <2>3
  <1>11. PassesUpTo(s, f, from, len, o, stops)
    BY <1>3, <1>5, <1>7, <1>10 DEF PassesUpTo
  <1>12. Passes(s, f, from, len, o)
    BY <1>3, <1>11 DEF Passes
  <1> QED
    BY <1>7, <1>8, <1>9, <1>12

\* A check of the breaker schedules a call that was idle, and touches no other.
LEMMA UpdateCalls ==
  ASSUME NEW eq, NEW c, KnowsEngine(c), OnEngineUpdate(eq, c), NEW f \in Calls
  PROVE  /\ call'[f].at = "exit" => call'[f] = c[f]
         /\ c[f].at = "exit" => call'[f] = c[f]
  <1>1. ASSUME NEW g \in Calls, c[g].at = "idle", call' = TripCall(c, g)
        PROVE  /\ call'[f].at = "exit" => call'[f] = c[f]
               /\ c[f].at = "exit" => call'[f] = c[f]
    <2> DEFINE s == [NoCall EXCEPT !.at = "scheduled"]
    <2>1. s.at = "scheduled"
      BY DEF NoCall
    <2>2. call' = [c EXCEPT ![g] = s] /\ c \in [Calls -> CallRecords]
      BY <1>1 DEF TripCall, KnowsEngine
    <2> HIDE DEF s
    <2> QED
      BY <1>1, <2>1, <2>2
  <1>2. call' = c \/ \E g \in Calls : c[g].at = "idle" /\ call' = TripCall(c, g)
    BY DEF OnEngineUpdate
  <1> QED
    BY <1>1, <1>2

\* No engine's step touches a call that waits for an exit.
LEMMA EngineKeepsCalls ==
  ASSUME KnowsEngine(call), NEW e \in Engines, EngineAction(e), NEW f \in Calls
  PROVE  /\ call'[f].at = "exit" => call'[f] = call[f]
         /\ call[f].at = "exit" => call'[f] = call[f]
  BY EngineUpdates, UpdateCalls

\* resume() marks the calls that wait for an exit and changes nothing else of them.
LEMMA ResumeCalls ==
  ASSUME KnowsEngine(call), Resume, NEW f \in Calls
  PROVE  /\ call'[f].at = call[f].at /\ call'[f].engine = call[f].engine /\ call'[f].session = call[f].session
         /\ call'[f].resumed = (call[f].at = "exit")
  <1>1. call[f] \in CallRecords
    BY DEF KnowsEngine
  <1>2. call'[f] = [call[f] EXCEPT !.resumed = (call[f].at = "exit")]
    BY DEF Resume
  <1> QED
    BY <1>1, <1>2 DEF CallRecords

\* The call of an earlier session that returns is gone, and no other one changes.
LEMMA OldReplyCalls ==
  ASSUME KnowsEngine(call), NEW g \in Calls, OldExitReply(g), NEW f \in Calls
  PROVE  /\ call'[f].at = "exit" => call'[f] = call[f]
         /\ call[f].at = "exit" /\ call[f].session = session => call'[f] = call[f]
  <1> DEFINE c == [call EXCEPT ![g] = NoCall]
  <1>1. OnEngineUpdate(equity, c) /\ call[g].session # session
    BY DEF OldExitReply
  <1>2. KnowsEngine(c) /\ c[g] = NoCall /\ \A h \in Calls \ {g} : c[h] = call[h]
    <2>1. 0 \in 0..N /\ 0 \in Nat
      BY ControllerAssumption DEF ControllerAssumption
    <2> QED
      BY <2>1 DEF KnowsEngine, NoCall, CallRecords
  <1>3. NoCall.at # "exit"
    BY DEF NoCall
  <1> HIDE DEF c
  <1>4. /\ call'[f].at = "exit" => call'[f] = c[f]
        /\ c[f].at = "exit" => call'[f] = c[f]
    BY <1>1, <1>2, UpdateCalls
  <1> QED
    BY <1>1, <1>2, <1>3, <1>4

\* What a sweep that begins at call f does.
LEMMA BeginFacts ==
  ASSUME ControllerTypes, NEW f \in Calls, FlattenAll(f)
  PROVE  /\ call[f].at # "exit" /\ UNCHANGED <<sessionVars, open, entering, equity>> /\ halted'
         /\ \A g \in Calls \ {f} : call'[g] = call[g]
         /\ call'[f].at = "exit" => /\ call'[f].session = session /\ call'[f].engine \in 1..listed
                                    /\ open[call'[f].engine]
         /\ \E stops \in Int :
              /\ 1..stops \subseteq 1..listed
              /\ engineHalted' = [e \in Engines |-> engineHalted[e] \/ e \in 1..stops]
              /\ swept' = swept \cup (1..stops)
              /\ missed' = (missed \ (1..stops)) \cup ((1..stops) \cap entering)
              /\ \A e \in 1..stops : open[e] => call'[f].at = "exit" /\ call'[f].engine = e
  <1>1. /\ call' = SweepFrom(f, 1, listed, open).call
        /\ engineHalted' = SweepFrom(f, 1, listed, open).halted
        /\ swept' = SweepFrom(f, 1, listed, open).swept
        /\ missed' = SweepFrom(f, 1, listed, open).missed
    BY DEF FlattenAll
  <1>2. call[f].at # "exit" /\ UNCHANGED <<sessionVars, open, entering, equity>> /\ halted'
    BY DEF FlattenAll
  <1>3. listed \in 0..N /\ 1 \in Nat \ {0} /\ KnowsEngine(call)
    BY ControllerAssumption DEF ControllerTypes, TypeOK, SessionTypes, ControllerAssumption
  <1> DEFINE s == SweepFrom(f, 1, listed, open)
  <1>5. s = SweepFrom(f, 1, listed, open)
    OBVIOUS
  <1>6. /\ call' = s.call /\ engineHalted' = s.halted /\ swept' = s.swept /\ missed' = s.missed
    BY <1>1
  <1> HIDE DEF s
  <1>4. /\ \A g \in Calls \ {f} : s.call[g] = call[g]
        /\ s.call[f].at = "exit" => /\ s.call[f].engine \in 1..listed /\ open[s.call[f].engine]
                                    /\ s.call[f].session = session
                                    /\ s.call[f].resumed = call[f].resumed
        /\ Passes(s, f, 1, listed, open)
    BY <1>3, <1>5, SweepFacts
  <1>7. PICK stops \in Int : PassesUpTo(s, f, 1, listed, open, stops)
    BY <1>4 DEF Passes
  <1>8. \E n \in Int :
          /\ 1..n \subseteq 1..listed
          /\ engineHalted' = [e \in Engines |-> engineHalted[e] \/ e \in 1..n]
          /\ swept' = swept \cup (1..n)
          /\ missed' = (missed \ (1..n)) \cup ((1..n) \cap entering)
          /\ \A e \in 1..n : open[e] => call'[f].at = "exit" /\ call'[f].engine = e
    BY <1>6, <1>7 DEF PassesUpTo
  <1> QED
    BY <1>2, <1>4, <1>6, <1>8

\* What a sweep does that goes on when the exit call f waited for is over.
LEMMA ReplyFacts ==
  ASSUME ControllerTypes, NEW f \in Calls, ExitReply(f)
  PROVE  LET d == call[f].engine IN
         /\ call[f].at = "exit" /\ call[f].session = session /\ d \in Engines
         /\ UNCHANGED <<sessionVars, halted, entering>>
         /\ \A g \in Calls \ {f} : /\ call'[g].at = "exit" => call'[g] = call[g]
                                   /\ call[g].at = "exit" => call'[g] = call[g]
         /\ call'[f].at = "exit" => /\ call'[f].session = session /\ call'[f].engine \in (d + 1)..built
                                    /\ call'[f].resumed = call[f].resumed
         /\ \E o \in {FALSE, open[d]}, stops \in Int :
              /\ open' = [open EXCEPT ![d] = o]
              /\ (d + 1)..stops \subseteq (d + 1)..built
              /\ engineHalted' = [e \in Engines |-> engineHalted[e] \/ e \in (d + 1)..stops]
              /\ swept' = swept \cup ((d + 1)..stops)
              /\ missed' = ((missed \ ((d + 1)..stops)) \cup (((d + 1)..stops) \cap entering))
                             \cup (IF o THEN {d} ELSE {})
              /\ overtaken' = IF call[f].resumed THEN overtaken \cup ((d + 1)..stops) ELSE overtaken
              /\ \A e \in (d + 1)..stops : open'[e] => call'[f].at = "exit" /\ call'[f].engine = e
  <1> DEFINE d == call[f].engine
             s(o) == SweepFrom(f, d + 1, built, [open EXCEPT ![d] = o])
  <1>1. call[f].at = "exit" /\ call[f].session = session /\ UNCHANGED <<sessionVars, halted, entering>>
    BY DEF ExitReply
  <1>2. PICK o \in {FALSE, open[d]} :
          /\ open' = [open EXCEPT ![d] = o]
          /\ engineHalted' = s(o).halted /\ swept' = s(o).swept /\ overtaken' = s(o).overtaken
          /\ missed' = s(o).missed \cup (IF o THEN {d} ELSE {})
          /\ OnEngineUpdate(equity', s(o).call)
    BY DEF ExitReply
  <1>3. /\ built \in 0..N /\ KnowsEngine(call) /\ session \in Nat /\ Engines = 1..N /\ N \in Nat \ {0}
        /\ {swept, missed, overtaken} \subseteq SUBSET Engines
    BY ControllerAssumption DEF ControllerTypes, TypeOK, SessionTypes, HistoryTypes, Engines, ControllerAssumption
  <1>4. d \in Engines
    BY <1>1, <1>3 DEF KnowsEngine
  <1> HIDE DEF d
  <1>5. d + 1 \in Nat \ {0}
    BY <1>3, <1>4
  <1> DEFINE was == [open EXCEPT ![d] = o]
             res == s(o)
  <1>a. res = SweepFrom(f, d + 1, built, was)
    OBVIOUS
  <1>c. /\ open' = was /\ engineHalted' = res.halted /\ swept' = res.swept /\ overtaken' = res.overtaken
        /\ missed' = res.missed \cup (IF o THEN {d} ELSE {})
        /\ OnEngineUpdate(equity', res.call)
    BY <1>2
  <1> HIDE DEF s, res, was
  <1>6. KnowsEngine(res.call)
    BY <1>3, <1>5, <1>a, SweepTypes
  <1>7. /\ \A g \in Calls \ {f} : res.call[g] = call[g]
        /\ res.call[f].at = "exit" => /\ res.call[f].engine \in (d + 1)..built
                                       /\ res.call[f].session = session
                                       /\ res.call[f].resumed = call[f].resumed
    BY <1>3, <1>5, <1>a, SweepFacts
  <1>8. Passes(res, f, d + 1, built, was)
    BY <1>3, <1>5, <1>a, SweepFacts
  <1>9. \A g \in Calls : /\ call'[g].at = "exit" => call'[g] = res.call[g]
                         /\ res.call[g].at = "exit" => call'[g] = res.call[g]
    BY <1>6, <1>c, UpdateCalls
  <1>10. \A g \in Calls \ {f} : /\ call'[g].at = "exit" => call'[g] = call[g]
                                /\ call[g].at = "exit" => call'[g] = call[g]
    BY <1>7, <1>9
  <1>11. call'[f].at = "exit" => /\ call'[f].session = session /\ call'[f].engine \in (d + 1)..built
                                 /\ call'[f].resumed = call[f].resumed
    BY <1>7, <1>9
  <1>b. PICK stops \in Int : PassesUpTo(res, f, d + 1, built, was, stops)
    BY <1>8 DEF Passes
  <1>12. /\ stops \in Int
         /\ (d + 1)..stops \subseteq (d + 1)..built
         /\ res.halted = [e \in Engines |-> engineHalted[e] \/ e \in (d + 1)..stops]
         /\ res.swept = swept \cup ((d + 1)..stops)
         /\ res.missed = (missed \ ((d + 1)..stops)) \cup (((d + 1)..stops) \cap entering)
         /\ res.overtaken = IF call[f].resumed THEN overtaken \cup ((d + 1)..stops) ELSE overtaken
         /\ \A e \in (d + 1)..stops : was[e] => res.call[f].at = "exit" /\ res.call[f].engine = e
    BY <1>b DEF PassesUpTo
  <1>13. \A e \in (d + 1)..stops : open'[e] => call'[f].at = "exit" /\ call'[f].engine = e
    BY <1>9, <1>12, <1>c
  <1>14. /\ open' = [open EXCEPT ![d] = o]
         /\ engineHalted' = [e \in Engines |-> engineHalted[e] \/ e \in (d + 1)..stops]
         /\ swept' = swept \cup ((d + 1)..stops)
         /\ missed' = ((missed \ ((d + 1)..stops)) \cup (((d + 1)..stops) \cap entering))
                        \cup (IF o THEN {d} ELSE {})
         /\ overtaken' = IF call[f].resumed THEN overtaken \cup ((d + 1)..stops) ELSE overtaken
    BY <1>12, <1>c DEF was
  <1>15. \E r \in {FALSE, open[d]}, n \in Int :
           /\ open' = [open EXCEPT ![d] = r]
           /\ (d + 1)..n \subseteq (d + 1)..built
           /\ engineHalted' = [e \in Engines |-> engineHalted[e] \/ e \in (d + 1)..n]
           /\ swept' = swept \cup ((d + 1)..n)
           /\ missed' = ((missed \ ((d + 1)..n)) \cup (((d + 1)..n) \cap entering))
                          \cup (IF r THEN {d} ELSE {})
           /\ overtaken' = IF call[f].resumed THEN overtaken \cup ((d + 1)..n) ELSE overtaken
           /\ \A e \in (d + 1)..n : open'[e] => call'[f].at = "exit" /\ call'[f].engine = e
    <2>1. (d + 1)..stops \subseteq (d + 1)..built
      BY <1>12
    <2> WITNESS o \in {FALSE, open[d]}, stops \in Int
    <2> QED
      BY <1>13, <1>14, <2>1
  <1> QED
    BY <1>1, <1>4, <1>10, <1>11, <1>15 DEF d

\* A call begins to wait for an exit in FlattenAll, of an engine with a position, or goes on to an
\* engine further down the list.
LEMMA ExitCalls ==
  ASSUME ControllerTypes, [Next]_vars, NEW f \in Calls, call'[f].at = "exit"
  PROVE  \/ call[f].at = "exit" /\ call'[f].engine = call[f].engine /\ call'[f].session = call[f].session
         \/ /\ call'[f].session = session /\ UNCHANGED sessionVars
            /\ \/ halted' /\ UNCHANGED <<open, equity>> /\ open[call'[f].engine]
               \/ /\ call[f].at = "exit" /\ call[f].session = session /\ UNCHANGED halted
                  /\ call[f].engine < call'[f].engine
  <1>a. KnowsEngine(call) /\ Engines \subseteq Nat
    BY EnginesAreNumbers DEF ControllerTypes
  <1>1. ASSUME StartBegin \/ StartReset \/ StartOne \/ StartFails \/ StopBegin \/ StopNext \/ StopDone
               \/ Midnight \/ UNCHANGED vars
        PROVE  call' = call
    BY <1>1 DEF StartBegin, StartReset, StartOne, StartFails, StopBegin, StopNext, StopDone, Midnight, vars
  <1>2. ASSUME NEW e \in Engines, EngineAction(e) PROVE call'[f] = call[f]
    BY <1>2, <1>a, EngineKeepsCalls
  <1>3. ASSUME NEW g \in Calls, FlattenAll(g)
        PROVE  \/ call'[f] = call[f]
               \/ /\ call'[f].session = session /\ UNCHANGED sessionVars
                  /\ halted' /\ UNCHANGED <<open, equity>> /\ open[call'[f].engine]
    BY <1>3, BeginFacts
  <1>4. ASSUME NEW g \in Calls, ExitReply(g)
        PROVE  \/ call'[f] = call[f]
               \/ /\ call'[f].session = session /\ UNCHANGED sessionVars
                  /\ call[f].at = "exit" /\ call[f].session = session /\ UNCHANGED halted
                  /\ call[f].engine < call'[f].engine
    <2>1. CASE f # g
      BY <1>4, <2>1, ReplyFacts
    <2>2. CASE f = g
      <3> DEFINE d == call[f].engine
      <3>1. /\ call[f].at = "exit" /\ call[f].session = session /\ d \in Engines
            /\ UNCHANGED <<sessionVars, halted>>
            /\ call'[f].session = session /\ call'[f].engine \in (d + 1)..built
        BY <1>4, <2>2, ReplyFacts
      <3> HIDE DEF d
      <3>2. d < call'[f].engine
        <4>1. d \in Int /\ built \in Int
          BY <1>a, <3>1 DEF ControllerTypes, TypeOK, SessionTypes
        <4> QED
          BY <3>1, <4>1
      <3> QED
        BY <3>1, <3>2 DEF d
    <2> QED
      BY <2>1, <2>2
  <1>5. ASSUME NEW g \in Calls, OldExitReply(g) PROVE call'[f] = call[f]
    BY <1>5, <1>a, OldReplyCalls
  <1>6. ASSUME Resume
        PROVE  call[f].at = "exit" /\ call'[f].engine = call[f].engine /\ call'[f].session = call[f].session
    BY <1>6, <1>a, ResumeCalls
  <1> QED
    BY <1>1, <1>2, <1>3, <1>4, <1>5, <1>6 DEF Next, CallAction

-----------------------------------------------------------------------------
(* What a sweep closes                                                     *)

\* An engine that a sweep has reached is halted; an entry of it that is still in flight was in
\* flight when it was reached, and a position of it is being closed or is known to be missed.
SweepInv ==
  \A e \in swept : /\ engineHalted[e]
                   /\ e \in entering => e \in missed
                   /\ open[e] => e \in missed \/ BeingClosed(e)

LEMMA SweepNext == ControllerTypes /\ SweepInv /\ [Next]_vars => SweepInv'
  <1> SUFFICES ASSUME ControllerTypes, SweepInv, [Next]_vars PROVE SweepInv'
    OBVIOUS
  <1>a. /\ engineHalted \in [Engines -> BOOLEAN] /\ open \in [Engines -> BOOLEAN] /\ swept \subseteq Engines
        /\ KnowsEngine(call)
    BY DEF ControllerTypes, TypeOK, EngineTypes, HistoryTypes
  \* Who waits for an exit goes on waiting, no position and no entry is new.
  <1>b. ASSUME UNCHANGED <<session, engineHalted, swept, missed>>, entering' \subseteq entering,
               \A e \in swept : open'[e] => open[e] \/ e \in entering,
               \A f \in Calls : call[f].at = "exit" /\ call[f].session = session =>
                 call'[f].at = "exit" /\ call'[f].engine = call[f].engine /\ call'[f].session = session
        PROVE  SweepInv'
    <2>1. \A e \in swept : BeingClosed(e) => BeingClosed(e)'
      BY <1>b DEF BeingClosed
    <2> QED
      BY <1>b, <2>1 DEF SweepInv
  <1>1. CASE StartReset
    BY <1>1 DEF StartReset, SweepInv
  <1>2. CASE StartBegin \/ StartOne \/ StartFails \/ StopBegin \/ StopNext \/ StopDone
             \/ Midnight \/ UNCHANGED vars
    <2>1. UNCHANGED <<session, engineHalted, swept, missed, entering, open, call>>
      BY <1>2 DEF StartBegin, StartOne, StartFails, StopBegin, StopNext, StopDone, Midnight, vars,
                  sessionVars, historyVars
    <2> QED
      BY <1>b, <2>1
  <1>3. ASSUME NEW d \in Engines, EngineAction(d) PROVE SweepInv'
    <2>1. UNCHANGED <<session, engineHalted, swept, missed>>
      BY <1>3 DEF EngineAction, EngineInit, EngineStep, EngineEnters, EntryReply, EngineEnds, StopTimesOut,
                  CancelLands, sessionVars, historyVars
    <2>2. \A f \in Calls : call[f].at = "exit" => call'[f] = call[f]
      BY <1>3, <1>a, EngineKeepsCalls
    <2>3. CASE EngineEnters(d)
      <3>1. entering' = entering \cup {d} /\ ~engineHalted[d] /\ open' = open
        BY <2>3 DEF EngineEnters, MayEnter
      <3>2. d \notin swept
        BY <3>1 DEF SweepInv
      <3>3. \A e \in swept : BeingClosed(e) => BeingClosed(e)'
        BY <2>1, <2>2 DEF BeingClosed
      <3> QED
        BY <2>1, <3>1, <3>2, <3>3 DEF SweepInv
    <2>4. CASE ~EngineEnters(d)
      <3>1. entering' \subseteq entering
        BY <1>3, <2>4 DEF EngineAction, EngineInit, EngineStep, EntryReply, EngineEnds, StopTimesOut, CancelLands
      <3>2. \A e \in swept : open'[e] => open[e] \/ e \in entering
        <4>1. EngineStep(d) => \E o \in {FALSE, open[d]} : open' = [open EXCEPT ![d] = o]
          BY DEF EngineStep
        <4>2. EntryReply(d) => d \in entering /\ \E o \in BOOLEAN : open' = [open EXCEPT ![d] = o]
          BY DEF EntryReply
        <4>3. EngineInit(d) \/ EngineEnds(d) \/ StopTimesOut(d) \/ CancelLands(d) => open' = open
          BY DEF EngineInit, EngineEnds, StopTimesOut, CancelLands
        <4> QED
          BY <1>3, <1>a, <2>4, <4>1, <4>2, <4>3 DEF EngineAction
      <3> QED
        BY <1>b, <2>1, <2>2, <3>1, <3>2
    <2> QED
      BY <2>3, <2>4
  <1>4. ASSUME NEW f \in Calls, FlattenAll(f) PROVE SweepInv'
    <2>1. PICK stops \in Int :
            /\ engineHalted' = [e \in Engines |-> engineHalted[e] \/ e \in 1..stops]
            /\ swept' = swept \cup (1..stops)
            /\ missed' = (missed \ (1..stops)) \cup ((1..stops) \cap entering)
            /\ \A e \in 1..stops : open[e] => call'[f].at = "exit" /\ call'[f].engine = e
      BY <1>4, BeginFacts
    <2>2. /\ call[f].at # "exit" /\ UNCHANGED <<session, open, entering>>
          /\ \A g \in Calls \ {f} : call'[g] = call[g]
          /\ call'[f].at = "exit" => call'[f].session = session
      BY <1>4, BeginFacts DEF sessionVars
    <2>3. swept' \subseteq Engines
      <3>1. HistoryTypes'
        BY EngineTypesStep
      <3> QED
        BY <3>1 DEF HistoryTypes, Engines
    <2> DEFINE S == 1..stops
    <2>4. /\ engineHalted' = [e \in Engines |-> engineHalted[e] \/ e \in S] /\ swept' = swept \cup S
          /\ missed' = (missed \ S) \cup (S \cap entering)
          /\ \A e \in S : open[e] => call'[f].at = "exit" /\ call'[f].engine = e
      BY <2>1
    <2> HIDE DEF S
    <2>5. ASSUME NEW e \in S PROVE open[e] => BeingClosed(e)'
      BY <2>2, <2>4 DEF BeingClosed
    <2>6. ASSUME NEW e \in swept PROVE BeingClosed(e) => BeingClosed(e)'
      BY <2>2 DEF BeingClosed
    <2>7. ASSUME NEW e \in swept'
          PROVE  /\ engineHalted'[e] /\ (e \in entering' => e \in missed')
                 /\ (open'[e] => e \in missed' \/ BeingClosed(e)')
      <3>1. CASE e \in S
        BY <2>2, <2>3, <2>4, <2>5, <3>1
      <3>2. CASE e \notin S
        <4>1. e \in swept
          BY <2>4, <3>2
        <4>2. engineHalted[e] /\ (e \in entering => e \in missed) /\ (open[e] => e \in missed \/ BeingClosed(e))
          BY <4>1 DEF SweepInv
        <4> QED
          BY <2>2, <2>3, <2>4, <2>6, <3>2, <4>1, <4>2
      <3> QED
        BY <3>1, <3>2
    <2> QED
      BY <2>7 DEF SweepInv
  <1>5. ASSUME NEW f \in Calls, ExitReply(f) PROVE SweepInv'
    <2> DEFINE d == call[f].engine
    <2>1. PICK o \in {FALSE, open[d]}, stops \in Int :
            /\ open' = [open EXCEPT ![d] = o]
            /\ engineHalted' = [e \in Engines |-> engineHalted[e] \/ e \in (d + 1)..stops]
            /\ swept' = swept \cup ((d + 1)..stops)
            /\ missed' = ((missed \ ((d + 1)..stops)) \cup (((d + 1)..stops) \cap entering))
                           \cup (IF o THEN {d} ELSE {})
            /\ \A e \in (d + 1)..stops : open'[e] => call'[f].at = "exit" /\ call'[f].engine = e
      BY <1>5, ReplyFacts
    <2>2. /\ call[f].at = "exit" /\ call[f].session = session /\ d \in Engines
          /\ UNCHANGED <<session, entering>>
          /\ \A g \in Calls \ {f} : call[g].at = "exit" => call'[g] = call[g]
          /\ call'[f].at = "exit" => call'[f].session = session
      BY <1>5, ReplyFacts DEF sessionVars
    <2>3. swept' \subseteq Engines
      <3>1. HistoryTypes'
        BY EngineTypesStep
      <3> QED
        BY <3>1 DEF HistoryTypes, Engines
    <2> DEFINE S == (d + 1)..stops
    <2>4. /\ engineHalted' = [e \in Engines |-> engineHalted[e] \/ e \in S] /\ swept' = swept \cup S
          /\ missed' = ((missed \ S) \cup (S \cap entering)) \cup (IF o THEN {d} ELSE {})
          /\ \A e \in S : open'[e] => call'[f].at = "exit" /\ call'[f].engine = e
      BY <2>1
    <2>5. open'[d] => o
      BY <1>a, <2>1, <2>2
    <2>6. \A e \in Engines \ {d} : open'[e] = open[e]
      BY <1>a, <2>1
    <2>b. d = call[f].engine
      OBVIOUS
    <2> HIDE DEF S, d
    <2>7. ASSUME NEW e \in S PROVE open'[e] => BeingClosed(e)'
      BY <2>2, <2>4 DEF BeingClosed
    <2>8. ASSUME NEW e \in swept, e # d PROVE BeingClosed(e) => BeingClosed(e)'
      BY <2>b, <2>2, <2>8 DEF BeingClosed
    <2>9. ASSUME NEW e \in swept'
          PROVE  /\ engineHalted'[e] /\ (e \in entering' => e \in missed')
                 /\ (open'[e] => e \in missed' \/ BeingClosed(e)')
      <3>1. CASE e \in S
        BY <2>2, <2>3, <2>4, <2>7, <3>1
      <3>2. CASE e \notin S
        <4>1. e \in swept
          BY <2>4, <3>2
        <4>2. engineHalted[e] /\ (e \in entering => e \in missed) /\ (open[e] => e \in missed \/ BeingClosed(e))
          BY <4>1 DEF SweepInv
        <4>3. engineHalted'[e] /\ (e \in entering' => e \in missed')
          BY <2>2, <2>3, <2>4, <3>2, <4>1, <4>2
        <4>4. CASE e = d
          BY <2>4, <2>5, <4>3, <4>4
        <4>5. CASE e # d
          BY <1>a, <2>4, <2>6, <2>8, <3>2, <4>1, <4>2, <4>3, <4>5
        <4> QED
          BY <4>4, <4>5
      <3> QED
        BY <3>1, <3>2
    <2> QED
      BY <2>9 DEF SweepInv
  <1>6. ASSUME NEW f \in Calls, OldExitReply(f) PROVE SweepInv'
    <2>1. UNCHANGED <<session, engineHalted, swept, missed, entering, open>>
      BY <1>6 DEF OldExitReply, sessionVars, historyVars
    <2>2. \A g \in Calls : call[g].at = "exit" /\ call[g].session = session => call'[g] = call[g]
      BY <1>6, <1>a, OldReplyCalls
    <2> QED
      BY <1>b, <2>1, <2>2
  <1>7. CASE Resume
    <2>1. /\ engineHalted' = [e \in Engines |-> engineHalted[e] /\ e \notin Released]
          /\ swept' = swept \ Released /\ UNCHANGED <<session, open, entering, missed>>
      BY <1>7 DEF Resume, sessionVars
    <2>2. \A f \in Calls : call'[f].at = call[f].at /\ call'[f].engine = call[f].engine
                           /\ call'[f].session = call[f].session
      BY <1>7, <1>a, ResumeCalls
    <2>3. \A e \in swept : BeingClosed(e) => BeingClosed(e)'
      BY <2>1, <2>2 DEF BeingClosed
    <2>4. ASSUME NEW e \in swept'
          PROVE  /\ engineHalted'[e] /\ (e \in entering' => e \in missed')
                 /\ (open'[e] => e \in missed' \/ BeingClosed(e)')
      <3>1. e \in swept /\ e \notin Released /\ e \in Engines
        BY <1>a, <2>1, <2>4
      <3>2. engineHalted[e] /\ (e \in entering => e \in missed) /\ (open[e] => e \in missed \/ BeingClosed(e))
        BY <3>1 DEF SweepInv
      <3> QED
        BY <2>1, <2>3, <3>1, <3>2
    <2> QED
      BY <2>4 DEF SweepInv
  <1> QED
    BY <1>1, <1>2, <1>3, <1>4, <1>5, <1>6, <1>7 DEF Next, CallAction

\* The kill-switch closes what it reaches: whatever bars, entries in flight and other sweeps come
\* between, an engine that a sweep has reached has a position only while its exit is awaited, or
\* when that exit failed or the entry was already in flight.
THEOREM SweepHolds == Spec => []SweepCloses
  <1>1. Init => SweepInv
    BY DEF Init, SweepInv
  <1>2. SweepInv => SweepCloses
    BY DEF SweepInv, SweepCloses
  <1> QED
    BY <1>1, <1>2, SweepNext, ControllerTypesInvariant, PTL DEF Spec

-----------------------------------------------------------------------------
(* Resuming                                                                *)

\* Who is halted while the controller is not was halted by a sweep that resume() overtook, and every
\* sweep of this session that is still under way was overtaken; an engine that is not built yet is
\* not halted.
ClearInv ==
  /\ \A f \in Calls : call[f].at = "exit" => call[f].session <= session
  /\ \A e \in Engines : engineHalted[e] => e <= built
  /\ ~halted => \A e \in Acting : engineHalted[e] => e \in overtaken
  /\ ~halted => \A f \in Calls : call[f].at = "exit" /\ call[f].session = session => call[f].resumed

LEMMA ClearStep ==
  ASSUME ControllerTypes, SessionInv, ClearInv, [Next]_vars
  PROVE  ClearInv'
  <1>a. /\ KnowsEngine(call) /\ built \in 0..N /\ built \in Int /\ listed \in 0..built /\ session \in Nat
        /\ Engines = 1..N /\ N \in Nat \ {0} /\ engineHalted \in [Engines -> BOOLEAN]
        /\ phase \in [Engines -> Phases]
        /\ \A e \in Acting : e \in Engines /\ e \in 1..listed
    <2>1. /\ SessionTypes /\ KnowsEngine(call) /\ N \in Nat \ {0} /\ Engines = 1..N
          /\ engineHalted \in [Engines -> BOOLEAN]
      BY ControllerAssumption DEF ControllerTypes, TypeOK, EngineTypes, Engines, ControllerAssumption
    <2>2. built \in 0..N /\ built \in Int /\ listed \in 0..built /\ session \in Nat
      BY <2>1 DEF SessionTypes
    <2>3. \A e \in Acting : e \in Engines /\ e <= listed
      BY DEF SessionInv, Acting
    <2>4. \A e \in Acting : e \in 1..listed
      BY <2>1, <2>2, <2>3
    <2> QED
      BY <2>1, <2>2, <2>3, <2>4 DEF SessionInv
  <1>b. \A f \in Calls : call[f].at = "exit" => call[f].session \in Nat /\ call[f].session <= session
    BY <1>a DEF ClearInv, KnowsEngine, CallRecords
  \* Steps that halt and start nothing, and begin no sweep.
  <1>c. ASSUME UNCHANGED <<session, built, engineHalted, overtaken>>,
               UNCHANGED halted, Acting' \subseteq Acting,
               \A f \in Calls : call'[f].at = "exit" => call'[f] = call[f]
        PROVE  ClearInv'
    BY <1>c DEF ClearInv
  <1>1. CASE StartReset
    <2>1. session' = session + 1 /\ engineHalted' = [e \in Engines |-> FALSE] /\ call' = call
      BY <1>1 DEF StartReset
    <2>2. \A f \in Calls : call'[f].at = "exit" => call'[f].session <= session' /\ call'[f].session # session'
      BY <1>a, <1>b, <2>1
    <2>3. \A e \in Engines : ~engineHalted'[e]
      BY <2>1
    <2>4. \A e \in Acting' : e \in Engines
      BY DEF Acting
    <2> QED
      BY <2>2, <2>3, <2>4 DEF ClearInv
  <1>2. CASE StartOne
    <2>1. /\ built' = built + 1 /\ phase' = [phase EXCEPT ![built + 1] = "new"]
          /\ UNCHANGED <<session, halted, engineHalted, overtaken, call>>
      BY <1>2 DEF StartOne, riskVars, historyVars
    <2>2. \A e \in Engines : engineHalted[e] => e <= built /\ e <= built'
      BY <1>a, <2>1 DEF ClearInv
    <2>3. \A e \in Acting' : e \in Acting \/ e = built + 1
      BY <1>a, <2>1 DEF Acting
    <2>4. \A e \in Acting' : e \in Engines
      BY DEF Acting
    <2>5. ~halted => \A e \in Acting' : engineHalted[e] => e \in overtaken
      <3>1. ~(built + 1 <= built)
        BY <1>a
      <3> QED
        BY <2>2, <2>3, <2>4, <3>1 DEF ClearInv
    <2> QED
      BY <2>1, <2>2, <2>5 DEF ClearInv
  <1>3. CASE StartBegin \/ StartFails \/ StopBegin \/ StopNext \/ StopDone \/ Midnight \/ UNCHANGED vars
    <2>1. UNCHANGED <<session, built, engineHalted, overtaken, halted, phase, call>>
      BY <1>3 DEF StartBegin, StartFails, StopBegin, StopNext, StopDone, Midnight, vars, sessionVars, riskVars,
                  historyVars
    <2> QED
      BY <1>c, <2>1 DEF Acting
  <1>4. ASSUME NEW e \in Engines, EngineAction(e) PROVE ClearInv'
    <2>1. UNCHANGED <<session, built, engineHalted, overtaken, halted>>
      BY <1>4 DEF EngineAction, EngineInit, EngineStep, EngineEnters, EntryReply, EngineEnds, StopTimesOut,
                  CancelLands, sessionVars, riskVars, historyVars
    <2>2. Acting' \subseteq Acting
      <3>1. phase' = phase \/ \E p \in {"cancel", "ended"} : phase' = [phase EXCEPT ![e] = p]
            \/ (phase[e] = "new" /\ phase' = [phase EXCEPT ![e] = "run"])
        BY <1>4 DEF EngineAction, EngineInit, EngineStep, EngineEnters, EntryReply, EngineEnds, StopTimesOut,
                    CancelLands, sessionVars, Cancelled
      <3> QED
        BY <1>a, <3>1 DEF Acting, Phases
    <2>3. \A f \in Calls : call'[f].at = "exit" => call'[f] = call[f]
      BY <1>4, <1>a, EngineKeepsCalls
    <2> QED
      BY <1>c, <2>1, <2>2, <2>3
  <1>5. ASSUME NEW f \in Calls, FlattenAll(f) PROVE ClearInv'
    <2>1. halted' /\ UNCHANGED <<session, built>>
      BY <1>5, BeginFacts DEF sessionVars
    <2>2. PICK stops \in Int :
            /\ 1..stops \subseteq 1..listed
            /\ engineHalted' = [e \in Engines |-> engineHalted[e] \/ e \in 1..stops]
      BY <1>5, BeginFacts
    <2>3. ASSUME NEW e \in Engines, engineHalted'[e] PROVE e <= built'
      <3>1. engineHalted[e] \/ e \in 1..stops
        BY <2>2, <2>3
      <3>2. e \in 1..stops => e \in 1..listed
        BY <2>2
      <3>3. e \in 1..listed => e <= built
        BY <1>a
      <3> QED
        BY <2>1, <3>1, <3>2, <3>3 DEF ClearInv
    <2>4. \A g \in Calls : call'[g].at = "exit" => call'[g].session <= session'
      <3>1. \A g \in Calls \ {f} : call'[g] = call[g]
        BY <1>5, BeginFacts
      <3>2. call'[f].at = "exit" => call'[f].session = session
        BY <1>5, BeginFacts
      <3> QED
        BY <1>a, <1>b, <2>1, <3>1, <3>2
    <2> QED
      BY <2>1, <2>3, <2>4 DEF ClearInv
  <1>6. ASSUME NEW f \in Calls, ExitReply(f) PROVE ClearInv'
    <2> DEFINE d == call[f].engine
    <2>1. /\ call[f].at = "exit" /\ call[f].session = session /\ d \in Engines
          /\ UNCHANGED <<session, built, phase, halted>>
          /\ \A g \in Calls \ {f} : call'[g].at = "exit" => call'[g] = call[g]
          /\ call'[f].at = "exit" => call'[f].session = session /\ call'[f].resumed = call[f].resumed
      BY <1>6, ReplyFacts DEF sessionVars
    <2>2. PICK stops \in Int :
            /\ (d + 1)..stops \subseteq (d + 1)..built
            /\ engineHalted' = [e \in Engines |-> engineHalted[e] \/ e \in (d + 1)..stops]
            /\ overtaken' = IF call[f].resumed THEN overtaken \cup ((d + 1)..stops) ELSE overtaken
      BY <1>6, ReplyFacts
    <2> HIDE DEF d
    <2>3. ASSUME NEW e \in Engines, engineHalted'[e] PROVE e <= built'
      <3>1. engineHalted[e] \/ e \in (d + 1)..stops
        BY <2>2, <2>3
      <3>2. e \in (d + 1)..stops => e \in (d + 1)..built
        BY <2>2
      <3>3. e \in (d + 1)..built => e <= built
        BY <1>a, <2>1
      <3> QED
        BY <2>1, <3>1, <3>2, <3>3 DEF ClearInv
    <2>4. \A g \in Calls : call'[g].at = "exit" => call'[g].session <= session'
      BY <1>a, <1>b, <2>1
    <2>5. ~halted => call[f].resumed
      BY <2>1 DEF ClearInv
    <2>6. ~halted' => \A g \in Calls : call'[g].at = "exit" /\ call'[g].session = session' => call'[g].resumed
      BY <2>1, <2>5 DEF ClearInv
    <2>7. Acting' = Acting
      BY <2>1 DEF Acting
    <2>8. ASSUME ~halted', NEW e \in Acting', engineHalted'[e] PROVE e \in overtaken'
      <3>1. e \in Acting /\ e \in Engines
        BY <1>a, <2>7
      <3>2. engineHalted[e] \/ e \in (d + 1)..stops
        BY <2>2, <2>8, <3>1
      <3>3. overtaken' = overtaken \cup ((d + 1)..stops)
        BY <2>1, <2>2, <2>5, <2>8
      <3>4. engineHalted[e] => e \in overtaken
        BY <2>1, <2>8, <3>1 DEF ClearInv
      <3> QED
        BY <3>2, <3>3, <3>4
    <2> QED
      BY <2>3, <2>4, <2>6, <2>8 DEF ClearInv
  <1>7. ASSUME NEW f \in Calls, OldExitReply(f) PROVE ClearInv'
    <2>1. UNCHANGED <<session, built, engineHalted, overtaken, halted, phase>>
      BY <1>7 DEF OldExitReply, sessionVars, historyVars
    <2>2. \A g \in Calls : call'[g].at = "exit" => call'[g] = call[g]
      BY <1>7, <1>a, OldReplyCalls
    <2> QED
      BY <1>c, <2>1, <2>2 DEF Acting
  <1>8. CASE Resume
    <2>1. /\ engineHalted' = [e \in Engines |-> engineHalted[e] /\ e \notin 1..listed]
          /\ UNCHANGED <<session, built, phase>>
      BY <1>8 DEF Resume, Released, sessionVars
    <2>2. \A e \in Acting' : ~engineHalted'[e]
      <3>1. Acting' = Acting
        BY <2>1 DEF Acting
      <3> QED
        BY <1>a, <2>1, <3>1
    <2>3. \A e \in Engines : engineHalted'[e] => e <= built'
      BY <2>1 DEF ClearInv
    <2>4. \A f \in Calls : call'[f].at = "exit" => call'[f].session <= session' /\ call'[f].resumed
      BY <1>8, <1>a, <1>b, <2>1, ResumeCalls
    <2> QED
      BY <2>2, <2>3, <2>4 DEF ClearInv
  <1> QED
    BY <1>1, <1>2, <1>3, <1>4, <1>5, <1>6, <1>7, <1>8 DEF Next, CallAction

\* After resume() every engine may trade again, for any number of engines, calls and sweeps under
\* way: one that is still halted was halted by a sweep that went on after the resume().
THEOREM ResumeReleases == Spec => []ResumeClears
  <1>1. Init => ClearInv
    <2> SUFFICES ASSUME Init PROVE ClearInv
      OBVIOUS
    <2>1. \A f \in Calls : call[f].at # "exit"
      BY DEF Init, NoCall
    <2>2. \A e \in Engines : ~engineHalted[e]
      BY DEF Init
    <2> QED
      BY <2>1, <2>2 DEF ClearInv, Acting
  <1>2. ControllerTypes /\ SessionInv /\ ClearInv /\ [Next]_vars => ClearInv'
    BY ClearStep
  <1>3. ClearInv => ResumeClears
    BY DEF ClearInv, ResumeClears
  <1> QED
    BY <1>1, <1>2, <1>3, ControllerTypesInvariant, SessionInit, SessionNext, PTL DEF Spec

-----------------------------------------------------------------------------
(* Losses                                                                  *)

\* With one engine: its equity is the account once it is initialised, and until then nothing
\* moves it; no baseline that is checked is above the highest account.
LossInv ==
  /\ \A f \in Calls : call[f].at = "exit" => call[f].session <= session
  /\ equity[1] # 0 => equity[1] = account
  /\ equity[1] = 0 => /\ peak <= account /\ ~open[1] /\ phase[1] # "run"
                      /\ \A f \in Calls : call[f].at = "exit" => call[f].session # session
  /\ lock = "build" \/ phase[1] = "new" => equity[1] = 0 /\ account = Each
  /\ phase[1] = "none" => equity[1] = 0
  /\ account <= high /\ peak <= high /\ (MaxDailyLoss = 0 \/ dayStart <= high)

\* What a check does to the baselines, and when it trips.
LEMMA CheckFacts ==
  ASSUME N = 1, RiskTypes, built \in 0..N, NEW eq, eq[1] \in Int, NEW c, OnEngineUpdate(eq, c),
         NEW a \in Int, NEW h \in Int, eq[1] > 0 => eq[1] = a, a <= h,
         peak <= h, MaxDailyLoss = 0 \/ dayStart <= h
  PROVE  /\ peak' <= h /\ (MaxDailyLoss = 0 \/ dayStart' <= h)
         /\ eq[1] <= 0 => UNCHANGED <<peak, dayStart>>
         /\ breakerActive' /\ ~breakerActive => a < h
  <1> DEFINE total == TotalOf(eq)
             b == Baselines(total)
             trip == Breach(b.start, total, MaxDailyLoss) \/ Breach(b.peak, total, MaxDrawdown)
  <1>1. CASE UNCHANGED <<peak, dayStart, day, breakerActive>>
    BY <1>1
  <1>2. CASE ~ UNCHANGED <<peak, dayStart, day, breakerActive>>
    <2>1. built = 1
      BY <1>2 DEF OnEngineUpdate
    <2>2. total = eq[1]
      BY <2>1, TotalOfOne
    <2>3. total > 0 /\ peak' = b.peak /\ dayStart' = b.start /\ breakerActive' = trip
      BY <1>2 DEF OnEngineUpdate
    <2> HIDE DEF total
    <2>4. total = a /\ total \in Int
      BY <2>2, <2>3
    <2>5. b.start \in {dayStart, total} /\ b.start \in Int /\ b.peak \in {peak, total} /\ b.peak \in Int
      BY <2>4 DEF Baselines, NewDay, RiskTypes
    <2> HIDE DEF b
    <2>6. ASSUME NEW base \in Int, NEW limit \in Int, Breach(base, total, limit) PROVE total < base /\ limit # 0
      <3>1. limit > 0 /\ base > 0 /\ (base - total) * 100 >= limit * base
        BY <2>6 DEF Breach
      <3>2. limit * base > 0 /\ limit * base \in Int
        BY <3>1
      <3> DEFINE product == limit * base
      <3>3. product > 0 /\ product \in Int /\ (base - total) * 100 >= product
        BY <3>1, <3>2
      <3> HIDE DEF product
      <3> QED
        BY <2>4, <3>1, <3>3
    <2>7. trip => a < h
      <3>1. MaxDailyLoss \in Int /\ MaxDrawdown \in Int
        BY ControllerAssumption DEF ControllerAssumption
      <3>2. CASE Breach(b.start, total, MaxDailyLoss)
        <4>1. total < b.start /\ MaxDailyLoss # 0
          BY <2>5, <2>6, <3>1, <3>2
        <4> QED
          BY <2>4, <2>5, <4>1 DEF RiskTypes
      <3>3. CASE Breach(b.peak, total, MaxDrawdown)
        <4>1. total < b.peak
          BY <2>5, <2>6, <3>1, <3>3
        <4> QED
          BY <2>4, <2>5, <4>1 DEF RiskTypes
      <3> QED
        BY <3>2, <3>3
    <2> HIDE DEF trip
    <2> QED
      BY <2>2, <2>3, <2>4, <2>5, <2>7
  <1> QED
    BY <1>1, <1>2

\* One step keeps the invariant, and trips only below the highest account.
LEMMA LossStep ==
  ASSUME N = 1, MaxDailyLoss = 0 \/ ~Resumes, ControllerTypes, SessionInv, LossInv, [Next]_vars
  PROVE  LossInv' /\ (breakerActive' /\ ~breakerActive => account' < high')
  <1>a. /\ KnowsEngine(call) /\ built \in 0..N /\ session \in Nat /\ listed \in 0..N
        /\ Engines = {1} /\ 1 \in Engines /\ Each \in Nat \ {0} /\ MaxEquity \in Nat
        /\ phase \in [Engines -> Phases] /\ equity \in [Engines -> 0..MaxEquity]
        /\ open \in [Engines -> BOOLEAN] /\ account \in Int /\ high \in Int /\ equity[1] \in Int /\ equity[1] >= 0
        /\ RiskTypes /\ peak \in Int /\ dayStart \in Int
    <2>1. /\ SessionTypes /\ KnowsEngine(call) /\ EngineTypes /\ HistoryTypes /\ RiskTypes
          /\ Engines = {1} /\ Each \in Nat \ {0} /\ MaxEquity \in Nat
      BY ControllerAssumption DEF ControllerTypes, TypeOK, Engines, ControllerAssumption
    <2>2. equity[1] \in 0..MaxEquity
      BY <2>1 DEF EngineTypes
    <2> QED
      BY <2>1, <2>2 DEF SessionTypes, EngineTypes, HistoryTypes, RiskTypes, Phases
  <1>b. /\ (\A f \in Calls : call[f].at = "exit" => call[f].session \in Nat /\ call[f].session <= session)
        /\ (equity[1] # 0 => equity[1] = account)
        /\ (equity[1] = 0 => peak <= account /\ ~open[1] /\ phase[1] # "run")
        /\ (equity[1] = 0 => \A f \in Calls : call[f].at = "exit" => call[f].session # session)
        /\ (lock = "build" \/ phase[1] = "new" => equity[1] = 0 /\ account = Each)
        /\ (phase[1] = "none" => equity[1] = 0)
        /\ account <= high /\ peak <= high /\ (MaxDailyLoss = 0 \/ dayStart <= high)
    BY <1>a DEF LossInv, KnowsEngine, CallRecords
  <1>1. CASE StartReset
    <2>1. /\ session' = session + 1 /\ equity' = [e \in Engines |-> 0] /\ open' = [e \in Engines |-> FALSE]
          /\ phase' = [e \in Engines |-> "none"]
          /\ peak' = N * Each /\ dayStart' = N * Each /\ account' = N * Each /\ high' = N * Each
          /\ call' = call /\ breakerActive' = FALSE
      BY <1>1 DEF StartReset
    <2>2. N * Each = Each
      BY <1>a
    <2>3. equity'[1] = 0 /\ ~open'[1] /\ phase'[1] = "none"
      BY <1>a, <2>1
    <2>4. \A f \in Calls : call'[f].at = "exit" => call'[f].session <= session' /\ call'[f].session # session'
      BY <1>a, <1>b, <2>1
    <2> QED
      BY <1>a, <2>1, <2>2, <2>3, <2>4 DEF LossInv
  <1>2. CASE StartBegin \/ StartFails \/ StopBegin \/ StopNext \/ StopDone \/ Midnight \/ UNCHANGED vars
    <2>1. /\ UNCHANGED <<session, phase, equity, open, peak, dayStart, breakerActive, call, account, high>>
          /\ (lock' = "build" => lock = "build")
      BY <1>2 DEF StartBegin, StartFails, StopBegin, StopNext, StopDone, Midnight, vars, sessionVars, riskVars, historyVars
    <2> QED
      BY <2>1 DEF LossInv
  <1>3. CASE StartOne
    <2>1. /\ lock = "build" /\ built = 0 /\ phase' = [phase EXCEPT ![built + 1] = "new"]
          /\ UNCHANGED <<session, equity, open, peak, dayStart, breakerActive, call, account, high>>
      BY <1>3, <1>a DEF StartOne, riskVars, historyVars, ControllerTypes, TypeOK, SessionTypes
    <2>2. phase'[1] = "new"
      BY <1>a, <2>1
    <2> QED
      BY <1>b, <2>1, <2>2 DEF LossInv
  <1>4. CASE EngineInit(1)
    <2>1. /\ phase[1] = "new" /\ phase' = [phase EXCEPT ![1] = "run"] /\ equity' = [equity EXCEPT ![1] = Each]
          /\ UNCHANGED <<lock, session, open, peak, dayStart, breakerActive, call, account, high>>
      BY <1>4 DEF EngineInit, riskVars, historyVars
    <2>2. phase'[1] = "run" /\ equity'[1] = Each /\ lock # "build"
      <3>1. lock # "build"
        BY <1>a, <2>1 DEF ControllerTypes, TypeOK, SessionTypes
      <3> QED
        BY <1>a, <2>1, <3>1
    <2> QED
      BY <1>a, <1>b, <2>1, <2>2 DEF LossInv
  <1>5. CASE EngineEnters(1) \/ StopTimesOut(1)
    <2>1. /\ phase[1] = "run" /\ phase' \in {phase, [phase EXCEPT ![1] = "cancel"]}
          /\ UNCHANGED <<lock, session, equity, open, peak, dayStart, breakerActive, call, account, high>>
      BY <1>5 DEF EngineEnters, StopTimesOut, TimesOut, Cancelled, sessionVars, riskVars, historyVars
    <2>2. phase'[1] \in {"run", "cancel"} /\ equity[1] # 0
      BY <1>a, <1>b, <2>1
    <2> QED
      BY <1>b, <2>1, <2>2 DEF LossInv
  <1>6. CASE EntryReply(1) \/ EngineEnds(1) \/ CancelLands(1)
    <2>1. /\ phase[1] \in {"run", "cancel"} /\ phase' \in {phase, [phase EXCEPT ![1] = "ended"]}
          /\ UNCHANGED <<lock, session, equity, account, high>> /\ OnEngineUpdate(equity, call)
          /\ UNCHANGED open \/ (UNCHANGED phase /\ phase[1] = "run")
      BY <1>6 DEF EntryReply, EngineEnds, CancelLands, historyVars, sessionVars
    <2>2. phase'[1] = phase[1] \/ phase'[1] = "ended"
      BY <1>a, <2>1
    <2>3. \A f \in Calls : call'[f].at = "exit" => call'[f] = call[f]
      BY <1>a, <2>1, UpdateCalls
    <2>4. /\ peak' <= high /\ (MaxDailyLoss = 0 \/ dayStart' <= high)
          /\ (equity[1] <= 0 => UNCHANGED <<peak, dayStart>>)
          /\ (breakerActive' /\ ~breakerActive => account < high)
      BY <1>a, <1>b, <2>1, CheckFacts
    <2>5. /\ equity'[1] = 0 => ~open'[1] /\ phase'[1] # "run"
          /\ phase'[1] \notin {"new", "none"}
      BY <1>b, <2>1, <2>2
    <2> QED
      BY <1>a, <1>b, <2>1, <2>2, <2>3, <2>4, <2>5 DEF LossInv
  \* A publication moves the equity and the account by the same amount.
  <1>c. ASSUME NEW eq \in Moves(1), Record(1, eq), equity' = eq, NEW c, OnEngineUpdate(eq, c)
        PROVE  /\ equity'[1] # 0 /\ equity'[1] = account' /\ equity[1] # 0
               /\ account' <= high' /\ peak' <= high' /\ (MaxDailyLoss = 0 \/ dayStart' <= high')
               /\ (breakerActive' /\ ~breakerActive => account' < high')
    <2>1. PICK q \in 1..MaxEquity : /\ eq = [equity EXCEPT ![1] = q]
                                    /\ IF open[1] THEN q - equity[1] \in -1..1 ELSE q = equity[1]
      BY DEF Moves
    <2>2. eq[1] = q /\ q \in Int /\ q > 0
      BY <1>a, <2>1
    <2>3. equity[1] # 0
      BY <1>a, <1>b, <2>1, <2>2
    <2>4. account' = account + eq[1] - equity[1] /\ high' = IF account' > high THEN account' ELSE high
      BY <1>c DEF Record
    <2>5. account' = q /\ account' <= high' /\ high <= high' /\ high' \in Int
      BY <1>a, <1>b, <2>2, <2>3, <2>4
    <2>6. peak <= high' /\ (MaxDailyLoss = 0 \/ dayStart <= high')
      BY <1>a, <1>b, <2>5
    <2>7. /\ peak' <= high' /\ (MaxDailyLoss = 0 \/ dayStart' <= high')
          /\ (breakerActive' /\ ~breakerActive => account' < high')
      BY <1>a, <1>c, <2>2, <2>5, <2>6, CheckFacts
    <2> QED
      BY <1>c, <2>2, <2>3, <2>5, <2>7
  <1>7. CASE EngineStep(1)
    <2>1. PICK eq \in Moves(1) : equity' = eq /\ Record(1, eq) /\ OnEngineUpdate(eq, call)
      BY <1>7 DEF EngineStep
    <2>2. phase[1] = "run" /\ UNCHANGED <<lock, session, phase>>
      BY <1>7 DEF EngineStep, sessionVars
    <2>3. \A f \in Calls : call'[f].at = "exit" => call'[f] = call[f]
      BY <1>a, <2>1, UpdateCalls
    <2> QED
      BY <1>b, <1>c, <2>1, <2>2, <2>3 DEF LossInv
  <1>8. ASSUME NEW f \in Calls, FlattenAll(f)
        PROVE  LossInv' /\ (breakerActive' /\ ~breakerActive => account' < high')
    <2>1. UNCHANGED <<lock, session, phase, equity, open, peak, dayStart, breakerActive, account, high>>
      BY <1>8 DEF FlattenAll, sessionVars
    <2>2. ASSUME NEW g \in Calls, call'[g].at = "exit"
          PROVE  \/ call[g].at = "exit" /\ call'[g].session = call[g].session
                 \/ call'[g].session = session /\ open[1]
      <3>1. KnowsEngine(call')
        <4>1. call' = SweepFrom(f, 1, listed, open).call
          BY <1>8 DEF FlattenAll
        <4>2. 1 \in Nat \ {0}
          OBVIOUS
        <4> QED
          BY <1>a, <4>1, <4>2, SweepTypes DEF ControllerTypes, TypeOK, HistoryTypes
      <3>2. call'[g].engine = 1
        BY <1>a, <2>2, <3>1 DEF KnowsEngine
      <3>3. call[g].at = "exit" => call[g].engine = 1
        BY <1>a DEF KnowsEngine
      <3>4. ~(call[g].at = "exit" /\ call[g].engine < call'[g].engine)
        BY <3>2, <3>3
      <3> QED
        BY <2>2, <3>2, <3>4, ExitCalls
    <2>3. ASSUME NEW g \in Calls, call'[g].at = "exit"
          PROVE  call'[g].session <= session' /\ (equity'[1] = 0 => call'[g].session # session')
      BY <1>a, <1>b, <2>1, <2>2, <2>3
    <2> QED
      BY <1>b, <2>1, <2>3 DEF LossInv
  <1>9. ASSUME NEW f \in Calls, ExitReply(f)
        PROVE  LossInv' /\ (breakerActive' /\ ~breakerActive => account' < high')
    <2>1. call[f].engine = 1 /\ call[f].at = "exit"
      BY <1>9, <1>a DEF ExitReply, KnowsEngine
    <2>2. \E eq \in Moves(1) : \E c : equity' = eq /\ Record(1, eq) /\ OnEngineUpdate(eq, c)
      BY <1>9, <2>1 DEF ExitReply
    <2>3. UNCHANGED <<lock, session, phase>>
      BY <1>9 DEF ExitReply, sessionVars
    <2>4. ASSUME NEW g \in Calls, call'[g].at = "exit" PROVE call'[g].session <= session'
      BY <1>a, <1>b, <2>3, <2>4, ExitCalls
    <2>5. /\ equity'[1] # 0 /\ equity'[1] = account' /\ equity[1] # 0
          /\ account' <= high' /\ peak' <= high' /\ (MaxDailyLoss = 0 \/ dayStart' <= high')
          /\ (breakerActive' /\ ~breakerActive => account' < high')
      BY <1>c, <2>2
    <2> QED
      BY <1>b, <2>3, <2>4, <2>5 DEF LossInv
  <1>10. ASSUME NEW f \in Calls, OldExitReply(f)
         PROVE  LossInv' /\ (breakerActive' /\ ~breakerActive => account' < high')
    <2>1. /\ UNCHANGED <<lock, session, phase, equity, open, account, high>>
          /\ OnEngineUpdate(equity, [call EXCEPT ![f] = NoCall])
      BY <1>10 DEF OldExitReply, sessionVars, historyVars
    <2>2. KnowsEngine([call EXCEPT ![f] = NoCall]) /\ [call EXCEPT ![f] = NoCall][f] = NoCall /\ NoCall.at # "exit"
      BY <1>a DEF KnowsEngine, NoCall, CallRecords
    <2>3. ASSUME NEW g \in Calls, call'[g].at = "exit" PROVE call'[g] = call[g]
      <3>1. call'[g] = [call EXCEPT ![f] = NoCall][g]
        BY <2>1, <2>2, <2>3, UpdateCalls
      <3> QED
        BY <1>a, <2>2, <2>3, <3>1 DEF KnowsEngine
    <2>4. /\ peak' <= high /\ (MaxDailyLoss = 0 \/ dayStart' <= high)
          /\ (equity[1] <= 0 => UNCHANGED <<peak, dayStart>>)
          /\ (breakerActive' /\ ~breakerActive => account < high)
      BY <1>a, <1>b, <2>1, CheckFacts
    <2> QED
      BY <1>a, <1>b, <2>1, <2>3, <2>4 DEF LossInv
  <1>11. CASE Resume
    <2>1. /\ MaxDailyLoss = 0 /\ breakerActive' = FALSE /\ peak' = ResumePeak /\ high' = account
          /\ UNCHANGED <<lock, session, phase, equity, open, account>>
      BY <1>11 DEF Resume, sessionVars
    <2>c. \A f \in Calls : call'[f].at = call[f].at /\ call'[f].session = call[f].session
      BY <1>11, <1>a, ResumeCalls
    <2>2. ResumePeak <= account
      <3>1. CASE TotalOf(equity) > 0
        <4>1. built = 1 /\ TotalOf(equity) = equity[1]
          <5>1. CASE built = 1
            BY <1>a, <5>1, TotalOfOne
          <5>2. CASE built = 0
            BY <1>a, <3>1, <5>2, TotalOfNone
          <5> QED
            BY <1>a, <5>1, <5>2
        <4> QED
          BY <1>a, <1>b, <3>1, <4>1 DEF ResumePeak
      <3>2. CASE ~(TotalOf(equity) > 0)
        <4>1. CASE built = 1
          BY <1>a, <1>b, <3>2, <4>1, TotalOfOne DEF ResumePeak
        <4>2. CASE built = 0
          <5>1. phase[1] = "none"
            BY <1>a, <4>2 DEF ControllerTypes, TypeOK, SessionTypes
          <5> QED
            BY <1>b, <3>2, <5>1 DEF ResumePeak
        <4> QED
          BY <1>a, <4>1, <4>2
      <3> QED
        BY <3>1, <3>2
    <2> QED
      BY <1>a, <1>b, <2>1, <2>2, <2>c DEF LossInv
  <1> QED
    BY <1>1, <1>2, <1>3, <1>4, <1>5, <1>6, <1>7, <1>8, <1>9, <1>10, <1>11, <1>a DEF Next, CallAction, EngineAction

\* With one engine the breaker trips on losses only: below the highest account since the session
\* began or was resumed.  (A daily limit goes on counting from the start of the day after a
\* resume(); with several engines a check between two builds compares a part with the whole.)
THEOREM TripsOnLosses ==
  ASSUME N = 1, MaxDailyLoss = 0 \/ ~Resumes
  PROVE  Spec => TripIsALoss
  <1>1. Init => LossInv
    <2> SUFFICES ASSUME Init PROVE LossInv
      OBVIOUS
    <2>1. (\A f \in Calls : call[f].at # "exit") /\ 1 \in Engines
      BY DEF Init, NoCall, Engines
    <2>2. equity[1] = 0 /\ ~open[1] /\ phase[1] = "none"
      BY <2>1 DEF Init
    <2> QED
      BY <2>1, <2>2 DEF Init, LossInv
  <1>2. ControllerTypes /\ SessionInv /\ LossInv /\ [Next]_vars
          => LossInv' /\ [breakerActive' /\ ~breakerActive => account' < high']_vars
    BY LossStep
  <1> QED
    BY <1>1, <1>2, ControllerTypesInvariant, SessionInit, SessionNext, PTL DEF Spec, TripIsALoss
=============================================================================
