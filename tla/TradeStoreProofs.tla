-------------------------- MODULE TradeStoreProofs --------------------------
(***************************************************************************)
(* Proofs about TradeStore, for every set of engines, every batch, and any *)
(* number of trades, clears and crashes.                                   *)
(***************************************************************************)
EXTENDS TradeStore, FiniteSetTheorems, TLAPS

-----------------------------------------------------------------------------
(* Requests and queues                                                     *)

Rows == [run : {0} \cup RunIds, equity : Nat, trades : Nat]
Requests == (Tasks \cup {Nobody, "stop"}) \X (Waits \cup {"flush", "close"})
Stages == {"idle", "sync"} \cup Waits

\* The queue q holds what the tasks wait for, one request each.
Held(q, p) ==
  /\ \A i \in 1..Len(q) : q[i][1] \in Tasks => p[q[i][1]] = q[i][2] /\ q[i][2] \in Waits
  /\ \A i, j \in 1..Len(q) : q[i][1] \in Tasks /\ q[i][1] = q[j][1] => i = j

\* What a queue is without its first element.
LEMMA TailFact ==
  ASSUME NEW S, NEW q \in Seq(S), q # <<>>
  PROVE  /\ Head(q) = q[1] /\ Len(q) \in Nat \ {0} /\ q[1] \in S
         /\ Tail(q) \in Seq(S) /\ Len(Tail(q)) = Len(q) - 1
         /\ \A i \in 1..Len(Tail(q)) : i + 1 \in 1..Len(q) /\ Tail(q)[i] = q[i + 1]
  OBVIOUS

\* What a queue is with one more element.
LEMMA AppendFact ==
  ASSUME NEW S, NEW q \in Seq(S), NEW x \in S
  PROVE  /\ Append(q, x) \in Seq(S) /\ Len(q) \in Nat /\ Len(Append(q, x)) = Len(q) + 1
         /\ Append(q, x)[Len(q) + 1] = x
         /\ \A i \in 1..Len(q) : Append(q, x)[i] = q[i]
  OBVIOUS

\* A request is a pair.
LEMMA RequestFact ==
  ASSUME NEW x \in Requests
  PROVE  /\ x[1] \in Tasks \cup {Nobody, "stop"} /\ x[2] \in Waits \cup {"flush", "close"} /\ x = <<x[1], x[2]>>
  BY DEF Requests

LEMMA TaskFact ==
  /\ "bar" \in Tasks /\ "kill" \in Tasks /\ Nobody \notin Tasks /\ "stop" \notin Tasks
  /\ Tasks = {"bar", "kill"}
  BY DEF Tasks, Nobody

\* The task of the first request moves on: the rest of the queue holds what it did.
LEMMA HeldTail ==
  ASSUME NEW q \in Seq(Requests), q # <<>>, NEW p, NEW r, Held(q, p),
         \A u \in Tasks : u # Head(q)[1] => r[u] = p[u]
  PROVE  /\ Held(Tail(q), r)
         /\ Head(q)[1] \in Tasks => \A i \in 1..Len(Tail(q)) : Tail(q)[i][1] # Head(q)[1]
  <1>1. /\ Head(q) = q[1] /\ Len(q) \in Nat \ {0}
        /\ \A i \in 1..Len(Tail(q)) : i + 1 \in 1..Len(q) /\ Tail(q)[i] = q[i + 1]
    BY TailFact
  <1>2. Len(Tail(q)) \in Nat /\ Tail(q) \in Seq(Requests)
    BY TailFact
  <1>3. ASSUME NEW i \in 1..Len(Tail(q)), Tail(q)[i][1] \in Tasks
        PROVE  /\ Tail(q)[i][1] # Head(q)[1]
               /\ r[Tail(q)[i][1]] = Tail(q)[i][2] /\ Tail(q)[i][2] \in Waits
    <2>1. i + 1 \in 1..Len(q) /\ Tail(q)[i] = q[i + 1] /\ 1 \in 1..Len(q) /\ i + 1 # 1
      BY <1>1, <1>2
    <2>2. q[i + 1][1] # q[1][1]
      BY <2>1, <1>3 DEF Held
    <2> QED
      BY <1>1, <1>3, <2>1, <2>2 DEF Held
  <1>4. ASSUME NEW i \in 1..Len(Tail(q)), NEW j \in 1..Len(Tail(q)),
               Tail(q)[i][1] \in Tasks, Tail(q)[i][1] = Tail(q)[j][1]
        PROVE  i = j
    <2>1. i + 1 \in 1..Len(q) /\ j + 1 \in 1..Len(q) /\ q[i + 1][1] \in Tasks /\ q[i + 1][1] = q[j + 1][1]
      BY <1>1, <1>4
    <2>2. i + 1 = j + 1
      BY <2>1 DEF Held
    <2> QED
      BY <2>2, <1>2
  <1> QED
    BY <1>3, <1>4 DEF Held

\* A request of no task joins the queue.
LEMMA HeldStop ==
  ASSUME NEW q \in Seq(Requests), NEW p, Held(q, p), NEW s \in {"flush", "close"}
  PROVE  Held(Append(q, <<"stop", s>>), p)
  <1> DEFINE x == <<"stop", s>>
  <1>1. x \in Requests /\ x[1] = "stop"
    BY DEF Requests
  <1> HIDE DEF x
  <1>2. /\ Len(q) \in Nat /\ Len(Append(q, x)) = Len(q) + 1 /\ Append(q, x)[Len(q) + 1] = x
        /\ \A i \in 1..Len(q) : Append(q, x)[i] = q[i]
    BY <1>1, AppendFact
  <1>3. \A i \in 1..Len(Append(q, x)) : Append(q, x)[i][1] \in Tasks => i \in 1..Len(q)
    BY <1>1, <1>2, TaskFact
  <1>4. Held(Append(q, x), p)
    BY <1>2, <1>3 DEF Held
  <1> QED
    BY <1>4 DEF x

\* A task that waited for nothing asks.
LEMMA HeldAsk ==
  ASSUME NEW q \in Seq(Requests), NEW p, NEW r, Held(q, p), NEW t \in Tasks, NEW s \in Waits,
         \A i \in 1..Len(q) : q[i][1] # t,
         \A u \in Tasks : u # t => r[u] = p[u], r[t] = s
  PROVE  Held(Append(q, <<t, s>>), r)
  <1> DEFINE x == <<t, s>>
  <1>1. x \in Requests /\ x[1] = t /\ x[2] = s
    BY DEF Requests
  <1> HIDE DEF x
  <1>2. /\ Len(q) \in Nat /\ Len(Append(q, x)) = Len(q) + 1 /\ Append(q, x)[Len(q) + 1] = x
        /\ \A i \in 1..Len(q) : Append(q, x)[i] = q[i]
    BY <1>1, AppendFact
  <1>3. ASSUME NEW i \in 1..Len(Append(q, x)), Append(q, x)[i][1] \in Tasks
        PROVE  r[Append(q, x)[i][1]] = Append(q, x)[i][2] /\ Append(q, x)[i][2] \in Waits
    <2>1. CASE i \in 1..Len(q)
      BY <2>1, <1>2, <1>3 DEF Held
    <2>2. CASE i = Len(q) + 1
      BY <2>2, <1>1, <1>2
    <2> QED
      BY <2>1, <2>2, <1>2
  <1>4. ASSUME NEW i \in 1..Len(Append(q, x)), NEW j \in 1..Len(Append(q, x)),
               Append(q, x)[i][1] \in Tasks, Append(q, x)[i][1] = Append(q, x)[j][1]
        PROVE  i = j
    <2>1. CASE i \in 1..Len(q) /\ j \in 1..Len(q)
      BY <2>1, <1>2, <1>4 DEF Held
    <2>2. CASE i = Len(q) + 1 /\ j = Len(q) + 1
      BY <2>2
    <2>3. CASE i = Len(q) + 1 /\ j \in 1..Len(q)
      BY <2>3, <1>1, <1>2, <1>4
    <2>4. CASE i \in 1..Len(q) /\ j = Len(q) + 1
      BY <2>4, <1>1, <1>2, <1>4
    <2> QED
      BY <1>2, <2>1, <2>2, <2>3, <2>4
  <1>5. Held(Append(q, x), r)
    BY <1>3, <1>4 DEF Held
  <1> QED
    BY <1>5 DEF x

\* A task that does not wait has no request, and may move without asking.
LEMMA HeldIdle ==
  ASSUME NEW q, NEW p, NEW r, Held(q, p), NEW t \in Tasks, p[t] \in {"idle", "sync"},
         \A u \in Tasks : u # t => r[u] = p[u]
  PROVE  Held(q, r) /\ \A i \in 1..Len(q) : q[i][1] # t
  <1>1. \A i \in 1..Len(q) : q[i][1] # t
    BY DEF Held, Waits
  <1> QED
    BY <1>1 DEF Held

\* A queue whose requests of the bar task nobody waits for any more.
LEMMA HeldCancel ==
  ASSUME NEW q \in Seq(Requests), NEW p, NEW r, Held(q, p), r["kill"] = p["kill"]
  PROVE  LET z == [i \in 1..Len(q) |-> IF q[i][1] = "bar" THEN <<Nobody, q[i][2]>> ELSE q[i]] IN
         z \in Seq(Requests) /\ Held(z, r)
  <1> DEFINE z == [i \in 1..Len(q) |-> IF q[i][1] = "bar" THEN <<Nobody, q[i][2]>> ELSE q[i]]
  <1>1. \A i \in 1..Len(q) : q[i] \in Requests
    OBVIOUS
  <1>2. \A i \in 1..Len(q) : z[i] \in Requests
    BY <1>1, RequestFact DEF Requests
  <1>3. Len(q) \in Nat /\ z \in Seq(Requests) /\ Len(z) = Len(q)
    BY <1>2
  <1>4. \A i \in 1..Len(q) : z[i][1] \in Tasks => z[i] = q[i] /\ z[i][1] # "bar"
    BY TaskFact
  <1> HIDE DEF z
  <1>5. Held(z, r)
    BY <1>3, <1>4, TaskFact DEF Held
  <1> QED
    BY <1>3, <1>5 DEF z

-----------------------------------------------------------------------------
(* The types of the state, and who holds the write lock                    *)

FileTypes ==
  /\ runs \subseteq RunIds /\ seq \in {0} \cup RunIds
  /\ trades \in [RunIds -> Nat]

\* The lock is held by the connection with uncommitted rows.
Locked ==
  /\ writer \in Conns \cup {Nobody}
  /\ dirty \in [Engines -> Rows]
  /\ \A e \in Engines : dirty[e] # Clean => writer = e
  /\ rec \in {"idle", "insert", "commit"}
  /\ clear \in {"off", "select", "delete", "commit"}
  /\ rec = "commit" => writer = Recorder
  /\ clear = "commit" => writer = Cleaner

\* What one engine's life l, run r, batch n, tasks p, queue q and returned trades k owe to
\* each other: an engine that was not built has nothing, only its bar task makes the run,
\* before anything else, and trades need one.
Sound(l, r, n, p, q, k) ==
  /\ l \in {"unborn", "running", "dead", "closed"} /\ r \in {0} \cup RunIds /\ n \in 0..(Batch - 1)
  /\ p \in [Tasks -> Stages] /\ q \in Seq(Requests) /\ k \in Nat
  /\ Held(q, p)
  /\ l = "unborn" => q = <<>> /\ r = 0 /\ \A t \in Tasks : p[t] = "idle"
  /\ r = 0 => k = 0
  /\ \A t \in Tasks : /\ p[t] \in {"run", "runCommit"} => t = "bar" /\ r = 0
                      /\ p[t] \in {"trade", "tradeCommit"} => r # 0

OfEngines(f) == f = [e \in Engines |-> f[e]]

EnginesSound ==
  /\ OfEngines(life) /\ OfEngines(runId) /\ OfEngines(pending)
  /\ OfEngines(pc) /\ OfEngines(queue) /\ OfEngines(returned)
  /\ \A e \in Engines : Sound(life[e], runId[e], pending[e], pc[e], queue[e], returned[e])

SessionTypes ==
  /\ listed \subseteq Engines /\ session \in {"idle", "starting", "stopping"}
  /\ doomed \subseteq RunIds /\ fresh \subseteq Engines

Types == FileTypes /\ Locked /\ EnginesSound /\ SessionTypes

LEMMA NamesFact ==
  /\ Recorder \notin Engines /\ Cleaner \notin Engines /\ Nobody \notin Engines
  /\ Recorder # Cleaner /\ Recorder # Nobody /\ Cleaner # Nobody
  /\ Engines \subseteq Conns /\ Recorder \in Conns /\ Cleaner \in Conns
  BY ConnsAssumption DEF ConnsAssumption, Recorder, Cleaner, Nobody, Conns

LEMMA NumbersFact ==
  /\ MaxRuns \in Nat /\ Batch \in Nat \ {0} /\ RunIds \subseteq Nat \ {0}
  BY StoreAssumption DEF StoreAssumption, RunIds

LEMMA CleanFact == Clean \in Rows /\ Clean.run = 0 /\ Clean.trades = 0 /\ Clean.equity = 0
  BY NumbersFact DEF Clean, Rows

LEMMA InsertedFact ==
  ASSUME NEW d \in Rows, NEW s \in {"run", "trade", "equity"}, s = "run" => NewRunId \in RunIds
  PROVE  /\ Inserted(d, s) \in Rows
         /\ Inserted(d, s).run = IF s = "run" THEN NewRunId ELSE d.run
         /\ Inserted(d, s).trades = IF s = "trade" THEN d.trades + 1 ELSE d.trades
  <1>1. d.run \in {0} \cup RunIds /\ d.trades \in Nat /\ d.equity \in Nat
    BY DEF Rows
  <1>2. s = "run" => Inserted(d, s) \in Rows /\ Inserted(d, s).run = NewRunId /\ Inserted(d, s).trades = d.trades
    BY <1>1 DEF Inserted, Rows
  <1>3. s = "trade" => Inserted(d, s) \in Rows /\ Inserted(d, s).run = d.run /\ Inserted(d, s).trades = d.trades + 1
    BY <1>1 DEF Inserted, Rows
  <1>4. s = "equity" => Inserted(d, s) \in Rows /\ Inserted(d, s).run = d.run /\ Inserted(d, s).trades = d.trades
    BY <1>1 DEF Inserted, Rows
  <1> QED
    BY <1>2, <1>3, <1>4

\* A step commits the rows of an engine, commits a clear, or leaves the file alone.
LEMMA FileSteps ==
  ASSUME StoreNext
  PROVE  (\E e \in Engines : Commit(e)) \/ CommitClear \/ UNCHANGED fileVars
  <1>1. ASSUME NEW e \in Engines, EngineStep(e)
        PROVE  Commit(e) \/ UNCHANGED fileVars
    <2>1. ASSUME NEW t \in Tasks, InsertRun(e, t) \/ CommitRun(e, t) \/ InsertTrade(e, t) \/ CommitTrade(e, t)
          PROVE  Commit(e) \/ UNCHANGED fileVars
      BY <2>1 DEF InsertRun, CommitRun, InsertTrade, CommitTrade, fileVars
    <2>2. ASSUME NEW t \in Tasks, InsertEquity(e, t) \/ CommitEquity(e, t) \/ RecordTrade(e, t) \/ SyncState(e, t)
          PROVE  Commit(e) \/ UNCHANGED fileVars
      BY <2>2 DEF InsertEquity, CommitEquity, RecordTrade, SyncState, fileVars
    <2>3. OrphanRequest(e) \/ RefuseEngine(e) \/ SampleEquity(e) \/ EngineFails(e) => Commit(e) \/ UNCHANGED fileVars
      BY DEF OrphanRequest, RefuseEngine, SampleEquity, EngineFails, fileVars
    <2>4. StartOne(e) \/ TaskEnds(e) \/ CancelTask(e) \/ CloseStore(e) \/ FlushBuffered(e) \/ Disconnect(e)
            => Commit(e) \/ UNCHANGED fileVars
      BY DEF StartOne, TaskEnds, CancelTask, CloseStore, FlushBuffered, Disconnect, fileVars
    <2> QED
      BY <1>1, <2>1, <2>2, <2>3, <2>4 DEF EngineStep
  <1>2. StartSession \/ StopSession \/ StoreCrash => UNCHANGED fileVars
    BY DEF StartSession, StopSession, StoreCrash, fileVars
  <1>3. RecordObservation \/ InsertObservation \/ CommitObservation \/ RefuseObservation => UNCHANGED fileVars
    BY DEF RecordObservation, InsertObservation, CommitObservation, RefuseObservation, notWriter, fileVars
  <1>4. CheckStopped \/ SelectRuns \/ DeleteRuns \/ RefuseClear => UNCHANGED fileVars
    BY DEF CheckStopped, SelectRuns, DeleteRuns, RefuseClear, notWriter, fileVars
  <1> QED
    BY <1>1, <1>2, <1>3, <1>4 DEF StoreNext

LEMMA FileTypesStep ==
  ASSUME Types, StoreNext
  PROVE  FileTypes'
  <1>1. ASSUME NEW e \in Engines, Commit(e)
        PROVE  FileTypes'
    <2>1. dirty[e].run \in {0} \cup RunIds /\ dirty[e].trades \in Nat
      BY DEF Types, Locked, Rows
    <2>2. runId[e] = 0 \/ runId[e] \in RunIds
      BY DEF Types, EnginesSound, Sound
    <2>3. trades' \in [RunIds -> Nat]
      <3>1. CASE runId[e] = 0
        BY <1>1, <3>1 DEF Commit, Types, FileTypes
      <3>2. CASE runId[e] # 0
        <4>1. trades' = [trades EXCEPT ![runId[e]] = @ + dirty[e].trades] /\ runId[e] \in RunIds
          BY <1>1, <3>2, <2>2 DEF Commit
        <4>2. trades[runId[e]] + dirty[e].trades \in Nat
          BY <2>1, <4>1 DEF Types, FileTypes
        <4> QED
          BY <4>1, <4>2 DEF Types, FileTypes
      <3> QED
        BY <3>1, <3>2
    <2>4. runs' \subseteq RunIds /\ seq' \in {0} \cup RunIds
      BY <1>1, <2>1 DEF Commit, Types, FileTypes
    <2> QED
      BY <2>3, <2>4 DEF FileTypes
  <1>2. CASE CommitClear
    <2>1. \A r \in RunIds : trades[r] \in Nat
      BY DEF Types, FileTypes
    <2> QED
      BY <1>2, <2>1 DEF CommitClear, Types, FileTypes
  <1>3. CASE UNCHANGED fileVars
    BY <1>3 DEF fileVars, Types, FileTypes
  <1> QED
    BY <1>1, <1>2, <1>3, FileSteps

\* What a commit and an insertion do to the lock.
LEMMA CommitLocks ==
  ASSUME Locked, NEW e \in Engines, Commit(e), UNCHANGED <<rec, clear>>
  PROVE  Locked'
  <1>1. dirty' = [dirty EXCEPT ![e] = Clean] /\ writer' = IF writer = e THEN Nobody ELSE writer
    BY DEF Commit
  <1> QED
    BY <1>1, NamesFact, CleanFact DEF Locked

LEMMA InsertLocks ==
  ASSUME Locked, NEW e \in Engines, MayWrite(e), writer' = e, UNCHANGED <<rec, clear>>,
         NEW s \in {"run", "trade", "equity"}, s = "run" => NewRunId \in RunIds,
         dirty' = [dirty EXCEPT ![e] = Inserted(@, s)]
  PROVE  Locked'
  <1>1. dirty[e] \in Rows /\ Inserted(dirty[e], s) \in Rows
    BY InsertedFact DEF Locked
  <1>2. \A f \in Engines : f # e => dirty[f] = Clean
    BY NamesFact DEF Locked, MayWrite
  <1>3. writer \notin {Recorder, Cleaner}
    BY NamesFact DEF MayWrite
  <1>4. dirty' \in [Engines -> Rows] /\ \A f \in Engines : dirty'[f] # Clean => writer' = f
    BY <1>1, <1>2 DEF Locked
  <1> QED
    BY <1>3, <1>4, NamesFact DEF Locked

LEMMA LockedStep ==
  ASSUME Types, StoreNext
  PROVE  Locked'
  <1> USE DEF Types
  <1>1. ASSUME NEW e \in Engines, NEW t \in Tasks, InsertRun(e, t) \/ InsertTrade(e, t) \/ InsertEquity(e, t)
        PROVE  Locked'
    <2>1. \E s \in {"run", "trade", "equity"} :
            /\ s = "run" => NewRunId \in RunIds
            /\ dirty' = [dirty EXCEPT ![e] = Inserted(@, s)]
      BY <1>1 DEF InsertRun, InsertTrade, InsertEquity
    <2>2. MayWrite(e) /\ writer' = e /\ UNCHANGED <<rec, clear>>
      BY <1>1 DEF InsertRun, InsertTrade, InsertEquity
    <2> QED
      BY <2>1, <2>2, InsertLocks
  <1>2. ASSUME NEW e \in Engines, NEW t \in Tasks,
               CommitRun(e, t) \/ CommitTrade(e, t) \/ CommitEquity(e, t) \/ FlushBuffered(e)
        PROVE  Locked'
    <2>1. Commit(e) /\ UNCHANGED <<rec, clear>>
      BY <1>2 DEF CommitRun, CommitTrade, CommitEquity, FlushBuffered
    <2> QED
      BY <2>1, CommitLocks
  <1>3. ASSUME NEW e \in Engines, OrphanRequest(e)
        PROVE  Locked'
    <2>1. UNCHANGED <<rec, clear>>
      BY <1>3 DEF OrphanRequest
    <2>2. CASE Commit(e)
      BY <2>1, <2>2, CommitLocks
    <2>3. CASE ~ Commit(e)
      <3>1. \E s \in {"run", "trade", "equity"} :
              /\ s = "run" => NewRunId \in RunIds
              /\ dirty' = [dirty EXCEPT ![e] = Inserted(@, s)]
              /\ MayWrite(e) /\ writer' = e
        BY <1>3, <2>3 DEF OrphanRequest
      <3> QED
        BY <2>1, <3>1, InsertLocks
    <2> QED
      BY <2>2, <2>3
  <1>4. ASSUME NEW e \in Engines, Disconnect(e)
        PROVE  Locked'
    BY <1>4, NamesFact, CleanFact DEF Disconnect, Locked
  <1>5. CASE StoreCrash
    BY <1>5, NamesFact, CleanFact DEF StoreCrash, Locked
  <1>6. CASE RecordObservation \/ RefuseObservation \/ CheckStopped \/ SelectRuns \/ RefuseClear \/ StartSession \/ StopSession
    BY <1>6 DEF StartSession, StopSession, RecordObservation, RefuseObservation, CheckStopped, SelectRuns, RefuseClear, notWriter, Locked
  <1>7. CASE InsertObservation \/ DeleteRuns
    <2>1. \A e \in Engines : dirty[e] = Clean
      BY <1>7, NamesFact DEF InsertObservation, DeleteRuns, MayWrite, Locked
    <2> QED
      BY <1>7, <2>1, NamesFact DEF InsertObservation, DeleteRuns, notWriter, MayWrite, Locked
  <1>8. CASE CommitObservation \/ CommitClear
    <2>1. \A e \in Engines : dirty[e] = Clean
      BY <1>8, NamesFact DEF CommitObservation, CommitClear, Locked
    <2> QED
      BY <1>8, <2>1, NamesFact DEF CommitObservation, CommitClear, notWriter, Locked
  <1>9. ASSUME NEW e \in Engines, NEW t \in Tasks,
               \/ RecordTrade(e, t) \/ SyncState(e, t) \/ RefuseEngine(e) \/ SampleEquity(e) \/ EngineFails(e)
               \/ StartOne(e) \/ TaskEnds(e) \/ CancelTask(e) \/ CloseStore(e)
        PROVE  Locked'
    <2>1. UNCHANGED <<writer, dirty, rec, clear>>
      BY <1>9 DEF RecordTrade, SyncState, RefuseEngine, SampleEquity, EngineFails, StartOne, TaskEnds, CancelTask,
                  CloseStore
    <2> QED
      BY <2>1 DEF Locked
  <1> QED
    BY <1>1, <1>2, <1>3, <1>4, <1>5, <1>6, <1>7, <1>8, <1>9, TaskFact DEF StoreNext, EngineStep

LEMMA SessionTypesStep ==
  ASSUME Types, StoreNext
  PROVE  SessionTypes'
  <1>1. ASSUME NEW e \in Engines, NEW t \in Tasks,
               \/ InsertRun(e, t) \/ CommitRun(e, t) \/ InsertTrade(e, t) \/ CommitTrade(e, t)
               \/ InsertEquity(e, t) \/ CommitEquity(e, t) \/ RecordTrade(e, t) \/ SyncState(e, t)
               \/ OrphanRequest(e) \/ RefuseEngine(e) \/ SampleEquity(e) \/ EngineFails(e)
               \/ TaskEnds(e) \/ CancelTask(e) \/ CloseStore(e) \/ FlushBuffered(e)
        PROVE  UNCHANGED <<sessionVars, doomed, fresh>>
    BY <1>1 DEF InsertRun, CommitRun, InsertTrade, CommitTrade, InsertEquity, CommitEquity, RecordTrade, SyncState,
                OrphanRequest, RefuseEngine, SampleEquity, EngineFails, TaskEnds, CancelTask, CloseStore, FlushBuffered,
                sessionVars, storeGhosts
  <1>2. ASSUME NEW e \in Engines, StartOne(e) \/ Disconnect(e)
        PROVE  SessionTypes'
    BY <1>2 DEF StartOne, Disconnect, sessionVars, storeGhosts, Types, SessionTypes
  <1>3. CASE StartSession \/ StopSession \/ StoreCrash
    BY <1>3 DEF StartSession, StopSession, StoreCrash, storeGhosts, Types, SessionTypes
  <1>4. CASE \/ RecordObservation \/ InsertObservation \/ CommitObservation \/ RefuseObservation
             \/ CheckStopped \/ SelectRuns \/ DeleteRuns \/ CommitClear \/ RefuseClear
    BY <1>4 DEF RecordObservation, InsertObservation, CommitObservation, RefuseObservation, CheckStopped, SelectRuns,
                DeleteRuns, CommitClear, RefuseClear, notWriter, sessionVars, storeGhosts, Types, SessionTypes, FileTypes
  <1> QED
    BY <1>1, <1>2, <1>3, <1>4, TaskFact DEF StoreNext, EngineStep, sessionVars, Types, SessionTypes

-----------------------------------------------------------------------------
(* What the engines' tasks wait for                                        *)

\* The thread serves the request of task t, which moves to s without asking again.
LEMMA Resumed ==
  ASSUME NEW l, NEW r, NEW n, NEW p, NEW q, NEW k, Sound(l, r, n, p, q, k),
         NEW t \in Tasks, q # <<>>, Head(q)[1] = t,
         NEW m, m = "dead" \/ m = l, NEW j \in 0..(Batch - 1), NEW s \in {"idle", "sync"},
         NEW u \in {0} \cup RunIds, NEW h \in Nat,
         u = r \/ (p[t] = "runCommit" /\ h = k), u = 0 => h = 0
  PROVE  Sound(m, u, j, [p EXCEPT ![t] = s], Tail(q), h)
  <1> DEFINE z == [p EXCEPT ![t] = s]
  <1>1. /\ z \in [Tasks -> Stages] /\ z[t] = s /\ \A v \in Tasks : v # t => z[v] = p[v]
    BY DEF Sound, Stages
  <1>2. Held(Tail(q), z)
    BY <1>1, HeldTail DEF Sound
  <1>3. Tail(q) \in Seq(Requests)
    BY TailFact DEF Sound
  <1>4. l # "unborn" /\ m # "unborn" /\ m \in {"unborn", "running", "dead", "closed"}
    BY DEF Sound
  <1>5. \A v \in Tasks : z[v] \in {"run", "runCommit"} => v = "bar" /\ u = 0
    BY <1>1 DEF Sound
  <1>6. \A v \in Tasks : z[v] \in {"trade", "tradeCommit"} => u # 0
    BY <1>1 DEF Sound
  <1> QED
    BY <1>1, <1>2, <1>3, <1>4, <1>5, <1>6 DEF Sound

\* The thread serves the request of task t, which asks for s next.
LEMMA AsksAgain ==
  ASSUME NEW l, NEW r, NEW n, NEW p, NEW q, NEW k, Sound(l, r, n, p, q, k),
         NEW t \in Tasks, q # <<>>, Head(q)[1] = t,
         NEW j \in 0..(Batch - 1), NEW s \in Waits, s \notin {"run", "trade"},
         s = "runCommit" => p[t] = "run", s = "tradeCommit" => p[t] = "trade"
  PROVE  Sound(l, r, j, [p EXCEPT ![t] = s], Append(Tail(q), <<t, s>>), k)
  <1> DEFINE z == [p EXCEPT ![t] = s]
  <1>1. /\ z \in [Tasks -> Stages] /\ z[t] = s /\ \A v \in Tasks : v # t => z[v] = p[v]
    BY DEF Sound, Stages, Waits
  <1>2. Held(Tail(q), p) /\ \A i \in 1..Len(Tail(q)) : Tail(q)[i][1] # t
    BY HeldTail DEF Sound
  <1>3. Tail(q) \in Seq(Requests) /\ s \in Waits /\ <<t, s>> \in Requests
    BY TailFact DEF Sound, Waits, Requests
  <1>4. Held(Append(Tail(q), <<t, s>>), z)
    <2> DEFINE w == Tail(q)
    <2>1. /\ w \in Seq(Requests) /\ Held(w, p) /\ s \in Waits /\ \A i \in 1..Len(w) : w[i][1] # t
          /\ z[t] = s /\ \A v \in Tasks : v # t => z[v] = p[v]
      BY <1>1, <1>2, <1>3
    <2> HIDE DEF w, z
    <2>2. Held(Append(w, <<t, s>>), z)
      BY <2>1, HeldAsk
    <2> QED
      BY <2>2 DEF w
  <1>5. Append(Tail(q), <<t, s>>) \in Seq(Requests)
    BY <1>3, AppendFact
  <1>6. l # "unborn"
    BY DEF Sound
  <1>7. \A v \in Tasks : /\ z[v] \in {"run", "runCommit"} => v = "bar" /\ r = 0
                         /\ z[v] \in {"trade", "tradeCommit"} => r # 0
    BY <1>1 DEF Sound
  <1> QED
    BY <1>1, <1>4, <1>5, <1>6, <1>7 DEF Sound

\* A task that waited for nothing asks for s.
LEMMA AsksNow ==
  ASSUME NEW l, NEW r, NEW n, NEW p, NEW q, NEW k, Sound(l, r, n, p, q, k),
         NEW t \in Tasks, p[t] \in {"idle", "sync"},
         NEW m, m = "running" \/ (m = l /\ l # "unborn"), NEW s \in {"run", "trade", "equity"},
         s = "run" => t = "bar" /\ r = 0, s = "trade" => r # 0
  PROVE  Sound(m, r, n, [p EXCEPT ![t] = s], Append(q, <<t, s>>), k)
  <1> DEFINE z == [p EXCEPT ![t] = s]
  <1>1. /\ z \in [Tasks -> Stages] /\ z[t] = s /\ \A v \in Tasks : v # t => z[v] = p[v]
    BY DEF Sound, Stages, Waits
  <1>2. Held(q, p) /\ \A i \in 1..Len(q) : q[i][1] # t
    BY HeldIdle DEF Sound
  <1>3. q \in Seq(Requests) /\ s \in Waits /\ <<t, s>> \in Requests
    BY DEF Sound, Waits, Requests
  <1> HIDE DEF z
  <1>4. Held(Append(q, <<t, s>>), z)
    BY <1>1, <1>2, <1>3, HeldAsk
  <1>5. Append(q, <<t, s>>) \in Seq(Requests)
    BY <1>3, AppendFact
  <1>7. \A v \in Tasks : /\ z[v] \in {"run", "runCommit"} => v = "bar" /\ r = 0
                         /\ z[v] \in {"trade", "tradeCommit"} => r # 0
    BY <1>1 DEF Sound
  <1> QED
    BY <1>1, <1>4, <1>5, <1>7 DEF Sound, z

\* A step of e leaves the other engines alone.
OnlyEngine(e) ==
  /\ OfEngines(life') /\ OfEngines(runId') /\ OfEngines(pending')
  /\ OfEngines(pc') /\ OfEngines(queue') /\ OfEngines(returned')
  /\ \A f \in Engines : f # e => /\ life'[f] = life[f] /\ runId'[f] = runId[f] /\ pending'[f] = pending[f]
                                 /\ pc'[f] = pc[f] /\ queue'[f] = queue[f] /\ returned'[f] = returned[f]

LEMMA OneEngineMoves ==
  ASSUME EnginesSound, NEW e \in Engines, OnlyEngine(e),
         Sound(life'[e], runId'[e], pending'[e], pc'[e], queue'[e], returned'[e])
  PROVE  EnginesSound'
  <1>1. \A f \in Engines : Sound(life'[f], runId'[f], pending'[f], pc'[f], queue'[f], returned'[f])
    BY DEF OnlyEngine, EnginesSound, OfEngines
  <1> QED
    BY <1>1 DEF OnlyEngine, EnginesSound, OfEngines

\* The thread of e serves task t, which waits for what it asked.
LEMMA ServesFact ==
  ASSUME EnginesSound, NEW e \in Engines, NEW t \in Tasks, NEW s, Serves(e, t, s)
  PROVE  /\ queue[e] # <<>> /\ Head(queue[e])[1] = t /\ pc[e][t] = s
         /\ Sound(life[e], runId[e], pending[e], pc[e], queue[e], returned[e])
  <1>1. queue[e] # <<>> /\ Head(queue[e]) = <<t, s>> /\ Sound(life[e], runId[e], pending[e], pc[e], queue[e], returned[e])
    BY DEF Serves, EnginesSound, OfEngines
  <1>2. queue[e] \in Seq(Requests) /\ Held(queue[e], pc[e])
    BY <1>1 DEF Sound
  <1>3. 1 \in 1..Len(queue[e]) /\ queue[e][1] = <<t, s>>
    BY <1>1, <1>2, TailFact
  <1>4. pc[e][t] = s
    BY <1>2, <1>3 DEF Held
  <1> QED
    BY <1>1, <1>4

\* The request of no task leaves the queue.
LEMMA Dropped ==
  ASSUME NEW l, NEW r, NEW n, NEW p, NEW q, NEW k, Sound(l, r, n, p, q, k), q # <<>>
  PROVE  /\ Head(q)[1] \notin Tasks => Sound(l, r, n, p, Tail(q), k)
         /\ l # "unborn" /\ q \in Seq(Requests) /\ Head(q) \in Requests
  <1>1. Tail(q) \in Seq(Requests) /\ Held(Tail(q), p) /\ q \in Seq(Requests) /\ Head(q) \in Requests
    BY TailFact, HeldTail DEF Sound
  <1> QED
    BY <1>1 DEF Sound

LEMMA EmptyFact == <<>> \in Seq(Requests) /\ \A p : Held(<<>>, p)
  BY DEF Held

LEMMA StopAsked ==
  ASSUME NEW l, NEW r, NEW n, NEW p, NEW q, NEW k, Sound(l, r, n, p, q, k), l # "unborn",
         NEW s \in {"flush", "close"}
  PROVE  Sound(l, r, n, p, Append(q, <<"stop", s>>), k)
  <1>1. Append(q, <<"stop", s>>) \in Seq(Requests)
    BY AppendFact DEF Sound, Requests
  <1>2. Held(Append(q, <<"stop", s>>), p)
    BY HeldStop DEF Sound
  <1> QED
    BY <1>1, <1>2 DEF Sound

LEMMA EnginesSoundStep ==
  ASSUME Types, StoreNext
  PROVE  EnginesSound'
  <1>0. EnginesSound /\ \A e \in Engines : Sound(life[e], runId[e], pending[e], pc[e], queue[e], returned[e])
    BY DEF Types, EnginesSound, OfEngines
  <1>a. \A e \in Engines : pending[e] \in 0..(Batch - 1) /\ returned[e] \in Nat /\ runId[e] \in {0} \cup RunIds
    BY <1>0 DEF Sound
  <1>b. 0 \in 0..(Batch - 1)
    BY NumbersFact
  <1>1. ASSUME NEW e \in Engines, NEW t \in Tasks, InsertRun(e, t)
        PROVE  EnginesSound'
    <2>1. OnlyEngine(e)
      BY <1>0, <1>1 DEF InsertRun, storeGhosts, OnlyEngine, EnginesSound, OfEngines
    <2>2. /\ life'[e] = life[e] /\ runId'[e] = runId[e] /\ pending'[e] = pending[e] /\ returned'[e] = returned[e]
          /\ pc'[e] = [pc[e] EXCEPT ![t] = "runCommit"]
          /\ queue'[e] = Append(Tail(queue[e]), <<t, "runCommit">>)
      BY <1>0, <1>1 DEF InsertRun, storeGhosts, EnginesSound, OfEngines
    <2>3. queue[e] # <<>> /\ Head(queue[e])[1] = t /\ pc[e][t] = "run"
      BY <1>0, <1>1, ServesFact DEF InsertRun
    <2>4. Sound(life[e], runId[e], pending[e], [pc[e] EXCEPT ![t] = "runCommit"], Append(Tail(queue[e]), <<t, "runCommit">>), returned[e])
      BY <1>0, <1>a, <2>3, AsksAgain DEF Waits
    <2> QED
      BY <1>0, <2>1, <2>2, <2>4, OneEngineMoves
  <1>2. ASSUME NEW e \in Engines, NEW t \in Tasks, CommitRun(e, t)
        PROVE  EnginesSound'
    <2>1. OnlyEngine(e)
      BY <1>0, <1>2 DEF CommitRun, Served, storeGhosts, OnlyEngine, EnginesSound, OfEngines
    <2>2. /\ life'[e] = life[e] /\ runId'[e] = dirty[e].run /\ pending'[e] = pending[e] /\ returned'[e] = returned[e]
          /\ pc'[e] = [pc[e] EXCEPT ![t] = "idle"]
          /\ queue'[e] = Tail(queue[e])
      BY <1>0, <1>2 DEF CommitRun, Served, storeGhosts, EnginesSound, OfEngines
    <2>3. queue[e] # <<>> /\ Head(queue[e])[1] = t /\ pc[e][t] = "runCommit"
      BY <1>0, <1>2, ServesFact DEF CommitRun
    <2>4. returned[e] = 0 /\ dirty[e].run \in {0} \cup RunIds
      BY <1>0, <2>3 DEF Sound, Types, Locked, Rows
    <2>5. Sound(life[e], dirty[e].run, pending[e], [pc[e] EXCEPT ![t] = "idle"], Tail(queue[e]), returned[e])
      BY <1>0, <1>a, <2>3, <2>4, Resumed
    <2> QED
      BY <1>0, <2>1, <2>2, <2>5, OneEngineMoves
  <1>3. ASSUME NEW e \in Engines, NEW t \in Tasks, InsertTrade(e, t)
        PROVE  EnginesSound'
    <2>1. OnlyEngine(e)
      BY <1>0, <1>3 DEF InsertTrade, storeGhosts, OnlyEngine, EnginesSound, OfEngines
    <2>2. /\ life'[e] = life[e] /\ runId'[e] = runId[e] /\ pending'[e] = 0 /\ returned'[e] = returned[e]
          /\ pc'[e] = [pc[e] EXCEPT ![t] = "tradeCommit"]
          /\ queue'[e] = Append(Tail(queue[e]), <<t, "tradeCommit">>)
      BY <1>0, <1>3 DEF InsertTrade, storeGhosts, EnginesSound, OfEngines
    <2>3. queue[e] # <<>> /\ Head(queue[e])[1] = t /\ pc[e][t] = "trade"
      BY <1>0, <1>3, ServesFact DEF InsertTrade
    <2>4. Sound(life[e], runId[e], 0, [pc[e] EXCEPT ![t] = "tradeCommit"], Append(Tail(queue[e]), <<t, "tradeCommit">>), returned[e])
      BY <1>0, <1>b, <2>3, AsksAgain DEF Waits
    <2> QED
      BY <1>0, <2>1, <2>2, <2>4, OneEngineMoves
  <1>4. ASSUME NEW e \in Engines, NEW t \in Tasks, CommitTrade(e, t)
        PROVE  EnginesSound'
    <2>1. OnlyEngine(e)
      BY <1>0, <1>4 DEF CommitTrade, Served, OnlyEngine, EnginesSound, OfEngines
    <2>2. /\ life'[e] = life[e] /\ runId'[e] = runId[e] /\ pending'[e] = pending[e] /\ returned'[e] = returned[e] + 1
          /\ pc'[e] = [pc[e] EXCEPT ![t] = "sync"]
          /\ queue'[e] = Tail(queue[e])
      BY <1>0, <1>4 DEF CommitTrade, Served, EnginesSound, OfEngines
    <2>3. queue[e] # <<>> /\ Head(queue[e])[1] = t /\ pc[e][t] = "tradeCommit"
      BY <1>0, <1>4, ServesFact DEF CommitTrade
    <2>4. runId[e] # 0 /\ returned[e] + 1 \in Nat
      BY <1>0, <1>a, <2>3 DEF Sound
    <2>5. Sound(life[e], runId[e], pending[e], [pc[e] EXCEPT ![t] = "sync"], Tail(queue[e]), returned[e] + 1)
      BY <1>0, <1>a, <2>3, <2>4, Resumed
    <2> QED
      BY <1>0, <2>1, <2>2, <2>5, OneEngineMoves
  <1>5. ASSUME NEW e \in Engines, NEW t \in Tasks, InsertEquity(e, t)
        PROVE  EnginesSound'
    <2>1. OnlyEngine(e)
      BY <1>0, <1>5 DEF InsertEquity, Served, storeGhosts, OnlyEngine, EnginesSound, OfEngines
    <2>2. life'[e] = life[e] /\ runId'[e] = runId[e] /\ returned'[e] = returned[e]
      BY <1>5 DEF InsertEquity, storeGhosts
    <2>3. queue[e] # <<>> /\ Head(queue[e])[1] = t /\ pc[e][t] = "equity"
      BY <1>0, <1>5, ServesFact DEF InsertEquity
    <2>4. CASE BatchFull(e)
      <3>1. /\ pending'[e] = 0 /\ pc'[e] = [pc[e] EXCEPT ![t] = "equityCommit"]
            /\ queue'[e] = Append(Tail(queue[e]), <<t, "equityCommit">>)
        BY <1>0, <1>5, <2>4 DEF InsertEquity, EnginesSound, OfEngines
      <3>2. Sound(life[e], runId[e], 0, [pc[e] EXCEPT ![t] = "equityCommit"], Append(Tail(queue[e]), <<t, "equityCommit">>), returned[e])
        BY <1>0, <1>b, <2>3, AsksAgain DEF Waits
      <3> QED
        BY <1>0, <2>1, <2>2, <3>1, <3>2, OneEngineMoves
    <2>5. CASE ~ BatchFull(e)
      <3>1. /\ pending'[e] = pending[e] + 1 /\ pc'[e] = [pc[e] EXCEPT ![t] = "idle"]
            /\ queue'[e] = Tail(queue[e])
        BY <1>0, <1>5, <2>5 DEF InsertEquity, Served, EnginesSound, OfEngines
      <3>2. pending[e] + 1 \in 0..(Batch - 1)
        BY <1>a, <2>5, NumbersFact DEF BatchFull
      <3>3. Sound(life[e], runId[e], pending[e] + 1, [pc[e] EXCEPT ![t] = "idle"], Tail(queue[e]), returned[e])
        <4>1. runId[e] = 0 => returned[e] = 0
          BY <1>0 DEF Sound
        <4> QED
          BY <1>0, <1>a, <2>3, <3>2, <4>1, Resumed
      <3> QED
        BY <1>0, <2>1, <2>2, <3>1, <3>3, OneEngineMoves
    <2> QED
      BY <2>4, <2>5
  <1>6. ASSUME NEW e \in Engines, NEW t \in Tasks, CommitEquity(e, t)
        PROVE  EnginesSound'
    <2>1. OnlyEngine(e)
      BY <1>0, <1>6 DEF CommitEquity, Served, storeGhosts, OnlyEngine, EnginesSound, OfEngines
    <2>2. /\ life'[e] = life[e] /\ runId'[e] = runId[e] /\ pending'[e] = pending[e] /\ returned'[e] = returned[e]
          /\ pc'[e] = [pc[e] EXCEPT ![t] = "idle"]
          /\ queue'[e] = Tail(queue[e])
      BY <1>0, <1>6 DEF CommitEquity, Served, storeGhosts, EnginesSound, OfEngines
    <2>3. queue[e] # <<>> /\ Head(queue[e])[1] = t
      BY <1>0, <1>6, ServesFact DEF CommitEquity
    <2>4. runId[e] = 0 => returned[e] = 0
      BY <1>0 DEF Sound
    <2>5. Sound(life[e], runId[e], pending[e], [pc[e] EXCEPT ![t] = "idle"], Tail(queue[e]), returned[e])
      BY <1>0, <1>a, <2>3, <2>4, Resumed
    <2> QED
      BY <1>0, <2>1, <2>2, <2>5, OneEngineMoves
  <1>7. ASSUME NEW e \in Engines, NEW t \in Tasks, NEW s \in {"trade", "equity"},
               pc[e][t] \in {"idle", "sync"}, s = "trade" => runId[e] # 0, life[e] # "unborn",
               Ask(e, t, s), UNCHANGED <<life, runId, pending, returned>>
        PROVE  EnginesSound'
    <2>1. OnlyEngine(e)
      BY <1>0, <1>7 DEF Ask, OnlyEngine, EnginesSound, OfEngines
    <2>2. pc'[e] = [pc[e] EXCEPT ![t] = s] /\ queue'[e] = Append(queue[e], <<t, s>>)
      BY <1>0, <1>7 DEF Ask, EnginesSound, OfEngines
    <2>3. life[e] \in {"running", "dead", "closed"}
      BY <1>0, <1>7 DEF Sound
    <2>4. Sound(life[e], runId[e], pending[e], [pc[e] EXCEPT ![t] = s], Append(queue[e], <<t, s>>), returned[e])
      <3>1. CASE s = "trade"
        <4>1. Sound(life[e], runId[e], pending[e], [pc[e] EXCEPT ![t] = "trade"], Append(queue[e], <<t, "trade">>), returned[e])
          BY <1>0, <1>7, <2>3, <3>1, AsksNow
        <4> QED
          BY <3>1, <4>1
      <3>2. CASE s = "equity"
        <4>1. Sound(life[e], runId[e], pending[e], [pc[e] EXCEPT ![t] = "equity"], Append(queue[e], <<t, "equity">>), returned[e])
          BY <1>0, <1>7, <2>3, AsksNow
        <4> QED
          BY <3>2, <4>1
      <3> QED
        BY <3>1, <3>2
    <2> QED
      BY <1>0, <1>7, <2>1, <2>2, <2>4, OneEngineMoves
  <1>8. ASSUME NEW e \in Engines, NEW t \in Tasks, RecordTrade(e, t) \/ SyncState(e, t) \/ SampleEquity(e)
        PROVE  EnginesSound'
    <2>1. \A u \in Tasks : pc[e][u] # "idle" => life[e] # "unborn"
      BY <1>0 DEF Sound
    <2>2. runId[e] # 0 => life[e] # "unborn"
      BY <1>0 DEF Sound
    <2> QED
      BY <1>7, <1>8, <2>1, <2>2, TaskFact DEF RecordTrade, SyncState, SampleEquity, AtRest, storeGhosts
  <1>9. ASSUME NEW e \in Engines, OrphanRequest(e)
        PROVE  EnginesSound'
    <2>1. UNCHANGED <<life, runId, pending, pc, returned>> /\ queue' = [queue EXCEPT ![e] = Tail(@)]
      BY <1>9 DEF OrphanRequest, Served, storeGhosts
    <2>2. Sound(life[e], runId[e], pending[e], pc[e], Tail(queue[e]), returned[e])
      BY <1>0, <1>9, Dropped, TaskFact DEF OrphanRequest
    <2>3. OnlyEngine(e) /\ queue'[e] = Tail(queue[e])
      BY <1>0, <2>1 DEF OnlyEngine, EnginesSound, OfEngines
    <2> QED
      BY <1>0, <2>1, <2>2, <2>3, OneEngineMoves
  <1>10. ASSUME NEW e \in Engines, RefuseEngine(e)
         PROVE  EnginesSound'
    <2> DEFINE t == Head(queue[e])[1]
    <2>1. /\ UNCHANGED <<runId, pending, returned>> /\ queue' = [queue EXCEPT ![e] = Tail(@)] /\ queue[e] # <<>>
          /\ pc' = IF t \in Tasks THEN [pc EXCEPT ![e][t] = "idle"] ELSE pc
          /\ life' = IF t = "bar" THEN [life EXCEPT ![e] = "dead"] ELSE life
      BY <1>10 DEF RefuseEngine, Served, storeGhosts
    <2> HIDE DEF t
    <2>2. OnlyEngine(e) /\ queue'[e] = Tail(queue[e])
      BY <1>0, <2>1 DEF OnlyEngine, EnginesSound, OfEngines
    <2>3. CASE t \in Tasks
      <3>1. pc'[e] = [pc[e] EXCEPT ![t] = "idle"] /\ life'[e] \in {"dead", life[e]}
        BY <1>0, <2>1, <2>3 DEF EnginesSound, OfEngines
      <3>2. runId[e] = 0 => returned[e] = 0
        BY <1>0 DEF Sound
      <3>3. Sound(life'[e], runId[e], pending[e], [pc[e] EXCEPT ![t] = "idle"], Tail(queue[e]), returned[e])
        <4>1. /\ Sound(life[e], runId[e], pending[e], pc[e], queue[e], returned[e])
              /\ queue[e] # <<>> /\ Head(queue[e])[1] = t
          BY <1>0, <2>1 DEF t
        <4>2. CASE life'[e] = "dead"
          <5>1. Sound("dead", runId[e], pending[e], [pc[e] EXCEPT ![t] = "idle"], Tail(queue[e]), returned[e])
            BY <1>a, <2>3, <3>2, <4>1, Resumed
          <5> QED
            BY <4>2, <5>1
        <4>3. CASE life'[e] = life[e]
          BY <1>a, <2>3, <3>2, <4>1, <4>3, Resumed
        <4> QED
          BY <3>1, <4>2, <4>3
      <3> QED
        BY <1>0, <2>1, <2>2, <3>1, <3>3, OneEngineMoves
    <2>4. CASE t \notin Tasks
      <3>1. Sound(life[e], runId[e], pending[e], pc[e], Tail(queue[e]), returned[e])
        BY <1>0, <2>1, <2>4, Dropped DEF t
      <3> QED
        BY <1>0, <2>1, <2>2, <2>4, <3>1, TaskFact, OneEngineMoves
    <2> QED
      BY <2>3, <2>4
  <1>11. ASSUME NEW e \in Engines, EngineFails(e)
         PROVE  EnginesSound'
    <2>1. OnlyEngine(e)
      BY <1>0, <1>11 DEF EngineFails, storeGhosts, OnlyEngine, EnginesSound, OfEngines
    <2>2. /\ life'[e] = "dead" /\ UNCHANGED <<runId, pending, queue, returned>>
          /\ pc'[e] = [pc[e] EXCEPT !["bar"] = "idle"] /\ pc[e]["bar"] \in {"idle", "sync"}
      BY <1>0, <1>11, TaskFact DEF EngineFails, storeGhosts, EnginesSound, OfEngines
    <2>3. pc'[e] \in [Tasks -> Stages] /\ \A u \in Tasks : pc'[e][u] = IF u = "bar" THEN "idle" ELSE pc[e][u]
      BY <1>0, <2>2, TaskFact DEF Sound, Stages
    <2>4. Held(queue[e], pc'[e])
      BY <1>0, <2>2, <2>3, HeldIdle, TaskFact DEF Sound
    <2>5. Sound(life'[e], runId[e], pending[e], pc'[e], queue[e], returned[e])
      BY <1>0, <2>2, <2>3, <2>4 DEF Sound
    <2> QED
      BY <1>0, <2>1, <2>2, <2>5, OneEngineMoves
  <1>12. ASSUME NEW e \in Engines, StartOne(e)
         PROVE  EnginesSound'
    <2>1. OnlyEngine(e)
      BY <1>0, <1>12 DEF StartOne, Ask, OnlyEngine, EnginesSound, OfEngines
    <2>2. /\ life[e] = "unborn" /\ life'[e] = "running" /\ UNCHANGED <<runId, pending, returned>>
          /\ pc'[e] = [pc[e] EXCEPT !["bar"] = "run"] /\ queue'[e] = Append(queue[e], <<"bar", "run">>)
      BY <1>0, <1>12, TaskFact DEF StartOne, Ask, EnginesSound, OfEngines
    <2>3. runId[e] = 0 /\ pc[e]["bar"] = "idle"
      BY <1>0, <2>2, TaskFact DEF Sound
    <2>4. Sound("running", runId[e], pending[e], [pc[e] EXCEPT !["bar"] = "run"], Append(queue[e], <<"bar", "run">>), returned[e])
      BY <1>0, <2>2, <2>3, TaskFact, AsksNow
    <2> QED
      BY <1>0, <2>1, <2>2, <2>4, OneEngineMoves
  <1>13. ASSUME NEW e \in Engines, TaskEnds(e)
         PROVE  EnginesSound'
    <2>1. OnlyEngine(e) /\ life'[e] = "dead" /\ life[e] = "running" /\ UNCHANGED <<runId, pending, pc, queue, returned>>
      BY <1>0, <1>13 DEF TaskEnds, storeGhosts, OnlyEngine, EnginesSound, OfEngines
    <2>2. Sound("dead", runId[e], pending[e], pc[e], queue[e], returned[e])
      BY <1>0, <2>1 DEF Sound
    <2> QED
      BY <1>0, <2>1, <2>2, OneEngineMoves
  <1>14. ASSUME NEW e \in Engines, CancelTask(e)
         PROVE  EnginesSound'
    <2> DEFINE z == [i \in 1..Len(queue[e]) |-> IF queue[e][i][1] = "bar" THEN <<Nobody, queue[e][i][2]>> ELSE queue[e][i]]
    <2>1. OnlyEngine(e)
      BY <1>0, <1>14 DEF CancelTask, storeGhosts, OnlyEngine, EnginesSound, OfEngines
    <2>2. /\ life'[e] = "dead" /\ UNCHANGED <<runId, pending, returned>>
          /\ pc'[e] = [pc[e] EXCEPT !["bar"] = "idle"] /\ queue'[e] = z
      BY <1>0, <1>14, TaskFact DEF CancelTask, storeGhosts, EnginesSound, OfEngines
    <2>3. pc'[e] \in [Tasks -> Stages] /\ \A u \in Tasks : pc'[e][u] = IF u = "bar" THEN "idle" ELSE pc[e][u]
      BY <1>0, <2>2, TaskFact DEF Sound, Stages
    <2>4. z \in Seq(Requests) /\ Held(z, pc'[e])
      <3>1. queue[e] \in Seq(Requests) /\ Held(queue[e], pc[e])
        BY <1>0 DEF Sound
      <3>2. pc'[e]["kill"] = pc[e]["kill"]
        BY <2>3, TaskFact
      <3> QED
        BY <3>1, <3>2, HeldCancel
    <2> HIDE DEF z
    <2>5. Sound("dead", runId[e], pending[e], pc'[e], z, returned[e])
      BY <1>0, <2>3, <2>4 DEF Sound
    <2> QED
      BY <1>0, <2>1, <2>2, <2>5, OneEngineMoves
  <1>15. ASSUME NEW e \in Engines, CloseStore(e)
         PROVE  EnginesSound'
    <2>1. OnlyEngine(e) /\ UNCHANGED <<life, runId, pending, pc, returned>> /\ queue'[e] = Append(queue[e], <<"stop", "flush">>)
      BY <1>0, <1>15 DEF CloseStore, storeGhosts, OnlyEngine, EnginesSound, OfEngines
    <2>2. life[e] # "unborn"
      BY <1>15 DEF CloseStore, Open
    <2>3. Sound(life[e], runId[e], pending[e], pc[e], Append(queue[e], <<"stop", "flush">>), returned[e])
      BY <1>0, <2>2, StopAsked
    <2> QED
      BY <1>0, <2>1, <2>3, OneEngineMoves
  <1>16. ASSUME NEW e \in Engines, FlushBuffered(e)
         PROVE  EnginesSound'
    <2>1. /\ OnlyEngine(e) /\ UNCHANGED <<life, runId, pending, pc, returned>>
          /\ queue'[e] = Append(Tail(queue[e]), <<"stop", "close">>)
      BY <1>0, <1>16 DEF FlushBuffered, storeGhosts, OnlyEngine, EnginesSound, OfEngines
    <2>2. queue[e] # <<>> /\ Head(queue[e])[1] = "stop"
      BY <1>16 DEF FlushBuffered, Serves
    <2>3. life[e] # "unborn" /\ Sound(life[e], runId[e], pending[e], pc[e], Tail(queue[e]), returned[e])
      BY <1>0, <2>2, Dropped, TaskFact
    <2>4. Sound(life[e], runId[e], pending[e], pc[e], Append(Tail(queue[e]), <<"stop", "close">>), returned[e])
      BY <2>3, StopAsked
    <2> QED
      BY <1>0, <2>1, <2>4, OneEngineMoves
  <1>17. ASSUME NEW e \in Engines, Disconnect(e)
         PROVE  EnginesSound'
    <2>1. /\ OnlyEngine(e) /\ UNCHANGED <<runId, returned>> /\ life'[e] = "closed" /\ pending'[e] = 0
          /\ queue'[e] = <<>> /\ pc'[e] = [t \in Tasks |-> "idle"]
      BY <1>0, <1>17 DEF Disconnect, storeGhosts, OnlyEngine, EnginesSound, OfEngines
    <2>2. Sound("closed", runId[e], 0, [t \in Tasks |-> "idle"], <<>>, returned[e])
      BY <1>0, <1>b, EmptyFact DEF Sound, Stages
    <2> QED
      BY <1>0, <2>1, <2>2, OneEngineMoves
  <1>18. CASE StoreCrash
    <2>1. /\ life' = [e \in Engines |-> IF life[e] = "unborn" THEN "unborn" ELSE "closed"]
          /\ pc' = [e \in Engines |-> [t \in Tasks |-> "idle"]] /\ queue' = [e \in Engines |-> <<>>]
          /\ pending' = [e \in Engines |-> 0] /\ UNCHANGED <<runId, returned>>
      BY <1>18 DEF StoreCrash
    <2>2. ASSUME NEW e \in Engines
          PROVE  Sound(life'[e], runId'[e], pending'[e], pc'[e], queue'[e], returned'[e])
      BY <1>0, <1>b, <2>1, EmptyFact DEF Sound, Stages
    <2> QED
      BY <1>0, <2>1, <2>2 DEF EnginesSound, OfEngines
  <1>19. CASE \/ StartSession \/ StopSession
              \/ RecordObservation \/ InsertObservation \/ CommitObservation \/ RefuseObservation
              \/ CheckStopped \/ SelectRuns \/ DeleteRuns \/ CommitClear \/ RefuseClear
    <2>1. UNCHANGED <<engineVars, returned>>
      BY <1>19 DEF StartSession, StopSession, RecordObservation, InsertObservation, CommitObservation, RefuseObservation,
                   CheckStopped, SelectRuns, DeleteRuns, CommitClear, RefuseClear, notWriter, storeGhosts
    <2> QED
      BY <1>0, <2>1 DEF engineVars, EnginesSound, OfEngines
  <1> QED
    BY <1>1, <1>2, <1>3, <1>4, <1>5, <1>6, <1>8, <1>9, <1>10, <1>11, <1>12, <1>13, <1>14, <1>15, <1>16, <1>17, <1>18,
       <1>19, TaskFact DEF StoreNext, EngineStep

LEMMA TypesStep ==
  ASSUME Types, StoreNext
  PROVE  Types'
  BY FileTypesStep, LockedStep, EnginesSoundStep, SessionTypesStep DEF Types

LEMMA TypesInit == StoreInit => Types
  <1>1. ASSUME StoreInit
        PROVE  FileTypes /\ Locked /\ SessionTypes
    BY <1>1, NamesFact, NumbersFact, CleanFact DEF StoreInit, FileTypes, Locked, SessionTypes
  <1>2. ASSUME StoreInit
        PROVE  EnginesSound
    BY <1>2, NumbersFact, EmptyFact DEF StoreInit, EnginesSound, OfEngines, Sound, Stages
  <1> QED
    BY <1>1, <1>2 DEF Types

LEMMA TypesStutter == Types /\ UNCHANGED storeVars => Types'
  BY DEF storeVars, Types, FileTypes, Locked, EnginesSound, SessionTypes

\* The state of the store and of everything that writes to it stays well typed, and
\* uncommitted rows are those of the connection that holds the write lock
\* (persistence/database.py).
THEOREM StoreTypes == StoreSpec => []StoreTypeOK
  <1>1. Types => StoreTypeOK
    BY DEF Types, FileTypes, Locked, Rows, EnginesSound, OfEngines, Sound, Stages, Requests, SessionTypes, StoreTypeOK
  <1>2. Types /\ [StoreNext]_storeVars => Types'
    BY TypesStep, TypesStutter
  <1> QED
    BY <1>1, <1>2, TypesInit, PTL DEF StoreSpec

-----------------------------------------------------------------------------
(* A clear spares the runs of running engines                              *)

\* Engines run only in the session, and during a clear only those that came after its check.
ClearChecked ==
  \A e \in Engines : life[e] = "running" => e \in listed /\ (clear # "off" => e \in fresh)

LEMMA ClearCheckedStep ==
  ASSUME Types, ClearChecked, StoreNext
  PROVE  ClearChecked'
  <1>0. DOMAIN life = Engines
    BY DEF Types, EnginesSound, OfEngines
  <1>1. ASSUME NEW e \in Engines, NEW t \in Tasks,
               \/ InsertRun(e, t) \/ CommitRun(e, t) \/ InsertTrade(e, t) \/ CommitTrade(e, t)
               \/ InsertEquity(e, t) \/ CommitEquity(e, t) \/ RecordTrade(e, t) \/ SyncState(e, t)
               \/ OrphanRequest(e) \/ SampleEquity(e) \/ CloseStore(e) \/ FlushBuffered(e)
        PROVE  ClearChecked'
    <2>1. UNCHANGED <<life, listed, clear, fresh>>
      BY <1>1 DEF InsertRun, CommitRun, InsertTrade, CommitTrade, InsertEquity, CommitEquity, RecordTrade, SyncState,
                  OrphanRequest, SampleEquity, CloseStore, FlushBuffered, sessionVars, storeGhosts
    <2> QED
      BY <2>1 DEF ClearChecked
  <1>2. ASSUME NEW e \in Engines, RefuseEngine(e) \/ EngineFails(e) \/ TaskEnds(e) \/ CancelTask(e)
        PROVE  ClearChecked'
    <2>1. UNCHANGED <<listed, clear, fresh>> /\ \A f \in Engines : life'[f] = "running" => life[f] = "running"
      BY <1>0, <1>2 DEF RefuseEngine, EngineFails, TaskEnds, CancelTask, sessionVars, storeGhosts
    <2> QED
      BY <2>1 DEF ClearChecked
  <1>3. ASSUME NEW e \in Engines, StartOne(e)
        PROVE  ClearChecked'
    BY <1>0, <1>3 DEF StartOne, ClearChecked
  <1>4. ASSUME NEW e \in Engines, Disconnect(e)
        PROVE  ClearChecked'
    BY <1>0, <1>4 DEF Disconnect, sessionVars, storeGhosts, ClearChecked
  <1>5. CASE StartSession \/ CheckStopped
    <2>1. \A e \in Engines : life[e] # "running" /\ life'[e] = life[e]
      BY <1>5 DEF StartSession, CheckStopped, IsRunning, engineVars, ClearChecked
    <2> QED
      BY <2>1 DEF ClearChecked
  <1>6. CASE StoreCrash
    BY <1>6 DEF StoreCrash, ClearChecked
  <1>7. CASE StopSession \/ RecordObservation \/ InsertObservation \/ CommitObservation \/ RefuseObservation
    BY <1>7 DEF StopSession, RecordObservation, InsertObservation, CommitObservation, RefuseObservation, notWriter,
                engineVars, sessionVars, storeGhosts, ClearChecked
  <1>8. CASE SelectRuns \/ DeleteRuns \/ CommitClear \/ RefuseClear
    BY <1>8 DEF SelectRuns, DeleteRuns, CommitClear, RefuseClear, notWriter, engineVars, sessionVars, storeGhosts, ClearChecked
  <1> QED
    BY <1>1, <1>2, <1>3, <1>4, <1>5, <1>6, <1>7, <1>8, TaskFact DEF StoreNext, EngineStep

\* A clear deletes the run of a running engine only if the engine was started after the
\* clear's check (api/management.py:264).
THEOREM RunsAreSpared == StoreSpec => ClearSparesRunning
  <1>1. StoreInit => ClearChecked
    BY DEF StoreInit, ClearChecked
  <1>2. Types /\ ClearChecked /\ [StoreNext]_storeVars => ClearChecked'
    <2>1. ClearChecked /\ UNCHANGED storeVars => ClearChecked'
      BY DEF storeVars, ClearChecked
    <2> QED
      BY <2>1, ClearCheckedStep
  <1>3. Types /\ [StoreNext]_storeVars => Types'
    BY TypesStep, TypesStutter
  <1>4. ASSUME ClearChecked, StoreNext, NEW e \in Engines, runId[e] \in runs \ runs', life[e] = "running"
        PROVE  e \in fresh
    <2>1. ~ UNCHANGED fileVars /\ ~ \E f \in Engines : Commit(f)
      BY <1>4 DEF fileVars, Commit
    <2>2. CommitClear
      BY <1>4, <2>1, FileSteps
    <2> QED
      BY <1>4, <2>2 DEF CommitClear, ClearChecked
  <1>5. ClearChecked /\ [StoreNext]_storeVars
        => [\A e \in Engines : runId[e] \in runs \ runs' /\ life[e] = "running" => e \in fresh]_storeVars
    BY <1>4
  <1> QED
    BY <1>1, <1>2, <1>3, <1>5, TypesInit, PTL DEF StoreSpec, ClearSparesRunning

-----------------------------------------------------------------------------
(* Ids of runs                                                             *)

\* An id is given once: the committed ids go up to seq, an uncommitted one follows.
IdsGivenOnce ==
  /\ runs \subseteq 1..seq
  /\ \A e \in Engines : runId[e] \in 0..seq /\ dirty[e].run \in {0, seq + 1}
  /\ \A e, f \in Engines : runId[e] = runId[f] /\ runId[e] # 0 => e = f

\* What a commit makes durable.
LEMMA CommitFact ==
  ASSUME Types, IdsGivenOnce, NEW e \in Engines, Commit(e)
  PROVE  /\ seq \in Nat /\ seq' \in {seq, seq + 1} /\ (dirty[e].run # 0 => seq' = seq + 1 /\ dirty[e].run = seq + 1)
         /\ dirty[e].run = 0 => seq' = seq /\ runs' = runs
         /\ runs \subseteq runs' /\ runs' \subseteq runs \cup {dirty[e].run} /\ runs' \subseteq 1..seq'
         /\ dirty'[e] = Clean /\ \A f \in Engines : f # e => dirty'[f] = dirty[f]
         /\ dirty[e].run # 0 => \A f \in Engines : f # e => dirty[f].run = 0
  <1>1. seq \in Nat /\ dirty[e].run \in {0, seq + 1}
    <2>1. seq \in Nat
      BY NumbersFact DEF Types, FileTypes
    <2> QED
      BY <2>1 DEF IdsGivenOnce
  <1>2. /\ runs' = IF dirty[e].run = 0 THEN runs ELSE runs \cup {dirty[e].run}
        /\ seq' = IF dirty[e].run = 0 THEN seq ELSE dirty[e].run
        /\ dirty' = [dirty EXCEPT ![e] = Clean]
    BY DEF Commit
  <1>3. runs \subseteq 1..seq
    BY DEF IdsGivenOnce
  <1>4. dirty'[e] = Clean /\ \A f \in Engines : f # e => dirty'[f] = dirty[f]
    BY <1>2 DEF Types, Locked
  <1>5. dirty[e].run # 0 => \A f \in Engines : f # e => dirty[f].run = 0
    <2>1. dirty[e].run # 0 => writer = e
      BY CleanFact DEF Types, Locked
    <2> QED
      BY <2>1, CleanFact DEF Types, Locked
  <1>6. CASE dirty[e].run = 0
    BY <1>1, <1>2, <1>3, <1>4, <1>6
  <1>7. CASE dirty[e].run # 0
    <2>1. dirty[e].run = seq + 1 /\ seq' = seq + 1 /\ runs' = runs \cup {seq + 1}
      BY <1>1, <1>2, <1>7
    <2>2. 1..seq \subseteq 1..(seq + 1) /\ seq + 1 \in 1..(seq + 1)
      BY <1>1
    <2>3. runs' \subseteq 1..seq'
      BY <1>3, <2>1, <2>2
    <2> QED
      BY <1>1, <1>4, <1>5, <1>7, <2>1, <2>3
  <1> QED
    BY <1>6, <1>7

LEMMA CommitGivesOnce ==
  ASSUME Types, IdsGivenOnce, NEW e \in Engines, Commit(e),
         \A f \in Engines : runId'[f] = IF f = e /\ runId'[e] # runId[e] THEN dirty[e].run ELSE runId[f]
  PROVE  IdsGivenOnce'
  <1>1. /\ seq \in Nat /\ seq' \in {seq, seq + 1} /\ (dirty[e].run # 0 => seq' = seq + 1 /\ dirty[e].run = seq + 1)
        /\ runs' \subseteq 1..seq' /\ dirty'[e] = Clean
        /\ \A f \in Engines : f # e => dirty'[f] = dirty[f]
        /\ dirty[e].run # 0 => \A f \in Engines : f # e => dirty[f].run = 0
        /\ dirty[e].run = 0 => seq' = seq
    BY CommitFact
  <1>2. \A f \in Engines : runId[f] \in 0..seq /\ dirty[f].run \in {0, seq + 1}
    BY DEF IdsGivenOnce
  <1>3. \A f \in Engines : runId'[f] \in 0..seq'
    BY <1>1, <1>2
  <1>4. \A f \in Engines : dirty'[f].run \in {0, seq' + 1}
    BY <1>1, <1>2, CleanFact
  <1>5. ASSUME NEW f \in Engines, NEW g \in Engines, runId'[f] = runId'[g], runId'[f] # 0
        PROVE  f = g
    BY <1>1, <1>2, <1>5 DEF IdsGivenOnce
  <1> QED
    BY <1>1, <1>3, <1>4, <1>5 DEF IdsGivenOnce

\* Steps that give no id to an engine.
LEMMA InsertGivesOnce ==
  ASSUME Types, IdsGivenOnce, NEW e \in Engines, NEW s \in {"run", "trade", "equity"}, s = "run" => NewRunId \in RunIds,
         dirty' = [dirty EXCEPT ![e] = Inserted(@, s)], UNCHANGED <<runs, seq, runId>>
  PROVE  IdsGivenOnce'
  <1>1. dirty[e] \in Rows /\ dirty[e].run \in {0, seq + 1}
    BY DEF Types, Locked, IdsGivenOnce
  <1>2. Inserted(dirty[e], s).run \in {0, seq + 1}
    BY <1>1, InsertedFact DEF NewRunId
  <1>3. \A f \in Engines : dirty'[f] = IF f = e THEN Inserted(dirty[e], s) ELSE dirty[f]
    BY DEF Types, Locked
  <1> QED
    BY <1>2, <1>3 DEF IdsGivenOnce

LEMMA IdsStep ==
  ASSUME Types, IdsGivenOnce, StoreNext
  PROVE  IdsGivenOnce'
  <1>0. DOMAIN runId = Engines
    BY DEF Types, EnginesSound, OfEngines
  <1>1. ASSUME NEW e \in Engines, NEW t \in Tasks, InsertRun(e, t) \/ InsertTrade(e, t) \/ InsertEquity(e, t)
        PROVE  IdsGivenOnce'
    <2>1. \E s \in {"run", "trade", "equity"} :
            (s = "run" => NewRunId \in RunIds) /\ dirty' = [dirty EXCEPT ![e] = Inserted(@, s)]
      BY <1>1 DEF InsertRun, InsertTrade, InsertEquity
    <2>2. UNCHANGED <<runs, seq, runId>>
      BY <1>1 DEF InsertRun, InsertTrade, InsertEquity, fileVars
    <2> QED
      BY <2>1, <2>2, InsertGivesOnce
  <1>2. ASSUME NEW e \in Engines, NEW t \in Tasks, CommitRun(e, t)
        PROVE  IdsGivenOnce'
    BY <1>0, <1>2, CommitGivesOnce DEF CommitRun
  <1>3. ASSUME NEW e \in Engines, NEW t \in Tasks, CommitTrade(e, t) \/ CommitEquity(e, t) \/ FlushBuffered(e)
        PROVE  IdsGivenOnce'
    <2>1. Commit(e) /\ UNCHANGED runId
      BY <1>3 DEF CommitTrade, CommitEquity, FlushBuffered
    <2> QED
      BY <2>1, CommitGivesOnce
  <1>4. ASSUME NEW e \in Engines, OrphanRequest(e)
        PROVE  IdsGivenOnce'
    <2>1. UNCHANGED runId
      BY <1>4 DEF OrphanRequest
    <2>2. CASE Commit(e)
      BY <2>1, <2>2, CommitGivesOnce
    <2>3. CASE ~ Commit(e)
      <3>1. \E s \in {"run", "trade", "equity"} :
              (s = "run" => NewRunId \in RunIds) /\ dirty' = [dirty EXCEPT ![e] = Inserted(@, s)]
        BY <1>4, <2>3 DEF OrphanRequest
      <3>2. UNCHANGED <<runs, seq>>
        BY <1>4, <2>3 DEF OrphanRequest, fileVars
      <3> QED
        BY <2>1, <3>1, <3>2, InsertGivesOnce
    <2> QED
      BY <2>2, <2>3
  <1>5. ASSUME NEW e \in Engines, Disconnect(e)
        PROVE  IdsGivenOnce'
    <2>1. UNCHANGED <<runs, seq, runId>> /\ \A f \in Engines : dirty'[f] \in {Clean, dirty[f]}
      BY <1>5 DEF Disconnect, fileVars, Types, Locked
    <2> QED
      BY <2>1, CleanFact DEF IdsGivenOnce
  <1>6. CASE StoreCrash
    BY <1>6, CleanFact DEF StoreCrash, fileVars, IdsGivenOnce
  <1>7. CASE CommitClear
    BY <1>7 DEF CommitClear, engineVars, IdsGivenOnce
  <1>8. ASSUME NEW e \in Engines, NEW t \in Tasks,
               \/ RecordTrade(e, t) \/ SyncState(e, t) \/ RefuseEngine(e) \/ SampleEquity(e) \/ EngineFails(e)
               \/ StartOne(e) \/ TaskEnds(e) \/ CancelTask(e) \/ CloseStore(e)
        PROVE  IdsGivenOnce'
    <2>1. UNCHANGED <<runs, seq, runId, dirty>>
      BY <1>8 DEF RecordTrade, SyncState, RefuseEngine, SampleEquity, EngineFails, StartOne, TaskEnds, CancelTask,
                  CloseStore, fileVars
    <2> QED
      BY <2>1 DEF IdsGivenOnce
  <1>9. CASE \/ StartSession \/ StopSession
             \/ RecordObservation \/ InsertObservation \/ CommitObservation \/ RefuseObservation
             \/ CheckStopped \/ SelectRuns \/ DeleteRuns \/ RefuseClear
    <2>1. UNCHANGED <<runs, seq, runId, dirty>>
      BY <1>9 DEF StartSession, StopSession, RecordObservation, InsertObservation, CommitObservation, RefuseObservation,
                  CheckStopped, SelectRuns, DeleteRuns, RefuseClear, notWriter, engineVars, fileVars
    <2> QED
      BY <2>1 DEF IdsGivenOnce
  <1> QED
    BY <1>1, <1>2, <1>3, <1>4, <1>5, <1>6, <1>7, <1>8, <1>9, TaskFact DEF StoreNext, EngineStep

LEMMA IdsInit == StoreInit => IdsGivenOnce
  BY CleanFact DEF StoreInit, IdsGivenOnce

-----------------------------------------------------------------------------
(* Returned trades are in the file                                         *)

\* Trades of e that were inserted and whose commit was asked for.
OneIf(s) == IF s = "tradeCommit" THEN 1 ELSE 0
Due(p) == OneIf(p["bar"]) + OneIf(p["kill"])

\* While its run is there, every trade of e that returned is in the file, and every one
\* that is due is there or in the open transaction.
TradesKept ==
  \A e \in Engines : runId[e] \in runs =>
    /\ returned[e] <= trades[runId[e]]
    /\ returned[e] + Due(pc[e]) <= trades[runId[e]] + dirty[e].trades

LEMMA KeptFact ==
  ASSUME Types, IdsGivenOnce
  PROVE  /\ runs \subseteq RunIds /\ runs \subseteq Nat \ {0} /\ seq \in Nat
         /\ \A e \in Engines : /\ returned[e] \in Nat /\ Due(pc[e]) \in {0, 1, 2} /\ dirty[e].trades \in Nat
                               /\ runId[e] \in runs => trades[runId[e]] \in Nat /\ runId[e] # 0
  <1>1. runs \subseteq RunIds /\ seq \in Nat /\ \A r \in RunIds : trades[r] \in Nat
    BY NumbersFact DEF Types, FileTypes
  <1>2. \A e \in Engines : returned[e] \in Nat /\ dirty[e].trades \in Nat
    BY DEF Types, EnginesSound, Sound, Locked, Rows
  <1>3. \A e \in Engines : Due(pc[e]) \in {0, 1, 2}
    BY DEF Due, OneIf
  <1> QED
    BY <1>1, <1>2, <1>3, NumbersFact

\* Fewer trades are due, and nothing else is lost.
LEMMA KeptQuiet ==
  ASSUME Types, IdsGivenOnce, TradesKept, UNCHANGED <<runs, trades, runId, returned>>,
         \A e \in Engines : dirty'[e].trades \in Nat /\ dirty'[e].trades >= dirty[e].trades
                            /\ \A t \in Tasks : pc'[e][t] = "tradeCommit" => pc[e][t] = "tradeCommit"
  PROVE  TradesKept'
  <1>1. \A e \in Engines : Due(pc'[e]) \in {0, 1, 2} /\ Due(pc'[e]) <= Due(pc[e])
    BY TaskFact DEF Due, OneIf
  <1> QED
    BY <1>1, KeptFact DEF TradesKept

\* A commit: the trades of the open transaction go to the run of e.
LEMMA KeptCommit ==
  ASSUME Types, IdsGivenOnce, TradesKept, NEW e \in Engines, Commit(e), UNCHANGED runId,
         NEW d \in {0, 1}, NEW m \in Nat,
         returned[e] + d + m <= returned[e] + Due(pc[e]), Due(pc'[e]) = m,
         \A f \in Engines : /\ returned'[f] = IF f = e THEN returned[e] + d ELSE returned[f]
                            /\ f # e => pc'[f] = pc[f]
  PROVE  TradesKept'
  <1>1. \A f \in Engines : runId[f] \in runs' => runId[f] \in runs
    <2>1. runs' \subseteq runs \cup {dirty[e].run} /\ (dirty[e].run # 0 => dirty[e].run = seq + 1) /\ (dirty[e].run = 0 => runs' = runs)
      BY CommitFact
    <2>2. seq \in Nat /\ \A f \in Engines : runId[f] \in 0..seq
      BY KeptFact DEF IdsGivenOnce
    <2> QED
      BY <2>1, <2>2
  <1>2. \A f \in Engines : f # e => dirty'[f] = dirty[f]
    BY CommitFact
  <1>3. dirty'[e].trades = 0
    BY CommitFact, CleanFact
  <1>4. trades' = IF runId[e] = 0 THEN trades ELSE [trades EXCEPT ![runId[e]] = @ + dirty[e].trades]
    BY DEF Commit
  <1>5. trades \in [RunIds -> Nat]
    BY DEF Types, FileTypes
  <1>6. ASSUME NEW f \in Engines, runId'[f] \in runs'
        PROVE  returned'[f] <= trades'[runId'[f]] /\ returned'[f] + Due(pc'[f]) <= trades'[runId'[f]] + dirty'[f].trades
    <2>1. /\ runId'[f] = runId[f] /\ runId[f] \in runs /\ runId[f] \in RunIds /\ runId[f] # 0
      BY <1>1, <1>6, KeptFact
    <2>2. /\ returned[f] <= trades[runId[f]]
          /\ returned[f] + Due(pc[f]) <= trades[runId[f]] + dirty[f].trades
      BY <2>1 DEF TradesKept
    <2>3. /\ returned[f] \in Nat /\ trades[runId[f]] \in Nat /\ Due(pc[f]) \in {0, 1, 2} /\ dirty[f].trades \in Nat
      BY <2>1, KeptFact
    <2>4. CASE f = e
      <3>1. trades'[runId[e]] = trades[runId[e]] + dirty[e].trades
        BY <1>4, <1>5, <2>1, <2>4
      <3>2. returned'[e] = returned[e] + d
        BY <2>4
      <3> QED
        BY <1>3, <2>1, <2>2, <2>3, <2>4, <3>1, <3>2
    <2>5. CASE f # e
      <3>1. runId[f] # runId[e]
        BY <2>1, <2>5 DEF IdsGivenOnce
      <3>2. trades'[runId[f]] = trades[runId[f]]
        BY <1>4, <1>5, <2>1, <3>1
      <3>3. returned'[f] = returned[f] /\ pc'[f] = pc[f] /\ dirty'[f] = dirty[f]
        BY <1>2, <2>5
      <3> QED
        BY <2>1, <2>2, <3>2, <3>3
    <2> QED
      BY <2>4, <2>5
  <1> QED
    BY <1>6 DEF TradesKept

LEMMA TradesKeptStep ==
  ASSUME Types, IdsGivenOnce, TradesKept, StoreNext
  PROVE  TradesKept'
  <1>0. EnginesSound /\ \A e \in Engines : Sound(life[e], runId[e], pending[e], pc[e], queue[e], returned[e])
    BY DEF Types, EnginesSound
  <1>a. /\ DOMAIN pc = Engines /\ DOMAIN runId = Engines /\ DOMAIN returned = Engines
        /\ \A e \in Engines : DOMAIN pc[e] = Tasks
        /\ dirty \in [Engines -> Rows] /\ \A e \in Engines : dirty[e].trades \in Nat
    BY <1>0 DEF EnginesSound, OfEngines, Sound, Types, Locked, Rows
  <1>b. Types'
    BY TypesStep
  <1>1. ASSUME NEW e \in Engines, NEW t \in Tasks, InsertTrade(e, t)
        PROVE  TradesKept'
    <2>1. pc[e][t] = "trade"
      BY <1>0, <1>1, ServesFact DEF InsertTrade
    <2>2. /\ UNCHANGED <<runs, trades, runId, returned>>
          /\ \A f \in Engines : f # e => pc'[f] = pc[f] /\ dirty'[f] = dirty[f]
      BY <1>a, <1>1 DEF InsertTrade, fileVars, storeGhosts
    <2>3. dirty'[e].trades = dirty[e].trades + 1
      BY <1>a, <1>1, InsertedFact DEF InsertTrade
    <2>4. pc'[e] = [pc[e] EXCEPT ![t] = "tradeCommit"]
      BY <1>a, <1>1 DEF InsertTrade
    <2>5. Due(pc'[e]) = Due(pc[e]) + 1
      <3>1. CASE t = "bar"
        BY <1>a, <2>1, <2>4, <3>1, TaskFact DEF Due, OneIf
      <3>2. CASE t = "kill"
        BY <1>a, <2>1, <2>4, <3>2, TaskFact DEF Due, OneIf
      <3> QED
        BY <3>1, <3>2, TaskFact
    <2> QED
      BY <2>2, <2>3, <2>5, KeptFact DEF TradesKept
  <1>2. ASSUME NEW e \in Engines, NEW t \in Tasks, CommitTrade(e, t)
        PROVE  TradesKept'
    <2>1. pc[e][t] = "tradeCommit"
      BY <1>0, <1>2, ServesFact DEF CommitTrade
    <2>2. /\ Commit(e) /\ UNCHANGED runId
          /\ \A f \in Engines : f # e => pc'[f] = pc[f] /\ returned'[f] = returned[f]
          /\ returned'[e] = returned[e] + 1 /\ pc'[e] = [pc[e] EXCEPT ![t] = "sync"]
      BY <1>a, <1>2 DEF CommitTrade
    <2>3. Due(pc'[e]) \in Nat /\ Due(pc[e]) = Due(pc'[e]) + 1
      <3>1. CASE t = "bar"
        BY <1>a, <2>1, <2>2, <3>1, TaskFact DEF Due, OneIf
      <3>2. CASE t = "kill"
        BY <1>a, <2>1, <2>2, <3>2, TaskFact DEF Due, OneIf
      <3> QED
        BY <3>1, <3>2, TaskFact
    <2>4. returned[e] + 1 + Due(pc'[e]) <= returned[e] + Due(pc[e])
      BY <2>3, KeptFact
    <2>5. \A f \in Engines : /\ returned'[f] = IF f = e THEN returned[e] + 1 ELSE returned[f]
                             /\ f # e => pc'[f] = pc[f]
      BY <2>2
    <2> QED
      BY <2>2, <2>3, <2>4, <2>5, KeptCommit
  <1>3. ASSUME NEW e \in Engines, Commit(e), UNCHANGED <<runId, returned>>,
               \A f \in Engines : f # e => pc'[f] = pc[f],
               \A t \in Tasks : pc'[e][t] = "tradeCommit" => pc[e][t] = "tradeCommit"
        PROVE  TradesKept'
    <2>1. Due(pc'[e]) \in Nat /\ Due(pc'[e]) <= Due(pc[e])
      BY <1>3, TaskFact DEF Due, OneIf
    <2>2. returned[e] + 0 + Due(pc'[e]) <= returned[e] + Due(pc[e])
      BY <2>1, KeptFact
    <2>3. \A f \in Engines : /\ returned'[f] = IF f = e THEN returned[e] + 0 ELSE returned[f]
                             /\ f # e => pc'[f] = pc[f]
      BY <1>3, KeptFact
    <2> QED
      BY <1>3, <2>1, <2>2, <2>3, KeptCommit
  <1>4. ASSUME NEW e \in Engines, NEW t \in Tasks, CommitEquity(e, t)
        PROVE  TradesKept'
    <2>1. /\ Commit(e) /\ UNCHANGED <<runId, returned>> /\ \A f \in Engines : f # e => pc'[f] = pc[f]
          /\ \A u \in Tasks : pc'[e][u] = "tradeCommit" => pc[e][u] = "tradeCommit"
      BY <1>a, <1>4 DEF CommitEquity, storeGhosts
    <2> QED
      BY <1>3, <2>1
  <1>5. ASSUME NEW e \in Engines, FlushBuffered(e)
        PROVE  TradesKept'
    <2>1. Commit(e) /\ UNCHANGED <<runId, pc, returned>>
      BY <1>5 DEF FlushBuffered, storeGhosts
    <2> QED
      BY <1>3, <2>1
  <1>6. ASSUME NEW e \in Engines, OrphanRequest(e)
        PROVE  TradesKept'
    <2>1. UNCHANGED <<runId, pc, returned>>
      BY <1>6 DEF OrphanRequest, storeGhosts
    <2>2. CASE Commit(e)
      BY <1>3, <2>1, <2>2
    <2>3. CASE ~ Commit(e)
      <3>1. \E s \in {"run", "trade", "equity"} :
              (s = "run" => NewRunId \in RunIds) /\ dirty' = [dirty EXCEPT ![e] = Inserted(@, s)]
        BY <1>6, <2>3 DEF OrphanRequest
      <3>2. UNCHANGED <<runs, trades>>
        BY <1>6, <2>3 DEF OrphanRequest, fileVars
      <3>3. \A f \in Engines : dirty'[f].trades \in Nat /\ dirty'[f].trades >= dirty[f].trades
        BY <1>a, <3>1, InsertedFact
      <3> QED
        BY <2>1, <3>2, <3>3, KeptQuiet
    <2> QED
      BY <2>2, <2>3
  <1>7. ASSUME NEW e \in Engines, NEW t \in Tasks, CommitRun(e, t)
        PROVE  TradesKept'
    <2>1. pc[e][t] = "runCommit"
      BY <1>0, <1>7, ServesFact DEF CommitRun
    <2>2. /\ Commit(e) /\ runId' = [runId EXCEPT ![e] = dirty[e].run] /\ UNCHANGED returned
          /\ pc' = [pc EXCEPT ![e][t] = "idle"]
      BY <1>7 DEF CommitRun, storeGhosts
    <2>3. runId[e] = 0 /\ returned[e] = 0 /\ \A u \in Tasks : pc[e][u] # "tradeCommit"
      BY <1>0, <2>1 DEF Sound
    <2>4. Due(pc'[e]) = 0
      BY <1>a, <2>2, <2>3, TaskFact DEF Due, OneIf
    <2>5. trades' = trades /\ \A r \in RunIds : trades[r] \in Nat
      BY <2>2, <2>3 DEF Commit, Types, FileTypes
    <2>6. dirty'[e] = Clean /\ \A f \in Engines : f # e => dirty'[f] = dirty[f]
      BY <2>2, CommitFact
    <2>7. runs' \subseteq RunIds /\ runs' \subseteq runs \cup {dirty[e].run}
          /\ (dirty[e].run # 0 => dirty[e].run = seq + 1) /\ (dirty[e].run = 0 => runs' = runs)
      BY <1>b, <2>2, CommitFact DEF Types, FileTypes
    <2>8. ASSUME NEW f \in Engines, runId'[f] \in runs'
          PROVE  returned'[f] <= trades'[runId'[f]] /\ returned'[f] + Due(pc'[f]) <= trades'[runId'[f]] + dirty'[f].trades
      <3>1. CASE f = e
        BY <2>2, <2>3, <2>4, <2>5, <2>6, <2>7, <2>8, <3>1, CleanFact
      <3>2. CASE f # e
        <4>1. runId'[f] = runId[f] /\ pc'[f] = pc[f] /\ dirty'[f] = dirty[f] /\ runId[f] \in 0..seq /\ seq \in Nat
          BY <1>a, <2>2, <2>6, <3>2, KeptFact DEF IdsGivenOnce
        <4>2. runId[f] \in runs
          BY <2>7, <2>8, <4>1
        <4> QED
          BY <2>2, <2>5, <4>1, <4>2 DEF TradesKept
      <3> QED
        BY <3>1, <3>2
    <2> QED
      BY <2>8 DEF TradesKept
  <1>8. ASSUME NEW e \in Engines, Disconnect(e)
        PROVE  TradesKept'
    <2>1. /\ UNCHANGED <<runs, trades, runId, returned>>
          /\ \A f \in Engines : f # e => pc'[f] = pc[f] /\ dirty'[f] = dirty[f]
          /\ dirty'[e] = Clean /\ pc'[e] = [t \in Tasks |-> "idle"]
      BY <1>a, <1>8 DEF Disconnect, fileVars, storeGhosts
    <2>2. Due(pc'[e]) = 0
      BY <2>1, TaskFact DEF Due, OneIf
    <2> QED
      BY <2>1, <2>2, KeptFact, CleanFact DEF TradesKept
  <1>9. CASE StoreCrash
    <2>1. /\ UNCHANGED <<runs, trades, runId, returned>>
          /\ \A f \in Engines : dirty'[f] = Clean /\ pc'[f] = [t \in Tasks |-> "idle"]
      BY <1>9 DEF StoreCrash, fileVars
    <2>2. \A f \in Engines : Due(pc'[f]) = 0
      BY <2>1, TaskFact DEF Due, OneIf
    <2> QED
      BY <2>1, <2>2, KeptFact, CleanFact DEF TradesKept
  <1>10. CASE CommitClear
    <2>1. /\ UNCHANGED <<dirty, runId, pc, returned>> /\ runs' = runs \ doomed
          /\ trades' = [r \in RunIds |-> IF r \in doomed THEN 0 ELSE trades[r]]
      BY <1>10 DEF CommitClear, engineVars
    <2>2. \A e \in Engines : runId[e] \in runs' => runId[e] \in runs /\ trades'[runId[e]] = trades[runId[e]]
      BY <2>1, KeptFact
    <2> QED
      BY <2>1, <2>2 DEF TradesKept
  <1>11. ASSUME NEW e \in Engines, NEW t \in Tasks, InsertRun(e, t) \/ InsertEquity(e, t)
         PROVE  TradesKept'
    <2>1. \E s \in {"run", "equity"} :
            (s = "run" => NewRunId \in RunIds) /\ dirty' = [dirty EXCEPT ![e] = Inserted(@, s)]
      BY <1>11 DEF InsertRun, InsertEquity
    <2>2. \A f \in Engines : dirty'[f].trades \in Nat /\ dirty'[f].trades >= dirty[f].trades
      BY <1>a, <2>1, InsertedFact
    <2>3. /\ UNCHANGED <<runs, trades, runId, returned>>
          /\ \A f \in Engines, u \in Tasks : pc'[f][u] = "tradeCommit" => pc[f][u] = "tradeCommit"
      BY <1>a, <1>11 DEF InsertRun, InsertEquity, fileVars, storeGhosts
    <2> QED
      BY <2>2, <2>3, KeptQuiet
  <1>12. ASSUME NEW e \in Engines, NEW t \in Tasks,
                \/ RecordTrade(e, t) \/ SyncState(e, t) \/ SampleEquity(e) \/ EngineFails(e) \/ RefuseEngine(e)
                \/ StartOne(e) \/ TaskEnds(e) \/ CancelTask(e) \/ CloseStore(e)
         PROVE  TradesKept'
    <2>1. UNCHANGED <<runs, trades, runId, returned, dirty>>
      BY <1>12 DEF RecordTrade, SyncState, SampleEquity, EngineFails, RefuseEngine, StartOne, TaskEnds, CancelTask,
                   CloseStore, fileVars, storeGhosts
    <2>2. \A f \in Engines, u \in Tasks : pc'[f][u] = "tradeCommit" => pc[f][u] = "tradeCommit"
      BY <1>a, <1>12 DEF RecordTrade, SyncState, SampleEquity, Ask, EngineFails, RefuseEngine, StartOne, TaskEnds,
                         CancelTask, CloseStore
    <2> QED
      BY <1>a, <2>1, <2>2, KeptQuiet
  <1>13. CASE \/ StartSession \/ StopSession
              \/ RecordObservation \/ InsertObservation \/ CommitObservation \/ RefuseObservation
              \/ CheckStopped \/ SelectRuns \/ DeleteRuns \/ RefuseClear
    <2>1. UNCHANGED <<runs, trades, runId, returned, dirty, pc>>
      BY <1>13 DEF StartSession, StopSession, RecordObservation, InsertObservation, CommitObservation, RefuseObservation,
                   CheckStopped, SelectRuns, DeleteRuns, RefuseClear, notWriter, engineVars, fileVars, storeGhosts
    <2> QED
      BY <2>1 DEF TradesKept
  <1> QED
    BY <1>1, <1>2, <1>4, <1>5, <1>6, <1>7, <1>8, <1>9, <1>10, <1>11, <1>12, <1>13, TaskFact DEF StoreNext, EngineStep

\* A trade whose record_trade returned is in the file, under the id of its engine and of no
\* other, until its run is cleared: through crashes, refused writes, cancelled tasks and
\* cleared ids (database.py:125).
THEOREM TradesAreKept == StoreSpec => []ReturnedTradesStored
  <1>1. StoreInit => TradesKept
    BY DEF StoreInit, TradesKept
  <1>2. Types /\ IdsGivenOnce /\ TradesKept /\ [StoreNext]_storeVars => IdsGivenOnce' /\ TradesKept'
    <2>1. IdsGivenOnce /\ TradesKept /\ UNCHANGED storeVars => IdsGivenOnce' /\ TradesKept'
      BY DEF storeVars, IdsGivenOnce, TradesKept
    <2> QED
      BY <2>1, IdsStep, TradesKeptStep
  <1>3. Types /\ [StoreNext]_storeVars => Types'
    BY TypesStep, TypesStutter
  <1>4. Types /\ IdsGivenOnce /\ TradesKept => ReturnedTradesStored
    BY KeptFact DEF IdsGivenOnce, TradesKept, ReturnedTradesStored
  <1> QED
    BY <1>1, <1>2, <1>3, <1>4, TypesInit, IdsInit, PTL DEF StoreSpec

-----------------------------------------------------------------------------
(* Who waits in a queue                                                    *)

\* The request of a cancelled bar task keeps its place.
Slot(x) == IF x = Nobody THEN "bar" ELSE x

\* What an engine's life l, tasks p and queue q owe to each other and to g, that stop() waits
\* for the engine: a bar task that ended waits for nothing, stop() alone cancels one, and each of
\* the two tasks has at most one request, cancelled or not.
Orderly(l, p, q, g) ==
  /\ l # "running" => p["bar"] = "idle"
  /\ l = "closed" => q = <<>> /\ p["kill"] = "idle"
  /\ \A i \in 1..Len(q) : /\ q[i][1] = Nobody => l # "running" /\ g
                          /\ q[i][1] # "stop" <=> q[i][2] \in Waits
  /\ \A i, j \in 1..Len(q) : q[i][1] # "stop" /\ Slot(q[i][1]) = Slot(q[j][1]) => i = j

Stopping(e) == session = "stopping" /\ e \in listed

-----------------------------------------------------------------------------
(* Samples in the open transaction                                         *)

Commits == {"runCommit", "tradeCommit", "equityCommit"}
AwaitsCommit(q) == \E i \in 1..Len(q) : q[i][2] \in Commits

\* A cancelled request that was executed wrote a sample that nobody counted.
Uncounted(l, q, g) == IF l # "running" /\ g /\ \A i \in 1..Len(q) : q[i][1] # Nobody THEN 1 ELSE 0

\* The uncommitted rows d beside the counter n: while no commit is on its way they are samples,
\* counted but for one; one that is on its way may be overtaken by one sample more.
Measured(l, n, q, d, g) ==
  /\ l = "closed" => d = Clean
  /\ ~ AwaitsCommit(q) => /\ d.equity <= n + Uncounted(l, q, g)
                          /\ (d.run = 0 /\ d.trades = 0) \/ (l # "running" /\ g)
  /\ \A i \in 1..Len(q) : q[i][2] \in Commits =>
       /\ d.equity <= Batch + 1
       /\ \A j \in 1..(i - 1) : q[j][2] = "equity" => d.equity <= Batch

\* The connection that holds the lock has something to commit.
LockHasRows == \A e \in Engines : writer = e => dirty[e] # Clean

LEMMA WaitsFact ==
  /\ Commits \subseteq Waits /\ "run" \notin Commits /\ "trade" \notin Commits /\ "equity" \notin Commits
  /\ {"run", "trade", "equity"} \subseteq Waits /\ "flush" \notin Waits /\ "close" \notin Waits
  /\ Nobody # "stop" /\ Slot("bar") = "bar" /\ Slot("kill") = "kill" /\ Slot("stop") = "stop" /\ Slot(Nobody) = "bar"
  BY DEF Commits, Waits, Nobody, Slot

\* The first request leaves the queue.
LEMMA OrderlyTail ==
  ASSUME NEW l, NEW p, NEW q \in Seq(Requests), q # <<>>, NEW g, Orderly(l, p, q, g),
         NEW m, NEW r, m # "closed", m = "running" => l = "running", m # "running" => r["bar"] = "idle"
  PROVE  Orderly(m, r, Tail(q), g)
  <1>1. /\ Len(q) \in Nat \ {0} /\ Len(Tail(q)) \in Nat
        /\ \A i \in 1..Len(Tail(q)) : i \in Nat \ {0} /\ i + 1 \in 1..Len(q) /\ Tail(q)[i] = q[i + 1]
    BY TailFact
  <1>2. \A i \in 1..Len(Tail(q)) : /\ Tail(q)[i][1] = Nobody => m # "running" /\ g
                                   /\ Tail(q)[i][1] # "stop" <=> Tail(q)[i][2] \in Waits
    BY <1>1 DEF Orderly
  <1>3. ASSUME NEW i \in 1..Len(Tail(q)), NEW j \in 1..Len(Tail(q)),
               Tail(q)[i][1] # "stop", Slot(Tail(q)[i][1]) = Slot(Tail(q)[j][1])
        PROVE  i = j
    <2>1. i + 1 = j + 1
      BY <1>1, <1>3 DEF Orderly
    <2> QED
      BY <1>1, <2>1
  <1> QED
    BY <1>2, <1>3 DEF Orderly

\* A request x comes last: of a task that had none, or of stop().
LEMMA OrderlyAppend ==
  ASSUME NEW l, NEW p, NEW q \in Seq(Requests), NEW g, Orderly(l, p, q, g), NEW x \in Requests,
         x[1] # Nobody, x[1] # "stop" <=> x[2] \in Waits,
         x[1] # "stop" => \A i \in 1..Len(q) : Slot(q[i][1]) # Slot(x[1]),
         NEW m, NEW r, m # "closed", m # "running" => r["bar"] = "idle",
         m = "running" => l = "running" \/ q = <<>>
  PROVE  Orderly(m, r, Append(q, x), g)
  <1>1. /\ Len(q) \in Nat /\ Len(Append(q, x)) = Len(q) + 1 /\ Append(q, x)[Len(q) + 1] = x
        /\ \A i \in 1..Len(q) : Append(q, x)[i] = q[i]
    BY AppendFact
  <1>2. \A i \in 1..Len(Append(q, x)) : i \in 1..Len(q) \/ i = Len(q) + 1
    BY <1>1
  <1>3. \A i \in 1..Len(q) : q[i][1] = Nobody => m # "running" /\ g
    BY DEF Orderly
  <1>4. \A i \in 1..Len(Append(q, x)) : /\ Append(q, x)[i][1] = Nobody => m # "running" /\ g
                                        /\ Append(q, x)[i][1] # "stop" <=> Append(q, x)[i][2] \in Waits
    BY <1>1, <1>2, <1>3 DEF Orderly
  <1>5. ASSUME NEW i \in 1..Len(Append(q, x)), NEW j \in 1..Len(Append(q, x)),
               Append(q, x)[i][1] # "stop", Slot(Append(q, x)[i][1]) = Slot(Append(q, x)[j][1])
        PROVE  i = j
    <2>1. CASE i \in 1..Len(q) /\ j \in 1..Len(q)
      BY <1>1, <1>5, <2>1 DEF Orderly
    <2>2. CASE i \in 1..Len(q) /\ j = Len(q) + 1
      <3>1. Slot(x[1]) = Slot(q[i][1]) /\ q[i][1] # "stop"
        BY <1>1, <1>5, <2>2
      <3>2. x[1] # "stop"
        BY <3>1, RequestFact, TaskFact, WaitsFact DEF Slot
      <3> QED
        BY <2>2, <3>1, <3>2
    <2>3. CASE i = Len(q) + 1 /\ j \in 1..Len(q)
      BY <1>1, <1>5, <2>3
    <2>4. CASE i = Len(q) + 1 /\ j = Len(q) + 1
      BY <2>4
    <2> QED
      BY <1>2, <2>1, <2>2, <2>3, <2>4
  <1> QED
    BY <1>4, <1>5 DEF Orderly

\* stop() cancels the bar task.
LEMMA OrderlyCancel ==
  ASSUME NEW l, NEW p, NEW q \in Seq(Requests), NEW g, g, Orderly(l, p, q, g), NEW r, r["bar"] = "idle"
  PROVE  LET z == [i \in 1..Len(q) |-> IF q[i][1] = "bar" THEN <<Nobody, q[i][2]>> ELSE q[i]] IN
         Orderly("dead", r, z, g)
  <1> DEFINE z == [i \in 1..Len(q) |-> IF q[i][1] = "bar" THEN <<Nobody, q[i][2]>> ELSE q[i]]
  <1>1. Len(q) \in Nat /\ \A i \in 1..Len(q) : q[i] \in Requests
    OBVIOUS
  <1>2. Len(z) = Len(q)
    BY <1>1
  <1>3. \A i \in 1..Len(q) : z[i][2] = q[i][2] /\ Slot(z[i][1]) = Slot(q[i][1]) /\ (z[i][1] = "stop" <=> q[i][1] = "stop")
    BY <1>1, WaitsFact DEF Slot
  <1> HIDE DEF z
  <1>4. Orderly("dead", r, z, g)
    BY <1>2, <1>3 DEF Orderly
  <1> QED
    BY <1>4 DEF z

\* A task has no request in the queue, cancelled or not.
LEMMA NoRequest ==
  ASSUME NEW l, NEW p, NEW q \in Seq(Requests), NEW g, Orderly(l, p, q, g), Held(q, p),
         NEW t \in Tasks, p[t] \in {"idle", "sync"}, t = "bar" => l = "running" \/ q = <<>>
  PROVE  \A i \in 1..Len(q) : Slot(q[i][1]) # Slot(t)
  <1>1. \A i \in 1..Len(q) : q[i] \in Requests /\ q[i][1] # t
    BY DEF Held, Waits
  <1>2. \A i \in 1..Len(q) : t = "bar" => q[i][1] # Nobody
    BY DEF Orderly
  <1> QED
    BY <1>1, <1>2, RequestFact, TaskFact, WaitsFact DEF Slot

\* The task of the first request has no other one.
LEMMA OnlyRequest ==
  ASSUME NEW l, NEW p, NEW q \in Seq(Requests), q # <<>>, NEW g, Orderly(l, p, q, g), Head(q)[1] # "stop"
  PROVE  \A i \in 1..Len(Tail(q)) : Slot(Tail(q)[i][1]) # Slot(Head(q)[1])
  <1>1. /\ Len(q) \in Nat \ {0} /\ Head(q) = q[1] /\ 1 \in 1..Len(q)
        /\ \A i \in 1..Len(Tail(q)) : i \in Nat \ {0} /\ i + 1 \in 1..Len(q) /\ Tail(q)[i] = q[i + 1]
    BY TailFact
  <1>2. ASSUME NEW i \in 1..Len(Tail(q)), Slot(Tail(q)[i][1]) = Slot(Head(q)[1])
        PROVE  FALSE
    <2>1. i + 1 = 1
      BY <1>1, <1>2 DEF Orderly
    <2> QED
      BY <1>1, <2>1
  <1> QED
    BY <1>2

LEMMA UncountedFact ==
  \A l, q, g : Uncounted(l, q, g) \in {0, 1} /\ (l = "running" \/ ~ g => Uncounted(l, q, g) = 0)
  BY DEF Uncounted

\* Nothing is uncommitted.
LEMMA MeasuredClean ==
  ASSUME NEW l, NEW n \in Nat, NEW q, NEW g
  PROVE  Measured(l, n, q, Clean, g)
  <1>1. n + Uncounted(l, q, g) \in Nat
    BY UncountedFact
  <1> QED
    BY <1>1, CleanFact, NumbersFact DEF Measured

\* The life m of the engine and the stop h change, not the queue.
LEMMA MeasuredSame ==
  ASSUME NEW l, NEW n \in Nat, NEW q, NEW d \in Rows, NEW g, Measured(l, n, q, d, g),
         NEW m, NEW h, m = "closed" => l = "closed", l # "running" /\ g => m # "running" /\ h
  PROVE  Measured(m, n, q, d, h)
  <1>1. Uncounted(l, q, g) \in {0, 1} /\ Uncounted(m, q, h) \in {0, 1} /\ Uncounted(l, q, g) <= Uncounted(m, q, h)
    BY DEF Uncounted
  <1>2. d.equity \in Nat
    BY DEF Rows
  <1> QED
    BY <1>1, <1>2 DEF Measured

\* The first request, no commit, leaves without effect.
LEMMA MeasuredTail ==
  ASSUME NEW l, NEW n \in Nat, NEW q \in Seq(Requests), q # <<>>, NEW d \in Rows, NEW g, Measured(l, n, q, d, g),
         Head(q)[2] \notin Commits
  PROVE  Measured(l, n, Tail(q), d, g)
  <1>1. /\ Head(q) = q[1] /\ Len(q) \in Nat \ {0} /\ Len(Tail(q)) = Len(q) - 1
        /\ \A i \in 1..Len(Tail(q)) : i \in Nat \ {0} /\ i + 1 \in 1..Len(q) /\ Tail(q)[i] = q[i + 1]
    BY TailFact
  <1>2. ~ AwaitsCommit(Tail(q)) => ~ AwaitsCommit(q)
    <2>1. ASSUME NEW i \in 1..Len(q), q[i][2] \in Commits
          PROVE  \E j \in 1..Len(Tail(q)) : Tail(q)[j][2] \in Commits
      <3>1. i # 1
        BY <1>1, <2>1
      <3>2. i - 1 \in 1..Len(Tail(q)) /\ (i - 1) + 1 = i
        BY <1>1, <3>1
      <3> QED
        BY <1>1, <2>1, <3>2
    <2> QED
      BY <2>1 DEF AwaitsCommit
  <1>3. Uncounted(l, q, g) \in {0, 1} /\ Uncounted(l, Tail(q), g) \in {0, 1} /\ Uncounted(l, q, g) <= Uncounted(l, Tail(q), g)
    BY <1>1 DEF Uncounted
  <1>4. ASSUME NEW i \in 1..Len(Tail(q)), Tail(q)[i][2] \in Commits
        PROVE  d.equity <= Batch + 1 /\ \A j \in 1..(i - 1) : Tail(q)[j][2] = "equity" => d.equity <= Batch
    <2>1. i + 1 \in 1..Len(q) /\ q[i + 1][2] \in Commits
      BY <1>1, <1>4
    <2>2. \A j \in 1..(i - 1) : j + 1 \in 1..((i + 1) - 1) /\ Tail(q)[j] = q[j + 1]
      BY <1>1
    <2> QED
      BY <2>1, <2>2 DEF Measured
  <1>5. d.equity \in Nat
    BY DEF Rows
  <1> QED
    BY <1>2, <1>3, <1>4, <1>5 DEF Measured

\* A request x that is no commit comes last.
LEMMA MeasuredAppend ==
  ASSUME NEW l, NEW n \in Nat, NEW q \in Seq(Requests), NEW d \in Rows, NEW g, Measured(l, n, q, d, g),
         NEW x \in Requests, x[1] # Nobody, x[2] \notin Commits
  PROVE  Measured(l, n, Append(q, x), d, g)
  <1>1. /\ Len(q) \in Nat /\ Len(Append(q, x)) = Len(q) + 1 /\ Append(q, x)[Len(q) + 1] = x
        /\ \A i \in 1..Len(q) : Append(q, x)[i] = q[i]
    BY AppendFact
  <1>2. \A i \in 1..Len(q) : i \in 1..Len(Append(q, x))
    BY <1>1
  <1>3. \A i \in 1..Len(Append(q, x)) : i \in 1..Len(q) \/ i = Len(q) + 1
    BY <1>1
  <1>4. ~ AwaitsCommit(Append(q, x)) => ~ AwaitsCommit(q)
    BY <1>1, <1>2 DEF AwaitsCommit
  <1>5. Uncounted(l, Append(q, x), g) = Uncounted(l, q, g)
    BY <1>1, <1>2, <1>3 DEF Uncounted
  <1>6. ASSUME NEW i \in 1..Len(Append(q, x)), Append(q, x)[i][2] \in Commits
        PROVE  d.equity <= Batch + 1 /\ \A j \in 1..(i - 1) : Append(q, x)[j][2] = "equity" => d.equity <= Batch
    <2>1. i \in 1..Len(q) /\ q[i][2] \in Commits
      BY <1>1, <1>3, <1>6
    <2>2. \A j \in 1..(i - 1) : Append(q, x)[j] = q[j]
      BY <1>1, <2>1
    <2> QED
      BY <2>1, <2>2 DEF Measured
  <1> QED
    BY <1>4, <1>5, <1>6 DEF Measured

\* What is left behind a request of a task that is served.
LEMMA BehindServed ==
  ASSUME NEW l, NEW p, NEW q \in Seq(Requests), q # <<>>, NEW g, Orderly(l, p, q, g), Held(q, p), Head(q)[1] # "stop"
  PROVE  /\ \A i, j \in 1..Len(Tail(q)) : Tail(q)[i][2] \in Waits /\ Tail(q)[j][2] \in Waits => i = j
         /\ Head(q)[1] \in Tasks =>
              \A i \in 1..Len(Tail(q)) : Tail(q)[i][2] \in Waits => Uncounted(l, q, g) = 0
  <1>1. /\ Len(q) \in Nat \ {0} /\ Head(q) = q[1] /\ 1 \in 1..Len(q)
        /\ \A i \in 1..Len(Tail(q)) : i \in Nat \ {0} /\ i + 1 \in 1..Len(q) /\ Tail(q)[i] = q[i + 1]
    BY TailFact
  <1>2. \A i \in 1..Len(q) : q[i] \in Requests /\ q[i][1] \in Tasks \cup {Nobody, "stop"}
    BY RequestFact
  <1>3. \A i \in 1..Len(Tail(q)) : Tail(q)[i][2] \in Waits =>
          /\ Tail(q)[i][1] \in {"bar", "kill", Nobody} /\ Slot(Tail(q)[i][1]) # Slot(Head(q)[1])
    BY <1>1, <1>2, OnlyRequest, TaskFact DEF Orderly
  <1>4. Head(q)[1] \in {"bar", "kill", Nobody}
    BY <1>1, <1>2, TaskFact
  <1>5. ASSUME NEW i \in 1..Len(Tail(q)), NEW j \in 1..Len(Tail(q)), Tail(q)[i][2] \in Waits, Tail(q)[j][2] \in Waits
        PROVE  i = j
    <2>1. Slot(Tail(q)[i][1]) = Slot(Tail(q)[j][1])
      BY <1>3, <1>4, <1>5 DEF Slot
    <2>2. Tail(q)[i][1] # "stop"
      BY <1>1, <1>5 DEF Orderly
    <2>3. i + 1 = j + 1
      BY <1>1, <2>1, <2>2 DEF Orderly
    <2> QED
      BY <1>1, <2>3
  <1>6. ASSUME Head(q)[1] \in Tasks, NEW i \in 1..Len(Tail(q)), Tail(q)[i][2] \in Waits
        PROVE  Uncounted(l, q, g) = 0
    <2>1. "bar" \in {Head(q)[1], Tail(q)[i][1]} \/ Tail(q)[i][1] = Nobody
      BY <1>3, <1>4, <1>6, TaskFact DEF Slot
    <2>2. CASE Tail(q)[i][1] = Nobody
      BY <1>1, <2>2 DEF Uncounted
    <2>3. CASE "bar" \in {Head(q)[1], Tail(q)[i][1]}
      <3>1. p["bar"] \in Waits
        BY <1>1, <2>3, TaskFact DEF Held
      <3>2. l = "running"
        BY <3>1 DEF Orderly, Waits
      <3> QED
        BY <3>2, UncountedFact
    <2> QED
      BY <2>1, <2>2, <2>3
  <1> QED
    BY <1>5, <1>6

\* A sample is inserted and counted, the batch is not full.
LEMMA MeasuredSample ==
  ASSUME NEW l, NEW p, NEW n \in Nat, NEW q \in Seq(Requests), q # <<>>, NEW d \in Rows, NEW g,
         Orderly(l, p, q, g), Held(q, p), Measured(l, n, q, d, g),
         Head(q)[1] \in Tasks, Head(q)[2] = "equity", n + 1 < Batch
  PROVE  Measured(l, n + 1, Tail(q), Inserted(d, "equity"), g)
  <1> DEFINE e == Inserted(d, "equity")
  <1>1. /\ Head(q) = q[1] /\ Len(q) \in Nat \ {0} /\ 1 \in 1..Len(q) /\ Len(Tail(q)) = Len(q) - 1
        /\ \A i \in 1..Len(Tail(q)) : i \in Nat \ {0} /\ i + 1 \in 1..Len(q) /\ Tail(q)[i] = q[i + 1]
    BY TailFact
  <1>2. d.equity \in Nat /\ e.equity = d.equity + 1 /\ e.run = d.run /\ e.trades = d.trades
    BY DEF Rows, Inserted
  <1>3. l # "closed"
    BY DEF Orderly
  <1>4. Measured(l, n, Tail(q), d, g)
    BY <1>1, MeasuredTail, WaitsFact
  <1>5. Uncounted(l, Tail(q), g) \in {0, 1}
    BY UncountedFact
  <1>6. ASSUME NEW i \in 1..Len(Tail(q)), Tail(q)[i][2] \in Commits
        PROVE  e.equity <= Batch + 1 /\ \A j \in 1..(i - 1) : Tail(q)[j][2] # "equity"
    <2>1. i + 1 \in 1..Len(q) /\ q[i + 1][2] \in Commits /\ 1 \in 1..((i + 1) - 1) /\ q[1][2] = "equity"
      BY <1>1, <1>6
    <2>2. d.equity <= Batch
      BY <2>1 DEF Measured
    <2>3. \A j \in 1..(i - 1) : j \in 1..Len(Tail(q)) /\ j # i
      BY <1>1
    <2>4. \A j \in 1..(i - 1) : Tail(q)[j][2] # "equity"
      BY <1>6, <2>3, BehindServed, WaitsFact, TaskFact
    <2> QED
      BY <1>2, <2>2, <2>4, NumbersFact
  <1> HIDE DEF e
  <1>7. Measured(l, n + 1, Tail(q), e, g)
    BY <1>2, <1>3, <1>4, <1>5, <1>6 DEF Measured
  <1> QED
    BY <1>7 DEF e

\* A row is inserted and the task asks for the commit c.
LEMMA MeasuredAsksCommit ==
  ASSUME NEW l, NEW p, NEW n \in 0..(Batch - 1), NEW q \in Seq(Requests), q # <<>>, NEW d \in Rows, NEW g,
         Orderly(l, p, q, g), Held(q, p), Measured(l, n, q, d, g),
         NEW t \in Tasks, NEW s \in {"run", "trade", "equity"}, Head(q) = <<t, s>>, NEW k \in Nat, NEW c \in Commits
  PROVE  Measured(l, k, Append(Tail(q), <<t, c>>), Inserted(d, s), g)
  <1> DEFINE e == Inserted(d, s)
             x == <<t, c>>
             w == Tail(q)
             z == Append(w, x)
  <1>1. /\ Head(q) = q[1] /\ Len(q) \in Nat \ {0} /\ 1 \in 1..Len(q) /\ w \in Seq(Requests) /\ Len(w) = Len(q) - 1
        /\ \A i \in 1..Len(w) : i \in Nat \ {0} /\ i + 1 \in 1..Len(q) /\ w[i] = q[i + 1]
    BY TailFact
  <1>2. d.equity \in Nat /\ e.equity = IF s = "equity" THEN d.equity + 1 ELSE d.equity
    BY DEF Rows, Inserted
  <1>3. l # "closed" /\ Head(q)[1] = t /\ Head(q)[2] = s /\ t # "stop" /\ s \notin Commits
    BY WaitsFact, TaskFact DEF Orderly
  <1>4. x \in Requests /\ x[2] = c
    BY WaitsFact DEF Requests
  <1> HIDE DEF x, w
  <1>5. /\ Len(z) = Len(w) + 1 /\ Len(w) \in Nat /\ z[Len(w) + 1] = x /\ \A i \in 1..Len(w) : z[i] = w[i]
    BY <1>1, <1>4, AppendFact
  <1> HIDE DEF z
  <1>6. AwaitsCommit(z)
    BY <1>4, <1>5 DEF AwaitsCommit
  <1>7. /\ \A i, j \in 1..Len(w) : w[i][2] \in Waits /\ w[j][2] \in Waits => i = j
        /\ \A i \in 1..Len(w) : w[i][2] \in Waits => Uncounted(l, q, g) = 0
    BY <1>3, BehindServed DEF w
  <1>8. ASSUME NEW i \in 1..Len(z), z[i][2] \in Commits
        PROVE  e.equity <= Batch + 1 /\ \A j \in 1..(i - 1) : z[j][2] = "equity" => e.equity <= Batch
    <2>1. CASE AwaitsCommit(q)
      <3>1. PICK m \in 1..Len(q) : q[m][2] \in Commits
        BY <2>1 DEF AwaitsCommit
      <3>2. m # 1 /\ m - 1 \in 1..Len(w) /\ w[m - 1] = q[m]
        BY <1>1, <1>3, <3>1
      <3>3. \A j \in 1..Len(w) : w[j][2] # "equity"
        BY <1>7, <3>1, <3>2, WaitsFact
      <3>4. \A j \in 1..(i - 1) : z[j][2] # "equity"
        <4>1. \A j \in 1..(i - 1) : j \in 1..Len(w)
          BY <1>5
        <4> QED
          BY <1>5, <3>3, <4>1
      <3>5. d.equity <= Batch + 1 /\ (s = "equity" => d.equity <= Batch)
        <4>1. d.equity <= Batch + 1 /\ \A j \in 1..(m - 1) : q[j][2] = "equity" => d.equity <= Batch
          BY <3>1 DEF Measured
        <4>2. 1 \in 1..(m - 1) /\ q[1][2] = s
          BY <1>1, <1>3, <3>1, <3>2
        <4> QED
          BY <4>1, <4>2
      <3> QED
        BY <1>2, <3>4, <3>5, NumbersFact
    <2>2. CASE ~ AwaitsCommit(q)
      <3>1. d.equity <= n + Uncounted(l, q, g) /\ Uncounted(l, q, g) \in {0, 1} /\ n + 1 <= Batch
        BY <2>2, UncountedFact, NumbersFact DEF Measured
      <3>2. e.equity <= Batch + 1
        BY <1>2, <3>1, NumbersFact
      <3>3. ASSUME NEW j \in 1..(i - 1), z[j][2] = "equity"
            PROVE  e.equity <= Batch
        <4>1. j \in 1..Len(w) /\ w[j][2] \in Waits
          BY <1>5, <3>3, WaitsFact
        <4> QED
          BY <1>2, <1>7, <3>1, <4>1, NumbersFact
      <3> QED
        BY <3>2, <3>3
    <2> QED
      BY <2>1, <2>2
  <1> HIDE DEF e
  <1>9. Measured(l, k, z, e, g)
    BY <1>3, <1>6, <1>8 DEF Measured
  <1> QED
    BY <1>9 DEF e, z, w, x

\* The thread inserts the row of a cancelled request.
LEMMA MeasuredOrphan ==
  ASSUME NEW l, NEW p, NEW n \in 0..(Batch - 1), NEW q \in Seq(Requests), q # <<>>, NEW d \in Rows, NEW g,
         Orderly(l, p, q, g), Held(q, p), Measured(l, n, q, d, g),
         NEW s \in {"run", "trade", "equity"}, Head(q)[1] = Nobody, Head(q)[2] = s
  PROVE  Measured(l, n, Tail(q), Inserted(d, s), g)
  <1> DEFINE e == Inserted(d, s)
             w == Tail(q)
  <1>1. /\ Head(q) = q[1] /\ Len(q) \in Nat \ {0} /\ 1 \in 1..Len(q) /\ w \in Seq(Requests) /\ Len(w) = Len(q) - 1
        /\ \A i \in 1..Len(w) : i \in Nat \ {0} /\ i + 1 \in 1..Len(q) /\ w[i] = q[i + 1]
    BY TailFact
  <1>2. d.equity \in Nat /\ e.equity = IF s = "equity" THEN d.equity + 1 ELSE d.equity
    BY DEF Rows, Inserted
  <1>3. l # "closed" /\ l # "running" /\ g /\ s \notin Commits
    BY <1>1, WaitsFact DEF Orderly
  <1>4. Uncounted(l, q, g) = 0 /\ Uncounted(l, w, g) = 1
    <2>1. \A i \in 1..Len(w) : w[i][1] # Nobody
      BY OnlyRequest, WaitsFact
    <2> QED
      BY <1>1, <1>3, <2>1 DEF Uncounted
  <1>5. ~ AwaitsCommit(w) => ~ AwaitsCommit(q)
    <2>1. ASSUME NEW i \in 1..Len(q), q[i][2] \in Commits
          PROVE  \E j \in 1..Len(w) : w[j][2] \in Commits
      <3>1. i # 1
        BY <1>1, <1>3, <2>1
      <3>2. i - 1 \in 1..Len(w) /\ (i - 1) + 1 = i
        BY <1>1, <3>1
      <3> QED
        BY <1>1, <2>1, <3>2
    <2> QED
      BY <2>1 DEF AwaitsCommit
  <1>6. ASSUME NEW i \in 1..Len(w), w[i][2] \in Commits
        PROVE  e.equity <= Batch + 1 /\ \A j \in 1..(i - 1) : w[j][2] # "equity"
    <2>1. i + 1 \in 1..Len(q) /\ q[i + 1][2] \in Commits /\ 1 \in 1..((i + 1) - 1) /\ q[1][2] = s
      BY <1>1, <1>6
    <2>2. d.equity <= Batch + 1 /\ (s = "equity" => d.equity <= Batch)
      BY <2>1 DEF Measured
    <2>3. \A j \in 1..(i - 1) : j \in 1..Len(w) /\ j # i
      BY <1>1
    <2>4. \A j \in 1..(i - 1) : w[j][2] # "equity"
      BY <1>6, <2>3, BehindServed, WaitsFact
    <2> QED
      BY <1>2, <2>2, <2>4, NumbersFact
  <1> HIDE DEF e, w
  <1>7. ASSUME ~ AwaitsCommit(w)
        PROVE  e.equity <= n + Uncounted(l, w, g)
    <2>1. d.equity <= n + Uncounted(l, q, g) /\ n \in Nat
      BY <1>5, <1>7, NumbersFact DEF Measured
    <2> QED
      BY <1>2, <1>4, <2>1
  <1>8. \A i \in 1..Len(w) : w[i][2] \in Commits =>
          e.equity <= Batch + 1 /\ \A j \in 1..(i - 1) : w[j][2] = "equity" => e.equity <= Batch
    BY <1>6
  <1>9. Measured(l, n, w, e, g)
    BY <1>3, <1>7, <1>8 DEF Measured
  <1> QED
    BY <1>9 DEF e, w

LEMMA MeasuredCancel ==
  ASSUME NEW n \in Nat, NEW q \in Seq(Requests), NEW d \in Rows, NEW g, Measured("running", n, q, d, g)
  PROVE  LET z == [i \in 1..Len(q) |-> IF q[i][1] = "bar" THEN <<Nobody, q[i][2]>> ELSE q[i]] IN
         Measured("dead", n, z, d, g)
  <1> DEFINE z == [i \in 1..Len(q) |-> IF q[i][1] = "bar" THEN <<Nobody, q[i][2]>> ELSE q[i]]
  <1>1. Len(q) \in Nat /\ Len(z) = Len(q) /\ \A i \in 1..Len(q) : z[i][2] = q[i][2]
    OBVIOUS
  <1> HIDE DEF z
  <1>2. d.equity \in Nat /\ Uncounted("running", q, g) = 0 /\ Uncounted("dead", z, g) \in {0, 1}
    BY UncountedFact DEF Rows
  <1>3. AwaitsCommit(z) <=> AwaitsCommit(q)
    BY <1>1 DEF AwaitsCommit
  <1>4. ASSUME NEW i \in 1..Len(z), z[i][2] \in Commits
        PROVE  d.equity <= Batch + 1 /\ \A j \in 1..(i - 1) : z[j][2] = "equity" => d.equity <= Batch
    <2>1. i \in 1..Len(q) /\ q[i][2] \in Commits /\ \A j \in 1..(i - 1) : z[j][2] = q[j][2]
      BY <1>1, <1>4
    <2> QED
      BY <2>1 DEF Measured
  <1>5. ~ AwaitsCommit(z) => d.run = 0 /\ d.trades = 0 /\ d.equity <= n + Uncounted("dead", z, g)
    <2>1. ~ AwaitsCommit(q) => d.run = 0 /\ d.trades = 0 /\ d.equity <= n + Uncounted("running", q, g)
      BY DEF Measured
    <2>2. ~ AwaitsCommit(q) => d.run = 0 /\ d.trades = 0 /\ d.equity <= n
      BY <1>2, <2>1
    <2> QED
      BY <1>2, <1>3, <2>2
  <1>6. Measured("dead", n, z, d, g)
    BY <1>4, <1>5 DEF Measured
  <1> QED
    BY <1>6 DEF z

-----------------------------------------------------------------------------
(* What the steps of one engine do to both                                 *)

\* What one engine's life l, counter n, tasks p, queue q, rows d and stop g owe to each other.
Batched(l, n, p, q, d, g) == Orderly(l, p, q, g) /\ Measured(l, n, q, d, g)

\* The types of one engine.
Typed(l, n, p, q, d) ==
  /\ n \in 0..(Batch - 1) /\ p \in [Tasks -> Stages] /\ q \in Seq(Requests) /\ d \in Rows
  /\ Held(q, p) /\ (l = "unborn" => q = <<>>)

\* A task that waits is alive.
LEMMA WaitingFact ==
  ASSUME NEW l, NEW n, NEW p, NEW q, NEW d, NEW g, Typed(l, n, p, q, d), Orderly(l, p, q, g),
         q # <<>>, NEW t \in Tasks, Head(q)[1] = t
  PROVE  /\ p[t] \in Waits /\ l # "closed" /\ (t = "bar" => l = "running")
         /\ q \in Seq(Requests) /\ Head(q) \in Requests /\ Head(q) = <<t, Head(q)[2]>> /\ n \in Nat
  <1>1. q \in Seq(Requests) /\ n \in Nat
    BY NumbersFact DEF Typed
  <1>2. Head(q) = q[1] /\ 1 \in 1..Len(q) /\ Head(q) \in Requests
    BY <1>1, TailFact
  <1>3. p[t] \in Waits
    BY <1>2 DEF Typed, Held
  <1>4. p[t] # "idle"
    BY <1>3 DEF Waits
  <1>5. l # "closed" /\ (t = "bar" => l = "running")
    BY <1>4 DEF Orderly
  <1>6. Head(q) = <<t, Head(q)[2]>>
    BY <1>2, RequestFact
  <1> QED
    BY <1>1, <1>2, <1>3, <1>5, <1>6

LEMMA OrderlyResumed ==
  ASSUME NEW l, NEW n, NEW p, NEW q, NEW d, NEW g, Typed(l, n, p, q, d), Orderly(l, p, q, g),
         q # <<>>, NEW t \in Tasks, Head(q)[1] = t, NEW u \in Stages,
         NEW m, m = l \/ (m = "dead" /\ t = "bar" /\ u = "idle")
  PROVE  Orderly(m, [p EXCEPT ![t] = u], Tail(q), g)
  <1> DEFINE r == [p EXCEPT ![t] = u]
  <1>1. /\ q \in Seq(Requests) /\ l # "closed" /\ (t = "bar" => l = "running")
    BY WaitingFact
  <1>2. r["bar"] = IF t = "bar" THEN u ELSE p["bar"]
    BY TaskFact DEF Typed
  <1>3. m # "running" => r["bar"] = "idle"
    BY <1>1, <1>2, TaskFact DEF Orderly
  <1> HIDE DEF r
  <1>4. Orderly(m, r, Tail(q), g)
    BY <1>1, <1>3, OrderlyTail
  <1> QED
    BY <1>4 DEF r

LEMMA BatchedAgain ==
  ASSUME NEW l, NEW n, NEW p, NEW q, NEW d, NEW g, Typed(l, n, p, q, d), Batched(l, n, p, q, d, g),
         q # <<>>, NEW t \in Tasks, NEW s \in {"run", "trade", "equity"}, Head(q) = <<t, s>>,
         NEW c \in Commits, NEW k \in Nat
  PROVE  Batched(l, k, [p EXCEPT ![t] = c], Append(Tail(q), <<t, c>>), Inserted(d, s), g)
  <1> DEFINE r == [p EXCEPT ![t] = c]
             w == Tail(q)
             x == <<t, c>>
  <1>1. /\ q \in Seq(Requests) /\ l # "closed" /\ (t = "bar" => l = "running") /\ n \in 0..(Batch - 1)
        /\ Held(q, p) /\ d \in Rows /\ Head(q)[1] = t
    <2>1. Orderly(l, p, q, g) /\ Head(q)[1] = t
      BY DEF Batched
    <2>2. /\ q \in Seq(Requests) /\ l # "closed" /\ (t = "bar" => l = "running")
      BY <2>1, WaitingFact
    <2> QED
      BY <2>1, <2>2 DEF Typed
  <1>2. Orderly(l, r, w, g)
    BY <1>1, OrderlyResumed, WaitsFact DEF Batched, Stages
  <1>3. w \in Seq(Requests) /\ \A i \in 1..Len(w) : Slot(w[i][1]) # Slot(t)
    BY <1>1, TailFact, OnlyRequest, TaskFact DEF Batched
  <1>4. x \in Requests /\ x[1] = t /\ x[2] \in Waits /\ t # Nobody /\ t # "stop"
    BY WaitsFact, TaskFact DEF Requests
  <1>5. l # "running" => r["bar"] = "idle"
    BY <1>2 DEF Orderly
  <1>6. Measured(l, k, Append(w, x), Inserted(d, s), g)
    BY <1>1, MeasuredAsksCommit DEF Batched
  <1> HIDE DEF r, w, x
  <1>7. Orderly(l, r, Append(w, x), g)
    BY <1>1, <1>2, <1>3, <1>4, <1>5, OrderlyAppend
  <1> QED
    BY <1>6, <1>7 DEF Batched, r, w, x

LEMMA BatchedAsked ==
  ASSUME NEW l, NEW n, NEW p, NEW q, NEW d, NEW g, Typed(l, n, p, q, d), Batched(l, n, p, q, d, g),
         NEW t \in Tasks, p[t] \in {"idle", "sync"}, NEW s \in {"run", "trade", "equity"},
         NEW m, m # "closed", m = l \/ (l = "unborn" /\ m = "running" /\ ~ g), t = "bar" => m = "running"
  PROVE  Batched(m, n, [p EXCEPT ![t] = s], Append(q, <<t, s>>), d, g)
  <1> DEFINE r == [p EXCEPT ![t] = s]
             x == <<t, s>>
  <1>1. q \in Seq(Requests) /\ Held(q, p) /\ d \in Rows /\ n \in Nat /\ (m = "running" => l = "running" \/ q = <<>>)
    BY NumbersFact DEF Typed
  <1>2. m # "running" => r["bar"] = "idle"
    BY TaskFact DEF Typed, Batched, Orderly
  <1>3. x \in Requests /\ x[1] = t /\ x[2] = s /\ x[2] \in Waits /\ x[2] \notin Commits /\ t # Nobody /\ t # "stop"
    BY WaitsFact, TaskFact DEF Requests
  <1>4. \A i \in 1..Len(q) : Slot(q[i][1]) # Slot(t)
    <2>1. Orderly(l, p, q, g)
      BY DEF Batched
    <2>2. t = "bar" => l = "running" \/ q = <<>>
      BY <1>1
    <2> QED
      BY <1>1, <2>1, <2>2, NoRequest
  <1>5. Measured(m, n, q, d, g)
    <2>1. Measured(l, n, q, d, g)
      BY DEF Batched
    <2>2. (m = "closed" => l = "closed") /\ (l # "running" /\ g => m # "running" /\ g)
      OBVIOUS
    <2> QED
      BY <1>1, <2>1, <2>2, MeasuredSame
  <1> HIDE DEF r, x
  <1>6. Orderly(m, r, Append(q, x), g)
    BY <1>1, <1>2, <1>3, <1>4, OrderlyAppend DEF Batched
  <1>7. Measured(m, n, Append(q, x), d, g)
    BY <1>1, <1>3, <1>5, MeasuredAppend
  <1> QED
    BY <1>6, <1>7 DEF Batched, r, x

\* stop() asks the thread to flush, or to close.
LEMMA OrderlyStopAsked ==
  ASSUME NEW l, NEW p, NEW q \in Seq(Requests), NEW g, Orderly(l, p, q, g), l # "closed", NEW s \in {"flush", "close"}
  PROVE  Orderly(l, p, Append(q, <<"stop", s>>), g)
  <1> DEFINE x == <<"stop", s>>
  <1>1. x \in Requests /\ x[1] = "stop" /\ x[2] \notin Waits /\ x[1] # Nobody
    BY WaitsFact DEF Requests
  <1>2. l # "running" => p["bar"] = "idle"
    BY DEF Orderly
  <1> HIDE DEF x
  <1>3. Orderly(l, p, Append(q, x), g)
    BY <1>1, <1>2, OrderlyAppend
  <1> QED
    BY <1>3 DEF x

EnginesBatched == \A e \in Engines : Batched(life[e], pending[e], pc[e], queue[e], dirty[e], Stopping(e))

LEMMA TypedFact ==
  ASSUME Types, NEW e \in Engines
  PROVE  /\ Typed(life[e], pending[e], pc[e], queue[e], dirty[e])
         /\ queue[e] \in Seq(Requests) /\ Held(queue[e], pc[e]) /\ dirty[e] \in Rows
         /\ pending[e] \in 0..(Batch - 1) /\ pending[e] \in Nat /\ pc[e] \in [Tasks -> Stages]
         /\ life[e] \in {"unborn", "running", "dead", "closed"}
  BY NumbersFact DEF Types, EnginesSound, Sound, Locked, Typed

\* A step of e leaves the tasks and rows of the other engines alone ...
LEMMA OneEngineActs ==
  ASSUME Types, NEW e \in Engines, EngineStep(e), NEW f \in Engines, f # e
  PROVE  /\ life'[f] = life[f] /\ pending'[f] = pending[f] /\ pc'[f] = pc[f] /\ queue'[f] = queue[f]
         /\ dirty'[f] = dirty[f]
  <1>0. /\ DOMAIN life = Engines /\ DOMAIN pending = Engines /\ DOMAIN pc = Engines /\ DOMAIN queue = Engines
        /\ DOMAIN dirty = Engines
    BY DEF Types, EnginesSound, OfEngines, Locked
  <1>1. ASSUME NEW t \in Tasks, InsertRun(e, t) \/ InsertTrade(e, t) \/ InsertEquity(e, t)
        PROVE  /\ life'[f] = life[f] /\ pending'[f] = pending[f] /\ pc'[f] = pc[f] /\ queue'[f] = queue[f]
               /\ dirty'[f] = dirty[f]
    BY <1>0, <1>1 DEF InsertRun, InsertTrade, InsertEquity, Served
  <1>2. ASSUME NEW t \in Tasks, CommitRun(e, t) \/ CommitTrade(e, t) \/ CommitEquity(e, t)
        PROVE  /\ life'[f] = life[f] /\ pending'[f] = pending[f] /\ pc'[f] = pc[f] /\ queue'[f] = queue[f]
               /\ dirty'[f] = dirty[f]
    BY <1>0, <1>2 DEF CommitRun, CommitTrade, CommitEquity, Served, Commit
  <1>3. ASSUME NEW t \in Tasks, RecordTrade(e, t) \/ SyncState(e, t) \/ SampleEquity(e) \/ StartOne(e) \/ EngineFails(e)
        PROVE  /\ life'[f] = life[f] /\ pending'[f] = pending[f] /\ pc'[f] = pc[f] /\ queue'[f] = queue[f]
               /\ dirty'[f] = dirty[f]
    BY <1>0, <1>3 DEF RecordTrade, SyncState, SampleEquity, StartOne, EngineFails, Ask
  <1>4. CASE OrphanRequest(e) \/ RefuseEngine(e)
    BY <1>0, <1>4 DEF OrphanRequest, RefuseEngine, Served, Commit
  <1>5. CASE TaskEnds(e) \/ CancelTask(e) \/ CloseStore(e)
    BY <1>0, <1>5 DEF TaskEnds, CancelTask, CloseStore
  <1>6. CASE FlushBuffered(e) \/ Disconnect(e)
    BY <1>0, <1>6 DEF FlushBuffered, Disconnect, Commit
  <1> QED
    BY <1>1, <1>2, <1>3, <1>4, <1>5, <1>6, TaskFact DEF EngineStep

\* ... and stop() goes on waiting for them, unless they are closed.
LEMMA StopGoesOn ==
  ASSUME NEW e \in Engines, EngineStep(e), NEW f \in Engines
  PROVE  /\ f # e /\ Stopping(f) => Stopping(f)' \/ life[f] = "closed"
         /\ ~ Disconnect(e) => (Stopping(f)' <=> Stopping(f))
  <1>1. CASE UNCHANGED sessionVars
    BY <1>1 DEF sessionVars, Stopping
  <1>2. CASE StartOne(e)
    BY <1>2 DEF StartOne, Stopping
  <1>3. CASE Disconnect(e)
    BY <1>3 DEF Disconnect, sessionVars, Stopping
  <1>4. StartOne(e) \/ Disconnect(e) \/ UNCHANGED sessionVars
    BY DEF EngineStep, InsertRun, CommitRun, InsertTrade, CommitTrade, InsertEquity, CommitEquity, RecordTrade, SyncState,
           OrphanRequest, RefuseEngine, SampleEquity, EngineFails, TaskEnds, CancelTask, CloseStore, FlushBuffered
  <1> QED
    BY <1>1, <1>2, <1>3, <1>4 DEF StartOne, Stopping

\* What the stop of an engine may change into.
LEMMA BatchedStays ==
  ASSUME NEW l, NEW n, NEW p, NEW q, NEW d, NEW g, NEW h, Typed(l, n, p, q, d), Batched(l, n, p, q, d, g),
         g => h \/ l = "closed"
  PROVE  Batched(l, n, p, q, d, h)
  <1>1. CASE l = "closed"
    <2>1. q = <<>> /\ d = Clean /\ n \in Nat
      BY <1>1, NumbersFact DEF Batched, Typed, Orderly, Measured
    <2>2. Measured(l, n, q, d, h)
      BY <2>1, MeasuredClean
    <2>3. Orderly(l, p, q, h)
      BY <2>1 DEF Batched, Orderly
    <2> QED
      BY <2>2, <2>3 DEF Batched
  <1>2. CASE l # "closed"
    <2>1. n \in Nat /\ d \in Rows /\ Measured(l, n, q, d, g) /\ Orderly(l, p, q, g)
      BY NumbersFact DEF Batched, Typed
    <2>2. Measured(l, n, q, d, h)
      BY <1>2, <2>1, MeasuredSame
    <2>3. Orderly(l, p, q, h)
      BY <1>2, <2>1 DEF Orderly
    <2> QED
      BY <2>2, <2>3 DEF Batched
  <1> QED
    BY <1>1, <1>2

LEMMA OthersBatched ==
  ASSUME Types, EnginesBatched, NEW e \in Engines, EngineStep(e),
         Batched(life'[e], pending'[e], pc'[e], queue'[e], dirty'[e], Stopping(e)')
  PROVE  EnginesBatched'
  <1>1. ASSUME NEW f \in Engines, f # e
        PROVE  Batched(life'[f], pending'[f], pc'[f], queue'[f], dirty'[f], Stopping(f)')
    <2>1. Batched(life[f], pending[f], pc[f], queue[f], dirty[f], Stopping(f)')
      BY <1>1, TypedFact, StopGoesOn, BatchedStays DEF EnginesBatched
    <2> QED
      BY <1>1, <2>1, OneEngineActs
  <1> QED
    BY <1>1 DEF EnginesBatched

LEMMA EnginesBatchedStep ==
  ASSUME Types, EnginesBatched, NEW e \in Engines, EngineStep(e)
  PROVE  EnginesBatched'
  <1> DEFINE h == Stopping(e)'
             l == life[e]
             n == pending[e]
             p == pc[e]
             q == queue[e]
             d == dirty[e]
             Goal == Batched(life'[e], pending'[e], pc'[e], queue'[e], dirty'[e], h)
  <1>0. /\ EnginesSound /\ DOMAIN life = Engines /\ DOMAIN pending = Engines /\ DOMAIN pc = Engines
        /\ DOMAIN queue = Engines /\ DOMAIN dirty = Engines
    BY DEF Types, EnginesSound, OfEngines, Locked
  <1>a. /\ Typed(l, n, p, q, d) /\ q \in Seq(Requests) /\ Held(q, p) /\ d \in Rows
        /\ n \in 0..(Batch - 1) /\ n \in Nat /\ 0 \in Nat /\ n + 1 \in Nat /\ Batch \in Nat \ {0}
    BY TypedFact, NumbersFact
  <1>b. Batched(l, n, p, q, d, Stopping(e))
    BY DEF EnginesBatched
  <1>c. ASSUME ~ Disconnect(e)
        PROVE  Batched(l, n, p, q, d, h) /\ Orderly(l, p, q, h) /\ Measured(l, n, q, d, h) /\ (h <=> Stopping(e))
    <2>1. h <=> Stopping(e)
      BY <1>c, StopGoesOn
    <2> HIDE DEF h
    <2>2. Batched(l, n, p, q, d, h)
      BY <1>a, <1>b, <2>1, BatchedStays
    <2> QED
      BY <2>1, <2>2 DEF Batched
  <1>d. SUFFICES Goal
    BY OthersBatched
  <1> HIDE DEF h
  <1>1. ASSUME NEW t \in Tasks, InsertRun(e, t) \/ InsertTrade(e, t) \/ (InsertEquity(e, t) /\ BatchFull(e))
        PROVE  Goal
    <2>1. ~ Disconnect(e)
      BY <1>1 DEF InsertRun, InsertTrade, InsertEquity, Disconnect, Serves
    <2>2. \E s \in {"run", "trade", "equity"}, c \in Commits, k \in {0, n} :
            /\ q # <<>> /\ Head(q) = <<t, s>> /\ life'[e] = l /\ pending'[e] = k /\ pc'[e] = [p EXCEPT ![t] = c]
            /\ queue'[e] = Append(Tail(q), <<t, c>>) /\ dirty'[e] = Inserted(d, s)
      <3>1. CASE InsertRun(e, t)
        BY <1>0, <3>1 DEF InsertRun, Serves, Commits
      <3>2. CASE InsertTrade(e, t)
        BY <1>0, <3>2 DEF InsertTrade, Serves, Commits
      <3>3. CASE InsertEquity(e, t) /\ BatchFull(e)
        BY <1>0, <3>3 DEF InsertEquity, Serves, Commits
      <3> QED
        BY <1>1, <3>1, <3>2, <3>3
    <2>3. PICK s \in {"run", "trade", "equity"}, c \in Commits, k \in {0, n} :
            /\ q # <<>> /\ Head(q) = <<t, s>> /\ life'[e] = l /\ pending'[e] = k /\ pc'[e] = [p EXCEPT ![t] = c]
            /\ queue'[e] = Append(Tail(q), <<t, c>>) /\ dirty'[e] = Inserted(d, s)
      BY <2>2
    <2>4. k \in Nat
      BY <1>a
    <2> HIDE DEF l, n, p, q, d
    <2>5. Batched(l, k, [p EXCEPT ![t] = c], Append(Tail(q), <<t, c>>), Inserted(d, s), h)
      BY <1>a, <1>c, <2>1, <2>3, <2>4, BatchedAgain
    <2> QED
      BY <2>3, <2>5
  <1>2. ASSUME NEW t \in Tasks, InsertEquity(e, t), ~ BatchFull(e)
        PROVE  Goal
    <2>1. ~ Disconnect(e)
      BY <1>2 DEF InsertEquity, Disconnect, Serves
    <2>2. /\ q # <<>> /\ Head(q) = <<t, "equity">> /\ life'[e] = l /\ pending'[e] = n + 1 /\ n + 1 < Batch
          /\ pc'[e] = [p EXCEPT ![t] = "idle"] /\ queue'[e] = Tail(q) /\ dirty'[e] = Inserted(d, "equity")
      BY <1>0, <1>a, <1>2 DEF InsertEquity, Serves, Served, BatchFull
    <2>3. Head(q)[1] = t /\ Head(q)[2] = "equity" /\ "idle" \in Stages
      BY <2>2 DEF Stages
    <2> HIDE DEF l, n, p, q, d
    <2>4. Measured(l, n + 1, Tail(q), Inserted(d, "equity"), h)
      BY <1>a, <1>c, <2>1, <2>2, <2>3, MeasuredSample
    <2>5. Orderly(l, [p EXCEPT ![t] = "idle"], Tail(q), h)
      BY <1>a, <1>c, <2>1, <2>2, <2>3, OrderlyResumed
    <2> QED
      BY <2>2, <2>4, <2>5 DEF Batched
  <1>3. ASSUME NEW t \in Tasks, CommitRun(e, t) \/ CommitTrade(e, t) \/ CommitEquity(e, t)
        PROVE  Goal
    <2>1. ~ Disconnect(e)
      BY <1>3 DEF CommitRun, CommitTrade, CommitEquity, Disconnect, Serves
    <2>2. \E u \in {"idle", "sync"} :
            /\ q # <<>> /\ Head(q)[1] = t /\ life'[e] = l /\ pending'[e] = n
            /\ pc'[e] = [p EXCEPT ![t] = u] /\ queue'[e] = Tail(q) /\ dirty'[e] = Clean
      <3>1. dirty'[e] = Clean
        BY <1>0, <1>3 DEF CommitRun, CommitTrade, CommitEquity, Commit
      <3>2. q # <<>> /\ Head(q)[1] = t /\ life'[e] = l /\ pending'[e] = n /\ queue'[e] = Tail(q)
        BY <1>0, <1>3 DEF CommitRun, CommitTrade, CommitEquity, Serves, Served
      <3>3. pc'[e] = [p EXCEPT ![t] = "idle"] \/ pc'[e] = [p EXCEPT ![t] = "sync"]
        BY <1>0, <1>3 DEF CommitRun, CommitTrade, CommitEquity
      <3> QED
        BY <3>1, <3>2, <3>3
    <2>3. PICK u \in {"idle", "sync"} :
            /\ q # <<>> /\ Head(q)[1] = t /\ life'[e] = l /\ pending'[e] = n
            /\ pc'[e] = [p EXCEPT ![t] = u] /\ queue'[e] = Tail(q) /\ dirty'[e] = Clean
      BY <2>2
    <2>4. u \in Stages
      BY DEF Stages
    <2> HIDE DEF l, n, p, q, d
    <2>5. Orderly(l, [p EXCEPT ![t] = u], Tail(q), h)
      BY <1>a, <1>c, <2>1, <2>3, <2>4, OrderlyResumed
    <2>6. Measured(l, n, Tail(q), Clean, h)
      BY <1>a, MeasuredClean
    <2> QED
      BY <2>3, <2>5, <2>6 DEF Batched
  <1>4. CASE OrphanRequest(e)
    <2>1. ~ Disconnect(e)
      BY <1>4 DEF OrphanRequest, Disconnect, Serves, Nobody
    <2>2. /\ q # <<>> /\ Head(q)[1] = Nobody /\ life'[e] = l /\ pending'[e] = n /\ pc'[e] = p /\ queue'[e] = Tail(q)
          /\ dirty'[e] = Clean \/ (\E s \in {"run", "trade", "equity"} : Head(q)[2] = s /\ dirty'[e] = Inserted(d, s))
      BY <1>0, <1>4 DEF OrphanRequest, Served, Commit
    <2>3. Orderly(l, p, q, h) /\ Measured(l, n, q, d, h)
      BY <1>c, <2>1
    <2>4. l # "closed" /\ (l # "running" => p["bar"] = "idle")
      BY <2>2, <2>3 DEF Orderly
    <2> HIDE DEF l, n, p, q, d
    <2>5. Orderly(l, p, Tail(q), h)
      BY <1>a, <2>2, <2>3, <2>4, OrderlyTail
    <2>6. Measured(l, n, Tail(q), Clean, h)
      BY <1>a, MeasuredClean
    <2>7. ASSUME NEW s \in {"run", "trade", "equity"}, Head(q)[2] = s
          PROVE  Measured(l, n, Tail(q), Inserted(d, s), h)
      BY <1>a, <2>2, <2>3, <2>7, MeasuredOrphan
    <2> QED
      BY <2>2, <2>5, <2>6, <2>7 DEF Batched
  <1>5. CASE RefuseEngine(e)
    <2>1. ~ Disconnect(e)
      BY <1>5 DEF RefuseEngine, Disconnect, Serves
    <2>2. /\ q # <<>> /\ Head(q)[2] \in {"run", "trade", "equity"} /\ pending'[e] = n /\ queue'[e] = Tail(q) /\ dirty'[e] = d
          /\ Head(q)[1] \in Tasks => pc'[e] = [p EXCEPT ![Head(q)[1]] = "idle"]
          /\ Head(q)[1] \notin Tasks => pc'[e] = p
          /\ life'[e] = IF Head(q)[1] = "bar" THEN "dead" ELSE l
      BY <1>0, <1>5 DEF RefuseEngine, Served
    <2>3. Orderly(l, p, q, h) /\ Measured(l, n, q, d, h) /\ "idle" \in Stages
      BY <1>c, <2>1 DEF Stages
    <2>4. l # "closed" /\ (l # "running" => p["bar"] = "idle")
      BY <2>2, <2>3 DEF Orderly
    <2>5. Head(q)[2] \notin Commits
      BY <2>2 DEF Commits
    <2>6. Head(q)[1] = "bar" => l = "running"
      BY <1>a, <2>2, <2>3, TaskFact, WaitingFact
    <2> HIDE DEF l, n, p, q, d
    <2>7. Measured(l, n, Tail(q), d, h)
      BY <1>a, <2>2, <2>3, <2>5, MeasuredTail
    <2>8. Measured(life'[e], n, Tail(q), d, h)
      <3> DEFINE m == life'[e]
      <3>1. (m = "closed" => l = "closed") /\ (l # "running" /\ h => m # "running" /\ h)
        BY <2>2, <2>4, <2>6
      <3> HIDE DEF m
      <3>2. Measured(m, n, Tail(q), d, h)
        BY <1>a, <2>7, <3>1, MeasuredSame
      <3> QED
        BY <3>2 DEF m
    <2>9. Orderly(life'[e], pc'[e], Tail(q), h)
      <3>1. CASE Head(q)[1] \in Tasks
        <4> DEFINE t == Head(q)[1]
                   m == life'[e]
        <4>1. t \in Tasks /\ Head(q)[1] = t /\ (m = l \/ (m = "dead" /\ t = "bar")) /\ pc'[e] = [p EXCEPT ![t] = "idle"]
          BY <2>2, <3>1
        <4> HIDE DEF t, m
        <4>2. Orderly(m, [p EXCEPT ![t] = "idle"], Tail(q), h)
          BY <1>a, <2>2, <2>3, <4>1, OrderlyResumed
        <4> QED
          BY <4>1, <4>2 DEF m
      <3>2. CASE Head(q)[1] \notin Tasks
        <4>1. life'[e] = l /\ pc'[e] = p
          BY <2>2, <3>2, TaskFact
        <4>2. Orderly(l, p, Tail(q), h)
          BY <1>a, <2>2, <2>3, <2>4, OrderlyTail
        <4> QED
          BY <4>1, <4>2
      <3> QED
        BY <3>1, <3>2
    <2> QED
      BY <2>2, <2>8, <2>9 DEF Batched
  <1>6. ASSUME NEW t \in Tasks, RecordTrade(e, t) \/ SyncState(e, t) \/ SampleEquity(e)
        PROVE  Goal
    <2>1. ~ Disconnect(e)
      <3>1. RecordTrade(e, t) \/ SyncState(e, t) \/ SampleEquity(e) => \E x : queue'[e] = Append(q, x)
        BY <1>0 DEF RecordTrade, SyncState, SampleEquity, Ask
      <3>2. Disconnect(e) => queue'[e] = <<>>
        BY <1>0 DEF Disconnect
      <3>3. \A x : Append(q, x) # <<>>
        BY <1>a
      <3> QED
        BY <1>6, <3>1, <3>2, <3>3
    <2>2. Orderly(l, p, q, h)
      BY <1>c, <2>1
    <2>3. \E u \in Tasks, s \in {"run", "trade", "equity"} :
            /\ p[u] \in {"idle", "sync"} /\ life'[e] = l /\ pending'[e] = n /\ pc'[e] = [p EXCEPT ![u] = s]
            /\ queue'[e] = Append(q, <<u, s>>) /\ dirty'[e] = d /\ l # "closed" /\ (u = "bar" => l = "running")
      <3>1. CASE RecordTrade(e, t)
        BY <1>0, <3>1 DEF RecordTrade, AtRest, Ask, Open
      <3>2. CASE SyncState(e, t)
        <4>1. l # "closed" /\ (t = "bar" => l = "running")
          BY <2>2, <3>2, TaskFact DEF SyncState, Orderly
        <4> QED
          BY <1>0, <3>2, <4>1 DEF SyncState, Ask
      <3>3. CASE SampleEquity(e)
        BY <1>0, <3>3, TaskFact DEF SampleEquity, AtRest, Ask
      <3> QED
        BY <1>6, <3>1, <3>2, <3>3
    <2>4. PICK u \in Tasks, s \in {"run", "trade", "equity"} :
            /\ p[u] \in {"idle", "sync"} /\ life'[e] = l /\ pending'[e] = n /\ pc'[e] = [p EXCEPT ![u] = s]
            /\ queue'[e] = Append(q, <<u, s>>) /\ dirty'[e] = d /\ l # "closed" /\ (u = "bar" => l = "running")
      BY <2>3
    <2> HIDE DEF l, n, p, q, d
    <2>5. Batched(l, n, [p EXCEPT ![u] = s], Append(q, <<u, s>>), d, h)
      BY <1>a, <1>c, <2>1, <2>4, BatchedAsked
    <2> QED
      BY <2>4, <2>5
  <1>7. CASE StartOne(e)
    <2>1. ~ Disconnect(e)
      BY <1>7, <1>0 DEF StartOne, Disconnect
    <2>2. l = "unborn" /\ session = "starting" /\ p["bar"] = "idle"
      BY <1>0, <1>7, TaskFact DEF StartOne, EnginesSound, Sound
    <2>3. ~ h
      BY <1>c, <2>1, <2>2 DEF Stopping
    <2>4. /\ life'[e] = "running" /\ pending'[e] = n /\ pc'[e] = [p EXCEPT !["bar"] = "run"]
          /\ queue'[e] = Append(q, <<"bar", "run">>) /\ dirty'[e] = d
      BY <1>0, <1>7 DEF StartOne, Ask
    <2> HIDE DEF l, n, p, q, d
    <2>5. Batched("running", n, [p EXCEPT !["bar"] = "run"], Append(q, <<"bar", "run">>), d, h)
      BY <1>a, <1>c, <2>1, <2>2, <2>3, TaskFact, BatchedAsked
    <2> QED
      BY <2>4, <2>5
  <1>8. CASE EngineFails(e) \/ TaskEnds(e)
    <2>1. ~ Disconnect(e)
      BY <1>8, <1>0 DEF EngineFails, TaskEnds, Disconnect
    <2>2. /\ l = "running" /\ life'[e] = "dead" /\ pending'[e] = n /\ pc'[e]["bar"] = "idle" /\ queue'[e] = q /\ dirty'[e] = d
          /\ p["bar"] \in {"idle", "sync"}
      <3>1. DOMAIN p = Tasks
        BY <1>a DEF Typed
      <3> QED
        BY <1>0, <1>8, <3>1, TaskFact DEF EngineFails, TaskEnds
    <2>3. Orderly(l, p, q, h) /\ Measured(l, n, q, d, h)
      BY <1>c, <2>1
    <2>4. \A i \in 1..Len(q) : q[i][1] # Nobody
      BY <2>2, <2>3 DEF Orderly
    <2> HIDE DEF l, n, p, q, d
    <2>5. Measured("dead", n, q, d, h)
      BY <1>a, <2>2, <2>3, MeasuredSame
    <2>6. Orderly("dead", pc'[e], q, h)
      BY <2>2, <2>3, <2>4 DEF Orderly
    <2> QED
      BY <2>2, <2>5, <2>6 DEF Batched
  <1>9. CASE CancelTask(e)
    <2> DEFINE z == [i \in 1..Len(q) |-> IF q[i][1] = "bar" THEN <<Nobody, q[i][2]>> ELSE q[i]]
    <2>1. ~ Disconnect(e)
      BY <1>9, <1>0 DEF CancelTask, Disconnect
    <2>2. /\ l = "running" /\ life'[e] = "dead" /\ pending'[e] = n /\ pc'[e]["bar"] = "idle" /\ queue'[e] = z /\ dirty'[e] = d
      <3>1. DOMAIN p = Tasks
        BY <1>a DEF Typed
      <3> QED
        BY <1>0, <1>9, <3>1, TaskFact DEF CancelTask
    <2>3. h /\ Orderly(l, p, q, h) /\ Measured(l, n, q, d, h)
      BY <1>c, <1>9, <2>1 DEF CancelTask, Stopping
    <2> DEFINE r == pc'[e]
    <2>4. r["bar"] = "idle"
      BY <2>2
    <2> HIDE DEF l, n, p, q, d, r
    <2>5. Measured("dead", n, z, d, h)
      BY <1>a, <2>2, <2>3, MeasuredCancel
    <2>6. Orderly("dead", r, z, h)
      BY <1>a, <2>3, <2>4, OrderlyCancel
    <2> QED
      BY <2>2, <2>5, <2>6 DEF Batched, r
  <1>10. CASE CloseStore(e)
    <2> DEFINE x == <<"stop", "flush">>
    <2>1. /\ life'[e] = l /\ pending'[e] = n /\ pc'[e] = p /\ queue'[e] = Append(q, x) /\ dirty'[e] = d /\ l # "closed"
      BY <1>0, <1>10 DEF CloseStore, Open
    <2>2. ~ Disconnect(e)
      <3>1. Append(q, x) # <<>>
        BY <1>a
      <3> QED
        BY <1>0, <2>1, <3>1 DEF Disconnect
    <2>3. Orderly(l, p, q, h) /\ Measured(l, n, q, d, h)
      BY <1>c, <2>2
    <2>4. x \in Requests /\ x[1] # Nobody /\ x[2] \notin Commits
      BY DEF Requests, Nobody, Commits
    <2> HIDE DEF l, n, p, q, d
    <2>5. Orderly(l, p, Append(q, x), h)
      BY <1>a, <2>1, <2>3, OrderlyStopAsked
    <2> HIDE DEF x
    <2>6. Measured(l, n, Append(q, x), d, h)
      BY <1>a, <2>3, <2>4, MeasuredAppend
    <2> QED
      BY <2>1, <2>5, <2>6 DEF Batched
  <1>11. CASE FlushBuffered(e)
    <2>1. ~ Disconnect(e)
      BY <1>11 DEF FlushBuffered, Disconnect, Serves
    <2>2. /\ q # <<>> /\ Head(q)[1] = "stop" /\ life'[e] = l /\ pending'[e] = n /\ pc'[e] = p
          /\ queue'[e] = Append(Tail(q), <<"stop", "close">>) /\ dirty'[e] = Clean
      BY <1>0, <1>11 DEF FlushBuffered, Commit, Serves
    <2>3. Orderly(l, p, q, h)
      BY <1>c, <2>1
    <2>4. l # "closed" /\ (l # "running" => p["bar"] = "idle")
      BY <2>2, <2>3 DEF Orderly
    <2> DEFINE w == Tail(q)
    <2>5. w \in Seq(Requests)
      BY <1>a, <2>2, TailFact
    <2> HIDE DEF l, n, p, q, d
    <2>6. Orderly(l, p, w, h)
      BY <1>a, <2>2, <2>3, <2>4, OrderlyTail
    <2> HIDE DEF w
    <2>7. Orderly(l, p, Append(w, <<"stop", "close">>), h)
      BY <2>4, <2>5, <2>6, OrderlyStopAsked
    <2>8. Measured(l, n, Append(w, <<"stop", "close">>), Clean, h)
      BY <1>a, MeasuredClean
    <2> QED
      BY <2>2, <2>7, <2>8 DEF Batched, w
  <1>12. CASE Disconnect(e)
    <2>1. life'[e] = "closed" /\ pending'[e] = 0 /\ pc'[e] = [t \in Tasks |-> "idle"] /\ queue'[e] = <<>> /\ dirty'[e] = Clean
      BY <1>0, <1>12 DEF Disconnect
    <2>2. Orderly("closed", [t \in Tasks |-> "idle"], <<>>, h)
      BY TaskFact DEF Orderly
    <2>3. Measured("closed", 0, <<>>, Clean, h)
      BY <1>a, MeasuredClean
    <2> QED
      BY <2>1, <2>2, <2>3 DEF Batched
  <1> QED
    BY <1>1, <1>2, <1>3, <1>4, <1>5, <1>6, <1>7, <1>8, <1>9, <1>10, <1>11, <1>12, TaskFact DEF EngineStep

\* A step that is of no engine: the process dies, or stop() begins to wait, or nothing of this changes.
LEMMA EnginesBatchedElse ==
  ASSUME Types, EnginesBatched, StoreNext, ~ \E e \in Engines : EngineStep(e)
  PROVE  EnginesBatched'
  <1>1. CASE StoreCrash
    <2>1. /\ \A e \in Engines : /\ life'[e] # "running" /\ pending'[e] = 0 /\ pc'[e] = [t \in Tasks |-> "idle"]
                                /\ queue'[e] = <<>> /\ dirty'[e] = Clean
          /\ 0 \in Nat
      BY <1>1 DEF StoreCrash
    <2>2. ASSUME NEW e \in Engines
          PROVE  Batched(life'[e], pending'[e], pc'[e], queue'[e], dirty'[e], Stopping(e)')
      <3> DEFINE h == Stopping(e)'
                 m == life'[e]
                 p == [t \in Tasks |-> "idle"]
      <3>1. p["bar"] = "idle" /\ p["kill"] = "idle"
        BY TaskFact
      <3> HIDE DEF h, m, p
      <3>2. Orderly(m, p, <<>>, h)
        BY <3>1 DEF Orderly
      <3>3. Measured(m, 0, <<>>, Clean, h)
        BY <2>1, MeasuredClean
      <3>4. Batched(m, 0, p, <<>>, Clean, h)
        BY <3>2, <3>3 DEF Batched
      <3> QED
        BY <2>1, <3>4 DEF m, p, h
    <2> QED
      BY <2>2 DEF EnginesBatched
  <1>2. CASE ~ StoreCrash
    <2>1. UNCHANGED <<engineVars, dirty>> /\ \A e \in Engines : Stopping(e) => Stopping(e)'
      BY <1>2 DEF StoreNext, StartSession, StopSession, RecordObservation, InsertObservation, CommitObservation,
                  RefuseObservation, CheckStopped, SelectRuns, DeleteRuns, CommitClear, RefuseClear, notWriter,
                  sessionVars, Stopping
    <2>2. ASSUME NEW e \in Engines
          PROVE  Batched(life'[e], pending'[e], pc'[e], queue'[e], dirty'[e], Stopping(e)')
      <3> DEFINE g == Stopping(e)
                 h == Stopping(e)'
      <3>1. Batched(life[e], pending[e], pc[e], queue[e], dirty[e], g) /\ (g => h)
        BY <2>1 DEF EnginesBatched
      <3>2. Typed(life[e], pending[e], pc[e], queue[e], dirty[e])
        BY TypedFact
      <3> HIDE DEF g, h
      <3>3. Batched(life[e], pending[e], pc[e], queue[e], dirty[e], h)
        BY <3>1, <3>2, BatchedStays
      <3> QED
        BY <2>1, <3>3 DEF h, engineVars
    <2> QED
      BY <2>2 DEF EnginesBatched
  <1> QED
    BY <1>1, <1>2

LEMMA LockHasRowsStep ==
  ASSUME Types, LockHasRows, StoreNext
  PROVE  LockHasRows'
  <1>0. dirty \in [Engines -> Rows]
    BY DEF Types, Locked
  <1>1. ASSUME NEW e \in Engines, writer' = e, NEW s \in {"run", "trade", "equity"}, s = "run" => NewRunId \in RunIds,
               dirty' = [dirty EXCEPT ![e] = Inserted(@, s)]
        PROVE  LockHasRows'
    <2>1. dirty[e] \in Rows /\ dirty'[e] = Inserted(dirty[e], s)
      BY <1>0, <1>1
    <2>2. Inserted(dirty[e], s) # Clean
      BY <1>1, <2>1, NumbersFact DEF Inserted, Rows, Clean
    <2> QED
      BY <1>1, <2>1, <2>2 DEF LockHasRows
  <1>2. ASSUME NEW e \in Engines, writer' = (IF writer = e THEN Nobody ELSE writer), dirty' = [dirty EXCEPT ![e] = Clean]
        PROVE  LockHasRows'
    BY <1>0, <1>2, NamesFact DEF LockHasRows
  <1>3. ASSUME writer' \in {Nobody, Recorder, Cleaner}
        PROVE  LockHasRows'
    BY <1>3, NamesFact DEF LockHasRows
  <1>4. ASSUME NEW e \in Engines, NEW t \in Tasks, InsertRun(e, t) \/ InsertTrade(e, t) \/ InsertEquity(e, t)
        PROVE  LockHasRows'
    <2>1. /\ writer' = e
          /\ \E s \in {"run", "trade", "equity"} :
               (s = "run" => NewRunId \in RunIds) /\ dirty' = [dirty EXCEPT ![e] = Inserted(@, s)]
      BY <1>4 DEF InsertRun, InsertTrade, InsertEquity
    <2> QED
      BY <1>1, <2>1
  <1>5. ASSUME NEW e \in Engines, NEW t \in Tasks,
               CommitRun(e, t) \/ CommitTrade(e, t) \/ CommitEquity(e, t) \/ FlushBuffered(e) \/ Disconnect(e)
        PROVE  LockHasRows'
    BY <1>2, <1>5 DEF CommitRun, CommitTrade, CommitEquity, FlushBuffered, Disconnect, Commit
  <1>6. ASSUME NEW e \in Engines, OrphanRequest(e)
        PROVE  LockHasRows'
    BY <1>1, <1>2, <1>6 DEF OrphanRequest, Commit
  <1>7. CASE StoreCrash \/ InsertObservation \/ CommitObservation \/ DeleteRuns \/ CommitClear
    BY <1>3, <1>7 DEF StoreCrash, InsertObservation, CommitObservation, DeleteRuns, CommitClear
  <1>8. ASSUME UNCHANGED <<writer, dirty>>
        PROVE  LockHasRows'
    BY <1>8 DEF LockHasRows
  <1>9. ASSUME NEW e \in Engines, NEW t \in Tasks,
               \/ RecordTrade(e, t) \/ SyncState(e, t) \/ RefuseEngine(e) \/ SampleEquity(e) \/ EngineFails(e)
               \/ StartOne(e) \/ TaskEnds(e) \/ CancelTask(e) \/ CloseStore(e)
        PROVE  LockHasRows'
    <2>1. UNCHANGED <<writer, dirty>>
      BY <1>9 DEF RecordTrade, SyncState, RefuseEngine, SampleEquity, EngineFails, StartOne, TaskEnds, CancelTask,
                  CloseStore
    <2> QED
      BY <1>8, <2>1
  <1>10. CASE StartSession \/ StopSession \/ RecordObservation \/ RefuseObservation \/ CheckStopped \/ SelectRuns \/ RefuseClear
    <2>1. UNCHANGED <<writer, dirty>>
      BY <1>10 DEF StartSession, StopSession, RecordObservation, RefuseObservation, CheckStopped, SelectRuns,
                   RefuseClear, notWriter
    <2> QED
      BY <1>8, <2>1
  <1> QED
    BY <1>4, <1>5, <1>6, <1>7, <1>9, <1>10, TaskFact DEF StoreNext, EngineStep

BatchInv == Types /\ EnginesBatched /\ LockHasRows

LEMMA BatchInvariant == StoreSpec => []BatchInv
  <1>1. StoreInit => BatchInv
    <2> SUFFICES ASSUME StoreInit
                 PROVE  EnginesBatched /\ LockHasRows
      BY TypesInit DEF BatchInv
    <2>1. LockHasRows
      BY NamesFact DEF StoreInit, LockHasRows
    <2>2. ASSUME NEW e \in Engines
          PROVE  Batched(life[e], pending[e], pc[e], queue[e], dirty[e], Stopping(e))
      <3> DEFINE g == Stopping(e)
                 p == [t \in Tasks |-> "idle"]
      <3>1. life[e] = "unborn" /\ pending[e] = 0 /\ pc[e] = p /\ queue[e] = <<>> /\ dirty[e] = Clean /\ 0 \in Nat
        BY DEF StoreInit
      <3>2. p["bar"] = "idle"
        BY TaskFact
      <3> HIDE DEF g, p
      <3>3. Orderly("unborn", p, <<>>, g) /\ Measured("unborn", 0, <<>>, Clean, g)
        BY <3>1, <3>2, MeasuredClean DEF Orderly
      <3> QED
        BY <3>1, <3>3 DEF Batched, g
    <2> QED
      BY <2>1, <2>2 DEF EnginesBatched
  <1>2. BatchInv /\ [StoreNext]_storeVars => BatchInv'
    <2>1. CASE UNCHANGED storeVars
      BY <2>1, TypesStutter DEF BatchInv, storeVars, EnginesBatched, LockHasRows, Stopping
    <2>2. ASSUME BatchInv, StoreNext
          PROVE  BatchInv'
      BY <2>2, TypesStep, EnginesBatchedStep, EnginesBatchedElse, LockHasRowsStep DEF BatchInv
    <2> QED
      BY <2>1, <2>2
  <1> QED
    BY <1>1, <1>2, PTL DEF StoreSpec

LEMMA TwoTasks == Cardinality(Tasks) = 2
  <1>1. Cardinality({"bar"}) = 1 /\ IsFiniteSet({"bar"})
    BY FS_Singleton
  <1>2. Cardinality({"bar"} \cup {"kill"}) = 2
    BY <1>1, FS_AddElement
  <1>3. Tasks = {"bar"} \cup {"kill"}
    BY DEF Tasks
  <1> QED
    BY <1>2, <1>3

\* A crash loses at most one batch of equity samples, and one more for the other task that was
\* about to write one: the counter that record_equity and record_trade move (database.py:124)
\* and the samples of the open transaction stay together, although a bar task, a flatten and
\* requests whose task was cancelled interleave on the connection.
THEOREM LossIsBounded == StoreSpec => []LossBounded
  <1>1. ASSUME BatchInv, NEW e \in Engines
        PROVE  dirty[e].equity <= Batch + 1
    <2> DEFINE g == Stopping(e)
    <2>1. dirty[e].equity \in Nat /\ pending[e] \in 0..(Batch - 1) /\ Batch \in Nat
      BY <1>1, TypedFact, NumbersFact DEF BatchInv, Rows
    <2>2. Measured(life[e], pending[e], queue[e], dirty[e], g)
      BY <1>1 DEF BatchInv, EnginesBatched, Batched
    <2>3. Uncounted(life[e], queue[e], g) \in {0, 1}
      BY UncountedFact
    <2> HIDE DEF g
    <2> QED
      BY <2>1, <2>2, <2>3 DEF Measured, AwaitsCommit
  <1>2. BatchInv => LossBounded
    BY <1>1, TwoTasks, NumbersFact DEF LossBounded
  <1> QED
    BY <1>2, BatchInvariant, PTL

\* While the process sleeps between two bars the write lock is held, if at all, for less than
\* a batch of equity samples: never for a trade or a run, whose commits do not wait for the
\* batch (database.py:125), nor for an observation or a clear.
THEOREM SamplesHoldTheLock == StoreSpec => []OnlySamplesHoldTheLock
  <1>1. ASSUME BatchInv, HolderSleeps
        PROVE  dirty[writer].run = 0 /\ dirty[writer].trades = 0 /\ dirty[writer].equity \in 1..(Batch - 1)
    <2> DEFINE g == Stopping(writer)
    <2>1. writer \in Engines /\ queue[writer] = <<>> /\ ~ g
      BY <1>1 DEF HolderSleeps, Stopping
    <2>2. dirty[writer] \in Rows /\ dirty[writer] # Clean /\ pending[writer] \in 0..(Batch - 1) /\ Batch \in Nat
      BY <1>1, <2>1, TypedFact, NumbersFact DEF BatchInv, LockHasRows
    <2>3. Measured(life[writer], pending[writer], <<>>, dirty[writer], g)
      BY <1>1, <2>1 DEF BatchInv, EnginesBatched, Batched
    <2> HIDE DEF g
    <2>4. Uncounted(life[writer], <<>>, g) = 0
      BY <2>1, UncountedFact
    <2>5. dirty[writer].run = 0 /\ dirty[writer].trades = 0 /\ dirty[writer].equity <= pending[writer]
      BY <2>1, <2>2, <2>3, <2>4 DEF Measured, AwaitsCommit
    <2>6. dirty[writer].equity # 0
      BY <2>2, <2>5 DEF Rows, Clean
    <2> QED
      BY <2>2, <2>5, <2>6 DEF Rows
  <1>2. BatchInv => OnlySamplesHoldTheLock
    BY <1>1 DEF OnlySamplesHoldTheLock
  <1> QED
    BY <1>2, BatchInvariant, PTL

=============================================================================
