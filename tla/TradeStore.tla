----------------------------- MODULE TradeStore -----------------------------
(* The trade store (persistence/database.py) with everything that writes to its *)
(* one SQLite file: the engines, each over a connection of its own with a bar   *)
(* task and at most one flatten, the recorder, and the "clear runs" request.    *)
(*                                                                              *)
(* A connection executes its requests in order, on its own thread.  The first   *)
(* statement that writes takes the file's only write lock and keeps it until    *)
(* the connection commits; the write of another connection waits for            *)
(* busy_timeout and is then refused ("database is locked").                     *)
EXTENDS Naturals, Sequences, FiniteSets

CONSTANTS
  Engines,     \* the engines that are ever built, each with its own connection
  Symbols,     \* the engines of one session
  Batch,       \* equity_commit_every
  MaxRuns,     \* bound: ids of runs ever given
  MaxTrades,   \* bound: trades of one engine
  MaxClears,   \* bound: requests to clear the runs
  MaxCrashes,  \* bound: crashes of the process
  Recording    \* TRUE when the recorder may run

ASSUME StoreAssumption ==
  /\ IsFiniteSet(Engines)
  /\ Symbols \in Nat \ {0}
  /\ Batch \in Nat \ {0}
  /\ {MaxRuns, MaxTrades, MaxClears, MaxCrashes} \subseteq Nat
  /\ Recording \in BOOLEAN

Recorder == "recorder"
Cleaner == "cleaner"
Nobody == "nobody"
Conns == Engines \cup {Recorder, Cleaner}

ASSUME ConnsAssumption == {Recorder, Cleaner, Nobody} \cap Engines = {}

\* The two tasks that write through an engine's connection.
Tasks == {"bar", "kill"}

VARIABLES
  \* the file
  runs,      \* ids of the committed rows of "runs"
  seq,       \* the last id AUTOINCREMENT gave to a committed run
  trades,    \* committed trades of each run id
  writer,    \* the connection that holds the write lock
  dirty,     \* uncommitted rows of each engine's connection
  \* the engines
  life,      \* "unborn", "running", "dead" (connection still open), "closed"
  runId,     \* _run_id; 0 is None
  pending,   \* _pending_equity
  pc,        \* where a task waits
  queue,     \* requests of a connection: task and statement, oldest first
  \* the controller, the recorder and the clear request
  listed,    \* controller._engines (and ._stores)
  session,   \* "idle", "starting", "stopping": who holds controller._lock
  rec,       \* the recorder's connection
  clear,     \* the clear request
  doomed,    \* the ids it selected
  \* history
  returned,  \* trades of an engine whose record_trade returned
  fresh,     \* engines started since the check of the clear request
  clears, crashes

fileVars == <<runs, seq, trades>>
engineVars == <<life, runId, pending, pc, queue>>
sessionVars == <<listed, session>>
storeGhosts == <<returned, fresh, clears, crashes>>
storeVars == <<runs, seq, trades, writer, dirty, life, runId, pending, pc, queue, listed,
          session, rec, clear, doomed, returned, fresh, clears, crashes>>

Clean == [run |-> 0, equity |-> 0, trades |-> 0]
RunIds == 1..MaxRuns

StoreInit ==
  /\ runs = {} /\ seq = 0
  /\ trades = [r \in RunIds |-> 0]
  /\ writer = Nobody
  /\ dirty = [e \in Engines |-> Clean]
  /\ life = [e \in Engines |-> "unborn"]
  /\ runId = [e \in Engines |-> 0]
  /\ pending = [e \in Engines |-> 0]
  /\ pc = [e \in Engines |-> [t \in Tasks |-> "idle"]]
  /\ queue = [e \in Engines |-> <<>>]
  /\ listed = {} /\ session = "idle"
  /\ rec = "idle" /\ clear = "off" /\ doomed = {}
  /\ returned = [e \in Engines |-> 0]
  /\ fresh = {} /\ clears = 0 /\ crashes = 0

IsRunning == \E e \in listed : life[e] = "running"
Open(e) == life[e] \in {"running", "dead"}

-----------------------------------------------------------------------------
(* Requests and the thread of a connection.                                     *)

\* Task t of engine e awaits statement s.
Ask(e, t, s) ==
  /\ pc' = [pc EXCEPT ![e][t] = s]
  /\ queue' = [queue EXCEPT ![e] = Append(@, <<t, s>>)]

\* The thread of e turns to the oldest request, a statement s of task t.
Serves(e, t, s) == queue[e] # <<>> /\ Head(queue[e]) = <<t, s>>
Served(e) == queue' = [queue EXCEPT ![e] = Tail(@)]

\* Mutant: a connection writes past the lock of another.
IgnoresLock(c) == c \in Conns

\* c may write: the lock is free or its own.
MayWrite(c) == writer \in {Nobody, c}

\* The rows of e become durable and the lock is free.
Commit(e) ==
  /\ runs' = IF dirty[e].run = 0 THEN runs ELSE runs \cup {dirty[e].run}
  /\ seq' = IF dirty[e].run = 0 THEN seq ELSE dirty[e].run
  /\ trades' = IF runId[e] = 0 THEN trades ELSE [trades EXCEPT ![runId[e]] = @ + dirty[e].trades]
  /\ dirty' = [dirty EXCEPT ![e] = Clean]
  /\ writer' = IF writer = e THEN Nobody ELSE writer

\* Mutant: a plain INTEGER PRIMARY KEY reuses the largest id once it is deleted.
ReusedRunId == 1 + (IF runs = {} THEN 0 ELSE CHOOSE m \in runs : \A n \in runs : n <= m)

\* INSERT INTO runs: AUTOINCREMENT never gives an id twice.
NewRunId == seq + 1

\* The uncommitted rows d of a connection and the row that statement s inserts.
Inserted(d, s) ==
  CASE s = "run" -> [run |-> NewRunId, equity |-> d.equity, trades |-> d.trades]
    [] s = "trade" -> [run |-> d.run, equity |-> d.equity, trades |-> d.trades + 1]
    [] s = "equity" -> [run |-> d.run, equity |-> d.equity + 1, trades |-> d.trades]

InsertRun(e, t) ==
  /\ Serves(e, t, "run") /\ MayWrite(e) /\ NewRunId \in RunIds
  /\ writer' = e
  /\ dirty' = [dirty EXCEPT ![e] = Inserted(@, "run")]
  /\ pc' = [pc EXCEPT ![e][t] = "runCommit"]
  /\ queue' = [queue EXCEPT ![e] = Append(Tail(@), <<t, "runCommit">>)]
  /\ UNCHANGED <<fileVars, life, runId, pending, sessionVars, rec, clear, doomed, storeGhosts>>

\* Mutant: start_run returns without a commit.
RunNotCommitted(e, t) ==
  /\ Serves(e, t, "runCommit") /\ Served(e)
  /\ runId' = [runId EXCEPT ![e] = dirty[e].run]
  /\ pc' = [pc EXCEPT ![e][t] = "idle"]
  /\ UNCHANGED <<fileVars, writer, dirty, life, pending, sessionVars, rec, clear, doomed, storeGhosts>>

CommitRun(e, t) ==
  /\ Serves(e, t, "runCommit") /\ Served(e)
  /\ Commit(e)
  /\ runId' = [runId EXCEPT ![e] = dirty[e].run]
  /\ pc' = [pc EXCEPT ![e][t] = "idle"]
  /\ UNCHANGED <<life, pending, sessionVars, rec, clear, doomed, storeGhosts>>

\* Mutant: a trade joins the batch of equity samples.
TradeBatched(e, t) ==
  /\ Serves(e, t, "trade") /\ MayWrite(e) /\ Served(e)
  /\ writer' = e
  /\ dirty' = [dirty EXCEPT ![e] = Inserted(@, "trade")]
  /\ returned' = [returned EXCEPT ![e] = @ + 1]
  /\ pc' = [pc EXCEPT ![e][t] = "sync"]
  /\ UNCHANGED <<fileVars, life, runId, pending, sessionVars, rec, clear, doomed, fresh, clears, crashes>>

\* record_trade: the batch counter is reset, then the commit is requested.
InsertTrade(e, t) ==
  /\ Serves(e, t, "trade") /\ MayWrite(e)
  /\ writer' = e
  /\ dirty' = [dirty EXCEPT ![e] = Inserted(@, "trade")]
  /\ pending' = [pending EXCEPT ![e] = 0]
  /\ pc' = [pc EXCEPT ![e][t] = "tradeCommit"]
  /\ queue' = [queue EXCEPT ![e] = Append(Tail(@), <<t, "tradeCommit">>)]
  /\ UNCHANGED <<fileVars, life, runId, sessionVars, rec, clear, doomed, storeGhosts>>

CommitTrade(e, t) ==
  /\ Serves(e, t, "tradeCommit") /\ Served(e)
  /\ Commit(e)
  /\ returned' = [returned EXCEPT ![e] = @ + 1]
  /\ pc' = [pc EXCEPT ![e][t] = "sync"]
  /\ UNCHANGED <<life, runId, pending, sessionVars, rec, clear, doomed, fresh, clears, crashes>>

\* Mutant: the counter is compared before it is incremented.
BatchFullLate(e) == pending[e] >= Batch

BatchFull(e) == pending[e] + 1 >= Batch

\* record_equity: a full batch is committed, a smaller one waits.
InsertEquity(e, t) ==
  /\ Serves(e, t, "equity") /\ MayWrite(e)
  /\ writer' = e
  /\ dirty' = [dirty EXCEPT ![e] = Inserted(@, "equity")]
  /\ IF BatchFull(e)
     THEN /\ pending' = [pending EXCEPT ![e] = 0]
          /\ pc' = [pc EXCEPT ![e][t] = "equityCommit"]
          /\ queue' = [queue EXCEPT ![e] = Append(Tail(@), <<t, "equityCommit">>)]
     ELSE /\ pending' = [pending EXCEPT ![e] = @ + 1]
          /\ pc' = [pc EXCEPT ![e][t] = "idle"]
          /\ Served(e)
  /\ UNCHANGED <<fileVars, life, runId, sessionVars, rec, clear, doomed, storeGhosts>>

CommitEquity(e, t) ==
  /\ Serves(e, t, "equityCommit") /\ Served(e)
  /\ Commit(e)
  /\ pc' = [pc EXCEPT ![e][t] = "idle"]
  /\ UNCHANGED <<life, runId, pending, sessionVars, rec, clear, doomed, storeGhosts>>

\* A request of a task that was cancelled while it waited: executed, nobody resumes.
OrphanRequest(e) ==
  /\ queue[e] # <<>> /\ Head(queue[e])[1] = Nobody
  /\ Served(e)
  /\ LET s == Head(queue[e])[2] IN
     \/ /\ s \in {"run", "trade", "equity"} /\ MayWrite(e)
        /\ s = "run" => NewRunId \in RunIds
        /\ writer' = e
        /\ dirty' = [dirty EXCEPT ![e] = Inserted(@, s)]
        /\ UNCHANGED fileVars
     \/ s \in {"runCommit", "tradeCommit", "equityCommit"} /\ Commit(e)
  /\ UNCHANGED <<life, runId, pending, pc, sessionVars, rec, clear, doomed, storeGhosts>>

\* The holder of the lock has nothing to do before its next bar, which is longer
\* away than busy_timeout.
HolderSleeps ==
  /\ writer \in Engines
  /\ queue[writer] = <<>>
  /\ ~(writer \in listed /\ session = "stopping")

\* busy_timeout expires: the write of an engine raises.  The bar task ends with it
\* (_run_guarded), a flatten is caught by flatten_all.
RefuseEngine(e) ==
  /\ queue[e] # <<>> /\ Head(queue[e])[2] \in {"run", "trade", "equity"}
  /\ ~MayWrite(e) /\ HolderSleeps
  /\ Served(e)
  /\ LET t == Head(queue[e])[1] IN
     /\ pc' = IF t \in Tasks THEN [pc EXCEPT ![e][t] = "idle"] ELSE pc
     /\ life' = IF t = "bar" THEN [life EXCEPT ![e] = "dead"] ELSE life
  /\ UNCHANGED <<fileVars, writer, dirty, runId, pending, sessionVars, rec, clear, doomed, storeGhosts>>

-----------------------------------------------------------------------------
(* Engines.                                                                     *)

\* A task of e is between two writes, and e has its run.
AtRest(e, t) == pc[e][t] = "idle" /\ runId[e] # 0

\* _exit on a bar, or in flatten(): the position is closed and the trade recorded.
RecordTrade(e, t) ==
  /\ AtRest(e, t) /\ trades[runId[e]] + dirty[e].trades < MaxTrades
  /\ IF t = "bar" THEN life[e] = "running" ELSE e \in listed /\ Open(e)
  /\ Ask(e, t, "trade")
  /\ UNCHANGED <<fileVars, writer, dirty, life, runId, pending, sessionVars, rec, clear, doomed, storeGhosts>>

\* _sync_state at the end of a bar without an exit.
SampleEquity(e) ==
  /\ life[e] = "running" /\ AtRest(e, "bar")
  /\ Ask(e, "bar", "equity")
  /\ UNCHANGED <<fileVars, writer, dirty, life, runId, pending, sessionVars, rec, clear, doomed, storeGhosts>>

\* _sync_state after an exit.
SyncState(e, t) ==
  /\ pc[e][t] = "sync"
  /\ Ask(e, t, "equity")
  /\ UNCHANGED <<fileVars, writer, dirty, life, runId, pending, sessionVars, rec, clear, doomed, storeGhosts>>

\* Anything else raises in the bar task, an order for instance.
EngineFails(e) ==
  /\ life[e] = "running" /\ pc[e]["bar"] \in {"idle", "sync"}
  /\ life' = [life EXCEPT ![e] = "dead"]
  /\ pc' = [pc EXCEPT ![e]["bar"] = "idle"]
  /\ UNCHANGED <<fileVars, writer, dirty, runId, pending, queue, sessionVars, rec, clear, doomed, storeGhosts>>

-----------------------------------------------------------------------------
(* The controller's sessions.                                                   *)

\* start(): a session whose tasks have all ended is forgotten, its stores are not closed.
StartSession ==
  /\ session = "idle" /\ ~IsRunning
  /\ Cardinality({e \in Engines : life[e] = "unborn"}) >= Symbols
  /\ session' = "starting" /\ listed' = {}
  /\ UNCHANGED <<fileVars, writer, dirty, engineVars, rec, clear, doomed, storeGhosts>>

\* _start_one: the connection is opened and the task created; its first write is start_run.
StartOne(e) ==
  /\ session = "starting" /\ life[e] = "unborn"
  /\ listed' = listed \cup {e}
  /\ session' = IF Cardinality(listed') = Symbols THEN "idle" ELSE "starting"
  /\ life' = [life EXCEPT ![e] = "running"]
  /\ Ask(e, "bar", "run")
  /\ fresh' = IF clear = "off" THEN fresh ELSE fresh \cup {e}
  /\ UNCHANGED <<fileVars, writer, dirty, runId, pending, rec, clear, doomed, returned, clears, crashes>>

StopSession ==
  /\ session = "idle" /\ listed # {}
  /\ session' = "stopping"
  /\ UNCHANGED <<fileVars, writer, dirty, engineVars, listed, rec, clear, doomed, storeGhosts>>

\* The bar task sees _stop ...
TaskEnds(e) ==
  /\ session = "stopping" /\ e \in listed
  /\ life[e] = "running" /\ pc[e]["bar"] = "idle"
  /\ life' = [life EXCEPT ![e] = "dead"]
  /\ UNCHANGED <<fileVars, writer, dirty, runId, pending, pc, queue, sessionVars, rec, clear, doomed, storeGhosts>>

\* ... or is cancelled, wherever it waits; the thread still gets its request.
CancelTask(e) ==
  /\ session = "stopping" /\ e \in listed
  /\ life[e] = "running" /\ pc[e]["bar"] # "idle"
  /\ life' = [life EXCEPT ![e] = "dead"]
  /\ pc' = [pc EXCEPT ![e]["bar"] = "idle"]
  /\ queue' = [queue EXCEPT ![e] = [i \in 1..Len(@) |-> IF @[i][1] = "bar" THEN <<Nobody, @[i][2]>> ELSE @[i]]]
  /\ UNCHANGED <<fileVars, writer, dirty, runId, pending, sessionVars, rec, clear, doomed, storeGhosts>>

Closing(e) == \E i \in 1..Len(queue[e]) : queue[e][i][1] = "stop"

\* stop() closes the stores one after the other when every task has ended.
CloseStore(e) ==
  /\ session = "stopping" /\ e \in listed /\ Open(e)
  /\ \A f \in listed : life[f] # "running" /\ ~Closing(f)
  /\ queue' = [queue EXCEPT ![e] = Append(@, <<"stop", "flush">>)]
  /\ UNCHANGED <<fileVars, writer, dirty, life, runId, pending, pc, sessionVars, rec, clear, doomed, storeGhosts>>

\* close() commits the buffered samples first.
FlushBuffered(e) ==
  /\ Serves(e, "stop", "flush")
  /\ Commit(e)
  /\ queue' = [queue EXCEPT ![e] = Append(Tail(@), <<"stop", "close">>)]
  /\ UNCHANGED <<life, runId, pending, pc, sessionVars, rec, clear, doomed, storeGhosts>>

\* The connection is gone, with what a flatten wrote after the flush; its next request raises.
Disconnect(e) ==
  /\ Serves(e, "stop", "close")
  /\ dirty' = [dirty EXCEPT ![e] = Clean]
  /\ writer' = IF writer = e THEN Nobody ELSE writer
  /\ life' = [life EXCEPT ![e] = "closed"]
  /\ pc' = [pc EXCEPT ![e] = [t \in Tasks |-> "idle"]]
  /\ queue' = [queue EXCEPT ![e] = <<>>]
  /\ IF \A f \in listed \ {e} : life[f] = "closed"
     THEN session' = "idle" /\ listed' = {}
     ELSE UNCHANGED sessionVars
  /\ pending' = [pending EXCEPT ![e] = 0]
  /\ UNCHANGED <<fileVars, runId, rec, clear, doomed, storeGhosts>>

\* The process dies: every connection is gone and its transaction with it.
StoreCrash ==
  /\ crashes < MaxCrashes /\ crashes' = crashes + 1
  /\ writer' = Nobody
  /\ dirty' = [e \in Engines |-> Clean]
  /\ life' = [e \in Engines |-> IF life[e] = "unborn" THEN "unborn" ELSE "closed"]
  /\ pc' = [e \in Engines |-> [t \in Tasks |-> "idle"]]
  /\ queue' = [e \in Engines |-> <<>>]
  /\ listed' = {} /\ session' = "idle" /\ rec' = "idle" /\ clear' = "off" /\ doomed' = {} /\ fresh' = {}
  /\ pending' = [e \in Engines |-> 0]
  /\ UNCHANGED <<fileVars, runId, returned, clears>>

-----------------------------------------------------------------------------
(* The recorder's connection (data/recorder.py): a failed write is one missing   *)
(* observation.                                                                 *)

notWriter == <<fileVars, dirty, engineVars, sessionVars, storeGhosts>>

RecordObservation ==
  /\ Recording /\ rec = "idle" /\ rec' = "insert"
  /\ UNCHANGED <<notWriter, writer, clear, doomed>>

InsertObservation ==
  /\ rec = "insert" /\ MayWrite(Recorder)
  /\ writer' = Recorder /\ rec' = "commit"
  /\ UNCHANGED <<notWriter, clear, doomed>>

CommitObservation ==
  /\ rec = "commit" /\ rec' = "idle"
  /\ writer' = Nobody
  /\ UNCHANGED <<notWriter, clear, doomed>>

RefuseObservation ==
  /\ rec = "insert" /\ ~MayWrite(Recorder) /\ HolderSleeps
  /\ rec' = "idle"
  /\ UNCHANGED <<notWriter, writer, clear, doomed>>

-----------------------------------------------------------------------------
(* POST /api/runs/clear.                                                        *)

\* Mutant: the clear does not look at the engines.
ClearUnchecked ==
  /\ clear = "off" /\ clears < MaxClears
  /\ clear' = "select" /\ clears' = clears + 1
  /\ UNCHANGED <<fileVars, writer, dirty, engineVars, sessionVars, rec, doomed, returned, fresh, crashes>>

\* Refused while an engine runs; then the request opens a connection.
CheckStopped ==
  /\ clear = "off" /\ clears < MaxClears /\ ~IsRunning
  /\ clear' = "select" /\ clears' = clears + 1
  /\ UNCHANGED <<fileVars, writer, dirty, engineVars, sessionVars, rec, doomed, returned, fresh, crashes>>

\* The runs of the environment asked for: any of them may be.
SelectRuns ==
  /\ clear = "select"
  /\ doomed' \in SUBSET runs
  /\ clear' = IF doomed' = {} THEN "off" ELSE "delete"
  /\ fresh' = IF doomed' = {} THEN {} ELSE fresh
  /\ UNCHANGED <<fileVars, writer, dirty, engineVars, sessionVars, rec, returned, clears, crashes>>

\* Four DELETEs in one transaction, the first takes the lock.
DeleteRuns ==
  /\ clear = "delete" /\ MayWrite(Cleaner)
  /\ writer' = Cleaner /\ clear' = "commit"
  /\ UNCHANGED <<notWriter, rec, doomed>>

CommitClear ==
  /\ clear = "commit" /\ clear' = "off"
  /\ runs' = runs \ doomed
  /\ trades' = [r \in RunIds |-> IF r \in doomed THEN 0 ELSE trades[r]]
  /\ writer' = Nobody /\ doomed' = {} /\ fresh' = {}
  /\ UNCHANGED <<seq, dirty, engineVars, sessionVars, rec, returned, clears, crashes>>

RefuseClear ==
  /\ clear = "delete" /\ ~MayWrite(Cleaner) /\ HolderSleeps
  /\ clear' = "off" /\ doomed' = {} /\ fresh' = {}
  /\ UNCHANGED <<fileVars, writer, dirty, engineVars, sessionVars, rec, returned, clears, crashes>>

-----------------------------------------------------------------------------
EngineStep(e) ==
  \/ \E t \in Tasks : \/ InsertRun(e, t) \/ CommitRun(e, t) \/ InsertTrade(e, t) \/ CommitTrade(e, t)
                      \/ InsertEquity(e, t) \/ CommitEquity(e, t) \/ RecordTrade(e, t) \/ SyncState(e, t)
  \/ OrphanRequest(e) \/ RefuseEngine(e) \/ SampleEquity(e) \/ EngineFails(e)
  \/ StartOne(e) \/ TaskEnds(e) \/ CancelTask(e) \/ CloseStore(e) \/ FlushBuffered(e) \/ Disconnect(e)

StoreNext ==
  \/ \E e \in Engines : EngineStep(e)
  \/ StartSession \/ StopSession \/ StoreCrash
  \/ RecordObservation \/ InsertObservation \/ CommitObservation
  \/ RefuseObservation
  \/ CheckStopped \/ SelectRuns \/ DeleteRuns \/ CommitClear \/ RefuseClear

StoreSpec == StoreInit /\ [][StoreNext]_storeVars

-----------------------------------------------------------------------------
(* Properties.                                                                  *)

Waits == {"run", "runCommit", "trade", "tradeCommit", "equity", "equityCommit"}

\* The types of the variables, and: uncommitted rows need the write lock.
StoreTypeOK ==
  /\ runs \subseteq RunIds /\ seq \in {0} \cup RunIds
  /\ trades \in [RunIds -> Nat]
  /\ writer \in Conns \cup {Nobody}
  /\ dirty \in [Engines -> [run : {0} \cup RunIds, equity : Nat, trades : Nat]]
  /\ \A e \in Engines : dirty[e] # Clean => writer = e
  /\ life \in [Engines -> {"unborn", "running", "dead", "closed"}]
  /\ runId \in [Engines -> {0} \cup RunIds]
  /\ pending \in [Engines -> 0..(Batch - 1)]
  /\ pc \in [Engines -> [Tasks -> {"idle", "sync"} \cup Waits]]
  /\ \A e \in Engines : queue[e] \in Seq((Tasks \cup {Nobody, "stop"}) \X (Waits \cup {"flush", "close"}))
  /\ listed \subseteq Engines /\ session \in {"idle", "starting", "stopping"}
  /\ rec \in {"idle", "insert", "commit"}
  /\ clear \in {"off", "select", "delete", "commit"} /\ doomed \subseteq RunIds
  /\ returned \in [Engines -> Nat] /\ fresh \subseteq Engines

\* A crash loses at most one batch of equity samples, and one more for every other task that
\* was about to write one: the counter of the batch and the samples of the open transaction
\* stay together although two tasks move them (database.py:124).
LossBounded == \A e \in Engines : dirty[e].equity <= Batch + Cardinality(Tasks) - 1

\* A trade whose record_trade returned is in the file, under the id of its engine and of no other,
\* through crashes, refused writes, cancelled tasks and ids whose run was cleared, until its own
\* run is cleared (database.py:125).
ReturnedTradesStored ==
  /\ \A e \in Engines : runId[e] \in runs => trades[runId[e]] >= returned[e]
  /\ \A e, f \in Engines : runId[e] = runId[f] /\ runId[e] # 0 => e = f

\* While the process sleeps between two bars the write lock is held, if at all, for less than
\* a batch of equity samples: never for a trade, a run, an observation or a clear.
OnlySamplesHoldTheLock ==
  HolderSleeps => dirty[writer].run = 0 /\ dirty[writer].trades = 0 /\ dirty[writer].equity \in 1..(Batch - 1)

\* A clear deletes the run of a running engine only if the engine was started after the
\* clear's check (api/management.py:264).
ClearSparesRunning ==
  [][\A e \in Engines : runId[e] \in runs \ runs' /\ life[e] = "running" => e \in fresh]_storeVars

\* One engine per traded symbol, concurrently (api/controller.py:4), each waiting "rather than
\* fail with "database is locked"" (database.py:146): no engine dies of a write to its store.
WritesSucceed ==
  [][\A e \in Engines : pc[e]["bar"] \in Waits /\ life[e] = "running" /\ life'[e] = "dead"
                          => session = "stopping"]_storeVars
=============================================================================
