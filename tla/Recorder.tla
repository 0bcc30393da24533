------------------------------ MODULE Recorder ------------------------------
(* The recorder's controller (api/recorder_control.py) and the loop it          *)
(* supervises (data/recorder.py): requests to start and stop it, which come     *)
(* from the dashboard and from the service's startup and shutdown, against      *)
(* supervisor tasks that build a MarketRecorder, run it and restart it.         *)
EXTENDS Naturals, FiniteSets

CONSTANTS
  Callers,      \* requests that may be in progress at once
  MaxRequests,  \* bound: requests
  MaxBuilt,     \* bound: MarketRecorders built
  MaxTimeouts   \* bound: waits of stop() that time out

ASSUME RecorderAssumption ==
  {MaxRequests, MaxBuilt, MaxTimeouts} \subseteq Nat

VARIABLES
  want,       \* _want_running
  task,       \* _task: the supervisor it holds; 0 is None
  current,    \* _recorder: the MarketRecorder it holds; 0 is None
  supervisor, \* where each supervisor task is
  mine,       \* the MarketRecorder a supervisor runs
  built,      \* MarketRecorders built so far
  stopped,    \* those whose stop() was called
  cancelled,  \* supervisors with a cancellation that was not delivered
  waiting,    \* the supervisor a stop() request waits for; 0 when it is not in progress
  overlapped, \* history: TRUE once a request arrived while a stop() was in progress
  requests, timeouts

recorderVars == <<want, task, current, supervisor, mine, built, stopped, cancelled,
                  waiting, overlapped, requests, timeouts>>

Supervisors == 1..MaxRequests
Recorders == 1..MaxBuilt

RecorderInit ==
  /\ want = FALSE /\ task = 0 /\ current = 0
  /\ supervisor = [t \in Supervisors |-> "none"]
  /\ mine = [t \in Supervisors |-> 0]
  /\ built = 0 /\ stopped = {} /\ cancelled = {}
  /\ waiting = [c \in Callers |-> 0]
  /\ overlapped = FALSE /\ requests = 0 /\ timeouts = 0

Ended == {"none", "done", "killed"}

\* Mutant: start() does not look for a running task.
NeverRuns == FALSE

\* is_running.
RecorderRuns == task # 0 /\ supervisor[task] \notin Ended

StopPending == \E c \in Callers : waiting[c] # 0

Request ==
  /\ requests < MaxRequests /\ requests' = requests + 1
  /\ overlapped' = (overlapped \/ StopPending)

-----------------------------------------------------------------------------
(* Requests.                                                                    *)

\* start() has no await.  A request that finds the recorder running is ignored.
StartRecorder(c) ==
  /\ waiting[c] = 0 /\ Request
  /\ IF RecorderRuns THEN UNCHANGED <<want, task, supervisor>>
     ELSE /\ want' = TRUE
          /\ task' = requests'
          /\ supervisor' = [supervisor EXCEPT ![requests'] = "new"]
  /\ UNCHANGED <<current, mine, built, stopped, cancelled, waiting, timeouts>>

\* stop() tells the recorder and waits for the task, at most 15 s.
StopRecorder(c) ==
  /\ waiting[c] = 0 /\ Request
  /\ want' = FALSE
  /\ stopped' = IF current = 0 THEN stopped ELSE stopped \cup {current}
  /\ waiting' = [waiting EXCEPT ![c] = task]
  /\ current' = IF task = 0 THEN 0 ELSE current
  /\ UNCHANGED <<task, supervisor, mine, built, cancelled, timeouts>>

\* The task has ended.  If another request cancelled it, the CancelledError leaves stop() at once.
StopReturns(c) ==
  /\ waiting[c] # 0 /\ supervisor[waiting[c]] \in Ended
  /\ waiting' = [waiting EXCEPT ![c] = 0]
  /\ IF supervisor[waiting[c]] = "killed" THEN UNCHANGED <<task, current>>
     ELSE task' = 0 /\ current' = 0
  /\ UNCHANGED <<want, supervisor, mine, built, stopped, cancelled, overlapped, requests, timeouts>>

\* The wait times out: whatever _task holds by now is cancelled; an empty _task makes stop() raise.
StopTimesOut(c) ==
  /\ waiting[c] # 0 /\ supervisor[waiting[c]] \notin Ended
  /\ timeouts < MaxTimeouts /\ timeouts' = timeouts + 1
  /\ waiting' = [waiting EXCEPT ![c] = 0]
  /\ cancelled' = IF RecorderRuns THEN cancelled \cup {task} ELSE cancelled
  /\ task' = 0 /\ current' = IF task = 0 THEN current ELSE 0
  /\ UNCHANGED <<want, supervisor, mine, built, stopped, overlapped, requests>>

-----------------------------------------------------------------------------
(* The supervisor task and its MarketRecorder.                                  *)

Advance(t, to) == supervisor' = [supervisor EXCEPT ![t] = to]
At(t, place) == supervisor[t] = place /\ t \notin cancelled
Quiet == UNCHANGED <<want, task, waiting, cancelled, overlapped, requests, timeouts>>

\* The condition of the supervisor's loop.
Wanted == want

\* A turn of the loop: a MarketRecorder is built and connects to the store.
Build(t) ==
  /\ At(t, "new") \/ At(t, "backoff")
  /\ IF Wanted
     THEN /\ built < MaxBuilt /\ built' = built + 1
          /\ mine' = [mine EXCEPT ![t] = built']
          /\ current' = built'
          /\ Advance(t, "connect")
     ELSE Advance(t, "done") /\ UNCHANGED <<built, mine, current>>
  /\ UNCHANGED stopped /\ Quiet

\* run() raised before its loop: backoff, unless the operator stopped it.
ConnectFails(t) ==
  /\ At(t, "connect")
  /\ Advance(t, IF Wanted THEN "backoff" ELSE "done")
  /\ UNCHANGED <<current, mine, built, stopped>> /\ Quiet

Connected(t) ==
  /\ At(t, "connect")
  /\ Advance(t, IF mine[t] \in stopped THEN "close" ELSE "sample")
  /\ UNCHANGED <<current, mine, built, stopped>> /\ Quiet

\* A sample was taken, or failed alone; the next symbol, the pause, or the end.
Sampled(t) ==
  /\ At(t, "sample")
  /\ IF mine[t] \in stopped THEN Advance(t, "close")
     ELSE Advance(t, "sleep") \/ Advance(t, "sample")
  /\ UNCHANGED <<current, mine, built, stopped>> /\ Quiet

Slept(t) ==
  /\ At(t, "sleep")
  /\ Advance(t, IF mine[t] \in stopped THEN "close" ELSE "sample")
  /\ UNCHANGED <<current, mine, built, stopped>> /\ Quiet

\* run() has closed the store and the clients: it returns, or raises in close().
Closed(t) ==
  /\ At(t, "close")
  /\ Advance(t, IF Wanted THEN "backoff" ELSE "done")
  /\ UNCHANGED <<current, mine, built, stopped>> /\ Quiet

\* CancelledError at the await the task is in; inside run() the store is closed first.
Cancelled(t) ==
  /\ t \in cancelled
  /\ cancelled' = cancelled \ {t}
  /\ Advance(t, IF supervisor[t] \in {"sample", "sleep"} THEN "unwind" ELSE "killed")
  /\ UNCHANGED <<want, task, current, mine, built, stopped, waiting, overlapped, requests, timeouts>>

Unwound(t) ==
  /\ At(t, "unwind")
  /\ Advance(t, "killed")
  /\ UNCHANGED <<current, mine, built, stopped>> /\ Quiet

RecorderNext ==
  \/ \E c \in Callers : StartRecorder(c) \/ StopRecorder(c) \/ StopReturns(c) \/ StopTimesOut(c)
  \/ \E t \in Supervisors : \/ Build(t) \/ ConnectFails(t) \/ Connected(t) \/ Sampled(t)
                            \/ Slept(t) \/ Closed(t) \/ Cancelled(t) \/ Unwound(t)

RecorderSpec == RecorderInit /\ [][RecorderNext]_recorderVars

-----------------------------------------------------------------------------
(* Properties.                                                                  *)

RecorderTypeOK ==
  /\ want \in BOOLEAN /\ overlapped \in BOOLEAN
  /\ task \in {0} \cup Supervisors /\ current \in {0} \cup Recorders
  /\ supervisor \in [Supervisors -> {"none", "new", "connect", "sample", "sleep", "close", "unwind", "backoff", "done", "killed"}]
  /\ mine \in [Supervisors -> {0} \cup Recorders]
  /\ built \in 0..MaxBuilt /\ stopped \subseteq Recorders /\ cancelled \subseteq Supervisors
  /\ waiting \in [Callers -> {0} \cup Supervisors]
  /\ requests \in 0..MaxRequests /\ timeouts \in 0..MaxTimeouts

\* The supervisors that will take another sample, or may, without a new request.
Sampling ==
  {t \in Supervisors : /\ supervisor[t] \notin Ended \cup {"close", "unwind"} /\ t \notin cancelled
                       /\ supervisor[t] \in {"new", "backoff"} => want
                       /\ supervisor[t] \in {"connect", "sample", "sleep"} => mine[t] \notin stopped}

\* As long as no request comes during a stop(), there is one recorder while the operator wants
\* it, the one the controller holds, and none once stop() has returned: not after a restart of the supervisor, a
\* failure, or a stop that timed out (recorder_control.py:68).
OneRecorder ==
  ~overlapped => Sampling \subseteq (IF want \/ StopPending THEN {task} ELSE {})
=============================================================================
