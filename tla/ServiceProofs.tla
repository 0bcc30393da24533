---------------------------- MODULE ServiceProofs ----------------------------
(***************************************************************************)
(* Proofs about Broadcaster, for every set of clients and every length of  *)
(* the queues; about Recorder, for every number of requests, of            *)
(* MarketRecorders and of waits that time out; about ModelSupply, for      *)
(* every number of operators, processes, requests, days and restarts, and  *)
(* every retraining interval; about Validation, for every history, number  *)
(* of folds, pooled symbol, label window and warm-up; and about the pure   *)
(* Labels and Configuration, for every input.                              *)
(***************************************************************************)
EXTENDS Broadcaster, Recorder, ModelSupply, Validation, Labels, Configuration, FoldProofs, FunctionTheorems

-----------------------------------------------------------------------------
(* Broadcaster: the queue of a subscriber                                  *)

Snapshots == 1..MaxSnapshots

\* q is in the order of publication, begins after h and ends before n.
Between(h, q, n) ==
  \A i \in 1..Len(q) : h < q[i] /\ q[i] <= n /\ \A j \in 1..(i - 1) : q[j] < q[i]

\* A queue with the newest snapshot put in is not empty, ends with it, and has
\* lost nothing but its oldest entry.
LEMMA DropOldestFact ==
  ASSUME NEW q \in Seq(Snapshots), Len(q) <= MaxSize, NEW n \in Snapshots, MaxSize \in Nat \ {0}
  PROVE  LET r == DropOldest(q, n) IN
         /\ r \in Seq(Snapshots) /\ Len(r) \in 1..MaxSize /\ r[Len(r)] = n
         /\ \E k \in {0, 1} : \A i \in 1..(Len(r) - 1) : i + k \in 1..Len(q) /\ r[i] = q[i + k]
  <1>1. CASE Len(q) = MaxSize
    <2> DEFINE s == Tail(q)
    <2>1. s \in Seq(Snapshots) /\ Len(s) = Len(q) - 1 /\ \A i \in 1..Len(s) : s[i] = q[i + 1]
      BY <1>1
    <2>2. DropOldest(q, n) = Append(s, n)
      BY <1>1 DEF DropOldest
    <2> HIDE DEF s
    <2>3. /\ Append(s, n) \in Seq(Snapshots) /\ Len(Append(s, n)) = Len(s) + 1
          /\ Append(s, n)[Len(s) + 1] = n /\ \A i \in 1..Len(s) : Append(s, n)[i] = s[i]
      BY <2>1
    <2> QED
      BY <2>1, <2>2, <2>3, <1>1
  <1>2. CASE Len(q) # MaxSize
    <2>1. DropOldest(q, n) = Append(q, n)
      BY <1>2 DEF DropOldest
    <2>2. /\ Append(q, n) \in Seq(Snapshots) /\ Len(Append(q, n)) = Len(q) + 1
          /\ Append(q, n)[Len(q) + 1] = n /\ \A i \in 1..Len(q) : Append(q, n)[i] = q[i]
      OBVIOUS
    <2> QED
      BY <2>1, <2>2, <1>2
  <1> QED
    BY <1>1, <1>2

\* A queue in order stays in order when a newer snapshot is put in.
LEMMA DropOldestInOrder ==
  ASSUME NEW q \in Seq(Snapshots), Len(q) <= MaxSize, NEW m \in Nat, NEW n \in Snapshots, n = m + 1,
         NEW h \in 0..m, Between(h, q, m), MaxSize \in Nat \ {0}
  PROVE  Between(h, DropOldest(q, n), n)
  <1> DEFINE r == DropOldest(q, n)
  <1>1. PICK k \in {0, 1} : \A i \in 1..(Len(r) - 1) : i + k \in 1..Len(q) /\ r[i] = q[i + k]
    BY DropOldestFact
  <1>2. r \in Seq(Snapshots) /\ Len(r) \in Nat \ {0} /\ r[Len(r)] = n
    <2>1. r \in Seq(Snapshots) /\ Len(r) \in 1..MaxSize /\ r[Len(r)] = n
      BY DropOldestFact
    <2> QED
      BY <2>1
  <1>3. Len(q) \in Nat /\ \A j \in 1..Len(q) : q[j] \in Nat
    <2>1. Len(q) \in Nat /\ \A j \in 1..Len(q) : q[j] \in Snapshots
      OBVIOUS
    <2> QED
      BY <2>1 DEF Snapshots
  <1> HIDE DEF r
  <1>4. SUFFICES ASSUME NEW i \in 1..Len(r)
                 PROVE  h < r[i] /\ r[i] <= n /\ \A j \in 1..(i - 1) : r[j] < r[i]
    BY DEF Between, r
  <1>5. CASE i = Len(r)
    <2>1. ASSUME NEW j \in 1..(i - 1) PROVE r[j] < r[i]
      <3>1. j + k \in 1..Len(q) /\ r[j] = q[j + k]
        BY <1>1, <1>2, <1>5
      <3>2. q[j + k] <= m /\ q[j + k] \in Nat
        BY <3>1, <1>3 DEF Between
      <3> QED
        BY <3>1, <3>2, <1>2, <1>5
    <2> QED
      BY <1>2, <1>5, <2>1
  <1>6. CASE i # Len(r)
    <2>1. i \in 1..(Len(r) - 1)
      BY <1>6, <1>2
    <2>2. r[i] = q[i + k] /\ i + k \in 1..Len(q)
      BY <1>1, <2>1
    <2>3. ASSUME NEW j \in 1..(i - 1) PROVE r[j] < r[i]
      <3>1. j \in 1..(Len(r) - 1) /\ j + k \in 1..(i + k - 1)
        BY <2>1, <1>2
      <3> QED
        BY <3>1, <1>1, <2>2 DEF Between
    <2>4. h < q[i + k] /\ q[i + k] <= m /\ q[i + k] \in Nat
      BY <2>2, <1>3 DEF Between
    <2> QED
      BY <2>2, <2>3, <2>4
  <1> QED
    BY <1>5, <1>6

-----------------------------------------------------------------------------
(* What holds of one client between any two steps: nothing of a client     *)
(* that is not connected, and for a subscriber a queue that goes on from   *)
(* what its route holds to the newest snapshot.                            *)

ClientOK(c) ==
  /\ route[c] = "off" => c \notin subscribers /\ mailbox[c] = <<>> /\ hand[c] = 0 /\ last[c] = 0
  /\ route[c] = "waiting" => last[c] = hand[c]
  /\ c \in subscribers =>
       /\ joined[c] \in 0..snapshot /\ hand[c] \in 0..snapshot /\ last[c] <= hand[c]
       /\ Between(hand[c], mailbox[c], snapshot)
       /\ snapshot > joined[c] => LastToCome(c) = snapshot

BroadcastInv ==
  /\ BroadcastTypeOK /\ joined \in [Clients -> 0..MaxSnapshots]
  /\ \A c \in Clients : ClientOK(c)

LEMMA BroadcastInitial == BroadcastInit => BroadcastInv
  BY BroadcasterAssumption DEF BroadcastInit, BroadcastInv, BroadcastTypeOK, ClientOK

\* The queue of a client without what its route takes.
LEMMA TailFact ==
  ASSUME NEW q \in Seq(Snapshots), q # <<>>
  PROVE  /\ Tail(q) \in Seq(Snapshots) /\ Head(q) = q[1] /\ Len(Tail(q)) = Len(q) - 1 /\ Len(q) \in Nat \ {0}
         /\ \A i \in 1..Len(Tail(q)) : Tail(q)[i] = q[i + 1]
  OBVIOUS

LEMMA BroadcastStep == BroadcastInv /\ [BroadcastNext]_broadcastVars => BroadcastInv'
  <1> SUFFICES ASSUME BroadcastInv, [BroadcastNext]_broadcastVars PROVE BroadcastInv'
    OBVIOUS
  <1> USE BroadcasterAssumption
  <1>a. /\ snapshot \in 0..MaxSnapshots /\ subscribers \subseteq Clients /\ gone \subseteq Clients
        /\ mailbox \in [Clients -> Seq(Snapshots)]
        /\ route \in [Clients -> {"off", "greeting", "waiting", "sending", "closed"}]
        /\ hand \in [Clients -> 0..MaxSnapshots] /\ last \in [Clients -> 0..MaxSnapshots]
        /\ joined \in [Clients -> 0..MaxSnapshots]
        /\ \A c \in Clients : Len(mailbox[c]) <= MaxSize /\ ClientOK(c)
    BY DEF BroadcastInv, BroadcastTypeOK, Snapshots
  <1>1. ASSUME Publish PROVE BroadcastInv'
    <2>1. /\ snapshot' = snapshot + 1 /\ snapshot' \in Snapshots
          /\ \A c \in Clients : mailbox'[c] = IF c \in subscribers THEN DropOldest(mailbox[c], snapshot') ELSE mailbox[c]
          /\ UNCHANGED <<subscribers, route, hand, last, joined, gone>>
      BY <1>1, <1>a DEF Publish, Snapshots
    <2>2. ASSUME NEW c \in Clients, c \in subscribers
          PROVE  /\ mailbox'[c] \in Seq(Snapshots) /\ Len(mailbox'[c]) \in 1..MaxSize
                 /\ mailbox'[c][Len(mailbox'[c])] = snapshot'
                 /\ Between(hand[c], mailbox'[c], snapshot')
      <3>1. hand[c] \in 0..snapshot /\ Between(hand[c], mailbox[c], snapshot)
        BY <1>a, <2>2 DEF ClientOK
      <3> QED
        BY <2>1, <2>2, <1>a, <3>1, DropOldestFact, DropOldestInOrder
    <2>3. mailbox' \in [Clients -> Seq(Snapshots)]
      BY <2>1, <2>2, <1>a, <1>1 DEF Publish
    <2>4. ASSUME NEW c \in Clients PROVE ClientOK(c)' /\ Len(mailbox'[c]) <= MaxSize
      <3>1. CASE c \in subscribers
        <4>1. mailbox'[c] # <<>>
          BY <2>2, <3>1
        <4> QED
          BY <1>a, <2>1, <2>2, <3>1, <4>1 DEF ClientOK, LastToCome
      <3>2. CASE c \notin subscribers
        BY <1>a, <2>1, <3>2 DEF ClientOK
      <3> QED
        BY <3>1, <3>2
    <2> QED
      BY <1>a, <2>1, <2>3, <2>4 DEF BroadcastInv, BroadcastTypeOK, Snapshots
  <1>2. ASSUME NEW c \in Clients, Connect(c) PROVE BroadcastInv'
    <2>1. ClientOK(c)'
      BY <1>2, <1>a DEF Connect, ClientOK, Between
    <2>2. ASSUME NEW d \in Clients, d # c PROVE ClientOK(d)'
      BY <1>2, <2>2, <1>a DEF Connect, ClientOK, LastToCome
    <2> QED
      BY <1>2, <1>a, <2>1, <2>2 DEF Connect, BroadcastInv, BroadcastTypeOK, Snapshots
  <1>3. ASSUME NEW c \in Clients, Sent(c) PROVE BroadcastInv'
    <2>1. ClientOK(c)'
      BY <1>3, <1>a DEF Sent, ClientOK, LastToCome
    <2>2. ASSUME NEW d \in Clients, d # c PROVE ClientOK(d)'
      BY <1>3, <2>2, <1>a DEF Sent, ClientOK, LastToCome
    <2> QED
      BY <1>3, <1>a, <2>1, <2>2 DEF Sent, BroadcastInv, BroadcastTypeOK, Snapshots
  <1>4. ASSUME NEW c \in Clients, Take(c) PROVE BroadcastInv'
    <2> DEFINE q == mailbox[c]
    <2>1. /\ q \in Seq(Snapshots) /\ q # <<>> /\ mailbox'[c] = Tail(q) /\ hand'[c] = q[1]
          /\ route'[c] = "sending" /\ UNCHANGED <<snapshot, subscribers, last, joined, gone>>
          /\ last[c] = hand[c]
      BY <1>4, <1>a DEF Take, ClientOK
    <2>a. \A i \in 1..Len(q) : q[i] \in Snapshots /\ q[i] \in Nat
      BY <2>1 DEF Snapshots
    <2>2. /\ Tail(q) \in Seq(Snapshots) /\ Len(Tail(q)) = Len(q) - 1 /\ Len(q) \in Nat \ {0}
          /\ \A i \in 1..Len(Tail(q)) : Tail(q)[i] = q[i + 1] /\ q[i] \in Nat /\ q[i + 1] \in Nat
          /\ q[1] \in Snapshots
      BY <2>1, <2>a, TailFact
    <2>3. ASSUME c \in subscribers PROVE ClientOK(c)'
      <3>1. Between(hand[c], q, snapshot) /\ (snapshot > joined[c] => q[Len(q)] = snapshot)
        BY <2>1, <2>3, <1>a DEF ClientOK, LastToCome
      <3>2. hand[c] < q[1] /\ q[1] <= snapshot
        BY <3>1, <2>2 DEF Between
      <3>3. ASSUME NEW i \in 1..Len(Tail(q))
            PROVE  /\ q[1] < Tail(q)[i] /\ Tail(q)[i] <= snapshot
                   /\ \A j \in 1..(i - 1) : Tail(q)[j] < Tail(q)[i]
        <4>1. i + 1 \in 1..Len(q) /\ 1 \in 1..i /\ \A j \in 1..(i - 1) : j + 1 \in 1..i /\ j \in 1..Len(Tail(q))
          BY <2>2
        <4>2. q[i + 1] <= snapshot /\ \A j \in 1..i : q[j] < q[i + 1]
          BY <4>1, <3>1 DEF Between
        <4> QED
          BY <4>1, <4>2, <2>2
      <3>4. Between(q[1], Tail(q), snapshot)
        BY <3>3 DEF Between
      <3>5. Tail(q) # <<>> => Tail(q)[Len(Tail(q))] = q[Len(q)]
        BY <2>2
      <3>6. Tail(q) = <<>> => q[Len(q)] = q[1]
        <4>1. ASSUME NEW s, s = <<>> PROVE Len(s) = 0
          BY <4>1
        <4>2. Tail(q) = <<>> => Len(q) - 1 = 0
          BY <4>1, <2>2
        <4>3. Tail(q) = <<>> => Len(q) = 1
          BY <4>2, <2>2
        <4> QED
          BY <4>3
      <3>7. LastToCome(c)' = q[Len(q)]
        BY <2>1, <2>2, <3>5, <3>6, <1>a, <1>4 DEF LastToCome, Take
      <3>8. joined[c] \in 0..snapshot /\ last[c] <= q[1] /\ q[1] \in 0..snapshot
        BY <2>1, <2>2, <2>3, <3>2, <1>a DEF ClientOK, Snapshots
      <3> QED
        BY <2>1, <3>1, <3>4, <3>7, <3>8 DEF ClientOK
    <2>4. ClientOK(c)'
      BY <2>1, <2>3 DEF ClientOK
    <2>5. ASSUME NEW d \in Clients, d # c PROVE ClientOK(d)'
      BY <1>4, <2>5, <1>a DEF Take, ClientOK, LastToCome
    <2>6. Len(Tail(q)) <= MaxSize
      BY <1>a, <2>1, <2>2
    <2> QED
      BY <1>4, <1>a, <2>1, <2>2, <2>4, <2>5, <2>6 DEF Take, BroadcastInv, BroadcastTypeOK, Snapshots
  <1>5. ASSUME NEW c \in Clients, Leave(c) \/ SendFails(c) PROVE BroadcastInv'
    <2>1. ClientOK(c)'
      BY <1>5, <1>a DEF Leave, SendFails, ClientOK, LastToCome
    <2>2. ASSUME NEW d \in Clients, d # c PROVE ClientOK(d)'
      BY <1>5, <2>2, <1>a DEF Leave, SendFails, ClientOK, LastToCome
    <2> QED
      BY <1>5, <1>a, <2>1, <2>2 DEF Leave, SendFails, BroadcastInv, BroadcastTypeOK, Snapshots
  <1>6. CASE UNCHANGED broadcastVars
    BY <1>6, <1>a DEF broadcastVars, BroadcastInv, BroadcastTypeOK, ClientOK, LastToCome
  <1> QED
    BY <1>1, <1>2, <1>3, <1>4, <1>5, <1>6 DEF BroadcastNext

-----------------------------------------------------------------------------

\* The types of the broadcaster's state, and no queue ever holds more than its
\* maxsize (live/state.py:95).
THEOREM BroadcastTypes == BroadcastSpec => []BroadcastTypeOK
  <1>1. BroadcastInv => BroadcastTypeOK
    BY DEF BroadcastInv
  <1> QED
    BY <1>1, BroadcastInitial, BroadcastStep, PTL DEF BroadcastSpec

\* However many clients there are and however slow they are, the newest snapshot is the last
\* one a subscriber will get, and it gets them in the order of publication (live/state.py:90).
THEOREM NewestSnapshot == BroadcastSpec => []NewestIsKept
  <1>1. BroadcastInv => NewestIsKept
    <2> SUFFICES ASSUME BroadcastInv, NEW c \in Clients, c \in subscribers
                 PROVE  /\ snapshot > joined[c] => LastToCome(c) = snapshot
                        /\ \A i \in 1..Len(mailbox[c]) :
                             hand[c] < mailbox[c][i] /\ (i > 1 => mailbox[c][i - 1] < mailbox[c][i])
                        /\ last[c] <= hand[c]
      BY DEF NewestIsKept
    <2>1. ClientOK(c)
      BY DEF BroadcastInv
    <2>2. \A i \in 1..Len(mailbox[c]) : i > 1 => i - 1 \in 1..(i - 1)
      OBVIOUS
    <2> QED
      BY <2>1, <2>2 DEF ClientOK, Between
  <1> QED
    BY <1>1, BroadcastInitial, BroadcastStep, PTL DEF BroadcastSpec

-----------------------------------------------------------------------------
(* Recorder: types                                                         *)

LEMMA TypesInitially == RecorderInit => RecorderTypeOK
  <1> SUFFICES ASSUME RecorderInit PROVE RecorderTypeOK
    OBVIOUS
  <1> USE RecorderAssumption DEF RecorderAssumption, RecorderInit
  <1>1. MaxRequests \in Nat /\ MaxBuilt \in Nat /\ MaxTimeouts \in Nat
    OBVIOUS
  <1>2. built \in 0..MaxBuilt /\ requests \in 0..MaxRequests /\ timeouts \in 0..MaxTimeouts
    BY <1>1
  <1>3. /\ want \in BOOLEAN /\ overlapped \in BOOLEAN /\ task = 0 /\ current = 0
        /\ stopped = {} /\ cancelled = {}
    OBVIOUS
  <1>4. /\ supervisor \in [Supervisors -> {"none"}] /\ mine \in [Supervisors -> {0}]
        /\ waiting \in [Callers -> {0}]
    OBVIOUS
  <1> QED
    BY <1>2, <1>3, <1>4 DEF RecorderTypeOK

LEMMA TypesStep == RecorderTypeOK /\ [RecorderNext]_recorderVars => RecorderTypeOK'
  <1> SUFFICES ASSUME RecorderTypeOK, [RecorderNext]_recorderVars PROVE RecorderTypeOK'
    OBVIOUS
  <1> USE RecorderAssumption DEF RecorderAssumption, RecorderTypeOK
  <1>1. ASSUME NEW c \in Callers, StartRecorder(c) \/ StopRecorder(c) PROVE RecorderTypeOK'
    <2>a. requests < MaxRequests /\ requests' = requests + 1 /\ overlapped' \in BOOLEAN
      BY <1>1 DEF StartRecorder, StopRecorder, Request, StopPending
    <2>1. requests' \in 0..MaxRequests /\ requests' \in Supervisors /\ overlapped' \in BOOLEAN
      BY <2>a DEF Supervisors
    <2>2. CASE StartRecorder(c)
      BY <2>1, <2>2 DEF StartRecorder
    <2>3. CASE StopRecorder(c)
      BY <2>1, <2>3 DEF StopRecorder
    <2> QED
      BY <1>1, <2>2, <2>3
  <1>2. ASSUME NEW c \in Callers, StopReturns(c) \/ StopTimesOut(c) PROVE RecorderTypeOK'
    <2>1. CASE StopReturns(c)
      BY <2>1 DEF StopReturns
    <2>2. CASE StopTimesOut(c)
      BY <2>2 DEF StopTimesOut, RecorderRuns
    <2> QED
      BY <1>2, <2>1, <2>2
  <1>3. ASSUME NEW t \in Supervisors, Build(t) PROVE RecorderTypeOK'
    <2>1. built' \in 0..MaxBuilt /\ current' \in {0} \cup Recorders /\ mine' \in [Supervisors -> {0} \cup Recorders]
      BY <1>3 DEF Build, Recorders
    <2> QED
      BY <1>3, <2>1 DEF Build, Advance, Quiet
  <1>4. ASSUME NEW t \in Supervisors,
               ConnectFails(t) \/ Connected(t) \/ Sampled(t) \/ Slept(t) \/ Closed(t) \/ Cancelled(t) \/ Unwound(t)
        PROVE  RecorderTypeOK'
    <2>1. /\ UNCHANGED <<want, task, current, mine, built, stopped, waiting, overlapped, requests, timeouts>>
          /\ cancelled' \subseteq cancelled
          /\ \E to \in {"backoff", "done", "close", "sample", "sleep", "unwind", "killed"} :
               supervisor' = [supervisor EXCEPT ![t] = to]
      BY <1>4 DEF ConnectFails, Connected, Sampled, Slept, Closed, Cancelled, Unwound, Advance, Quiet
    <2> QED
      BY <2>1
  <1>5. CASE UNCHANGED recorderVars
    BY <1>5 DEF recorderVars
  <1> QED
    BY <1>1, <1>2, <1>3, <1>4, <1>5 DEF RecorderNext

-----------------------------------------------------------------------------

\* A supervisor that goes on by itself.
Goes(t) == supervisor[t] \notin Ended \cup {"unwind"} /\ t \notin cancelled

\* As long as the requests do not overlap: the one supervisor that goes on is the task the
\* controller holds; a task that runs is wanted or waited for; one request waits, for that task.
Single ==
  ~overlapped =>
    /\ \A t \in Supervisors : Goes(t) => t = task
    /\ RecorderRuns /\ ~StopPending => want
    /\ \A c \in Callers : waiting[c] # 0 => waiting[c] = task /\ \A d \in Callers \ {c} : waiting[d] = 0

LEMMA SingleInitially == RecorderInit => Single
  BY DEF RecorderInit, Single, Goes, Ended, RecorderRuns

LEMMA SingleStep == RecorderTypeOK /\ Single /\ [RecorderNext]_recorderVars => Single'
  <1> SUFFICES ASSUME RecorderTypeOK, Single, [RecorderNext]_recorderVars, ~overlapped' PROVE Single'
    BY DEF Single
  <1>a. ~overlapped
    <2>1. overlapped' = overlapped \/ (overlapped' <=> (overlapped \/ StopPending))
      BY DEF recorderVars, RecorderNext, StartRecorder, StopRecorder, Request, StopReturns, StopTimesOut, Build,
             ConnectFails, Connected, Sampled, Slept, Closed, Cancelled, Unwound, Quiet
    <2> QED
      BY <2>1
  <1>b. /\ \A t \in Supervisors : Goes(t) => t = task
        /\ RecorderRuns /\ ~StopPending => want
        /\ \A c \in Callers : waiting[c] # 0 => waiting[c] = task /\ \A d \in Callers \ {c} : waiting[d] = 0
    BY <1>a DEF Single
  <1>c. /\ task \in {0} \cup Supervisors /\ waiting \in [Callers -> {0} \cup Supervisors]
        /\ supervisor \in [Supervisors -> {"none", "new", "connect", "sample", "sleep", "close", "unwind", "backoff", "done", "killed"}]
        /\ \A t \in Supervisors : t # 0
    BY DEF RecorderTypeOK, Supervisors
  <1>1. ASSUME NEW c \in Callers, StartRecorder(c) PROVE Single'
    <2>1. \A d \in Callers : waiting'[d] = 0
      BY <1>1 DEF StartRecorder, Request, StopPending
    <2>2. CASE RecorderRuns
      BY <1>1, <1>b, <2>1, <2>2 DEF StartRecorder, Single, Goes, RecorderRuns, StopPending
    <2>3. CASE ~ RecorderRuns
      <3>1. /\ want' /\ task' = requests' /\ UNCHANGED cancelled
            /\ supervisor' = [supervisor EXCEPT ![task'] = "new"]
        BY <1>1, <2>3 DEF StartRecorder
      <3>2. \A t \in Supervisors : ~ Goes(t)
        BY <1>b, <1>c, <2>3 DEF RecorderRuns, Goes
      <3>3. \A t \in Supervisors : Goes(t)' => t = task'
        BY <1>c, <3>1, <3>2 DEF Goes
      <3> QED
        BY <2>1, <3>1, <3>3 DEF Single
    <2> QED
      BY <2>2, <2>3
  <1>2. ASSUME NEW c \in Callers, StopRecorder(c) PROVE Single'
    <2>1. /\ \A d \in Callers : waiting[d] = 0
          /\ waiting' = [waiting EXCEPT ![c] = task]
          /\ UNCHANGED <<task, supervisor, cancelled>>
      BY <1>2 DEF StopRecorder, Request, StopPending
    <2>2. \A d \in Callers : waiting'[d] = IF d = c THEN task ELSE 0
      BY <1>c, <2>1
    <2>3. RecorderRuns' => StopPending'
      BY <2>1, <2>2 DEF RecorderRuns, StopPending
    <2>4. \A t \in Supervisors : Goes(t)' => t = task'
      BY <1>b, <2>1 DEF Goes
    <2> QED
      BY <2>1, <2>2, <2>3, <2>4 DEF Single
  <1>3. ASSUME NEW c \in Callers, StopReturns(c) PROVE Single'
    <2>1. /\ waiting[c] = task /\ task # 0 /\ supervisor[task] \in Ended
          /\ task' \in {0, task} /\ UNCHANGED <<supervisor, cancelled>>
          /\ waiting' = [waiting EXCEPT ![c] = 0]
      BY <1>3, <1>b DEF StopReturns
    <2>2. \A d \in Callers : waiting'[d] = 0
      BY <1>b, <1>c, <2>1
    <2>3. ~ RecorderRuns'
      BY <2>1 DEF RecorderRuns, Ended
    <2>4. \A t \in Supervisors : ~ Goes(t)'
      BY <1>b, <2>1 DEF Goes
    <2> QED
      BY <2>2, <2>3, <2>4 DEF Single
  <1>4. ASSUME NEW c \in Callers, StopTimesOut(c) PROVE Single'
    <2>1. /\ waiting[c] = task /\ task # 0 /\ supervisor[task] \notin Ended
          /\ UNCHANGED supervisor /\ task' = 0
          /\ waiting' = [waiting EXCEPT ![c] = 0]
      BY <1>4, <1>b DEF StopTimesOut
    <2>2. cancelled' = cancelled \cup {task}
      BY <1>4, <2>1 DEF StopTimesOut, RecorderRuns
    <2>3. \A d \in Callers : waiting'[d] = 0
      BY <1>b, <1>c, <2>1
    <2>4. \A t \in Supervisors : ~ Goes(t)'
      BY <1>b, <2>1, <2>2 DEF Goes
    <2> QED
      BY <2>1, <2>3, <2>4 DEF Single, RecorderRuns
  \* A supervisor that goes on is the task, wanted or waited for; one that was cancelled ends.
  <1>5. ASSUME NEW t \in Supervisors,
               Build(t) \/ ConnectFails(t) \/ Connected(t) \/ Sampled(t) \/ Slept(t) \/ Closed(t) \/ Unwound(t)
        PROVE  Single'
    <2>1. /\ UNCHANGED <<want, task, waiting, cancelled>>
          /\ supervisor[t] \notin Ended /\ t \notin cancelled
          /\ \E to \in {"connect", "backoff", "done", "close", "sample", "sleep", "killed"} :
               supervisor' = [supervisor EXCEPT ![t] = to] /\ (supervisor[t] = "unwind" => to = "killed")
      BY <1>5 DEF Build, ConnectFails, Connected, Sampled, Slept, Closed, Unwound, Advance, Quiet, At, Ended
    <2>2. \A s \in Supervisors : Goes(s)' => Goes(s)
      BY <1>c, <2>1 DEF Goes, Ended
    <2>3. RecorderRuns' => RecorderRuns
      BY <1>c, <2>1 DEF RecorderRuns
    <2> QED
      BY <1>b, <2>1, <2>2, <2>3 DEF Single, StopPending
  <1>6. ASSUME NEW t \in Supervisors, Cancelled(t) PROVE Single'
    <2>a. UNCHANGED <<want, task, waiting>> /\ t \in cancelled /\ cancelled' = cancelled \ {t}
      BY <1>6 DEF Cancelled
    <2>b. PICK to \in {"unwind", "killed"} : supervisor' = [supervisor EXCEPT ![t] = to]
                                            /\ (to = "unwind" => supervisor[t] \in {"sample", "sleep"})
      BY <1>6 DEF Cancelled, Advance
    <2>1. /\ supervisor'[t] = to /\ \A s \in Supervisors \ {t} : supervisor'[s] = supervisor[s]
          /\ supervisor[t] \notin Ended \/ to = "killed"
      BY <1>c, <2>b DEF Ended
    <2>2. \A s \in Supervisors : Goes(s)' => Goes(s)
      BY <2>a, <2>1 DEF Goes, Ended
    <2>3. RecorderRuns' => RecorderRuns
      BY <1>c, <2>a, <2>1 DEF RecorderRuns, Ended
    <2> QED
      BY <1>b, <2>a, <2>2, <2>3 DEF Single, StopPending
  <1>7. CASE UNCHANGED recorderVars
    BY <1>7, <1>b DEF recorderVars, Single, Goes, RecorderRuns, StopPending
  <1> QED
    BY <1>1, <1>2, <1>3, <1>4, <1>5, <1>6, <1>7 DEF RecorderNext

-----------------------------------------------------------------------------

\* The types of the recorder's state.
THEOREM RecorderTypes == RecorderSpec => []RecorderTypeOK
  BY TypesInitially, TypesStep, PTL DEF RecorderSpec

\* Whatever fails, restarts or times out, and however many requests there are as long as none
\* comes during a stop(): one recorder samples while it is wanted, the one the controller holds,
\* and none once stop() has returned (api/recorder_control.py:68).
THEOREM OnlyOneRecorder == RecorderSpec => []OneRecorder
  <1>1. RecorderTypeOK /\ Single => OneRecorder
    <2> SUFFICES ASSUME RecorderTypeOK, Single, ~overlapped, NEW t \in Sampling
                 PROVE  (want \/ StopPending) /\ t = task
      BY DEF OneRecorder
    <2>1. t \in Supervisors /\ Goes(t)
      BY DEF Sampling, Goes, Ended
    <2>2. t = task /\ RecorderRuns
      BY <2>1 DEF Single, Goes, RecorderRuns, RecorderTypeOK, Supervisors
    <2> QED
      BY <2>2 DEF Single
  <1> QED
    BY <1>1, TypesInitially, TypesStep, SingleInitially, SingleStep, PTL DEF RecorderSpec

-----------------------------------------------------------------------------
(* ModelSupply: start requests                                             *)

\* What is left of a list is a list again, and does not begin with a kind that is busy.
LEMMA UnbusyFact ==
  ASSUME NEW kinds \in Seq(Kinds), NEW busy
  PROVE  /\ Unbusy(kinds, busy) \in Seq(Kinds)
         /\ Unbusy(kinds, busy) # <<>> => Head(Unbusy(kinds, busy)) \in Kinds \ busy
  <1> DEFINE free == {i \in 1..Len(kinds) : kinds[i] \notin busy}
  <1>1. CASE free = {}
    BY <1>1 DEF Unbusy
  <1>2. CASE free # {}
    <2>1. PICK m \in free : \A i \in free : ~ (<<i, m>> \in OpToRel(<, Nat))
      <3>1. free \subseteq Nat
        OBVIOUS
      <3> HIDE DEF free
      <3> QED
        BY <1>2, <3>1, NatLessThanWellFounded, WFMin
    <2>2. ASSUME NEW i \in free PROVE m <= i
      <3>1. m \in Nat /\ i \in Nat
        OBVIOUS
      <3>2. i < m => <<i, m>> \in OpToRel(<, Nat)
        BY <3>1 DEF OpToRel
      <3>3. ~ (i < m)
        BY <3>2, <2>1
      <3> QED
        BY <3>1, <3>3
    <2> DEFINE n == CHOOSE i \in free : \A j \in free : i <= j
    <2>3. n \in free
      BY <2>2
    <2>4. n \in 1..Len(kinds) /\ kinds[n] \in Kinds \ busy
      BY <2>3
    <2>5. Unbusy(kinds, busy) = SubSeq(kinds, n, Len(kinds))
      BY <1>2 DEF Unbusy
    <2> HIDE DEF n, free
    <2>6. SubSeq(kinds, n, Len(kinds)) \in Seq(Kinds) /\ Head(SubSeq(kinds, n, Len(kinds))) = kinds[n]
      BY <2>4
    <2> QED
      BY <2>4, <2>5, <2>6
  <1> QED
    BY <1>1, <1>2

QueuesOK == todo \in [Starters -> Seq(Kinds)]

\* The kinds a starter goes through.
LEMMA ListsFact ==
  /\ Retraining \in Seq(Kinds)
  /\ \A k \in Kinds : <<k>> \in Seq(Kinds)
  /\ \A s \in Seq(Kinds) : s # <<>> => Head(s) \in Kinds /\ Tail(s) \in Seq(Kinds)
  <1>1. \A s \in Seq(Kinds) : s # <<>> => Head(s) \in Kinds /\ Tail(s) \in Seq(Kinds)
    OBVIOUS
  <1>2. Retraining \in Seq(Kinds) /\ \A k \in Kinds : <<k>> \in Seq(Kinds)
    BY DEF Retraining, Kinds
  <1> QED
    BY <1>1, <1>2

LEMMA QueuesInitially == SupplyInit => QueuesOK
  BY DEF SupplyInit, QueuesOK

\* c goes on, and nobody else does.
LEMMA GoesOnFact ==
  ASSUME QueuesOK, NEW c \in Starters, NEW kinds \in Seq(Kinds), NEW busy, GoesOn(c, kinds, busy)
  PROVE  /\ QueuesOK' /\ \A d \in Starters \ {c} : todo'[d] = todo[d]
         /\ todo'[c] # <<>> => Head(todo'[c]) \in Kinds \ busy
         /\ excess' = [k \in Kinds |-> IF /\ todo'[c] # <<>> /\ Head(todo'[c]) = k
                                        /\ \E d \in Starters \ {c} : Launching(d, k)
                                     THEN excess[k] + 1 ELSE excess[k]]
  <1> DEFINE left == Unbusy(kinds, busy)
  <1>1. /\ todo' = [todo EXCEPT ![c] = left]
        /\ excess' = [k \in Kinds |-> IF left # <<>> /\ Head(left) = k /\ \E d \in Starters \ {c} : Launching(d, k)
                                      THEN excess[k] + 1 ELSE excess[k]]
    BY DEF GoesOn
  <1>2. left \in Seq(Kinds) /\ (left # <<>> => Head(left) \in Kinds \ busy)
    BY UnbusyFact
  <1> HIDE DEF left
  <1>3. QueuesOK' /\ todo'[c] = left /\ \A d \in Starters \ {c} : todo'[d] = todo[d]
    BY <1>1, <1>2 DEF QueuesOK
  <1> QED
    BY <1>1, <1>2, <1>3

LEMMA QueuesStep == QueuesOK /\ [SupplyNext]_supplyVars => QueuesOK'
  <1> SUFFICES ASSUME QueuesOK, [SupplyNext]_supplyVars PROVE QueuesOK'
    OBVIOUS
  <1>1. ASSUME NEW c \in Starters, NEW k \in Kinds, PostJob(c, k) PROVE QueuesOK'
    BY <1>1, GoesOnFact, ListsFact DEF PostJob
  <1>2. ASSUME NEW c \in Starters, BeginRetrain(c) PROVE QueuesOK'
    BY <1>2, GoesOnFact, ListsFact DEF BeginRetrain
  <1>3. ASSUME NEW c \in Starters, Launched(c) \/ LaunchFails(c) PROVE QueuesOK'
    <2>1. todo[c] \in Seq(Kinds) /\ todo[c] # <<>>
      BY <1>3 DEF Launched, LaunchFails, QueuesOK
    <2>2. Tail(todo[c]) \in Seq(Kinds)
      BY <2>1, ListsFact
    <2> QED
      BY <1>3, <2>2, GoesOnFact DEF Launched, LaunchFails
  <1>4. ASSUME ServerRestarts PROVE QueuesOK'
    BY <1>4 DEF ServerRestarts, QueuesOK
  <1>5. ASSUME \/ \E p \in Procs : SaveModel(p) \/ WriteMeta(p) \/ ProcEnds(p)
               \/ \E c \in Starters : Spawned(c)
               \/ PromoteModel \/ PromoteMeta \/ DiscardModel \/ DiscardMeta \/ NextDay
               \/ UNCHANGED supplyVars
        PROVE  QueuesOK'
    <2>1. UNCHANGED todo
      BY <1>5 DEF Spawned, SaveModel, WriteMeta, ProcEnds, PromoteModel, PromoteMeta, DiscardModel, DiscardMeta, Moves, Moved,
                  NextDay, launching, supplyVars
    <2> QED
      BY <2>1 DEF QueuesOK
  <1>6. Scheduler \in Starters /\ Operators \subseteq Starters
    BY DEF Starters
  <1> QED
    BY <1>1, <1>2, <1>3, <1>4, <1>5, <1>6 DEF SupplyNext, PostRetrain, SchedulerTick

-----------------------------------------------------------------------------
(* ModelSupply: models and their metadata                                  *)

PairTypeOK ==
  /\ proc \in [Procs -> {"none", "fitting", "saved", "described", "over"}]
  /\ kindOf \in [Procs -> Kinds]
  /\ moving \in {"no", "promote", "discard"} /\ disturbed \in BOOLEAN

\* Only a training writes, one of each kind at a time, and none while the registry is moving.
OneWriter ==
  /\ \A p \in Procs : HalfWritten(p) =>
       kindOf[p] \in Trainings /\ moving = "no" /\ \A q \in Procs \ {p} : HalfWritten(q) => kindOf[q] # kindOf[p]

Writing(k) == \E p \in Procs : HalfWritten(p) /\ kindOf[p] = k

\* The model of a training that has not described it yet.
Wrote(p) == IF kindOf[p] = "train" THEN model = p ELSE candModel = p

\* What the files hold while nothing has gone wrong: of each pair both come from one training
\* but where one of the writers is between its two files, and then what it has already moved.
Pairs ==
  /\ moving # "promote" /\ ~Writing("train") => model = meta
  /\ moving = "no" /\ ~Writing("candidate") => candModel = candMeta
  /\ \A p \in Procs : HalfWritten(p) => Wrote(p)
  /\ moving = "promote" => model = candMeta /\ candModel = 0 /\ candMeta # 0
  /\ moving = "discard" => candModel = 0

PairInv == PairTypeOK /\ (~disturbed => OneWriter /\ Pairs)

LEMMA PairInitially == SupplyInit => PairInv
  BY DEF SupplyInit, PairInv, PairTypeOK, OneWriter, Pairs, HalfWritten, Writing, Wrote, Kinds

\* A step that leaves the files, the registry and the processes that write alone.
LEMMA PairFrame ==
  ASSUME PairInv, PairTypeOK', UNCHANGED <<model, meta, candModel, candMeta, moving>>,
         ~disturbed' => ~disturbed,
         ~disturbed' => \A p \in Procs : (HalfWritten(p)' <=> HalfWritten(p)) /\ (HalfWritten(p) => kindOf'[p] = kindOf[p])
  PROVE  PairInv'
  BY DEF PairInv, OneWriter, Pairs, Writing, Wrote

LEMMA PairStep == PairInv /\ QueuesOK /\ [SupplyNext]_supplyVars => PairInv'
  <1> SUFFICES ASSUME PairInv, QueuesOK, [SupplyNext]_supplyVars PROVE PairInv'
    OBVIOUS
  <1>a. PairTypeOK /\ (~disturbed => OneWriter /\ Pairs)
    BY DEF PairInv
  <1> USE DEF files, processes, launching, cadence, supplyBounds
  \* Requests, the scheduler's ticks and the clock.
  <1>1. ASSUME \/ \E c \in Starters : \/ PostRetrain(c) \/ Launched(c) \/ LaunchFails(c)
                                      \/ \E k \in Kinds : PostJob(c, k)
               \/ SchedulerTick \/ NextDay
        PROVE  PairInv'
    <2>1. UNCHANGED <<files, processes, moving, disturbed>>
      BY <1>1 DEF PostRetrain, PostJob, Launched, LaunchFails, BeginRetrain, SchedulerTick, NextDay
    <2> QED
      BY <1>a, <2>1, PairFrame DEF PairTypeOK, HalfWritten
  <1>2. ASSUME NEW c \in Starters, Spawned(c) PROVE PairInv'
    <2>1. PICK p \in Procs : /\ proc[p] = "none" /\ proc' = [proc EXCEPT ![p] = "fitting"]
                             /\ kindOf' = [kindOf EXCEPT ![p] = Head(todo[c])]
      BY <1>2 DEF Spawned
    <2>2. Head(todo[c]) \in Kinds /\ UNCHANGED <<files, moving, disturbed>>
      BY <1>2, ListsFact DEF Spawned, QueuesOK
    <2> QED
      BY <1>a, <2>1, <2>2, PairFrame DEF PairTypeOK, HalfWritten
  <1>3. ASSUME NEW p \in Procs, SaveModel(p) PROVE PairInv'
    <2>1. /\ proc[p] = "fitting" /\ kindOf[p] \in Trainings /\ proc' = [proc EXCEPT ![p] = "saved"]
          /\ UNCHANGED <<meta, candMeta, kindOf, moving>>
          /\ IF kindOf[p] = "train" THEN model' = p /\ UNCHANGED candModel ELSE candModel' = p /\ UNCHANGED model
          /\ disturbed' = (disturbed \/ moving # "no" \/ \E q \in Procs : HalfWritten(q) /\ kindOf[q] = kindOf[p])
      BY <1>3 DEF SaveModel
    <2>2. PairTypeOK'
      BY <1>a, <2>1 DEF PairTypeOK
    <2>3. ASSUME ~disturbed' PROVE OneWriter' /\ Pairs'
      <3>1. OneWriter /\ Pairs /\ moving = "no" /\ \A q \in Procs : HalfWritten(q) => kindOf[q] # kindOf[p]
        BY <1>a, <2>1, <2>3
      <3>2. \A q \in Procs : HalfWritten(q)' <=> (q = p \/ HalfWritten(q))
        BY <1>a, <2>1 DEF PairTypeOK, HalfWritten
      <3>3. OneWriter'
        BY <2>1, <3>1, <3>2 DEF OneWriter
      <3>4. \A k \in Kinds : Writing(k)' <=> (k = kindOf[p] \/ Writing(k))
        BY <2>1, <3>2 DEF Writing
      <3> QED
        BY <2>1, <3>1, <3>2, <3>3, <3>4 DEF Pairs, Wrote, OneWriter, Kinds, Trainings
    <2> QED
      BY <2>2, <2>3 DEF PairInv
  <1>4. ASSUME NEW p \in Procs, WriteMeta(p) PROVE PairInv'
    <2>1. /\ HalfWritten(p) /\ proc' = [proc EXCEPT ![p] = "described"]
          /\ UNCHANGED <<model, candModel, kindOf, moving, disturbed>>
          /\ IF kindOf[p] = "train" THEN meta' = p /\ UNCHANGED candMeta ELSE candMeta' = p /\ UNCHANGED meta
      BY <1>4 DEF WriteMeta
    <2>2. PairTypeOK'
      BY <1>a, <2>1 DEF PairTypeOK
    <2>3. ASSUME ~disturbed' PROVE OneWriter' /\ Pairs'
      <3>1. OneWriter /\ Pairs
        BY <1>a, <2>1, <2>3
      <3>2. \A q \in Procs : HalfWritten(q)' <=> (q # p /\ HalfWritten(q))
        BY <1>a, <2>1 DEF PairTypeOK, HalfWritten
      <3>3. OneWriter'
        BY <2>1, <3>1, <3>2 DEF OneWriter
      <3>4. kindOf[p] \in Trainings /\ moving = "no"
        BY <2>1, <3>1 DEF OneWriter
      <3>5. \A k \in Kinds : Writing(k)' <=> (k # kindOf[p] /\ Writing(k))
        BY <2>1, <3>1, <3>2 DEF Writing, OneWriter
      <3>6. Wrote(p)
        BY <2>1, <3>1 DEF Pairs
      <3> QED
        BY <2>1, <3>1, <3>2, <3>3, <3>4, <3>5, <3>6 DEF Pairs, OneWriter, Kinds, Trainings, Wrote
    <2> QED
      BY <2>2, <2>3 DEF PairInv
  <1>5. ASSUME NEW p \in Procs, ProcEnds(p) PROVE PairInv'
    <2>1. /\ proc' = [proc EXCEPT ![p] = "over"]
          /\ UNCHANGED <<files, kindOf, moving>> /\ disturbed' = (disturbed \/ HalfWritten(p))
      BY <1>5 DEF ProcEnds
    <2>2. PairTypeOK'
      BY <1>a, <2>1 DEF PairTypeOK
    <2>3. ASSUME ~disturbed' PROVE ~disturbed /\ \A q \in Procs : HalfWritten(q)' <=> HalfWritten(q)
      BY <1>a, <2>1, <2>3 DEF PairTypeOK, HalfWritten
    <2> QED
      BY <2>1, <2>2, <2>3, PairFrame
  <1>6. ASSUME PromoteModel \/ DiscardModel PROVE PairInv'
    <2>1. /\ moving = "no" /\ moving' \in {"promote", "discard"} /\ UNCHANGED <<meta, candMeta, proc, kindOf>>
          /\ disturbed' = (disturbed \/ \E p \in Procs : HalfWritten(p))
          /\ candModel' = 0
          /\ IF moving' = "promote" THEN candModel # 0 /\ model' = candModel ELSE model' = model
      BY <1>6 DEF PromoteModel, DiscardModel, Moves, Asks, LoopFree
    <2>2. PairTypeOK'
      BY <1>a, <2>1 DEF PairTypeOK
    <2>3. ASSUME ~disturbed' PROVE OneWriter' /\ Pairs'
      <3>1. OneWriter /\ Pairs /\ \A p \in Procs : ~ HalfWritten(p) /\ ~ HalfWritten(p)'
        BY <1>a, <2>1, <2>3 DEF HalfWritten
      <3> QED
        BY <2>1, <3>1 DEF OneWriter, Pairs, Writing
    <2> QED
      BY <2>2, <2>3 DEF PairInv
  <1>7. ASSUME PromoteMeta \/ DiscardMeta PROVE PairInv'
    <2>1. /\ moving' = "no" /\ UNCHANGED <<model, candModel, proc, kindOf, disturbed>>
          /\ \/ moving = "promote" /\ IF candMeta # 0 THEN meta' = candMeta /\ candMeta' = 0 ELSE UNCHANGED <<meta, candMeta>>
             \/ moving = "discard" /\ candMeta' = 0 /\ UNCHANGED meta
      BY <1>7 DEF PromoteMeta, DiscardMeta, Moved
    <2>2. PairTypeOK'
      BY <1>a, <2>1 DEF PairTypeOK
    <2>3. ASSUME ~disturbed' PROVE OneWriter' /\ Pairs'
      <3>1. OneWriter /\ Pairs
        BY <1>a, <2>1, <2>3
      <3>2. \A p \in Procs : ~ HalfWritten(p) /\ ~ HalfWritten(p)'
        BY <2>1, <3>1 DEF OneWriter, HalfWritten
      <3> QED
        BY <2>1, <3>1, <3>2 DEF OneWriter, Pairs, Writing
    <2> QED
      BY <2>2, <2>3 DEF PairInv
  <1>8. ASSUME ServerRestarts PROVE PairInv'
    <2>1. PICK dead \in SUBSET {p \in Procs : Active(p)} :
            /\ proc' = [p \in Procs |-> IF p \in dead THEN "over" ELSE proc[p]]
            /\ disturbed' = (disturbed \/ moving # "no" \/ \E p \in dead : HalfWritten(p))
      BY <1>8 DEF ServerRestarts
    <2>2. UNCHANGED <<files, kindOf>> /\ moving' = "no"
      BY <1>8 DEF ServerRestarts
    <2>3. PairTypeOK'
      BY <1>a, <2>1, <2>2 DEF PairTypeOK
    <2>4. ASSUME ~disturbed'
          PROVE  ~disturbed /\ UNCHANGED moving /\ \A q \in Procs : HalfWritten(q)' <=> HalfWritten(q)
      BY <1>a, <2>1, <2>2, <2>4 DEF PairTypeOK, HalfWritten
    <2>5. CASE disturbed'
      BY <2>3, <2>5 DEF PairInv
    <2> QED
      BY <2>2, <2>3, <2>4, <2>5, PairFrame
  <1>9. CASE UNCHANGED supplyVars
    <2>1. UNCHANGED <<files, processes, moving, disturbed>>
      BY <1>9 DEF supplyVars
    <2> QED
      BY <1>a, <2>1, PairFrame DEF PairTypeOK, HalfWritten
  <1> QED
    BY <1>1, <1>2, <1>3, <1>4, <1>5, <1>6, <1>7, <1>8, <1>9 DEF SupplyNext

\* A model and the metadata that vouch for it come from one training, for every interleaving of
\* trainings, promotions, discards and restarts in which no writer of the two files dies between
\* them and no two of them overlap (ml/registry.py:50, scripts/train_model.py:279).
THEOREM MetadataVouch == SupplySpec => []PairsMatch
  <1>1. PairInv => PairsMatch
    BY DEF PairInv, Pairs, PairsMatch, Writing
  <1> QED
    BY <1>1, PairInitially, PairStep, QueuesInitially, QueuesStep, PTL DEF SupplySpec

-----------------------------------------------------------------------------
(* ModelSupply: jobs                                                       *)

JobTypeOK ==
  /\ proc \in [Procs -> {"none", "fitting", "saved", "described", "over"}]
  /\ kindOf \in [Procs -> Kinds] /\ jobs \in [Kinds -> {0} \cup Procs]
  /\ child \in [Starters -> {0} \cup Procs] /\ excess \in [Kinds -> Nat]

\* The starters that launch kind k, and the running processes of it that none of them created.
Launchers(k) == {c \in Starters : Launching(c, k)}
Unowned(k) == {p \in Running(k) : \A c \in Starters : child[c] # p}

\* What a starter has created is of the kind it launches.
Children ==
  \A c \in Starters : child[c] # 0 =>
    todo[c] # <<>> /\ kindOf[child[c]] = Head(todo[c]) /\ proc[child[c]] # "none"

\* While kind k is launched each launcher counts for the process it has or may create; when it is
\* not, all its processes but the registered one are in excess.
Bounded(k) ==
  IF Launchers(k) = {} THEN Cardinality(Running(k) \ {jobs[k]}) <= excess[k]
  ELSE Cardinality(Unowned(k)) + Cardinality(Launchers(k)) <= 1 + excess[k]

JobInv == JobTypeOK /\ Children /\ \A k \in Kinds : Bounded(k)

LEMMA JobSetsFinite ==
  ASSUME NEW k
  PROVE  /\ IsFiniteSet(Running(k)) /\ IsFiniteSet(Unowned(k)) /\ IsFiniteSet(Launchers(k))
         /\ IsFiniteSet(Running(k) \ {jobs[k]})
  <1>1. IsFiniteSet(Procs)
    <2>1. MaxProcs \in Nat
      BY SupplyAssumption DEF SupplyAssumption
    <2>2. 1 \in Int /\ MaxProcs \in Int
      BY <2>1
    <2>3. IsFiniteSet(1..MaxProcs)
      BY <2>2, FS_Interval
    <2> QED
      BY <2>3 DEF Procs
  <1>2. IsFiniteSet(Starters)
    BY SupplyAssumption, FS_AddElement DEF Starters, SupplyAssumption
  <1>3. /\ Running(k) \subseteq Procs /\ Unowned(k) \subseteq Procs
        /\ Running(k) \ {jobs[k]} \subseteq Procs /\ Launchers(k) \subseteq Starters
    BY DEF Running, Unowned, Launchers
  <1> QED
    BY <1>1, <1>2, <1>3, FS_Subset

LEMMA JobInitially == SupplyInit => JobInv
  <1> SUFFICES ASSUME SupplyInit PROVE JobInv
    OBVIOUS
  <1> USE DEF SupplyInit
  <1>1. JobTypeOK /\ Children
    BY DEF JobTypeOK, Children, Kinds
  <1>2. ASSUME NEW k \in Kinds PROVE Bounded(k)
    <2>1. Launchers(k) = {} /\ Running(k) \ {jobs[k]} = {} /\ excess[k] = 0
      BY DEF Launchers, Launching, Running, Active
    <2>2. Cardinality(Running(k) \ {jobs[k]}) = 0
      BY <2>1, FS_EmptySet
    <2> QED
      BY <2>1, <2>2 DEF Bounded
  <1> QED
    BY <1>1, <1>2 DEF JobInv

\* A step that launches nothing and starts no process of kind k that no launcher owns.
LEMMA BoundedFrame ==
  ASSUME NEW k \in Kinds, Bounded(k), JobTypeOK, JobTypeOK',
         Launchers(k)' = Launchers(k), Unowned(k)' \subseteq Unowned(k),
         Launchers(k) = {} => Running(k)' \subseteq Running(k),
         UNCHANGED <<jobs, excess>>
  PROVE  Bounded(k)'
  <1>1. CASE Launchers(k) = {}
    <2>1. Running(k)' \ {jobs'[k]} \subseteq Running(k) \ {jobs[k]}
      BY <1>1
    <2>2. Cardinality(Running(k)' \ {jobs'[k]}) <= Cardinality(Running(k) \ {jobs[k]})
      BY <2>1, JobSetsFinite, FS_Subset
    <2>3. Cardinality(Running(k) \ {jobs[k]}) \in Nat /\ Cardinality(Running(k)' \ {jobs'[k]}) \in Nat
      BY <2>1, JobSetsFinite, FS_Subset, FS_CardinalityType
    <2> QED
      BY <1>1, <2>2, <2>3 DEF Bounded, JobTypeOK
  <1>2. CASE Launchers(k) # {}
    <2>1. Cardinality(Unowned(k)') <= Cardinality(Unowned(k))
      BY JobSetsFinite, FS_Subset
    <2>2. Cardinality(Unowned(k)') \in Nat /\ Cardinality(Unowned(k)) \in Nat /\ Cardinality(Launchers(k)) \in Nat
      BY JobSetsFinite, FS_Subset, FS_CardinalityType
    <2> QED
      BY <1>2, <2>1, <2>2 DEF Bounded, JobTypeOK
  <1> QED
    BY <1>1, <1>2

\* c goes on: a process it has created is registered, and it may launch another kind, or the same.
LEMMA BoundedGoesOn ==
  ASSUME JobInv, JobTypeOK', QueuesOK, NEW c \in Starters, NEW kinds \in Seq(Kinds), GoesOn(c, kinds, BusyKinds'),
         UNCHANGED <<proc, kindOf>>, child' = [child EXCEPT ![c] = 0],
         jobs' = IF child[c] = 0 THEN jobs ELSE [jobs EXCEPT ![Head(todo[c])] = child[c]],
         NEW k \in Kinds
  PROVE  Bounded(k)'
  <1> DEFINE L == Launchers(k)   M == Launchers(k)'   R == Running(k)   S == Running(k)'
             U == Unowned(k)     V == Unowned(k)'     e == excess[k]    f == excess'[k]
             others == L \ {c}
  <1>0. JobTypeOK /\ Children /\ Bounded(k) /\ 0 \notin Procs
    BY DEF JobInv, Procs
  <1>1. /\ \A d \in Starters \ {c} : todo'[d] = todo[d]
        /\ todo'[c] # <<>> => Head(todo'[c]) \in Kinds \ BusyKinds'
        /\ excess' = [h \in Kinds |-> IF /\ todo'[c] # <<>> /\ Head(todo'[c]) = h
                                       /\ \E d \in Starters \ {c} : Launching(d, h)
                                    THEN excess[h] + 1 ELSE excess[h]]
    BY GoesOnFact
  <1>2. M \ {c} = others /\ f = (IF c \in M /\ others # {} THEN e + 1 ELSE e)
    BY <1>1 DEF Launchers, Launching
  <1>3. S = R
    BY DEF Running, Active
  <1>4. V \subseteq U \cup ({child[c]} \cap R) /\ U \subseteq R /\ V \subseteq R
    BY <1>0, <1>3 DEF Unowned, JobTypeOK
  <1>5. c \notin L => V \subseteq U /\ jobs'[k] = jobs[k]
    <2>1. c \notin L => child[c] = 0 \/ (kindOf[child[c]] # k /\ Head(todo[c]) # k)
      BY <1>0 DEF Launchers, Launching, Children
    <2> QED
      BY <1>0, <1>4, <2>1 DEF Running, JobTypeOK
  <1>6. c \in M => jobs'[k] \notin S
    BY <1>0, <1>1 DEF Launchers, Launching, BusyKinds, Busy, Running, JobTypeOK
  <1>7. c \in L => jobs'[k] = IF child[c] = 0 THEN jobs[k] ELSE child[c]
    BY <1>0 DEF Launchers, Launching, JobTypeOK
  <1>8. others = {} => R \subseteq U \cup {child[c]} \/ L = {}
    BY <1>0 DEF Unowned, Running, Launchers, Launching, Children
  <1>9. /\ IsFiniteSet(L) /\ IsFiniteSet(M) /\ IsFiniteSet(R) /\ IsFiniteSet(U) /\ IsFiniteSet(V)
        /\ IsFiniteSet(R \ {jobs[k]}) /\ IsFiniteSet(others)
    <2>1. IsFiniteSet(L) /\ IsFiniteSet(R) /\ IsFiniteSet(U) /\ IsFiniteSet(R \ {jobs[k]}) /\ IsFiniteSet(others)
      BY JobSetsFinite, FS_Subset
    <2>2. IsFiniteSet(V) /\ IsFiniteSet(others \cup {c}) /\ M \subseteq others \cup {c}
      BY <1>2, <1>4, <2>1, FS_Subset, FS_AddElement
    <2> QED
      BY <2>1, <2>2, FS_Subset
  <1>10. e \in Nat /\ c \notin others /\ (L = others \/ L = others \cup {c}) /\ (M = others \/ M = others \cup {c})
    BY <1>0, <1>2 DEF JobTypeOK
  <1>11. /\ Bounded(k) <=> IF L = {} THEN Cardinality(R \ {jobs[k]}) <= e
                           ELSE Cardinality(U) + Cardinality(L) <= 1 + e
         /\ Bounded(k)' <=> IF M = {} THEN Cardinality(S \ {jobs'[k]}) <= f
                            ELSE Cardinality(V) + Cardinality(M) <= 1 + f
    BY DEF Bounded
  <1> HIDE DEF L, M, R, S, U, V, e, f, others
  <1> DEFINE cU == Cardinality(U)  cV == Cardinality(V)  cR == Cardinality(R)  n == Cardinality(others)
  <1>12. /\ cU \in Nat /\ cV \in Nat /\ cR \in Nat /\ n \in Nat /\ (others = {} <=> n = 0)
         /\ Cardinality(others \cup {c}) = n + 1 /\ cU <= cR /\ cV <= cU + 1 /\ (V \subseteq U => cV <= cU)
    <2>1. V \subseteq U \cup {child[c]} /\ Cardinality(U \cup {child[c]}) \in {cU, cU + 1} /\ IsFiniteSet(U \cup {child[c]})
      BY <1>4, <1>9, FS_AddElement
    <2>2. cU \in Nat /\ cV \in Nat /\ cR \in Nat /\ n \in Nat
      BY <1>9, FS_CardinalityType
    <2>3. cU <= cR /\ cV <= Cardinality(U \cup {child[c]}) /\ (V \subseteq U => cV <= cU)
      BY <1>4, <1>9, <2>1, FS_Subset
    <2>4. (others = {} <=> n = 0) /\ Cardinality(others \cup {c}) = n + 1
      BY <1>9, <1>10, FS_EmptySet, FS_AddElement
    <2> QED
      BY <2>1, <2>2, <2>3, <2>4
  <1> HIDE DEF cU, cV, cR, n
  <1>13. CASE c \notin L /\ c \notin M
    <2>1. L = others /\ M = others /\ f = e /\ jobs'[k] = jobs[k] /\ cV <= cU
      BY <1>2, <1>5, <1>10, <1>12, <1>13
    <2>2. others # {} => cU + n <= 1 + e
      BY <1>0, <1>11, <2>1 DEF cU, n
    <2>3. CASE others = {}
      <3>1. S \ {jobs'[k]} = R \ {jobs[k]}
        BY <1>3, <2>1
      <3>2. Cardinality(R \ {jobs[k]}) <= e
        BY <1>0, <1>11, <2>1, <2>3
      <3> QED
        BY <1>11, <2>1, <2>3, <3>1, <3>2
    <2>4. CASE others # {}
      <3>1. cV + n <= 1 + e
        BY <1>10, <1>12, <2>1, <2>2, <2>4
      <3> QED
        BY <1>11, <2>1, <2>4, <3>1 DEF cV, n
    <2> QED
      BY <2>3, <2>4
  <1>14. CASE c \notin L /\ c \in M
    <2>1. L = others /\ M = others \cup {c} /\ jobs'[k] = jobs[k] /\ cV <= cU /\ R \ {jobs[k]} = R
      BY <1>3, <1>5, <1>6, <1>10, <1>12, <1>14
    <2>2. IF others = {} THEN cR <= e ELSE cU + n <= 1 + e
      BY <1>0, <1>11, <2>1 DEF cR, cU, n
    <2>3. f = IF others = {} THEN e ELSE e + 1
      BY <1>2, <1>14
    <2>4. cV + (n + 1) <= 1 + f
      BY <1>10, <1>12, <2>1, <2>2, <2>3
    <2>5. Cardinality(M) = n + 1 /\ M # {}
      BY <1>12, <2>1
    <2> QED
      BY <1>11, <2>4, <2>5 DEF cV
  <1>15. CASE c \in L /\ c \notin M
    <2>1. L = others \cup {c} /\ M = others /\ f = e
      BY <1>2, <1>10, <1>15
    <2>2. cU + (n + 1) <= 1 + e
      BY <1>0, <1>11, <1>12, <2>1 DEF cU
    <2>3. CASE others = {}
      <3>1. R \ {jobs'[k]} \subseteq U
        <4>1. R \subseteq U \cup {child[c]}
          BY <1>8, <1>15, <2>3
        <4>2. 0 \notin R
          BY <1>0 DEF R, Running
        <4> QED
          BY <1>7, <1>15, <4>1, <4>2
      <3>2. Cardinality(R \ {jobs'[k]}) <= cU /\ Cardinality(R \ {jobs'[k]}) \in Nat
        BY <1>9, <3>1, FS_Subset, FS_CardinalityType DEF cU
      <3>3. cU <= e
        BY <1>10, <1>12, <2>2, <2>3
      <3> QED
        BY <1>3, <1>10, <1>11, <1>12, <2>1, <2>3, <3>2, <3>3
    <2>4. CASE others # {}
      <3>1. cV + n <= 1 + e
        BY <1>10, <1>12, <2>2
      <3> QED
        BY <1>11, <2>1, <2>4, <3>1 DEF cV, n
    <2> QED
      BY <2>3, <2>4
  <1>16. CASE c \in L /\ c \in M
    <2>1. L = others \cup {c} /\ M = others \cup {c}
      BY <1>10, <1>16
    <2>2. cU + (n + 1) <= 1 + e
      BY <1>0, <1>11, <1>12, <2>1 DEF cU
    <2>3. V \subseteq U
      BY <1>3, <1>4, <1>6, <1>7, <1>16, <1>0 DEF R, Running
    <2>4. cV + (n + 1) <= 1 + f
      BY <1>2, <1>10, <1>12, <1>16, <2>2, <2>3
    <2> QED
      BY <1>11, <1>12, <2>1, <2>4 DEF cV
  <1> QED
    BY <1>13, <1>14, <1>15, <1>16

\* The same, for the whole invariant.
LEMMA JobGoesOn ==
  ASSUME JobInv, QueuesOK, NEW c \in Starters, NEW kinds \in Seq(Kinds), GoesOn(c, kinds, BusyKinds'),
         UNCHANGED <<proc, kindOf>>, child' = [child EXCEPT ![c] = 0],
         jobs' = IF child[c] = 0 THEN jobs ELSE [jobs EXCEPT ![Head(todo[c])] = child[c]]
  PROVE  JobInv'
  <1>1. /\ \A d \in Starters \ {c} : todo'[d] = todo[d]
        /\ excess' = [h \in Kinds |-> IF /\ todo'[c] # <<>> /\ Head(todo'[c]) = h
                                       /\ \E d \in Starters \ {c} : Launching(d, h)
                                    THEN excess[h] + 1 ELSE excess[h]]
    BY GoesOnFact
  <1>2. JobTypeOK /\ Children
    BY DEF JobInv
  <1>3. excess' \in [Kinds -> Nat]
    BY <1>1, <1>2 DEF JobTypeOK
  <1>4. JobTypeOK'
    BY <1>2, <1>3 DEF JobTypeOK
  <1>5. Children'
    BY <1>1, <1>2 DEF Children, JobTypeOK
  <1>6. \A k \in Kinds : Bounded(k)'
    BY <1>4, BoundedGoesOn
  <1> QED
    BY <1>4, <1>5, <1>6 DEF JobInv

\* A starter that launches nothing has created nothing.
LEMMA JobAsks ==
  ASSUME JobInv, QueuesOK, NEW c \in Starters, NEW kinds \in Seq(Kinds), GoesOn(c, kinds, BusyKinds),
         child[c] = 0, UNCHANGED <<proc, kindOf, jobs, child>>
  PROVE  JobInv'
  <1>1. child' = [child EXCEPT ![c] = 0]
    BY DEF JobInv, JobTypeOK
  <1>2. BusyKinds' = BusyKinds
    BY DEF BusyKinds, Busy, Active
  <1> QED
    BY <1>1, <1>2, JobGoesOn

\* A step that starts no process and no launch.
LEMMA JobFrame ==
  ASSUME JobInv, JobTypeOK', UNCHANGED <<todo, child, kindOf, jobs, excess>>,
         \A p \in Procs : (Active(p)' => Active(p)) /\ (proc[p] # "none" => proc'[p] # "none")
  PROVE  JobInv'
  <1>1. JobTypeOK /\ Children /\ \A k \in Kinds : Bounded(k)
    BY DEF JobInv
  <1>2. Children'
    BY <1>1 DEF Children, JobTypeOK
  <1>3. ASSUME NEW k \in Kinds PROVE Bounded(k)'
    <2>1. Launchers(k)' = Launchers(k) /\ Running(k)' \subseteq Running(k) /\ Unowned(k)' \subseteq Unowned(k)
      BY DEF Launchers, Launching, Running, Unowned
    <2> QED
      BY <1>1, <2>1, BoundedFrame
  <1> QED
    BY <1>2, <1>3 DEF JobInv

LEMMA JobStep == JobInv /\ QueuesOK /\ [SupplyNext]_supplyVars => JobInv'
  <1> SUFFICES ASSUME JobInv, QueuesOK, [SupplyNext]_supplyVars PROVE JobInv'
    OBVIOUS
  <1>a. JobTypeOK /\ Children /\ (\A k \in Kinds : Bounded(k)) /\ \A p \in Procs : p # 0
    BY DEF JobInv, Procs
  <1> USE DEF files, processes, launching, cadence, supplyBounds
  <1>1. ASSUME NEW c \in Starters, NEW k \in Kinds, PostJob(c, k) PROVE JobInv'
    <2>1. child[c] = 0
      BY <1>1, <1>a DEF PostJob, Children
    <2> QED
      BY <1>1, <2>1, JobAsks, ListsFact DEF PostJob
  <1>2. ASSUME NEW c \in Starters, BeginRetrain(c), todo[c] = <<>> PROVE JobInv'
    <2>1. child[c] = 0
      BY <1>2, <1>a DEF Children
    <2> QED
      BY <1>2, <2>1, JobAsks, ListsFact DEF BeginRetrain
  <1>3. ASSUME NEW c \in Starters, LaunchFails(c) PROVE JobInv'
    <2>1. Tail(todo[c]) \in Seq(Kinds)
      BY <1>3, ListsFact DEF LaunchFails, QueuesOK
    <2> QED
      BY <1>3, <2>1, JobAsks DEF LaunchFails
  <1>4. ASSUME NEW c \in Starters, Launched(c) PROVE JobInv'
    <2>1. Tail(todo[c]) \in Seq(Kinds)
      BY <1>4, <1>a, ListsFact DEF Launched, QueuesOK, Children
    <2> QED
      BY <1>4, <2>1, JobGoesOn DEF Launched
  <1>5. ASSUME NEW c \in Starters, Spawned(c) PROVE JobInv'
    <2> DEFINE h == Head(todo[c])
    <2>1. PICK p \in Procs : /\ proc[p] = "none" /\ proc' = [proc EXCEPT ![p] = "fitting"]
                             /\ kindOf' = [kindOf EXCEPT ![p] = h] /\ child' = [child EXCEPT ![c] = p]
      BY <1>5 DEF Spawned
    <2>2. /\ h \in Kinds /\ Launching(c, h) /\ todo[c] # <<>> /\ child[c] = 0
          /\ UNCHANGED <<jobs, todo, excess>>
      BY <1>5, ListsFact DEF Spawned, QueuesOK, Launching
    <2>3. JobTypeOK'
      BY <1>a, <2>1, <2>2 DEF JobTypeOK
    <2>4. \A d \in Starters : child[d] # p
      BY <1>a, <2>1 DEF Children
    <2>5. Children'
      BY <1>a, <2>1, <2>2, <2>4 DEF Children, JobTypeOK
    <2>6. ASSUME NEW k \in Kinds PROVE Bounded(k)'
      <3>1. Launchers(k)' = Launchers(k) /\ (k = h => Launchers(k) # {})
        BY <2>2 DEF Launchers, Launching
      <3>2. \A q \in Procs : Active(q)' <=> (q = p \/ Active(q))
        BY <1>a, <2>1 DEF Active, JobTypeOK
      <3>3. Running(k)' \subseteq Running(k) \cup {p} /\ (k # h => Running(k)' \subseteq Running(k))
        BY <1>a, <2>1, <3>2 DEF Running, JobTypeOK
      <3>4. Unowned(k)' \subseteq Unowned(k)
        <4>1. child'[c] = p /\ \A d \in Starters \ {c} : child'[d] = child[d]
          BY <1>a, <2>1 DEF JobTypeOK
        <4> QED
          BY <1>a, <2>2, <3>3, <4>1 DEF Unowned, Running
      <3> QED
        BY <1>a, <2>2, <2>3, <3>1, <3>3, <3>4, BoundedFrame
    <2> QED
      BY <2>3, <2>5, <2>6 DEF JobInv
  <1>6. ASSUME ServerRestarts PROVE JobInv'
    <2>1. PICK dead \in SUBSET {p \in Procs : Active(p)} :
            /\ proc' = [p \in Procs |-> IF p \in dead THEN "over" ELSE proc[p]]
            /\ excess' = [k \in Kinds |-> Cardinality({p \in Procs \ dead : Active(p) /\ kindOf[p] = k})]
      BY <1>6 DEF ServerRestarts
    <2>2. /\ UNCHANGED kindOf /\ jobs' = [k \in Kinds |-> 0]
          /\ todo' = [c \in Starters |-> <<>>] /\ child' = [c \in Starters |-> 0]
      BY <1>6 DEF ServerRestarts
    <2>3. ASSUME NEW k \in Kinds
          PROVE  /\ Running(k)' \ {jobs'[k]} = {p \in Procs \ dead : Active(p) /\ kindOf[p] = k}
                 /\ Launchers(k)' = {}
                 /\ IsFiniteSet({p \in Procs \ dead : Active(p) /\ kindOf[p] = k})
      <3>1. \A p \in Procs : Active(p)' <=> (Active(p) /\ p \notin dead)
        BY <2>1 DEF Active
      <3>2. {p \in Procs \ dead : Active(p) /\ kindOf[p] = k} \subseteq Running(k)
        BY DEF Running
      <3>3. IsFiniteSet({p \in Procs \ dead : Active(p) /\ kindOf[p] = k})
        BY <3>2, JobSetsFinite, FS_Subset
      <3>4. Launchers(k)' = {}
        BY <2>2 DEF Launchers, Launching
      <3> QED
        BY <1>a, <2>2, <3>1, <3>3, <3>4 DEF Running
    <2>4. excess' \in [Kinds -> Nat]
      BY <2>1, <2>3, FS_CardinalityType
    <2>5. JobTypeOK' /\ Children'
      BY <1>a, <2>1, <2>2, <2>4 DEF JobTypeOK, Children
    <2>6. ASSUME NEW k \in Kinds PROVE Bounded(k)'
      <3>1. excess'[k] \in Nat /\ excess'[k] = Cardinality(Running(k)' \ {jobs'[k]})
        BY <2>1, <2>3, <2>4
      <3>2. Cardinality(Running(k)' \ {jobs'[k]}) <= excess'[k]
        BY <3>1
      <3>3. Launchers(k)' = {}
        BY <2>3
      <3> QED
        BY <3>2, <3>3 DEF Bounded
    <2> QED
      BY <2>5, <2>6 DEF JobInv
  <1>7. ASSUME NEW p \in Procs, SaveModel(p) \/ WriteMeta(p) \/ ProcEnds(p) PROVE JobInv'
    <2>1. Active(p) /\ UNCHANGED <<todo, child, kindOf, jobs, excess>>
          /\ \E to \in {"saved", "described", "over"} : proc' = [proc EXCEPT ![p] = to]
      BY <1>7 DEF SaveModel, WriteMeta, ProcEnds, Active, HalfWritten
    <2>2. JobTypeOK'
      BY <1>a, <2>1 DEF JobTypeOK
    <2>3. \A q \in Procs : (Active(q)' => Active(q)) /\ (proc[q] # "none" => proc'[q] # "none")
      BY <1>a, <2>1 DEF JobTypeOK, Active
    <2> QED
      BY <2>1, <2>2, <2>3, JobFrame
  <1>8. ASSUME PromoteModel \/ PromoteMeta \/ DiscardModel \/ DiscardMeta \/ NextDay \/ UNCHANGED supplyVars
        PROVE  JobInv'
    <2>1. UNCHANGED <<todo, child, proc, kindOf, jobs, excess>>
      BY <1>8 DEF PromoteModel, PromoteMeta, DiscardModel, DiscardMeta, Moves, Moved, NextDay, supplyVars
    <2>2. JobTypeOK' /\ \A q \in Procs : Active(q)' <=> Active(q)
      BY <1>a, <2>1 DEF JobTypeOK, Active
    <2> QED
      BY <2>1, <2>2, JobFrame
  <1>9. Scheduler \in Starters /\ Operators \subseteq Starters
    BY DEF Starters
  <1> QED
    BY <1>1, <1>2, <1>3, <1>4, <1>5, <1>6, <1>7, <1>8, <1>9 DEF SupplyNext, PostRetrain, SchedulerTick

\* Of each kind at most one process runs, and one more for each launch that overlapped another and
\* each process that outlived a server; without those, what runs is what is listed or about to
\* be: for every number of requests, processes and restarts (api/management.py:70, 95-111).
THEOREM OneJobRuns == SupplySpec => []OneJobPerKey
  <1>1. ASSUME JobInv, NEW k \in Kinds
        PROVE  /\ Cardinality(Running(k)) <= 1 + excess[k]
               /\ excess[k] = 0 =>
                    \A p \in Running(k) : jobs[k] = p \/ \E c \in Starters : Launching(c, k) /\ child[c] = p
    <2> DEFINE R == Running(k)   L == Launchers(k)   U == Unowned(k)   e == excess[k]   j == jobs[k]
               O == {child[c] : c \in L}
    <2>1. JobTypeOK /\ Children /\ Bounded(k) /\ e \in Nat
      BY <1>1 DEF JobInv, JobTypeOK
    <2>2. R \subseteq U \cup O /\ U \subseteq R
      <3>1. \A p \in Procs : p # 0
        BY DEF Procs
      <3> QED
        BY <2>1, <3>1 DEF Running, Unowned, Launchers, Launching, Children, JobTypeOK
    <2>3. \A p \in O : \E c \in Starters : Launching(c, k) /\ child[c] = p
      BY DEF Launchers
    <2>4. IsFiniteSet(R) /\ IsFiniteSet(L) /\ IsFiniteSet(U) /\ IsFiniteSet(R \ {j})
      BY JobSetsFinite
    <2>5. IF L = {} THEN Cardinality(R \ {j}) <= e ELSE Cardinality(U) + Cardinality(L) <= 1 + e
      BY <2>1 DEF Bounded
    <2>6. IsFiniteSet(O) /\ Cardinality(O) <= Cardinality(L)
      <3>1. [c \in L |-> child[c]] \in Surjection(L, O)
        BY DEF Surjection
      <3> QED
        BY <2>4, <3>1, FS_Surjection
    <2> HIDE DEF R, L, U, e, j, O
    <2>7. CASE L = {}
      <3>1. R \subseteq (R \ {j}) \cup {j} /\ IsFiniteSet((R \ {j}) \cup {j})
            /\ Cardinality((R \ {j}) \cup {j}) = Cardinality(R \ {j}) + 1
        BY <2>4, FS_AddElement
      <3>2. Cardinality(R) <= Cardinality((R \ {j}) \cup {j})
        BY <3>1, FS_Subset
      <3>3. Cardinality(R) \in Nat /\ Cardinality(R \ {j}) \in Nat
        BY <2>4, FS_CardinalityType
      <3>4. e = 0 => R \ {j} = {}
        BY <2>4, <2>5, <2>7, <3>3, FS_EmptySet
      <3>5. e = 0 => \A p \in R : j = p
        BY <3>4
      <3>6. Cardinality(R) <= 1 + e
        BY <2>1, <2>5, <2>7, <3>1, <3>2, <3>3
      <3> QED
        BY <3>5, <3>6 DEF R, e, j
    <2>8. CASE L # {}
      <3>1. Cardinality(U) \in Nat /\ Cardinality(L) \in Nat /\ Cardinality(O) \in Nat /\ Cardinality(R) \in Nat
        BY <2>4, <2>6, FS_CardinalityType
      <3>2. Cardinality(L) # 0
        BY <2>4, <2>8, FS_EmptySet
      <3>3. IsFiniteSet(U \cup O) /\ Cardinality(U \cup O) <= Cardinality(U) + Cardinality(O)
        <4>1. Cardinality(U \cup O) = Cardinality(U) + Cardinality(O) - Cardinality(U \cap O)
          BY <2>4, <2>6, FS_Union
        <4>2. IsFiniteSet(U \cup O) /\ Cardinality(U \cap O) \in Nat
          BY <2>4, <2>6, FS_Union, FS_Intersection, FS_CardinalityType
        <4> QED
          BY <3>1, <4>1, <4>2
      <3>4. Cardinality(R) <= Cardinality(U \cup O) /\ Cardinality(U \cup O) \in Nat
        BY <2>2, <3>3, FS_Subset, FS_CardinalityType
      <3>5. Cardinality(R) <= 1 + e
        BY <2>1, <2>5, <2>6, <2>8, <3>1, <3>3, <3>4
      <3>6. e = 0 => U = {}
        BY <2>4, <2>5, <2>8, <3>1, <3>2, FS_EmptySet
      <3>7. e = 0 => \A p \in R : \E c \in Starters : Launching(c, k) /\ child[c] = p
        BY <2>2, <2>3, <3>6
      <3> QED
        BY <3>5, <3>7 DEF R, e
    <2> QED
      BY <2>7, <2>8
  <1>2. JobInv => OneJobPerKey
    BY <1>1 DEF OneJobPerKey
  <1> QED
    BY <1>2, JobInitially, JobStep, QueuesInitially, QueuesStep, PTL DEF SupplySpec

-----------------------------------------------------------------------------
(* ModelSupply: the cadence                                                *)

\* The time of the last retraining is known, or its starter will note it, or it was lost.
DaysOK == day \in Nat \ {0} /\ begun \in 0..day /\ lastRetrain \in 0..day /\ schedulerState \in 0..day

CadenceInv ==
  /\ DaysOK
  /\ unsaved \in BOOLEAN /\ retrain \in [Starters -> BOOLEAN]
  /\ \A c \in Starters : retrain[c] => todo[c] # <<>>
  /\ begun = 0 \/ unsaved \/ lastRetrain >= begun \/ \E c \in Starters : retrain[c]

LEMMA CadenceInitially == SupplyInit => CadenceInv
  <1> SUFFICES ASSUME SupplyInit PROVE CadenceInv
    OBVIOUS
  <1>1. retrain \in [Starters -> BOOLEAN] /\ \A c \in Starters : ~ retrain[c]
    BY DEF SupplyInit
  <1>2. DaysOK
    BY DEF SupplyInit, DaysOK
  <1>3. begun = 0 /\ unsaved \in BOOLEAN
    BY DEF SupplyInit
  <1> QED
    BY <1>1, <1>2, <1>3, Zenon DEF CadenceInv

LEMMA CadenceStep == CadenceInv /\ QueuesOK /\ [SupplyNext]_supplyVars => CadenceInv'
  <1> SUFFICES ASSUME CadenceInv, QueuesOK, [SupplyNext]_supplyVars PROVE CadenceInv'
    OBVIOUS
  <1>a. /\ DaysOK
        /\ day \in Nat \ {0} /\ begun \in 0..day /\ lastRetrain \in 0..day /\ schedulerState \in 0..day
        /\ unsaved \in BOOLEAN /\ retrain \in [Starters -> BOOLEAN]
        /\ \A c \in Starters : retrain[c] => todo[c] # <<>>
        /\ begun = 0 \/ unsaved \/ lastRetrain >= begun \/ \E c \in Starters : retrain[c]
    BY DEF CadenceInv, DaysOK
  <1> USE DEF files, processes, launching, cadence, supplyBounds
  <1>1. ASSUME NEW c \in Starters, NEW k \in Kinds, PostJob(c, k) PROVE CadenceInv'
    <2>1. ~ retrain[c] /\ UNCHANGED <<day, cadence, retrain>> /\ \A d \in Starters \ {c} : todo'[d] = todo[d]
      BY <1>1, <1>a, GoesOnFact, ListsFact DEF PostJob
    <2> QED
      BY <1>a, <2>1 DEF CadenceInv, DaysOK
  <1>2. ASSUME NEW c \in Starters, BeginRetrain(c), todo[c] = <<>> PROVE CadenceInv'
    <2>1. /\ begun' = day /\ UNCHANGED <<day, unsaved>> /\ \A d \in Starters \ {c} : todo'[d] = todo[d]
      BY <1>2, GoesOnFact, ListsFact DEF BeginRetrain
    <2>2. CASE todo'[c] = <<>> /\ todo[c] = <<>>
      <3>1. lastRetrain' = day /\ schedulerState' \in 0..day /\ UNCHANGED retrain /\ ~ retrain[c]
        BY <1>2, <1>a, <2>2 DEF BeginRetrain
      <3> QED
        BY <1>a, <2>1, <3>1 DEF CadenceInv, DaysOK
    <2>3. CASE todo'[c] # <<>>
      <3>1. retrain' = [retrain EXCEPT ![c] = TRUE] /\ UNCHANGED <<lastRetrain, schedulerState>>
        BY <1>2, <2>3 DEF BeginRetrain
      <3>2. /\ retrain' \in [Starters -> BOOLEAN] /\ retrain'[c]
            /\ \A d \in Starters \ {c} : retrain'[d] = retrain[d]
        BY <1>a, <3>1
      <3>3. \A d \in Starters : retrain'[d] => todo'[d] # <<>>
        BY <1>a, <2>1, <2>3, <3>2
      <3> QED
        <4>1. DaysOK'
          BY <1>a, <2>1, <3>1 DEF DaysOK
        <4>2. unsaved' \in BOOLEAN /\ retrain' \in [Starters -> BOOLEAN]
          BY <1>a, <2>1, <3>2
        <4>3. \E d \in Starters : retrain'[d]
          BY <3>2
        <4> QED
          BY <3>3, <4>1, <4>2, <4>3, Zenon DEF CadenceInv
    <2> QED
      BY <1>2, <2>2, <2>3
  <1>3. ASSUME NEW c \in Starters, Launched(c) \/ LaunchFails(c) PROVE CadenceInv'
    <2>1. UNCHANGED <<day, begun, unsaved>> /\ Finish(c)
      BY <1>3 DEF Launched, LaunchFails
    <2>2. \A d \in Starters \ {c} : todo'[d] = todo[d]
      BY <1>3, GoesOnFact, ListsFact DEF Launched, LaunchFails, QueuesOK
    <2>3. CASE retrain[c] /\ todo'[c] = <<>>
      <3>1. /\ retrain' = [retrain EXCEPT ![c] = FALSE] /\ lastRetrain' = day
            /\ schedulerState' \in 0..day
        BY <1>a, <2>1, <2>3 DEF Finish
      <3> QED
        BY <1>a, <2>1, <2>2, <3>1 DEF CadenceInv, DaysOK
    <2>4. CASE ~ (retrain[c] /\ todo'[c] = <<>>)
      <3>1. UNCHANGED <<retrain, lastRetrain, schedulerState>>
        BY <2>1, <2>4 DEF Finish
      <3> QED
        BY <1>a, <2>1, <2>2, <2>4, <3>1 DEF CadenceInv, DaysOK
    <2> QED
      BY <2>3, <2>4
  <1>4. ASSUME ServerRestarts PROVE CadenceInv'
    <2>1. /\ UNCHANGED <<day, begun, schedulerState>> /\ lastRetrain' = schedulerState
          /\ unsaved' = (begun # 0 /\ schedulerState < begun)
          /\ retrain' = [c \in Starters |-> FALSE]
      BY <1>4 DEF ServerRestarts, Loaded
    <2>2. retrain' \in [Starters -> BOOLEAN] /\ \A c \in Starters : ~ retrain'[c]
      BY <2>1
    <2>3. unsaved' \in BOOLEAN /\ (begun' = 0 \/ unsaved' \/ lastRetrain' >= begun')
      <3>1. begun = 0 \/ schedulerState < begun \/ schedulerState >= begun
        BY <1>a
      <3> QED
        BY <2>1, <3>1, Zenon
    <2> QED
      <3>1. DaysOK'
        BY <1>a, <2>1 DEF DaysOK
      <3>2. \A c \in Starters : retrain'[c] => todo'[c] # <<>>
        BY <2>2
      <3> QED
        BY <2>2, <2>3, <3>1, <3>2, Zenon DEF CadenceInv
  <1>5. ASSUME NextDay PROVE CadenceInv'
    <2>1. day' = day + 1 /\ UNCHANGED <<todo, retrain, cadence>>
      BY <1>5 DEF NextDay
    <2> QED
      BY <1>a, <2>1 DEF CadenceInv, DaysOK
  <1>6. ASSUME \/ \E p \in Procs : SaveModel(p) \/ WriteMeta(p) \/ ProcEnds(p)
               \/ PromoteModel \/ PromoteMeta \/ DiscardModel \/ DiscardMeta \/ UNCHANGED supplyVars
               \/ \E c \in Starters : Spawned(c)
        PROVE  CadenceInv'
    <2>1. UNCHANGED <<todo, retrain, cadence, day>>
      BY <1>6 DEF Spawned, SaveModel, WriteMeta, ProcEnds, PromoteModel, PromoteMeta, DiscardModel, DiscardMeta, Moves, Moved,
                  supplyVars
    <2> QED
      BY <1>a, <2>1 DEF CadenceInv, DaysOK
  <1>7. Scheduler \in Starters /\ Operators \subseteq Starters
    BY DEF Starters
  <1> QED
    BY <1>1, <1>2, <1>3, <1>4, <1>5, <1>6, <1>7 DEF SupplyNext, PostRetrain, SchedulerTick

\* A step in which the scheduler begins a retraining.
LEMMA BeginsInTime ==
  ASSUME CadenceInv, QueuesOK, SupplyNext, todo[Scheduler] = <<>>, todo'[Scheduler] # <<>>
  PROVE  \/ begun = 0 \/ day - begun >= RetrainDays
         \/ unsaved \/ \E c \in Operators : retrain[c]
  <1>1. Scheduler \in Starters /\ Operators \subseteq Starters /\ Starters = Operators \cup {Scheduler}
        /\ Scheduler \notin Operators
    BY SupplyAssumption DEF Starters, SupplyAssumption
  <1>2. SchedulerTick
    <2>1. ASSUME NEW c \in Starters, PostRetrain(c) \/ Launched(c) \/ LaunchFails(c) \/ \E k \in Kinds : PostJob(c, k)
          PROVE  FALSE
      <3>1. \E kinds \in Seq(Kinds) : \E busy : GoesOn(c, kinds, busy)
        BY <2>1, ListsFact DEF PostRetrain, BeginRetrain, Launched, LaunchFails, PostJob, QueuesOK
      <3>2. c # Scheduler
        BY <2>1 DEF PostRetrain, Launched, LaunchFails, PostJob
      <3> QED
        BY <1>1, <3>1, <3>2, GoesOnFact
    <2>2. ASSUME \/ \E p \in Procs : SaveModel(p) \/ WriteMeta(p) \/ ProcEnds(p)
                 \/ \E c \in Starters : Spawned(c)
                 \/ PromoteModel \/ PromoteMeta \/ DiscardModel \/ DiscardMeta \/ NextDay
          PROVE  UNCHANGED todo
      BY <2>2 DEF Spawned, SaveModel, WriteMeta, ProcEnds, PromoteModel, PromoteMeta, DiscardModel, DiscardMeta, Moves, Moved,
                  NextDay, launching
    <2>3. ~ ServerRestarts
      BY <1>1 DEF ServerRestarts
    <2> QED
      BY <2>1, <2>2, <2>3 DEF SupplyNext
  <1>3. lastRetrain = 0 \/ day - lastRetrain >= RetrainDays
    BY <1>2 DEF SchedulerTick, Due
  <1>4. ~ retrain[Scheduler]
    BY <1>1 DEF CadenceInv
  <1>5. begun = 0 \/ unsaved \/ lastRetrain >= begun \/ \E c \in Operators : retrain[c]
    BY <1>1, <1>4 DEF CadenceInv
  <1>6. begun \in Nat /\ lastRetrain \in Nat /\ day \in Nat /\ RetrainDays \in Nat
    BY SupplyAssumption DEF CadenceInv, DaysOK, SupplyAssumption
  <1> QED
    BY <1>3, <1>5, <1>6

\* "The cadence survives restarts" (api/scheduler.py:6), for every interval and every number of
\* restarts: the scheduler begins a retraining only RetrainDays after the last one began, unless
\* its time was lost in a crash or it is still being launched.
THEOREM CadenceKept == SupplySpec => RetrainCadence
  <1>1. CadenceInv /\ QueuesOK /\ [SupplyNext]_supplyVars =>
          [todo[Scheduler] = <<>> /\ todo'[Scheduler] # <<>> =>
             \/ begun = 0 \/ day - begun >= RetrainDays
             \/ unsaved \/ \E c \in Operators : retrain[c]]_supplyVars
    BY BeginsInTime
  <1> QED
    BY <1>1, CadenceInitially, CadenceStep, QueuesInitially, QueuesStep, PTL DEF SupplySpec, RetrainCadence

-----------------------------------------------------------------------------
(* Validation: counting                                                    *)

\* Of a finite set of integers, as many elements are among the first n as n says.
LEMMA FirstElements ==
  ASSUME NEW S \in SUBSET Int, IsFiniteSet(S), NEW n \in Nat, n <= Cardinality(S)
  PROVE  Cardinality({u \in S : Cardinality({v \in S : v <= u}) <= n}) = n
  <1> DEFINE UpTo(u) == {v \in S : v <= u}
             c == Cardinality(S)
             rank == [u \in S |-> Cardinality(UpTo(u))]
             F == {u \in S : rank[u] <= n}
  <1>1. c \in Nat /\ IsFiniteSet(1..c) /\ Cardinality(1..c) = c /\ IsFiniteSet(1..n) /\ Cardinality(1..n) = n
    <2>1. c \in Nat
      BY FS_CardinalityType
    <2> HIDE DEF c
    <2>2. \A m \in Nat : IsFiniteSet(1..m) /\ Cardinality(1..m) = m
      <3> SUFFICES ASSUME NEW m \in Nat PROVE IsFiniteSet(1..m) /\ Cardinality(1..m) = m
        OBVIOUS
      <3>1. IsFiniteSet(1..m) /\ Cardinality(1..m) = IF 1 > m THEN 0 ELSE m - 1 + 1
        BY FS_Interval
      <3> QED
        BY <3>1
    <2> QED
      BY <2>1, <2>2
  <1>2. ASSUME NEW u \in S
        PROVE  UpTo(u) \in SUBSET S /\ rank[u] = Cardinality(UpTo(u)) /\ rank[u] \in 1..c
    <2>1. UpTo(u) \in SUBSET S /\ u \in UpTo(u)
      OBVIOUS
    <2>2. {u} \in SUBSET UpTo(u) /\ IsFiniteSet(UpTo(u)) /\ Cardinality(UpTo(u)) \in Nat /\ Cardinality(UpTo(u)) <= c
      BY <2>1, FewerInPart
    <2>3. Cardinality({u}) <= Cardinality(UpTo(u))
      BY <2>2, FewerInPart
    <2>4. Cardinality({u}) = 1
      BY FS_Singleton
    <2> HIDE DEF c, UpTo
    <2> QED
      BY <1>1, <2>1, <2>2, <2>3, <2>4
  <1>3. ASSUME NEW u \in S, NEW v \in S, u < v PROVE rank[u] < rank[v]
    <2>0. u \in Int /\ v \in Int /\ \A x \in S : x \in Int
      OBVIOUS
    <2>a. \A x \in S : x <= u => x <= v
      BY <1>3, <2>0
    <2>b. v <= v /\ ~(v <= u)
      BY <1>3, <2>0
    <2>1. UpTo(u) \in SUBSET UpTo(v) /\ v \in UpTo(v) /\ v \notin UpTo(u) /\ UpTo(v) \in SUBSET S
      BY <2>a, <2>b
    <2>2. IsFiniteSet(UpTo(v)) /\ UpTo(u) # UpTo(v)
      BY <2>1, FewerInPart
    <2> HIDE DEF UpTo, rank
    <2>3. Cardinality(UpTo(u)) < Cardinality(UpTo(v))
      BY <2>1, <2>2, FewerInPart
    <2> QED
      BY <1>2, <2>3
  <1> HIDE DEF c
  <1>4. rank \in Injection(S, 1..c)
    <2>1. rank \in [S -> 1..c]
      BY <1>2
    <2>2. ASSUME NEW u \in S, NEW v \in S, u # v PROVE rank[u] # rank[v]
      <3>1. u < v \/ v < u
        BY <2>2
      <3>2. rank[u] \in Nat /\ rank[v] \in Nat
        BY <1>1, <1>2
      <3> HIDE DEF rank
      <3> QED
        BY <1>3, <3>1, <3>2
    <2> HIDE DEF rank
    <2> QED
      BY <2>1, <2>2 DEF Injection, IsInjective
  <1>5. rank \in Surjection(S, 1..c)
    <2> HIDE DEF rank
    <2>1. Cardinality(S) = Cardinality(1..c)
      BY <1>1 DEF c
    <2> QED
      BY <1>1, <1>4, <2>1, FS_Injection
  <1>a. n <= c
    BY DEF c
  <1>6. ExistsBijection(1..n, F)
    <2> DEFINE g == [u \in F |-> rank[u]]
    <2>1. g \in [F -> 1..n]
      <3>1. \A u \in F : rank[u] \in 1..n
        <4> SUFFICES ASSUME NEW u \in F PROVE rank[u] \in 1..n
          OBVIOUS
        <4>1. u \in S /\ rank[u] <= n
          OBVIOUS
        <4>2. rank[u] \in 1..c
          BY <1>2, <4>1
        <4> HIDE DEF rank, F
        <4> QED
          BY <1>1, <4>1, <4>2
      <3> HIDE DEF rank, F
      <3> QED
        BY <3>1
    <2>2. \A u, v \in F : g[u] = g[v] => u = v
      <3> HIDE DEF rank
      <3> QED
        BY <1>4 DEF Injection, IsInjective
    <2>3. \A i \in 1..n : \E u \in F : g[u] = i
      <3> SUFFICES ASSUME NEW i \in 1..n PROVE \E u \in F : g[u] = i
        OBVIOUS
      <3> HIDE DEF rank
      <3>1. i \in 1..c
        BY <1>1, <1>a
      <3>2. PICK u \in S : rank[u] = i
        BY <1>5, <3>1 DEF Surjection
      <3> QED
        BY <3>2
    <2> HIDE DEF g, F
    <2>4. g \in Bijection(F, 1..n)
      BY <2>1, <2>2, <2>3 DEF Bijection, Injection, Surjection, IsInjective
    <2> QED
      BY <2>4, Fun_ExistsBijSymmetric DEF ExistsBijection
  <1>7. Cardinality(F) = n
    <2> HIDE DEF F
    <2> QED
      BY <1>1, <1>6, FS_Bijection
  <1>8. F = {u \in S : Cardinality({v \in S : v <= u}) <= n}
    BY <1>2
  <1> QED
    BY <1>7, <1>8

-----------------------------------------------------------------------------
(* Validation: the folds                                                   *)

\* Integer division and products of naturals.
LEMMA Arithmetic ==
  ASSUME NEW a \in Nat, NEW b \in Nat, NEW c \in Nat
  PROVE  /\ a * b \in Nat /\ (b <= c => a * b <= a * c) /\ (b + 1) * a = b * a + a
         /\ a * b = b * a
         /\ b # 0 => a \div b \in Nat /\ b * (a \div b) <= a
  <1>1. \A x \in Nat : a * x \in Nat
    OBVIOUS
  <1>2. ASSUME b <= c PROVE a * b <= a * c
    <2>1. PICK d \in Nat : c = b + d
      <3>1. c - b \in Nat /\ c = b + (c - b)
        BY <1>2
      <3> QED
        BY <3>1
    <2>2. a * c = a * b + a * d /\ a * d \in Nat /\ a * b \in Nat
      BY <1>1, <2>1
    <2> QED
      BY <2>2
  <1>3. (b + 1) * a = b * a + a /\ a * b = b * a
    OBVIOUS
  <1>4. b # 0 => a \div b \in Nat /\ b * (a \div b) <= a
    OBVIOUS
  <1> QED
    BY <1>1, <1>2, <1>3, <1>4

ArgumentTypes ==
  /\ total \in Nat /\ splits \in Nat \ {0} /\ percent \in 0..100
  /\ pool \subseteq Int /\ IsFiniteSet(pool)

\* The test bars of the folds follow one another up to the end of the history.
LEMMA FoldFacts ==
  ASSUME ArgumentTypes
  PROVE  /\ Initial \in Nat
         /\ TrainEnd(0) = Initial
         /\ \A i \in 0..(splits - 1) :
              /\ TrainEnd(i) \in Nat /\ Initial <= TrainEnd(i) /\ TrainEnd(i) <= TestEnd(i)
              /\ TestEnd(i) \in Nat /\ TestEnd(i) <= total
              /\ TestEnd(i) = IF i + 1 = splits THEN total ELSE TrainEnd(i + 1)
  <1>0. total \in Nat /\ splits \in Nat /\ splits # 0 /\ percent \in Nat /\ percent <= 100
    BY DEF ArgumentTypes
  <1>1. Initial \in Nat /\ Initial <= total
    <2>1. total * percent \in Nat /\ total * percent <= total * 100
      BY <1>0, Arithmetic
    <2> DEFINE x == total * percent
    <2>2. x \in Nat /\ x <= total * 100
      BY <2>1
    <2> HIDE DEF x
    <2>3. x \div 100 \in Nat /\ x \div 100 <= total
      BY <1>0, <2>2
    <2> QED
      BY <2>3 DEF Initial, x
  <1> DEFINE len == TestLen
  <1>2. len \in Nat /\ splits * len <= total - Initial
    <2> DEFINE rest == total - Initial
    <2>1. rest \in Nat
      BY <1>0, <1>1
    <2> HIDE DEF rest
    <2>2. rest \div splits \in Nat /\ splits * (rest \div splits) <= rest
      BY <1>0, <2>1, Arithmetic
    <2> QED
      BY <2>2 DEF TestLen, rest
  <1> HIDE DEF len
  <1>3. \A i : TrainEnd(i) = Initial + i * len
    BY DEF TrainEnd, len
  <1>4. TrainEnd(0) = Initial
    BY <1>1, <1>2, <1>3
  <1>5. ASSUME NEW i \in 0..(splits - 1)
        PROVE  /\ TrainEnd(i) \in Nat /\ Initial <= TrainEnd(i) /\ TrainEnd(i) <= TestEnd(i)
               /\ TestEnd(i) \in Nat /\ TestEnd(i) <= total
               /\ TestEnd(i) = IF i + 1 = splits THEN total ELSE TrainEnd(i + 1)
    <2>1. i \in Nat /\ i + 1 \in Nat /\ i + 1 <= splits
      BY <1>0
    <2>2. i * len \in Nat /\ (i + 1) * len \in Nat /\ (i + 1) * len = i * len + len
      BY <1>2, <2>1, Arithmetic
    <2>3. (i + 1) * len <= splits * len
      <3>1. len * (i + 1) <= len * splits
        BY <1>0, <1>2, <2>1, Arithmetic
      <3>2. len * (i + 1) = (i + 1) * len /\ len * splits = splits * len
        BY <1>0, <1>2, <2>1, Arithmetic
      <3> QED
        BY <3>1, <3>2
    <2> DEFINE p == i * len
               q == (i + 1) * len
               s == splits * len
    <2>4. p \in Nat /\ q = p + len /\ q <= s /\ s <= total - Initial /\ s \in Nat
      BY <1>0, <1>2, <2>2, <2>3, Arithmetic
    <2>5. TrainEnd(i) = Initial + p /\ TrainEnd(i + 1) = Initial + q
      BY <1>3
    <2>6. TestEnd(i) = IF i + 1 = splits THEN total ELSE TrainEnd(i) + len
      BY <1>0, <2>1 DEF TestEnd, len
    <2> HIDE DEF p, q, s
    <2> QED
      BY <1>0, <1>1, <1>2, <2>4, <2>5, <2>6
  <1> QED
    BY <1>1, <1>4, <1>5

\* Every frame of a fold ends before its test bars.
LEMMA FrameFacts ==
  ASSUME ArgumentTypes, NEW i \in 0..(splits - 1), NEW name \in Frames
  PROVE  /\ Frame(name, i) \subseteq Int /\ IsFiniteSet(Frame(name, i))
         /\ \A t \in Frame(name, i), s \in TestBars(i) : t < s
  <1>1. TrainEnd(i) \in Nat /\ TestEnd(i) \in Nat /\ TestEnd(i) <= total /\ total \in Nat
    BY FoldFacts DEF ArgumentTypes
  <1>2. CASE name = "primary"
    <2>1. Frame(name, i) = 1..TrainEnd(i)
      BY <1>2 DEF Frame
    <2>2. IsFiniteSet(1..TrainEnd(i))
      BY <1>1, FS_Interval
    <2> QED
      BY <1>1, <2>1, <2>2 DEF TestBars
  <1>3. CASE name # "primary"
    <2>1. Frame(name, i) = {t \in pool : t < Cutoff(i)}
      BY <1>3 DEF Frame, Pooled
    <2>2. IsFiniteSet({t \in pool : t < Cutoff(i)})
      <3>1. {t \in pool : t < Cutoff(i)} \in SUBSET pool
        OBVIOUS
      <3> QED
        BY <3>1, FS_Subset DEF ArgumentTypes
    <2>3. ASSUME NEW t \in pool, t < Cutoff(i), NEW s \in TestBars(i) PROVE t < s
      <3>1. t \in Int /\ s \in Int /\ TrainEnd(i) + 1 <= s /\ s <= total
        BY <1>1, <2>3 DEF ArgumentTypes, TestBars
      <3>2. Cutoff(i) = TrainEnd(i) + 1
        BY <1>1, <3>1 DEF Cutoff
      <3> QED
        BY <1>1, <2>3, <3>1, <3>2
    <2> QED
      BY <2>1, <2>2, <2>3 DEF ArgumentTypes
  <1> QED
    BY <1>2, <1>3

\* What a row that is complete reads: bars of its frame, of which just the label's window
\* comes later.
LEMMA RowFacts ==
  ASSUME ArgumentTypes, fold \in 0..(splits - 1), NEW name \in Frames,
         NEW t \in Complete(Frame(name, fold))
  PROVE  /\ ReadsOf(name, t) \subseteq Frame(name, fold)
         /\ Cardinality(Later(ReadsOf(name, t), t)) = Lookahead
  <1> DEFINE frame == Frame(name, fold)
             L == Later(frame, t)
             E == Earlier(frame, t)
  <1>1. frame \subseteq Int /\ IsFiniteSet(frame)
    BY FrameFacts
  <1> HIDE DEF frame
  <1>2. /\ t \in frame /\ Cardinality(L) >= Dropped(Cardinality(frame)) /\ Cardinality(E) >= Warmup
    BY DEF Complete, Kept, frame
  <1>3. /\ L \in SUBSET frame /\ E \in SUBSET frame /\ t \notin L /\ t \notin E
    BY <1>1, <1>2 DEF Later, Earlier
  <1>4. Lookahead \in Nat /\ Warmup \in Nat /\ Lookahead <= Warmup
    BY ValidationAssumption DEF ValidationAssumption
  <1>5. Lookahead <= Cardinality(frame) /\ Cardinality(frame) \in Nat
    <2>1. Cardinality(E) <= Cardinality(frame) /\ Cardinality(E) \in Nat /\ Cardinality(frame) \in Nat
      BY <1>1, <1>3, FewerInPart
    <2> QED
      BY <1>2, <1>4, <2>1
  <1>6. Cardinality(L) >= Lookahead /\ IsFiniteSet(L) /\ Cardinality(L) \in Nat
    <2>1. IsFiniteSet(L) /\ Cardinality(L) \in Nat
      BY <1>1, <1>3, FewerInPart
    <2>2. Dropped(Cardinality(frame)) = Lookahead
      BY <1>4, <1>5 DEF Dropped
    <2> QED
      BY <1>2, <2>1, <2>2
  <1>7. L \in SUBSET Int
    BY <1>1, <1>3
  <1>8. Cardinality({u \in L : Cardinality({v \in L : v <= u}) <= Lookahead}) = Lookahead
    <2>1. Lookahead <= Cardinality(L)
      BY <1>4, <1>6
    <2> HIDE DEF L
    <2> QED
      BY <1>4, <1>6, <1>7, <2>1, FirstElements
  <1>9. ReadsOf(name, t) = E \cup {t}
           \cup {u \in frame : u > t /\ Cardinality({v \in frame : v > t /\ v <= u}) <= Lookahead}
    BY DEF ReadsOf, frame
  <1>10. \A u : {v \in frame : v > t /\ v <= u} = {v \in L : v <= u}
    BY DEF Later
  <1>11. {u \in frame : u > t /\ Cardinality({v \in frame : v > t /\ v <= u}) <= Lookahead}
           = {u \in L : Cardinality({v \in L : v <= u}) <= Lookahead}
    BY <1>10 DEF Later
  <1> DEFINE M == {u \in L : Cardinality({v \in L : v <= u}) <= Lookahead}
  <1>12. M \subseteq L /\ ReadsOf(name, t) = E \cup {t} \cup M
    BY <1>9, <1>11
  <1>13. Later(ReadsOf(name, t), t) = M
    <2>1. \A u \in E \cup {t} : ~(u > t)
      BY <1>1, <1>2 DEF Earlier
    <2>2. \A u \in M : u > t
      BY <1>12 DEF Later
    <2> HIDE DEF M, E
    <2> QED
      BY <1>12, <2>1, <2>2 DEF Later
  <1>14. ReadsOf(name, t) \subseteq frame
    BY <1>2, <1>3, <1>12
  <1> QED
    BY <1>8, <1>13, <1>14 DEF frame

-----------------------------------------------------------------------------
(* Validation: nothing of the test is known                                *)

\* A model comes from the rows of its fold, and the bars before its test bars are scored.
ValidationInv ==
  /\ ArgumentTypes
  /\ fold \in 0..splits /\ phase \in {"train", "test", "done", "error"}
  /\ (fold = splits <=> phase = "done")
  /\ phase = "test" => fitted \cup calibrated \subseteq RowsOf(fold)
  /\ \A row \in calibrated : <<"primary", row[2]>> \notin fitted
  /\ scored = (Initial + 1)..(IF phase = "done" THEN total ELSE TrainEnd(fold))
  /\ scores = Cardinality(scored)

LEMMA ValidationInitially == ValidationInit => ValidationInv
  <1> SUFFICES ASSUME ValidationInit PROVE ValidationInv
    OBVIOUS
  <1>1. total \in Nat /\ splits \in Nat \ {0} /\ percent \in 0..100
    BY ValidationAssumption DEF ValidationInit, ValidationAssumption
  <1>2. pool \subseteq Int /\ IsFiniteSet(pool)
    <2>1. CASE ownPool
      <3>1. pool = 1..total
        BY <2>1 DEF ValidationInit
      <3> QED
        BY <1>1, <3>1, FS_Interval
    <2>2. CASE ~ownPool
      BY <2>2, ValidationAssumption DEF ValidationInit, ValidationAssumption
    <2> QED
      BY <2>1, <2>2
  <1>3. ArgumentTypes
    BY <1>1, <1>2 DEF ArgumentTypes
  <1>4. TrainEnd(0) = Initial /\ Initial \in Nat
    BY <1>3, FoldFacts
  <1>5. (Initial + 1)..Initial = {}
    BY <1>4
  <1>6. Cardinality({}) = 0
    BY FS_EmptySet
  <1> QED
    BY <1>1, <1>3, <1>4, <1>5, <1>6 DEF ValidationInit, ValidationInv

LEMMA TrainStep ==
  ASSUME ValidationInv, TrainFold
  PROVE  ValidationInv'
  <1>1. /\ fitted' = RowsOf(fold) \ HeldOut(fold) /\ calibrated' = RowsOf(fold) \cap HeldOut(fold)
        /\ phase = "train" /\ phase' \in {"error", "test"}
        /\ UNCHANGED <<total, splits, percent, pool, ownPool, fold, scored, scores>>
    BY DEF TrainFold, arguments
  <1>2. ArgumentTypes' /\ Initial' = Initial /\ TrainEnd(fold)' = TrainEnd(fold)
    BY <1>1 DEF ValidationInv, ArgumentTypes, Initial, TrainEnd, TestLen
  <1>3. RowsOf(fold)' = RowsOf(fold)
    BY <1>1 DEF RowsOf, Complete, Kept, Frame, Pooled, Cutoff, TrainEnd, Initial, TestLen
  <1>4. ASSUME NEW row \in calibrated' PROVE <<"primary", row[2]>> \notin fitted'
    <2>1. PICK t : row = <<Leading(fold), t>>
      <3>1. row \in HeldOut(fold)
        BY <1>1, <1>4
      <3> QED
        BY <3>1 DEF HeldOut
    <2>2. CASE Leading(fold) = "primary"
      BY <1>1, <1>4, <2>1, <2>2
    <2>3. CASE Leading(fold) # "primary"
      <3>1. Frame("primary", fold) = {}
        BY <2>3 DEF Leading
      <3>2. Complete(Frame("primary", fold)) = {}
        BY <3>1 DEF Complete, Kept
      <3>3. \A u : <<"primary", u>> \notin RowsOf(fold)
        BY <3>2 DEF RowsOf
      <3> QED
        BY <1>1, <3>3
    <2> QED
      BY <2>2, <2>3
  <1> QED
    BY <1>1, <1>2, <1>3, <1>4 DEF ValidationInv

LEMMA TestStep ==
  ASSUME ValidationInv, TestFold
  PROVE  ValidationInv'
  <1>1. /\ phase = "test" /\ fold' = fold + 1 /\ phase' = IF fold' = splits THEN "done" ELSE "train"
        /\ scored' = scored \cup TestBars(fold)
        /\ scores' = scores + Cardinality(TestBars(fold))
        /\ UNCHANGED <<total, splits, percent, pool, ownPool, fitted, calibrated>>
    BY DEF TestFold, arguments
  <1>2. ArgumentTypes' /\ Initial' = Initial /\ \A i : TrainEnd(i)' = TrainEnd(i)
    BY <1>1 DEF ValidationInv, ArgumentTypes, Initial, TrainEnd, TestLen
  <1>3. fold \in 0..(splits - 1) /\ splits \in Nat /\ fold + 1 \in 0..splits
    BY <1>1 DEF ValidationInv, ArgumentTypes
  <1>4. /\ Initial \in Nat /\ TrainEnd(fold) \in Nat /\ Initial <= TrainEnd(fold)
        /\ TestEnd(fold) \in Nat /\ TrainEnd(fold) <= TestEnd(fold)
        /\ TestEnd(fold) = IF fold + 1 = splits THEN total ELSE TrainEnd(fold + 1)
    BY <1>3, FoldFacts DEF ValidationInv
  <1> DEFINE a == Initial
             b == TrainEnd(fold)
             c == TestEnd(fold)
  <1>5. a \in Nat /\ b \in Nat /\ c \in Nat /\ a <= b /\ b <= c
    BY <1>4
  <1>6. scored = (a + 1)..b /\ TestBars(fold) = (b + 1)..c /\ scores = Cardinality(scored)
    BY <1>1 DEF ValidationInv, TestBars
  <1>7. TrainEnd(fold)' = TrainEnd(fold + 1)
    BY <1>1, <1>2 DEF TrainEnd, Initial, TestLen
  <1>8. c = IF phase' = "done" THEN total ELSE TrainEnd(fold)'
    BY <1>1, <1>4, <1>7
  <1> HIDE DEF a, b, c
  <1>9. scored' = (a + 1)..c
    BY <1>1, <1>5, <1>6
  <1>10. Cardinality((a + 1)..b) = b - a /\ Cardinality((b + 1)..c) = c - b /\ Cardinality((a + 1)..c) = c - a
    <2>1. ASSUME NEW x \in Nat, NEW y \in Nat, x <= y PROVE Cardinality((x + 1)..y) = y - x
      <3>1. Cardinality((x + 1)..y) = IF x + 1 > y THEN 0 ELSE y - (x + 1) + 1
        BY FS_Interval
      <3> QED
        BY <2>1, <3>1
    <2> QED
      BY <1>5, <2>1
  <1>11. scores' = Cardinality(scored')
    <2>1. scores = b - a /\ Cardinality(TestBars(fold)) = c - b /\ Cardinality(scored') = c - a
      BY <1>6, <1>9, <1>10
    <2>2. scores' = (b - a) + (c - b)
      BY <1>1, <2>1
    <2> QED
      BY <1>5, <2>1, <2>2
  <1>12. fold' \in 0..splits' /\ (fold' = splits' <=> phase' = "done") /\ phase' \in {"train", "test", "done", "error"}
         /\ phase' # "test"
    BY <1>1, <1>3
  <1>13. scored' = (Initial' + 1)..(IF phase' = "done" THEN total' ELSE TrainEnd(fold)')
    BY <1>1, <1>2, <1>8, <1>9 DEF a
  <1>14. \A row \in calibrated' : <<"primary", row[2]>> \notin fitted'
    BY <1>1 DEF ValidationInv
  <1> QED
    BY <1>2, <1>11, <1>12, <1>13, <1>14 DEF ValidationInv

LEMMA ValidationStep ==
  ASSUME ValidationInv, [ValidationNext]_validationVars
  PROVE  ValidationInv'
  <1>1. CASE UNCHANGED validationVars
    <2>1. UNCHANGED <<total, splits, percent, pool, ownPool, fold, phase, fitted, calibrated, scored, scores>>
      BY <1>1 DEF validationVars
    <2>2. Initial' = Initial /\ TrainEnd(fold)' = TrainEnd(fold) /\ RowsOf(fold)' = RowsOf(fold)
      BY <2>1 DEF RowsOf, Complete, Kept, Frame, Pooled, Cutoff, TrainEnd, Initial, TestLen
    <2> QED
      BY <2>1, <2>2 DEF ValidationInv, ArgumentTypes
  <1> QED
    BY <1>1, TrainStep, TestStep DEF ValidationNext

\* No fold's model knows anything of its test bars: every history, number of folds, pooled
\* symbol, label window and warm-up.
THEOREM NothingOfTheTestIsKnown == ValidationSpec => []TrainedOnThePast
  <1>1. ValidationInv => TrainedOnThePast
    <2> SUFFICES ASSUME ValidationInv PROVE TrainedOnThePast
      OBVIOUS
    <2>1. ASSUME phase = "test", NEW row \in fitted \cup calibrated
          PROVE  /\ \A t \in ReadsOf(row[1], row[2]) : \A s \in TestBars(fold) : t < s
                 /\ Cardinality(Later(ReadsOf(row[1], row[2]), row[2])) = Lookahead
      <3>1. ArgumentTypes /\ fold \in 0..(splits - 1) /\ row \in RowsOf(fold)
        BY <2>1 DEF ValidationInv, ArgumentTypes
      <3>2. PICK name \in Frames : \E t \in Complete(Frame(name, fold)) : row = <<name, t>>
        BY <3>1 DEF RowsOf
      <3>a. PICK t \in Complete(Frame(name, fold)) : row = <<name, t>>
        BY <3>2
      <3>3. /\ ReadsOf(name, t) \subseteq Frame(name, fold)
            /\ Cardinality(Later(ReadsOf(name, t), t)) = Lookahead
        BY <3>1, RowFacts
      <3>4. \A u \in Frame(name, fold), s \in TestBars(fold) : u < s
        BY <3>1, FrameFacts
      <3>5. row[1] = name /\ row[2] = t
        BY <3>a
      <3> QED
        BY <3>3, <3>4, <3>5
    <2> QED
      BY <2>1 DEF ValidationInv, TrainedOnThePast
  <1> QED
    BY <1>1, ValidationInitially, ValidationStep, PTL DEF ValidationSpec

-----------------------------------------------------------------------------
(* Labels: the loop and the first touch                                      *)

Histories == Seq([high : Int, low : Int, close : Int, atr : Nat])

\* The first touch from bar j on within the window that ends at bar e, or what is said without one.
TouchesFrom(h, i, tp, sl, e, j) == {k \in j..e : Touched(h, i, tp, sl, k) /\ \A m \in j..(k - 1) : ~ Touched(h, i, tp, sl, m)}
LabelAt(h, i, tp, k) == [label |-> IF HitsUpper(h, i, tp, k) THEN 1 ELSE -1, end |-> k]
LabelFrom(h, i, tp, sl, e, j) ==
  IF TouchesFrom(h, i, tp, sl, e, j) = {} THEN [label |-> 0, end |-> e]
  ELSE LabelAt(h, i, tp, CHOOSE k \in TouchesFrom(h, i, tp, sl, e, j) : TRUE)

\* The loop's equation.
IsScan(f, h, i, tp, sl, e) ==
  f = [j \in (i + 1)..(e + 1) |->
        IF j > e THEN [label |-> 0, end |-> e]
        ELSE IF HitsUpper(h, i, tp, j) THEN [label |-> 1, end |-> j]
        ELSE IF HitsLower(h, i, sl, j) THEN [label |-> -1, end |-> j]
        ELSE f[j + 1]]

\* The first touch from a bar on is that bar, or the first touch from the next one on.
LEMMA LabelFromStep ==
  ASSUME NEW h, NEW i, NEW tp, NEW sl, NEW e \in Nat, NEW j \in Nat
  PROVE  /\ j > e => LabelFrom(h, i, tp, sl, e, j) = [label |-> 0, end |-> e]
         /\ j <= e /\ Touched(h, i, tp, sl, j) => LabelFrom(h, i, tp, sl, e, j) = LabelAt(h, i, tp, j)
         /\ j <= e /\ ~ Touched(h, i, tp, sl, j) => LabelFrom(h, i, tp, sl, e, j) = LabelFrom(h, i, tp, sl, e, j + 1)
  <1> DEFINE S(k) == TouchesFrom(h, i, tp, sl, e, k)
             touched(k) == Touched(h, i, tp, sl, k)
  <1>0. \A n : S(n) = {k \in n..e : touched(k) /\ \A m \in n..(k - 1) : ~ touched(m)}
    BY DEF TouchesFrom
  <1> HIDE DEF S, touched
  <1>1. j > e => S(j) = {}
    BY <1>0
  <1>2. j <= e /\ touched(j) = TRUE => S(j) = {j}
    BY <1>0
  <1>3. j <= e /\ touched(j) = FALSE => S(j) = S(j + 1)
    <2> SUFFICES ASSUME j <= e, touched(j) = FALSE PROVE S(j) = S(j + 1)
      OBVIOUS
    <2>1. ASSUME NEW k \in S(j) PROVE k \in S(j + 1)
      BY <1>0
    <2>2. ASSUME NEW k \in S(j + 1) PROVE k \in S(j)
      BY <1>0
    <2> QED
      BY <2>1, <2>2
  <1>4. (touched(j) = TRUE <=> Touched(h, i, tp, sl, j)) /\ (touched(j) = FALSE <=> ~ Touched(h, i, tp, sl, j))
    BY DEF touched, Touched, HitsUpper, HitsLower
  <1>5. S(j) = {j} => (CHOOSE k \in S(j) : TRUE) = j
    OBVIOUS
  <1>6. \A n : LabelFrom(h, i, tp, sl, e, n) = IF S(n) = {} THEN [label |-> 0, end |-> e]
                                             ELSE LabelAt(h, i, tp, CHOOSE k \in S(n) : TRUE)
    BY DEF LabelFrom, S
  <1> QED
    BY <1>1, <1>2, <1>3, <1>4, <1>5, <1>6

\* What satisfies the loop's equation gives the first touch from any bar on.
LEMMA ScanGives ==
  ASSUME NEW h, NEW i \in Nat, NEW tp, NEW sl, NEW e \in Nat, i <= e, NEW f, IsScan(f, h, i, tp, sl, e)
  PROVE  \A j \in (i + 1)..(e + 1) : f[j] = LabelFrom(h, i, tp, sl, e, j)
  <1> DEFINE L(j) == LabelFrom(h, i, tp, sl, e, j)
             Bad == {j \in (i + 1)..(e + 1) : f[j] # L(j)}
  <1> SUFFICES ASSUME Bad # {} PROVE FALSE
    OBVIOUS
  <1>1. PICK j \in Bad : \A k \in Bad : k <= j
    <2>1. Bad \in SUBSET Nat /\ e + 1 \in Nat /\ \A k \in Bad : k <= e + 1
      OBVIOUS
    <2> HIDE DEF Bad
    <2> QED
      BY <2>1, GreatestElement
  <1>2. j \in (i + 1)..(e + 1) /\ j \in Nat /\ f[j] # L(j)
    BY DEF Bad
  <1>3. f[j] = IF j > e THEN [label |-> 0, end |-> e]
               ELSE IF HitsUpper(h, i, tp, j) THEN [label |-> 1, end |-> j]
               ELSE IF HitsLower(h, i, sl, j) THEN [label |-> -1, end |-> j]
               ELSE f[j + 1]
    BY <1>2 DEF IsScan
  <1>4. j <= e => f[j + 1] = L(j + 1)
    <2>1. ~ (j + 1 <= j)
      BY <1>2
    <2>2. j + 1 \notin Bad
      <3> HIDE DEF Bad
      <3> QED
        BY <1>1, <2>1
    <2> QED
      BY <1>2, <2>2 DEF Bad
  <1>5. /\ j > e => L(j) = [label |-> 0, end |-> e]
        /\ j <= e /\ Touched(h, i, tp, sl, j) => L(j) = LabelAt(h, i, tp, j)
        /\ j <= e /\ ~ Touched(h, i, tp, sl, j) => L(j) = L(j + 1)
    BY <1>2, LabelFromStep
  <1> HIDE DEF L, Bad
  <1>6. CASE j > e
    BY <1>2, <1>3, <1>5, <1>6
  <1>7. CASE j <= e
    BY <1>2, <1>3, <1>4, <1>5, <1>7 DEF Touched, LabelAt
  <1> QED
    BY <1>2, <1>6, <1>7

\* Something satisfies it.
LEMMA ScanExists ==
  ASSUME NEW h, NEW i \in Nat, NEW tp, NEW sl, NEW e \in Nat, i <= e
  PROVE  \E f : IsScan(f, h, i, tp, sl, e)
  <1> DEFINE L(j) == LabelFrom(h, i, tp, sl, e, j)
             D == (i + 1)..(e + 1)
             w == [j \in D |-> L(j)]
  <1>1. ASSUME NEW j \in D
        PROVE  L(j) = IF j > e THEN [label |-> 0, end |-> e]
                      ELSE IF HitsUpper(h, i, tp, j) THEN [label |-> 1, end |-> j]
                      ELSE IF HitsLower(h, i, sl, j) THEN [label |-> -1, end |-> j]
                      ELSE w[j + 1]
    <2>1. j \in Nat /\ (j <= e => j + 1 \in D)
      OBVIOUS
    <2>2. j <= e => w[j + 1] = L(j + 1)
      BY <2>1
    <2>3. /\ j > e => L(j) = [label |-> 0, end |-> e]
          /\ j <= e /\ Touched(h, i, tp, sl, j) => L(j) = LabelAt(h, i, tp, j)
          /\ j <= e /\ ~ Touched(h, i, tp, sl, j) => L(j) = L(j + 1)
      BY <2>1, LabelFromStep
    <2>4. j > e \/ j <= e
      BY <2>1
    <2> HIDE DEF L, D, w
    <2> QED
      BY <2>2, <2>3, <2>4 DEF Touched, LabelAt
  <1>2. IsScan(w, h, i, tp, sl, e)
    BY <1>1 DEF IsScan
  <1> QED
    BY <1>2

\* The loop over the bars after a row finds the barrier that is touched first, and a row's window
\* begins at the row and ends in the history: every history, horizon and pair of barriers
\* (make_triple_barrier_labels).
THEOREM LoopFindsFirstTouch ==
  ASSUME NEW h \in Histories, NEW i \in 1..Len(h), NEW horizon \in Nat, NEW tp, NEW sl
  PROVE  /\ TripleBarrier(h, i, horizon, tp, sl) = FirstTouchLabel(h, i, horizon, tp, sl)
         /\ TripleBarrier(h, i, horizon, tp, sl).end \in i..Len(h)
  <1> DEFINE e == i + horizon
             row == TripleBarrier(h, i, horizon, tp, sl)
             S == TouchesFrom(h, i, tp, sl, e, i + 1)
  <1>1. i \in Nat /\ e \in Nat /\ i <= e /\ Len(h) \in Nat /\ i <= Len(h)
    BY DEF Histories
  <1>2. ScanBarriers(h, i, horizon, tp, sl) = LabelFrom(h, i, tp, sl, e, i + 1)
    <2>1. ScanBarriers(h, i, horizon, tp, sl) = (CHOOSE f : IsScan(f, h, i, tp, sl, e))[i + 1]
      BY DEF ScanBarriers, IsScan
    <2>2. IsScan(CHOOSE f : IsScan(f, h, i, tp, sl, e), h, i, tp, sl, e)
      BY <1>1, ScanExists
    <2>3. i + 1 \in (i + 1)..(e + 1)
      BY <1>1
    <2> HIDE DEF e
    <2> QED
      BY <1>1, <2>1, <2>2, <2>3, ScanGives
  <1>3. S = {j \in (i + 1)..(i + horizon) : IsFirstTouch(h, i, tp, sl, j)}
    BY DEF TouchesFrom, IsFirstTouch
  <1>4. LabelFrom(h, i, tp, sl, e, i + 1) =
          IF S = {} THEN [label |-> 0, end |-> e] ELSE LabelAt(h, i, tp, CHOOSE k \in S : TRUE)
    BY DEF LabelFrom
  <1>5. row = FirstTouchLabel(h, i, horizon, tp, sl)
    BY <1>2, <1>3, <1>4 DEF TripleBarrier, FirstTouchLabel, LabelAt
  <1>6. row.end \in i..Len(h)
    <2>1. CASE i > Len(h) - horizon
      BY <1>1, <2>1 DEF TripleBarrier
    <2>2. CASE i <= Len(h) - horizon /\ h[i].atr = 0
      BY <1>1, <2>2 DEF TripleBarrier
    <2>3. CASE i <= Len(h) - horizon /\ h[i].atr # 0
      <3>1. row = LabelFrom(h, i, tp, sl, e, i + 1) /\ e <= Len(h)
        BY <1>1, <1>2, <2>3 DEF TripleBarrier
      <3>2. \A k \in S : k \in i..Len(h)
        BY <1>1, <3>1 DEF TouchesFrom
      <3>3. CASE S = {}
        BY <1>1, <1>4, <3>1, <3>3
      <3>4. CASE S # {}
        <4>1. (CHOOSE k \in S : TRUE) \in S
          BY <3>4
        <4> HIDE DEF S
        <4> QED
          BY <1>4, <3>1, <3>2, <3>4, <4>1 DEF LabelAt
      <3> QED
        BY <3>3, <3>4
    <2> QED
      BY <1>1, <2>1, <2>2, <2>3
  <1> QED
    BY <1>5, <1>6

-----------------------------------------------------------------------------
(* Labels: windows and the embargo                                           *)

\* The windows that are compared at row i lie in the history and are no longer than the longest.
LEMMA FittingFacts ==
  ASSUME NEW n \in Nat, NEW i \in 1..n, NEW shortest \in Nat, NEW longest \in Nat,
         NEW length \in FittingLengths(n, i, shortest, longest)
  PROVE  length \in 3..longest /\ i + length - 1 <= n
  BY DEF FittingLengths, TrendLengths, AtLeast, AtMost

\* The length that is chosen is one of those that are compared.
LEMMA BestLengthFits ==
  ASSUME NEW trend, NEW h, NEW i, NEW shortest, NEW longest, NEW length,
         length = BestLength(trend, h, i, shortest, longest)
  PROVE  length = 0 \/ length \in FittingLengths(Len(h), i, shortest, longest)
  <1> DEFINE fitting == FittingLengths(Len(h), i, shortest, longest)
             size(a) == Significance(trend, h, i, a)
             best == {a \in fitting : size(a) > 0 /\ \A b \in fitting \ {a} : size(a) > size(b) \/ (size(a) = size(b) /\ a < b)}
  <1>1. length = IF best = {} THEN 0 ELSE CHOOSE a \in best : TRUE
    BY DEF BestLength
  <1>2. best \subseteq fitting
    OBVIOUS
  <1> HIDE DEF best, fitting
  <1>3. length = 0 \/ length \in best
    BY <1>1
  <1> QED
    BY <1>2, <1>3 DEF fitting

\* Of two histories that agree on the bars that are read, the same length is chosen.
LEMMA SameLength ==
  ASSUME NEW trend, NEW h, NEW g, NEW i, NEW shortest, NEW longest, Len(g) = Len(h),
         \A length \in FittingLengths(Len(h), i, shortest, longest) : TrendWindow(h, i, length) = TrendWindow(g, i, length)
  PROVE  BestLength(trend, h, i, shortest, longest) = BestLength(trend, g, i, shortest, longest)
  <1> DEFINE fitting == FittingLengths(Len(h), i, shortest, longest)
             size(a) == Significance(trend, h, i, a)
             sizeOfG(a) == Significance(trend, g, i, a)
             best == {a \in fitting : size(a) > 0 /\ \A b \in fitting \ {a} : size(a) > size(b) \/ (size(a) = size(b) /\ a < b)}
             bestOfG == {a \in fitting : sizeOfG(a) > 0 /\ \A b \in fitting \ {a} :
                                           sizeOfG(a) > sizeOfG(b) \/ (sizeOfG(a) = sizeOfG(b) /\ a < b)}
  <1>1. \A a \in fitting : size(a) = sizeOfG(a)
    BY DEF Significance
  <1>2. BestLength(trend, h, i, shortest, longest) = IF best = {} THEN 0 ELSE CHOOSE length \in best : TRUE
    BY DEF BestLength
  <1>3. BestLength(trend, g, i, shortest, longest) = IF bestOfG = {} THEN 0 ELSE CHOOSE length \in bestOfG : TRUE
    BY DEF BestLength
  <1> HIDE DEF fitting, size, sizeOfG
  <1>4. best = bestOfG
    BY <1>1
  <1> HIDE DEF best, bestOfG
  <1> QED
    BY <1>2, <1>3, <1>4

\* Whichever window wins, each one that is compared ends within lookahead bars of its row, and the
\* window a label reports does too: so the label and its window are the same in any two
\* histories that agree so far, for every statistic, range of windows and threshold
\* (make_trend_scanning_labels, config.py:300).
THEOREM TrendsLookAhead ==
  ASSUME NEW trend, NEW h, NEW g, Len(h) \in Nat, Len(g) = Len(h), NEW i \in 1..Len(h), NEW shortest \in Nat,
         NEW longest \in Nat \ {0}, NEW threshold, NEW horizon, NEW ahead,
         ahead = LookaheadOf("trend_scan", horizon, longest),
         \A t \in i..Len(h) : t < i + ahead => h[t] = g[t]
  PROVE  /\ \A t \in TrendReads(Len(h), i, shortest, longest) : i <= t /\ t <= Len(h) /\ t < i + ahead
         /\ TrendScan(trend, h, i, shortest, longest, threshold).end <= i + ahead
         /\ TrendScan(trend, h, i, shortest, longest, threshold) = TrendScan(trend, g, i, shortest, longest, threshold)
  <1> DEFINE n == Len(h)
             fitting == FittingLengths(n, i, shortest, longest)
             best == BestLength(trend, h, i, shortest, longest)
             bestOfG == BestLength(trend, g, i, shortest, longest)
  <1>0. ahead = longest /\ n \in Nat
    BY DEF LookaheadOf
  <1>1. \A length \in fitting : length \in 3..longest /\ i + length - 1 <= n
    BY FittingFacts
  <1>2. \A t \in TrendReads(n, i, shortest, longest) : i <= t /\ t <= n /\ t < i + ahead
    <2> SUFFICES ASSUME NEW length \in fitting, NEW t \in i..(i + length - 1) PROVE i <= t /\ t <= n /\ t < i + ahead
      BY DEF TrendReads
    <2>1. length \in 3..longest /\ i + length - 1 <= n
      BY <1>1
    <2> QED
      BY <1>0, <2>1
  <1>3. ASSUME NEW length \in fitting PROVE TrendWindow(h, i, length) = TrendWindow(g, i, length)
    <2>1. length \in 3..longest /\ i + length - 1 <= n
      BY <1>1
    <2>2. \A k \in 1..length : h[i + k - 1] = g[i + k - 1]
      BY <1>0, <2>1
    <2> QED
      BY <2>2 DEF TrendWindow
  <1>4. best = bestOfG
    BY <1>3, SameLength
  <1>5. best = 0 \/ best \in fitting
    BY BestLengthFits
  <1> HIDE DEF best, bestOfG, fitting
  <1>6. best = 0 \/ TrendWindow(h, i, best) = TrendWindow(g, i, best)
    BY <1>3, <1>5
  <1>7. TrendScan(trend, h, i, shortest, longest, threshold) =
          [label |-> IF best = 0 \/ Significance(trend, h, i, best) < threshold THEN 0
                     ELSE IF trend[TrendWindow(h, i, best)] > 0 THEN 1 ELSE -1,
           end |-> AtMost(i + (IF best > 0 THEN best ELSE 1), n)]
    BY DEF TrendScan, best
  <1>8. TrendScan(trend, g, i, shortest, longest, threshold) =
          [label |-> IF best = 0 \/ Significance(trend, g, i, best) < threshold THEN 0
                     ELSE IF trend[TrendWindow(g, i, best)] > 0 THEN 1 ELSE -1,
           end |-> AtMost(i + (IF best > 0 THEN best ELSE 1), n)]
    BY <1>4 DEF TrendScan, bestOfG
  <1>9. TrendScan(trend, h, i, shortest, longest, threshold) = TrendScan(trend, g, i, shortest, longest, threshold)
    <2>1. CASE best = 0
      BY <1>7, <1>8, <2>1
    <2>2. CASE best # 0
      <3>1. TrendWindow(h, i, best) = TrendWindow(g, i, best) /\ Significance(trend, h, i, best) = Significance(trend, g, i, best)
        BY <1>6, <2>2 DEF Significance
      <3> QED
        BY <1>7, <1>8, <3>1
    <2> QED
      BY <2>1, <2>2
  <1>10. TrendScan(trend, h, i, shortest, longest, threshold).end <= i + ahead
    <2>1. best \in 0..longest
      BY <1>1, <1>5
    <2> QED
      BY <1>0, <1>7, <2>1 DEF AtMost
  <1> QED
    BY <1>2, <1>9, <1>10

\* An embargo of the label horizon separates the windows of the rows the primary model is fitted on
\* from the rows it is judged on, whenever the second half is longer than the horizon
\* (train_meta_labeled).
THEOREM EmbargoSeparates ==
  ASSUME NEW n \in Nat, NEW horizon \in Nat, NEW longest, Half(n) + horizon < n,
         NEW i \in 1..Half(n), NEW j \in JudgeRows(n, horizon)
  PROVE  i + LookaheadOf("triple_barrier", horizon, longest) < j
  <1>1. Half(n) \in Int
    BY DEF Half
  <1>2. j \in (Half(n) + horizon + 1)..n
    BY <1>1 DEF JudgeRows, JudgeFrom, AtMost
  <1>3. i \in Int /\ i <= Half(n)
    BY <1>1
  <1> QED
    BY <1>1, <1>2, <1>3 DEF LookaheadOf

-----------------------------------------------------------------------------
(* Configuration                                                             *)

\* Saved API keys take effect unless the environment sets them, config.yaml never gets any, and what
\* the dashboard reads shows no secret: every environment, file, update and default (Settings.load,
\* set_keys, set_config, get_config).
THEOREM KeysTakeEffect ==
  ASSUME NEW env, NEW yaml, NEW updates, NEW defaults, NEW key, NEW secret, NEW k \in ApiKeys
  PROVE  LET settings == LoadSettings(env, SetKeys(key, secret), SetConfig(Without(yaml, ApiKeys), updates), defaults)
             saved == [api \in ApiKeys |-> IF api = <<"exchange", "api_key">> THEN key ELSE secret]
         IN /\ settings[k] = IF k \in DOMAIN env THEN env[k] ELSE saved[k]
            /\ k \notin DOMAIN SetConfig(Without(yaml, ApiKeys), updates)
            /\ \A s \in (ApiKeys \cup OtherSecrets) \cap DOMAIN settings : Redact(settings)[s] = Hidden
  <1>1. DOMAIN << >> = {}
    OBVIOUS
  <1>2. DOMAIN SetKeys(key, secret) = ApiKeys
    BY DEF SetKeys
  <1>3. k \notin DOMAIN SetConfig(Without(yaml, ApiKeys), updates)
    BY DEF SetConfig, DeepMerge, Without, Overlaid
  <1> DEFINE settings == LoadSettings(env, SetKeys(key, secret), SetConfig(Without(yaml, ApiKeys), updates), defaults)
  <1>4. settings[k] = IF k \in DOMAIN env THEN env[k] ELSE SetKeys(key, secret)[k]
    BY <1>1, <1>2 DEF LoadSettings, Effective, Overlaid
  <1>5. \A s \in (ApiKeys \cup OtherSecrets) \cap DOMAIN settings : Redact(settings)[s] = Hidden
    BY DEF Redact
  <1> QED
    BY <1>3, <1>4, <1>5 DEF SetKeys

\* The gate of start() agrees with the one the dashboard shows: every pair of model files, and every
\* symbol that is not the placeholder of missing metadata (_real_order_block_reason, model_info).
THEOREM GatesAgree ==
  ASSUME NEW own, NEW legacy, NEW symbol, symbol # NoMeta.symbol, NEW timeframe
  PROVE  LET found == ResolveModel(own, legacy) IN
         BlockReason(found, symbol, timeframe) = "none" <=> RealOk(found, symbol, timeframe)
  <1> DEFINE found == ResolveModel(own, legacy)
  <1>1. CASE found = NoModel
    BY <1>1 DEF BlockReason, RealOk
  <1>2. CASE found = NoMeta
    BY <1>2 DEF BlockReason, RealOk, NoMeta, NoModel
  <1>3. CASE found \notin {NoModel, NoMeta}
    BY <1>3 DEF BlockReason, RealOk
  <1> QED
    BY <1>1, <1>2, <1>3

\* A symbol is never pooled with itself, and pooling that is meant has another symbol: every symbol
\* and list (pool_for).
THEOREM PoolIsMeant ==
  ASSUME NEW primary, NEW trainSymbols
  PROVE  /\ primary \notin PoolFor(primary, trainSymbols)
         /\ trainSymbols # {} => PoolFor(primary, trainSymbols) # {}
  BY DEF PoolFor, Fallback

=============================================================================
