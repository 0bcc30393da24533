----------------------------- MODULE ModelSupply ----------------------------
(* Where the models of one symbol come from: the jobs (api/management.py) that  *)
(* run the training and validation scripts as processes, the scheduler          *)
(* (api/scheduler.py) that retrains every few days, and the files of the model  *)
(* registry (ml/registry.py) that training processes write                      *)
(* (scripts/train_model.py) and that promoting or discarding a candidate moves. *)
(* The server is one event loop; processes run beside it and outlive it.        *)
EXTENDS Naturals, Sequences, FiniteSets

CONSTANTS
  Operators,    \* requests of the dashboard that may be in progress at once
  Scheduler,    \* the scheduler's task
  RetrainDays,  \* data.retrain_interval_days
  MaxDays,      \* bound: days that pass
  MaxProcs,     \* bound: processes started
  MaxAsked,     \* bound: requests of the dashboard
  MaxRestarts   \* bound: crashes of the server

ASSUME SupplyAssumption ==
  /\ Scheduler \notin Operators /\ IsFiniteSet(Operators)
  /\ RetrainDays \in Nat \ {0}
  /\ {MaxDays, MaxProcs, MaxAsked, MaxRestarts} \subseteq Nat

\* "walkforward" stands for "holdout" too: both write only a result.
Kinds == {"train", "candidate", "walkforward"}
Starters == Operators \cup {Scheduler}
Procs == 1..MaxProcs

VARIABLES
  \* files; a process number is the version of what it wrote, 0 is no file
  model, meta,          \* models/model_<SYMBOL>.pkl and its .meta.json
  candModel, candMeta,  \* models/candidate_<SYMBOL>.pkl and its .meta.json
  schedulerState,       \* last_retrain in scheduler_state.json; 0 is none
  \* processes
  proc,      \* how far each process is
  kindOf,    \* what it runs
  \* the server
  jobs,      \* JobManager._jobs: the process registered under a kind
  todo,      \* kinds a start request goes through; the first is being launched
  child,     \* the process a starter has created and not registered yet; 0 is none
  retrain,   \* TRUE for a starter inside retrain_now()
  lastRetrain,  \* Scheduler._last_retrain
  moving,    \* "promote" or "discard" in the middle of its two files
  day, restarts, asked,
  \* history
  disturbed,  \* a writer of the files failed half-way, or two of them overlapped
  excess,     \* of each kind, launches that overlapped another and processes that outlived a server
  begun,      \* day on which the last retraining began
  unsaved     \* TRUE when a server died with a retraining that was begun and not saved

files == <<model, meta, candModel, candMeta>>
processes == <<proc, kindOf>>
launching == <<todo, child, retrain>>
cadence == <<lastRetrain, schedulerState, begun, unsaved>>
supplyBounds == <<day, restarts, asked>>
supplyVars == <<model, meta, candModel, candMeta, schedulerState, proc, kindOf, jobs, todo, child,
                retrain, lastRetrain, moving, day, restarts, asked, disturbed, excess, begun, unsaved>>

SupplyInit ==
  /\ model = 0 /\ meta = 0 /\ candModel = 0 /\ candMeta = 0 /\ schedulerState = 0
  /\ proc = [p \in Procs |-> "none"]
  /\ kindOf = [p \in Procs |-> "train"]
  /\ jobs = [k \in Kinds |-> 0]
  /\ todo = [c \in Starters |-> <<>>]
  /\ child = [c \in Starters |-> 0] /\ retrain = [c \in Starters |-> FALSE]
  /\ lastRetrain = 0 /\ moving = "no"
  /\ day = 1 /\ restarts = 0 /\ asked = 0
  /\ disturbed = FALSE /\ excess = [k \in Kinds |-> 0] /\ begun = 0 /\ unsaved = FALSE

Active(p) == proc[p] \in {"fitting", "saved", "described"}

\* A registered process of kind k has no return code yet.
Busy(k) == jobs[k] # 0 /\ Active(jobs[k])
AnyRunning == \E k \in Kinds : Busy(k)

\* The loop is free: promoting and discarding do not suspend.
LoopFree == moving = "no"

-----------------------------------------------------------------------------
(* JobManager.start and retrain_now.                                            *)

\* What is left of a list of kinds when those that answer "busy" at once are passed over.
Unbusy(kinds, busy) ==
  LET free == {i \in 1..Len(kinds) : kinds[i] \notin busy}
  IN IF free = {} THEN <<>> ELSE SubSeq(kinds, CHOOSE i \in free : \A j \in free : i <= j, Len(kinds))

\* c has passed the check for kind k and its process is not registered yet.
Launching(c, k) == todo[c] # <<>> /\ Head(todo[c]) = k

\* c goes on with kinds; the kind it launches next may be being launched by another starter.
GoesOn(c, kinds, busy) ==
  LET left == Unbusy(kinds, busy)
      overlaps(k) == left # <<>> /\ Head(left) = k /\ \E d \in Starters \ {c} : Launching(d, k)
  IN /\ todo' = [todo EXCEPT ![c] = left]
     /\ excess' = [k \in Kinds |-> IF overlaps(k) THEN excess[k] + 1 ELSE excess[k]]

\* retrain_now() has gone through its kinds: the time is kept and saved, if it can be.
Finish(c) ==
  IF retrain[c] /\ todo'[c] = <<>>
  THEN /\ retrain' = [retrain EXCEPT ![c] = FALSE]
       /\ lastRetrain' = day
       /\ schedulerState' \in {day, schedulerState}
  ELSE UNCHANGED <<retrain, lastRetrain, schedulerState>>

\* Mutant: the check looks at nothing.
NeverBusy == {}

BusyKinds == {k \in Kinds : Busy(k)}

\* A request of the dashboard, served by the loop.
Asks ==
  /\ LoopFree
  /\ asked < MaxAsked /\ asked' = asked + 1

\* POST /api/job.
PostJob(c, k) ==
  /\ Asks /\ todo[c] = <<>> /\ c # Scheduler
  /\ GoesOn(c, <<k>>, BusyKinds)
  /\ UNCHANGED <<files, processes, cadence, jobs, child, retrain, moving, day, restarts, disturbed>>

Retraining == <<"train", "walkforward">>

\* A retraining that finds both jobs running is over at once and counts as done.
BeginRetrain(c) ==
  /\ begun' = day
  /\ GoesOn(c, Retraining, BusyKinds)
  /\ IF todo'[c] = <<>>
     THEN /\ lastRetrain' = day /\ schedulerState' \in {day, schedulerState}
          /\ UNCHANGED retrain
     ELSE /\ retrain' = [retrain EXCEPT ![c] = TRUE]
          /\ UNCHANGED <<lastRetrain, schedulerState>>
  /\ UNCHANGED <<files, processes, jobs, child, moving, day, restarts, disturbed, unsaved>>

\* POST /api/scheduler/retrain.
PostRetrain(c) ==
  /\ Asks /\ todo[c] = <<>> /\ c # Scheduler
  /\ BeginRetrain(c)

Due == lastRetrain = 0 \/ day - lastRetrain >= RetrainDays

\* _tick().
SchedulerTick ==
  /\ LoopFree /\ todo[Scheduler] = <<>>
  /\ ~AnyRunning /\ Due
  /\ BeginRetrain(Scheduler)
  /\ UNCHANGED asked

\* create_subprocess_exec: from here on the process runs, whatever becomes of the server.
Spawned(c) ==
  /\ LoopFree /\ todo[c] # <<>> /\ child[c] = 0
  /\ \E p \in Procs :
       /\ proc[p] = "none" /\ \A q \in Procs : q < p => proc[q] # "none"
       /\ proc' = [proc EXCEPT ![p] = "fitting"]
       /\ kindOf' = [kindOf EXCEPT ![p] = Head(todo[c])]
       /\ child' = [child EXCEPT ![c] = p]
  /\ UNCHANGED <<files, cadence, jobs, todo, retrain, moving, supplyBounds, disturbed, excess>>

\* It is registered under its kind, and c goes on.
Launched(c) ==
  /\ LoopFree /\ todo[c] # <<>> /\ child[c] # 0
  /\ child' = [child EXCEPT ![c] = 0]
  /\ jobs' = [jobs EXCEPT ![Head(todo[c])] = child[c]]
  /\ UNCHANGED <<files, processes, moving, supplyBounds, disturbed, begun, unsaved>>
  /\ GoesOn(c, Tail(todo[c]), BusyKinds')
  /\ Finish(c)

\* It cannot be created: retrain_now() goes on, a request ends with an error.
LaunchFails(c) ==
  /\ LoopFree /\ todo[c] # <<>> /\ child[c] = 0
  /\ GoesOn(c, Tail(todo[c]), BusyKinds)
  /\ Finish(c)
  /\ UNCHANGED <<files, processes, jobs, child, moving, supplyBounds, disturbed, begun, unsaved>>

-----------------------------------------------------------------------------
(* The processes.                                                               *)

Trainings == {"train", "candidate"}

\* A training is between its model and the metadata that describe it.
HalfWritten(p) == proc[p] = "saved"

\* predictor.save(out_path).
SaveModel(p) ==
  /\ proc[p] = "fitting" /\ kindOf[p] \in Trainings
  /\ proc' = [proc EXCEPT ![p] = "saved"]
  /\ IF kindOf[p] = "train" THEN model' = p /\ UNCHANGED candModel
     ELSE candModel' = p /\ UNCHANGED model
  /\ disturbed' = (disturbed \/ moving # "no" \/ \E q \in Procs : HalfWritten(q) /\ kindOf[q] = kindOf[p])
  /\ UNCHANGED <<meta, candMeta, kindOf, jobs, launching, cadence, moving, supplyBounds, excess>>

\* write_meta(out_path, ...).
WriteMeta(p) ==
  /\ HalfWritten(p)
  /\ proc' = [proc EXCEPT ![p] = "described"]
  /\ IF kindOf[p] = "train" THEN meta' = p /\ UNCHANGED candMeta
     ELSE candMeta' = p /\ UNCHANGED meta
  /\ UNCHANGED <<model, candModel, kindOf, jobs, launching, cadence, moving, supplyBounds, disturbed, excess>>

\* A process ends or fails, anywhere.
ProcEnds(p) ==
  /\ Active(p)
  /\ proc' = [proc EXCEPT ![p] = "over"]
  /\ disturbed' = (disturbed \/ HalfWritten(p))
  /\ UNCHANGED <<files, kindOf, jobs, launching, cadence, moving, supplyBounds, excess>>

-----------------------------------------------------------------------------
(* The registry.                                                                *)

\* The first file of two; a training in the middle of its own two overlaps with it.
Moves(what) ==
  /\ Asks
  /\ moving' = what
  /\ disturbed' = (disturbed \/ \E p \in Procs : HalfWritten(p))
  /\ UNCHANGED <<processes, jobs, launching, cadence, day, restarts, excess>>

Moved ==
  /\ moving' = "no"
  /\ UNCHANGED <<processes, jobs, launching, cadence, supplyBounds, disturbed, excess>>

\* promote_candidate: the candidate replaces the active model ...
PromoteModel ==
  /\ candModel # 0 /\ Moves("promote")
  /\ model' = candModel /\ candModel' = 0
  /\ UNCHANGED <<meta, candMeta>>

\* Mutant: only the model is moved.
MetaStays == moving = "promote" /\ Moved /\ UNCHANGED files

\* ... and then its metadata, if it has any.
PromoteMeta ==
  /\ moving = "promote" /\ Moved
  /\ IF candMeta # 0 THEN meta' = candMeta /\ candMeta' = 0 ELSE UNCHANGED <<meta, candMeta>>
  /\ UNCHANGED <<model, candModel>>

DiscardModel ==
  /\ Moves("discard")
  /\ candModel' = 0
  /\ UNCHANGED <<model, meta, candMeta>>

DiscardMeta ==
  /\ moving = "discard" /\ Moved
  /\ candMeta' = 0
  /\ UNCHANGED <<model, meta, candModel>>

-----------------------------------------------------------------------------
(* Time and the server's end.                                                   *)

NextDay ==
  /\ day < MaxDays /\ day' = day + 1
  /\ UNCHANGED <<files, processes, jobs, launching, cadence, moving, restarts, asked, disturbed, excess>>

\* Mutant: a scheduler starts without the time that was saved.
NeverLoaded == 0

\* Scheduler._load().
Loaded == schedulerState

\* The server dies and is started again; any of its processes may die with it or go on.
ServerRestarts ==
  /\ restarts < MaxRestarts /\ restarts' = restarts + 1
  /\ \E dead \in SUBSET {p \in Procs : Active(p)} :
       /\ proc' = [p \in Procs |-> IF p \in dead THEN "over" ELSE proc[p]]
       /\ disturbed' = (disturbed \/ moving # "no" \/ \E p \in dead : HalfWritten(p))
       /\ excess' = [k \in Kinds |-> Cardinality({p \in Procs \ dead : Active(p) /\ kindOf[p] = k})]
  /\ jobs' = [k \in Kinds |-> 0]
  /\ todo' = [c \in Starters |-> <<>>] /\ child' = [c \in Starters |-> 0] /\ retrain' = [c \in Starters |-> FALSE]
  /\ lastRetrain' = Loaded /\ moving' = "no"
  /\ unsaved' = (begun # 0 /\ schedulerState < begun)
  /\ UNCHANGED <<files, schedulerState, kindOf, day, asked, begun>>

SupplyNext ==
  \/ \E c \in Starters : PostRetrain(c) \/ Spawned(c) \/ Launched(c) \/ LaunchFails(c) \/ \E k \in Kinds : PostJob(c, k)
  \/ SchedulerTick
  \/ \E p \in Procs : SaveModel(p) \/ WriteMeta(p) \/ ProcEnds(p)
  \/ PromoteModel \/ PromoteMeta \/ DiscardModel \/ DiscardMeta
  \/ NextDay \/ ServerRestarts

SupplySpec == SupplyInit /\ [][SupplyNext]_supplyVars

-----------------------------------------------------------------------------
(* Properties.                                                                  *)

SupplyTypeOK ==
  /\ {model, meta, candModel, candMeta} \subseteq {0} \cup Procs
  /\ {schedulerState, lastRetrain, begun} \subseteq 0..MaxDays /\ day \in 1..MaxDays
  /\ proc \in [Procs -> {"none", "fitting", "saved", "described", "over"}]
  /\ kindOf \in [Procs -> Kinds] /\ jobs \in [Kinds -> {0} \cup Procs]
  /\ todo \in [Starters -> Seq(Kinds)] /\ retrain \in [Starters -> BOOLEAN]
  /\ child \in [Starters -> {0} \cup Procs] /\ excess \in [Kinds -> Nat]
  /\ moving \in {"no", "promote", "discard"}
  /\ disturbed \in BOOLEAN /\ unsaved \in BOOLEAN

\* A model and the metadata that vouch for it (they gate real orders) come from one training,
\* candidates too, unless one of the writers of the two files died between them or two of them
\* overlapped (ml/registry.py:50, scripts/train_model.py:279).
PairsMatch ==
  ~disturbed /\ moving = "no" /\ ~(\E p \in Procs : HalfWritten(p))
    => model = meta /\ candModel = candMeta

\* The processes of kind k that run.
Running(k) == {p \in Procs : Active(p) /\ kindOf[p] = k}

\* "Re-starting an identical job that is still running is rejected" (management.py:70), but the
\* check is made before the process is created and the process registered after: of each kind at
\* most one runs, and one more for each launch that overlapped another and each process that
\* outlived a server.  Without those, what runs is what is listed or about to be.
OneJobPerKey ==
  \A k \in Kinds :
    /\ Cardinality(Running(k)) <= 1 + excess[k]
    /\ excess[k] = 0 => \A p \in Running(k) : jobs[k] = p \/ \E c \in Starters : Launching(c, k) /\ child[c] = p

\* The scheduler does not retrain again before RetrainDays have passed, "the cadence survives
\* restarts" (scheduler.py:6): unless the server died before the time was saved, or another
\* retraining is still being launched.
RetrainCadence ==
  [][todo[Scheduler] = <<>> /\ todo'[Scheduler] # <<>> =>
       \/ begun = 0 \/ day - begun >= RetrainDays
       \/ unsaved \/ \E c \in Operators : retrain[c]]_supplyVars
=============================================================================
