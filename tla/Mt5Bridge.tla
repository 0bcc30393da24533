------------------------------ MODULE Mt5Bridge -----------------------------
(* The MetaTrader 5 bridge: an Expert Advisor (integrations/mt5/expert) that    *)
(* polls the server with its closed bars and its position and carries out the   *)
(* answer, the stateless decision (bridge.py), the broker's own stop-loss and   *)
(* take-profit, and the file of captured bars (store.py), which a request of a  *)
(* threadpool reads, merges and writes back before it answers (routes.py).      *)
(* Bars are numbered in the order in which they close.                          *)
EXTENDS Naturals, FiniteSets

CONSTANTS
  Horizon,         \* barriers.horizon; 0 switches the time exit off
  BarsToSend,      \* closed bars of a request
  CaptureCap,      \* mt5.capture_max_rows; 0 is no cap
  MaxBars,         \* bound: bars that close
  MaxPolls,        \* bound: polls of the terminal
  MaxFaults        \* bound: waits that time out, and deaths of the server

ASSUME BridgeAssumption ==
  /\ {Horizon, CaptureCap, MaxPolls, MaxFaults} \subseteq Nat
  /\ {BarsToSend, MaxBars} \subseteq Nat \ {0}

Sides == {"long", "short"}
Positions == Sides \cup {"flat"}
Bars == 1..MaxBars
NoRequest == [bars |-> {}, side |-> "flat", held |-> 0, signal |-> "none"]
NoAnswer == [action |-> "none", about |-> "flat", due |-> FALSE]

VARIABLES
  closedBars,  \* bars closed so far
  side,        \* the broker's position with the EA's magic number, or "flat"
  since,       \* bars closed when it was opened
  signal,      \* what model and strategy say of the closed bars
  polls,       \* requests so far
  asking,      \* the request the EA waits for; 0 while it waits for its timer
  place,       \* how far the server is with each request
  request,     \* the bars, the position and the signal it is about
  answer,      \* what was decided, about which position, and whether its time was over
  merged,      \* the bars its append is going to write
  captured,    \* bars in the file
  readable,    \* FALSE once the file is torn
  faults,
  \* history
  arrived,     \* bars of the requests whose append returned
  torn         \* TRUE once two appends overlapped or the server died during one

bridgeVars == <<closedBars, side, since, signal, polls, asking, place, request, answer,
                merged, captured, readable, faults, arrived, torn>>
broker == <<side, since>>
server == <<place, request, answer, merged>>
captureFile == <<captured, readable, arrived, torn>>

Requests == 1..MaxPolls

BridgeInit ==
  /\ closedBars = 1 /\ side = "flat" /\ since = 0 /\ signal \in Sides \cup {"none"}
  /\ polls = 0 /\ asking = 0
  /\ place = [r \in Requests |-> "over"] /\ request = [r \in Requests |-> NoRequest]
  /\ answer = [r \in Requests |-> NoAnswer] /\ merged = [r \in Requests |-> {}]
  /\ captured = {} /\ readable = TRUE
  /\ faults = 0 /\ arrived = {} /\ torn = FALSE

-----------------------------------------------------------------------------
(* The market and the broker.                                                   *)

BarCloses ==
  /\ closedBars < MaxBars /\ closedBars' = closedBars + 1
  /\ signal' \in Sides \cup {"none"}
  /\ UNCHANGED <<broker, polls, asking, server, captureFile, faults>>

\* The stop-loss or the take-profit that came with the order.
NativeExit ==
  /\ side # "flat"
  /\ side' = "flat" /\ since' = 0
  /\ UNCHANGED <<closedBars, signal, polls, asking, server, captureFile, faults>>

-----------------------------------------------------------------------------
(* The terminal asks.                                                           *)

\* PositionJson: the bars since the entry are counted when the request is built.
BarsHeld == IF side = "flat" THEN 0 ELSE closedBars - since

\* Cycle() on the timer: BuildRequest and HttpPost.
Poll ==
  /\ asking = 0 /\ polls < MaxPolls
  /\ polls' = polls + 1 /\ asking' = polls'
  /\ place' = [place EXCEPT ![polls'] = "decide"]
  /\ request' = [request EXCEPT ![polls'] =
       [bars |-> {b \in 1..closedBars : b + BarsToSend > closedBars},
        side |-> side, held |-> BarsHeld, signal |-> signal]]
  /\ UNCHANGED <<closedBars, broker, signal, answer, merged, captureFile, faults>>

\* RequestTimeoutMs is over, or the request fails: no answer, but the server may go on with it.
PollTimesOut ==
  /\ asking # 0
  /\ faults < MaxFaults /\ faults' = faults + 1
  /\ asking' = 0
  /\ UNCHANGED <<closedBars, broker, signal, polls, server, captureFile>>

-----------------------------------------------------------------------------
(* The server decides.                                                          *)

TooOld(held) == Horizon # 0 /\ held >= Horizon

\* Mutant: the clock is looked at after the signal.
SignalFirst(q, gate) ==
  CASE q.side # "flat" /\ q.signal \in {"none", q.side} -> "hold"
    [] q.side # "flat" -> "close"
    [] q.side = "flat" /\ q.signal # "none" /\ gate -> q.signal
    [] OTHER -> "none"

\* decide() with a model: the time exit, then the signal, then the EV gate.
Decision(q, gate) ==
  CASE q.side # "flat" /\ (TooOld(q.held) \/ q.signal \notin {"none", q.side}) -> "close"
    [] q.side # "flat" /\ ~TooOld(q.held) /\ q.signal \in {"none", q.side} -> "hold"
    [] q.side = "flat" /\ q.signal # "none" /\ gate -> q.signal
    [] OTHER -> "none"

\* Too few bars, or no matching model: "none", whatever the position.
Decide(r) ==
  /\ place[r] = "decide" /\ place' = [place EXCEPT ![r] = "append"]
  /\ \E known, gate \in BOOLEAN :
       answer' = [answer EXCEPT ![r] =
         [action |-> IF known THEN Decision(request[r], gate) ELSE "none", about |-> request[r].side,
          due |-> known /\ request[r].side # "flat" /\ TooOld(request[r].held)]]
  /\ UNCHANGED <<closedBars, broker, signal, polls, asking, request, merged, captureFile, faults>>

-----------------------------------------------------------------------------
(* append_bars.                                                                 *)

Appending(r) == place[r] \in {"merged", "writing"}

\* Mutant: the cap keeps the oldest rows.
Oldest(bars) == {b \in bars : CaptureCap = 0 \/ Cardinality({c \in bars : c <= b}) <= CaptureCap}

\* merged.iloc[-cap:] after the sort.
Newest(bars) == {b \in bars : CaptureCap = 0 \/ Cardinality({c \in bars : c >= b}) <= CaptureCap}

\* The file is read and merged in memory.
ReadAndMerge(r) ==
  /\ place[r] = "append" /\ readable
  /\ place' = [place EXCEPT ![r] = "merged"]
  /\ merged' = [merged EXCEPT ![r] = Newest(captured \cup request[r].bars)]
  /\ torn' = (torn \/ \E s \in Requests : Appending(s))
  /\ UNCHANGED <<closedBars, broker, signal, polls, asking, request, answer, captured, readable, arrived, faults>>

\* to_parquet truncates the file ...
BeginWrite(r) ==
  /\ place[r] = "merged" /\ place' = [place EXCEPT ![r] = "writing"]
  /\ readable' = FALSE
  /\ UNCHANGED <<closedBars, broker, signal, polls, asking, request, answer, merged, captured, arrived, torn, faults>>

\* ... and fills it.  Beside another writer what is left may not be a file at all.
EndWrite(r) ==
  /\ place[r] = "writing" /\ place' = [place EXCEPT ![r] = "answer"]
  /\ captured' = merged[r]
  /\ readable' \in {TRUE} \cup {~ (\E s \in Requests \ {r} : place[s] = "writing")}
  /\ arrived' = arrived \cup request[r].bars
  /\ merged' = [merged EXCEPT ![r] = {}]
  /\ UNCHANGED <<closedBars, broker, signal, polls, asking, request, answer, torn, faults>>

\* An unreadable file, or a disk that is full: the append gives up and the file stays as it is.
AppendFails(r) ==
  /\ place[r] = "append" /\ place' = [place EXCEPT ![r] = "answer"]
  /\ UNCHANGED <<closedBars, broker, signal, polls, asking, request, answer, merged, captureFile, faults>>

\* The server dies with the requests it works on.
ServerDies ==
  /\ faults < MaxFaults /\ faults' = faults + 1
  /\ torn' = (torn \/ \E r \in Requests : Appending(r))
  /\ asking' = 0
  /\ place' = [r \in Requests |-> "over"] /\ request' = [r \in Requests |-> NoRequest]
  /\ answer' = [r \in Requests |-> NoAnswer] /\ merged' = [r \in Requests |-> {}]
  /\ UNCHANGED <<closedBars, broker, signal, polls, captured, readable, arrived>>

-----------------------------------------------------------------------------
(* The terminal acts.                                                           *)

\* OpenTrade, CloseOwn, or nothing: an answer to hold, a position the broker closed meanwhile,
\* a spread or a side that is not allowed, an order the broker refuses.
CarryOut(action) ==
  \/ action \in Sides /\ side = "flat" /\ side' = action /\ since' = closedBars
  \/ action = "close" /\ side # "flat" /\ side' = "flat" /\ since' = 0
  \/ (action = "close" => side = "flat") /\ UNCHANGED broker

\* The server is done with request r.
Over(r) ==
  /\ place[r] = "answer" /\ place' = [place EXCEPT ![r] = "over"]
  /\ request' = [request EXCEPT ![r] = NoRequest]
  /\ answer' = [answer EXCEPT ![r] = NoAnswer]
  /\ UNCHANGED merged

Answered(r) ==
  /\ asking = r /\ Over(r)
  /\ CarryOut(answer[r].action)
  /\ asking' = 0
  /\ UNCHANGED <<closedBars, signal, polls, captureFile, faults>>

\* The broker refuses to close.
CloseRefused(r) ==
  /\ asking = r /\ Over(r)
  /\ answer[r].action = "close" /\ side # "flat"
  /\ faults < MaxFaults /\ faults' = faults + 1
  /\ asking' = 0
  /\ UNCHANGED <<closedBars, broker, signal, polls, captureFile>>

\* An answer nobody waits for any more is dropped.
AnsweredLate(r) ==
  /\ asking # r /\ Over(r)
  /\ UNCHANGED <<closedBars, broker, signal, polls, asking, captureFile, faults>>

BridgeNext ==
  \/ BarCloses \/ NativeExit \/ Poll \/ PollTimesOut \/ ServerDies
  \/ \E r \in Requests : \/ Decide(r) \/ ReadAndMerge(r) \/ BeginWrite(r) \/ EndWrite(r)
                          \/ AppendFails(r) \/ Answered(r) \/ CloseRefused(r) \/ AnsweredLate(r)

BridgeSpec == BridgeInit /\ [][BridgeNext]_bridgeVars

-----------------------------------------------------------------------------
(* Properties.                                                                  *)

RequestType == [bars : SUBSET Bars, side : Positions, held : 0..MaxBars, signal : Sides \cup {"none"}]
AnswerType == [action : Sides \cup {"close", "hold", "none"}, about : Positions, due : BOOLEAN]

BridgeTypeOK ==
  /\ closedBars \in Bars /\ since \in 0..MaxBars
  /\ side \in Positions /\ signal \in Sides \cup {"none"}
  /\ polls \in 0..MaxPolls /\ asking \in 0..MaxPolls /\ faults \in 0..MaxFaults
  /\ place \in [Requests -> {"over", "decide", "append", "merged", "writing", "answer"}]
  /\ request \in [Requests -> RequestType] /\ answer \in [Requests -> AnswerType]
  /\ merged \in [Requests -> SUBSET Bars]
  /\ captured \subseteq Bars /\ arrived \subseteq Bars
  /\ readable \in BOOLEAN /\ torn \in BOOLEAN

\* The EA acts on the position its answer is about, whatever the broker did meanwhile: it opens
\* when it had none, closes the side it reported, and a poll about a position as old as the
\* time barrier leaves no position, unless the broker refuses (bridge.py:221).
ActsOnWhatItSaw ==
  [][\A r \in Requests : place[r] = "answer" /\ asking = r /\ asking' = 0 /\ faults' = faults =>
       /\ side = "flat" /\ side' # "flat" => answer[r].about = "flat"
       /\ side # "flat" => answer[r].about = side /\ side' \in {side, "flat"}
       /\ answer[r].due => side' = "flat"]_bridgeVars

\* Of all the bars that were appended, late requests included, the file lacks only those that
\* CaptureCap newer ones pushed out (integrations/mt5/store.py:50), unless two
\* appends overlapped or the server died during one.
CaptureIsNewest ==
  ~torn /\ readable =>
    /\ captured \subseteq arrived
    /\ \A b \in arrived \ captured : CaptureCap # 0 /\ Cardinality({c \in captured : c > b}) = CaptureCap
=============================================================================
