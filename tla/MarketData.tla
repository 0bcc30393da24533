----------------------------- MODULE MarketData -----------------------------
(* The bars a live engine sees (data/ingestion.py, api/controller.py,           *)
(* live/engine.py): the recent history is downloaded in pages to warm up, the   *)
(* engine acts on the last closed bar of it at once, and then follows a stream, *)
(* a websocket or, without ccxt.pro, a poll.  The exchange goes on meanwhile:   *)
(* bars 1..lastClosed are closed, and the next one, still forming, is listed    *)
(* or not yet.                                                                  *)
EXTENDS Naturals, Sequences, FiniteSets, SequencesExt

CONSTANTS
  Limit,        \* rows of a page
  Attempts,     \* attempts of _fetch_ohlcv_retry
  Need,         \* bars the warm-up keeps
  Histories,   \* lengths of the history when the engine starts
  MaxClosed,    \* bound: bars that close
  MaxFailures   \* bound: requests that fail

ASSUME MarketDataAssumption ==
  /\ {Limit, Attempts, Need} \subseteq Nat \ {0}
  /\ Histories \subseteq Nat /\ {MaxClosed, MaxFailures} \subseteq Nat

VARIABLES
  lastClosed, forming,  \* the exchange: the last closed bar; TRUE when the next one is listed
  feed,        \* "history", "prime", "first", "websocket", "poll" or "ended"
  nextBar,     \* the next bar fetch_history asks for
  until,       \* the bar that was forming when the download began
  rows,        \* bars downloaded so far
  partial,     \* those downloaded while they were forming
  tries,       \* failed attempts at the page
  warmup,      \* _warmup_bars
  batch,       \* closed bars of the last message that are not yielded yet
  feedTs,      \* last_ts of the stream; 0 is None
  lastTs,      \* _last_ts of the engine; 0 is None
  fed,         \* the bars the feature engine got, in order
  failures,
  \* history
  due,         \* closed bars the stream showed that were newer than the engine's last
  excused      \* TRUE when a row that was forming does not come last, or comes alone

dataVars == <<lastClosed, forming, feed, nextBar, until, rows, partial, tries, warmup, batch,
              feedTs, lastTs, fed, failures, due, excused>>
exchange == <<lastClosed, forming>>
download == <<nextBar, until, rows, partial, tries>>
engineTs == <<warmup, lastTs, fed>>

DataInit ==
  /\ lastClosed \in Histories /\ forming \in BOOLEAN
  /\ feed = "history"
  /\ nextBar = 1 /\ until = lastClosed + 1
  /\ rows = {} /\ partial = {} /\ tries = 0
  /\ warmup = <<>> /\ batch = <<>>
  /\ feedTs = 0 /\ lastTs = 0 /\ fed = <<>>
  /\ failures = 0 /\ due = {} /\ excused = FALSE

-----------------------------------------------------------------------------
(* The exchange.                                                                *)

Listed == 1..(IF forming THEN lastClosed + 1 ELSE lastClosed)
NewestListed == IF forming THEN lastClosed + 1 ELSE lastClosed

CandleCloses ==
  /\ lastClosed < MaxClosed /\ lastClosed' = lastClosed + 1
  /\ forming' \in BOOLEAN
  /\ UNCHANGED <<feed, download, engineTs, batch, feedTs, failures, due, excused>>

FormingShows ==
  /\ ~forming /\ forming' = TRUE
  /\ UNCHANGED <<lastClosed, feed, download, engineTs, batch, feedTs, failures, due, excused>>

\* A set of bars, oldest first.
Sorted(bars) == [i \in 1..Cardinality(bars) |-> CHOOSE b \in bars : Cardinality({c \in bars : c <= b}) = i]

-----------------------------------------------------------------------------
(* fetch_history.                                                               *)

Page == {b \in Listed : nextBar <= b /\ b < nextBar + Limit}

\* A page arrives.  A short one is the last; so is an empty one, and one that passes the end.
PageArrives ==
  /\ feed = "history" /\ nextBar <= until
  /\ rows' = rows \cup Page
  /\ partial' = partial \cup (Page \ 1..lastClosed)
  /\ excused' = (excused \/ (Cardinality(Page) = Limit /\ ~ Page \subseteq 1..lastClosed))
  /\ nextBar' = IF Page = {} THEN nextBar ELSE Max(Page) + 1
  /\ feed' = IF Cardinality(Page) < Limit \/ nextBar' > until THEN "prime" ELSE "history"
  /\ tries' = 0
  /\ UNCHANGED <<exchange, until, engineTs, batch, feedTs, failures, due>>

\* A request fails; after the last attempt the warm-up is given up and the engine starts cold.
PageFails ==
  /\ feed = "history"
  /\ failures < MaxFailures /\ failures' = failures + 1
  /\ IF tries + 1 = Attempts
     THEN feed' = "prime" /\ rows' = {} /\ partial' = {} /\ UNCHANGED tries
     ELSE tries' = tries + 1 /\ UNCHANGED <<feed, rows, partial>>
  /\ UNCHANGED <<exchange, nextBar, until, engineTs, batch, feedTs, due, excused>>

\* Mutant: every row counts as closed.
AllRows(bars) == bars

\* The last row may be forming: it is dropped, unless it is the only one.
WithoutForming(bars) == IF Len(bars) > 1 THEN Front(bars) ELSE bars

\* The rows inside the window, in order.
InWindow == Sorted({b \in rows : b <= until})

LastOf(bars, n) == IF Len(bars) > n THEN SubSeq(bars, Len(bars) - n + 1, Len(bars)) ELSE bars

\* _fetch_warmup returns and _prime() feeds all its bars but the last.
Prime ==
  /\ feed = "prime" /\ feed' = "first"
  /\ warmup' = LastOf(WithoutForming(InWindow), Need)
  /\ fed' = IF warmup' = <<>> THEN <<>> ELSE Front(warmup')
  /\ excused' = (excused \/ Len(InWindow) = 1)
  /\ UNCHANGED <<exchange, download, batch, feedTs, lastTs, failures, due>>

\* run(): the last bar of the warm-up is acted on before the stream begins.
ActAtOnce ==
  /\ feed = "first" /\ feed' = "websocket"
  /\ IF warmup = <<>> THEN UNCHANGED <<lastTs, fed>>
     ELSE fed' = Append(fed, Last(warmup)) /\ lastTs' = Last(warmup)
  /\ UNCHANGED <<exchange, download, warmup, batch, feedTs, failures, due, excused>>

-----------------------------------------------------------------------------
(* stream_live.                                                                 *)

\* Closed bars that reach the feed, oldest first; those newer than the engine's last are due.
Shows(bars) ==
  /\ batch' = Sorted(bars)
  /\ due' = due \cup {b \in bars : b > lastTs}

\* watch_ohlcv returns some of the newest candles; the last of them is passed over.
Watch ==
  /\ feed = "websocket" /\ batch = <<>> /\ Listed # {}
  /\ \E oldest \in Listed : Shows({b \in Listed : oldest <= b /\ b < NewestListed})
  /\ UNCHANGED <<exchange, feed, download, engineTs, feedTs, failures, excused>>

\* fetch_ohlcv(limit=2): the last but one is closed.
PollLastTwo ==
  /\ feed = "poll" /\ batch = <<>> /\ Cardinality(Listed) >= 2
  /\ Shows({NewestListed - 1})
  /\ UNCHANGED <<exchange, feed, download, engineTs, feedTs, failures, excused>>

\* The stream yields nothing twice, and the engine passes over what it has acted on.
Seen(b) == (feedTs # 0 /\ b <= feedTs) \/ (lastTs # 0 /\ b <= lastTs)

\* The next bar of the message: _on_bar, or nothing.
NextOfBatch ==
  /\ feed \in {"websocket", "poll"} /\ batch # <<>>
  /\ batch' = Tail(batch)
  /\ feedTs' = IF feedTs = 0 \/ Head(batch) > feedTs THEN Head(batch) ELSE feedTs
  /\ IF Seen(Head(batch)) THEN UNCHANGED <<lastTs, fed>>
     ELSE lastTs' = Head(batch) /\ fed' = Append(fed, Head(batch))
  /\ UNCHANGED <<exchange, feed, download, warmup, failures, due, excused>>

\* A RuntimeError of the websocket client: polling goes on, with no last bar of its own.
FallBack ==
  /\ feed = "websocket" /\ batch = <<>>
  /\ failures < MaxFailures /\ failures' = failures + 1
  /\ feed' = "poll" /\ feedTs' = 0
  /\ UNCHANGED <<exchange, download, engineTs, batch, due, excused>>

\* Any other exception leaves run().
FeedFails ==
  /\ feed \in {"websocket", "poll"} /\ batch = <<>>
  /\ failures < MaxFailures /\ failures' = failures + 1
  /\ feed' = "ended"
  /\ UNCHANGED <<exchange, download, engineTs, batch, feedTs, due, excused>>

DataNext ==
  \/ CandleCloses \/ FormingShows
  \/ PageArrives \/ PageFails \/ Prime \/ ActAtOnce
  \/ Watch \/ PollLastTwo \/ NextOfBatch \/ FallBack \/ FeedFails

DataSpec == DataInit /\ [][DataNext]_dataVars

-----------------------------------------------------------------------------
(* Properties.                                                                  *)

DataTypeOK ==
  /\ lastClosed \in Nat /\ forming \in BOOLEAN
  /\ rows \subseteq Nat /\ partial \subseteq rows
  /\ warmup \in Seq(Nat) /\ fed \in Seq(Nat) /\ batch \in Seq(Nat)

\* The feature engine gets every closed bar once and in order, across the seams between the
\* download, the first decision, the websocket and the poll: bars only go forward, none of the
\* warm-up is missing, none that the stream showed is lost, and none was taken while it was still
\* forming, unless the history had a single row or a full page ended with the forming bar
\* (live/engine.py:114, api/controller.py:461).
EngineSeesEachBarOnce ==
  /\ \A i \in 1..(Len(fed) - 1) : fed[i] < fed[i + 1]
  /\ \A i \in 1..(Len(warmup) - 1) : warmup[i + 1] = warmup[i] + 1
  /\ due \subseteq ToSet(fed) \cup ToSet(batch)
  /\ excused \/ ToSet(warmup) \cap partial = {}
=============================================================================
