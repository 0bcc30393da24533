----------------------------- MODULE Broadcaster ----------------------------
(* The state broadcaster (live/state.py) and the dashboard's websockets         *)
(* (api/server.py): every snapshot goes to a bounded queue per subscriber, and  *)
(* a route of its own sends that queue to the client.                           *)
EXTENDS Naturals, Sequences

CONSTANTS
  Clients,       \* websocket connections
  MaxSize,       \* maxsize of a subscriber's queue
  MaxSnapshots   \* bound: snapshots published

ASSUME BroadcasterAssumption == MaxSize \in Nat \ {0} /\ MaxSnapshots \in Nat

VARIABLES
  snapshot,     \* number of the last snapshot published
  subscribers,  \* _subscribers, by client
  mailbox,      \* the queue of each subscriber
  route,        \* where the client's route is
  hand,         \* the snapshot it sends
  last,         \* the last snapshot the client got
  joined,       \* history: the last snapshot published before it subscribed
  gone          \* clients that closed the connection

broadcastVars == <<snapshot, subscribers, mailbox, route, hand, last, joined, gone>>

BroadcastInit ==
  /\ snapshot = 0 /\ subscribers = {}
  /\ mailbox = [c \in Clients |-> <<>>]
  /\ route = [c \in Clients |-> "off"]
  /\ hand = [c \in Clients |-> 0]
  /\ last = [c \in Clients |-> 0]
  /\ joined = [c \in Clients |-> 0]
  /\ gone = {}

\* Mutant: the newest snapshot is dropped when the queue is full.
DropNewest(q, n) == IF Len(q) = MaxSize THEN q ELSE Append(q, n)

\* put_nowait after get_nowait on a full queue.
DropOldest(q, n) == Append(IF Len(q) = MaxSize THEN Tail(q) ELSE q, n)

\* publish() suspends nowhere: every queue gets the snapshot in one step.
Publish ==
  /\ snapshot < MaxSnapshots /\ snapshot' = snapshot + 1
  /\ mailbox' = [c \in Clients |-> IF c \in subscribers THEN DropOldest(mailbox[c], snapshot') ELSE mailbox[c]]
  /\ UNCHANGED <<subscribers, route, hand, last, joined, gone>>

\* ws(): accepted and subscribed.  The greeting, 0 here, is controller.state: the idle state a
\* controller starts with, not the aggregate that is published.
Connect(c) ==
  /\ route[c] = "off" /\ c \notin gone
  /\ subscribers' = subscribers \cup {c}
  /\ route' = [route EXCEPT ![c] = "greeting"]
  /\ joined' = [joined EXCEPT ![c] = snapshot]
  /\ UNCHANGED <<snapshot, mailbox, hand, last, gone>>

\* A send arrives, and the route takes the next snapshot of its queue.
Sent(c) ==
  /\ route[c] \in {"greeting", "sending"} /\ c \notin gone
  /\ last' = [last EXCEPT ![c] = hand[c]]
  /\ route' = [route EXCEPT ![c] = "waiting"]
  /\ UNCHANGED <<snapshot, subscribers, mailbox, hand, joined, gone>>

Take(c) ==
  /\ route[c] = "waiting" /\ mailbox[c] # <<>>
  /\ hand' = [hand EXCEPT ![c] = Head(mailbox[c])]
  /\ mailbox' = [mailbox EXCEPT ![c] = Tail(@)]
  /\ route' = [route EXCEPT ![c] = "sending"]
  /\ UNCHANGED <<snapshot, subscribers, last, joined, gone>>

\* The client leaves; the route learns it at its next send.
Leave(c) ==
  /\ route[c] # "off" /\ c \notin gone
  /\ gone' = gone \cup {c}
  /\ UNCHANGED <<snapshot, subscribers, mailbox, route, hand, last, joined>>

\* The greeting is sent outside the try: if it fails nobody unsubscribes the queue.
SendFails(c) ==
  /\ route[c] \in {"greeting", "sending"} /\ c \in gone
  /\ subscribers' = IF route[c] = "sending" THEN subscribers \ {c} ELSE subscribers
  /\ route' = [route EXCEPT ![c] = "closed"]
  /\ UNCHANGED <<snapshot, mailbox, hand, last, joined, gone>>

BroadcastNext ==
  \/ Publish
  \/ \E c \in Clients : Connect(c) \/ Sent(c) \/ Take(c) \/ Leave(c) \/ SendFails(c)

BroadcastSpec == BroadcastInit /\ [][BroadcastNext]_broadcastVars

-----------------------------------------------------------------------------
(* Properties.                                                                  *)

\* What a client that is still there will have seen when its route has sent all it has.
LastToCome(c) == IF mailbox[c] # <<>> THEN mailbox[c][Len(mailbox[c])] ELSE IF route[c] = "waiting" THEN last[c] ELSE hand[c]

BroadcastTypeOK ==
  /\ snapshot \in 0..MaxSnapshots /\ subscribers \subseteq Clients /\ gone \subseteq Clients
  /\ mailbox \in [Clients -> Seq(1..MaxSnapshots)]
  /\ route \in [Clients -> {"off", "greeting", "waiting", "sending", "closed"}]
  /\ hand \in [Clients -> 0..MaxSnapshots] /\ last \in [Clients -> 0..MaxSnapshots]
  /\ \A c \in Clients : Len(mailbox[c]) <= MaxSize

\* However slow a client is, the newest snapshot published since it subscribed is the last it is
\* going to get, and what it gets on the way never goes back in time (live/state.py:90).
NewestIsKept ==
  \A c \in Clients : c \in subscribers =>
    /\ snapshot > joined[c] => LastToCome(c) = snapshot
    /\ \A i \in 1..Len(mailbox[c]) : hand[c] < mailbox[c][i] /\ (i > 1 => mailbox[c][i - 1] < mailbox[c][i])
    /\ last[c] <= hand[c]
=============================================================================
