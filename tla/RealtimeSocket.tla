--------------------------- MODULE RealtimeSocket ---------------------------
(***************************************************************************)
(* The live stream: cache_results publishes on pulsede:realtime, and the   *)
(* handler of each socket of /ws/realtime relays what its own subscription *)
(* receives.  A handler is a coroutine; between its steps Redis delivers   *)
(* messages and the client may go.  A worker process has one set           *)
(* _active_ws; handlers share nothing else, so one worker stands for all.  *)
(*                                                                         *)
(* Messages are numbers in the order of publication.  Redis keeps what a   *)
(* subscription has not read yet.  A client is gone once the server's      *)
(* transport knows it: a later send raises WebSocketDisconnect.  Losing    *)
(* the connection to Redis raises, except that a read that times out in    *)
(* the middle of a message connects and subscribes anew.                   *)
(*                                                                         *)
(* ReadNewest, SendToGoneForgotten and SendToGoneRetried are mutated forms *)
(* of the operators after them; the specification uses none of them.       *)
(***************************************************************************)
EXTENDS Naturals, Sequences, FiniteSets

CONSTANTS
    Sockets,        \* the connections ever made
    MaxMessages,    \* bound: messages published
    MaxFaults       \* bound: failures of the connections to Redis

ASSUME BoundAssumption == MaxMessages \in Nat /\ MaxFaults \in Nat

VARIABLES
    pc,        \* "new", "accepted", "read", "send", "closed", or "failed" if
               \* an exception other than WebSocketDisconnect ended the handler
    gone,      \* sockets whose client has gone
    active,    \* _active_ws
    open,      \* sockets that hold an open subscription
    queue,     \* what Redis holds for each subscription
    msg,       \* the message in hand, if any
    got,       \* what each client has received
    since,     \* messages published before the subscription
    resets,    \* subscriptions made anew
    published,
    faults
vars == <<pc, gone, active, open, queue, msg, got, since, resets, published, faults>>
streamVars == <<queue, msg, got, since, resets>>

Init ==
    /\ pc = [s \in Sockets |-> "new"]
    /\ gone = {} /\ active = {} /\ open = {}
    /\ queue = [s \in Sockets |-> <<>>]
    /\ msg = [s \in Sockets |-> <<>>]
    /\ got = [s \in Sockets |-> <<>>]
    /\ since = [s \in Sockets |-> 0]
    /\ resets = [s \in Sockets |-> 0]
    /\ published = 0 /\ faults = 0
-----------------------------------------------------------------------------
At(s, l) == pc[s] = l
Goto(s, l) == pc' = [pc EXCEPT ![s] = l]
Fault == faults < MaxFaults /\ faults' = faults + 1

Publish ==
    /\ published < MaxMessages
    /\ published' = published + 1
    /\ queue' = [s \in Sockets |->
                   IF s \in open THEN Append(queue[s], published + 1) ELSE queue[s]]
    /\ UNCHANGED <<pc, gone, active, open, msg, got, since, resets, faults>>

Leave(s) ==
    /\ pc[s] \in {"accepted", "read", "send"} /\ s \notin gone
    /\ gone' = gone \union {s}
    /\ UNCHANGED <<pc, active, open, streamVars, published, faults>>

Accept(s) ==
    /\ At(s, "new") /\ Goto(s, "accepted")
    /\ UNCHANGED <<gone, active, open, streamVars, published, faults>>

\* _active_ws.add, then get_pubsub.
Subscribe(s) ==
    /\ At(s, "accepted") /\ Goto(s, "read")
    /\ active' = active \union {s}
    /\ open' = open \union {s}
    /\ since' = [since EXCEPT ![s] = published]
    /\ UNCHANGED <<gone, queue, msg, got, resets, published, faults>>

\* get_pubsub raises, outside the try: nothing undoes the add.
SubscribeFails(s) ==
    /\ At(s, "accepted") /\ Goto(s, "failed")
    /\ Fault
    /\ active' = active \union {s}
    /\ UNCHANGED <<gone, open, streamVars, published>>

ReadNewest(s) ==
    /\ At(s, "read") /\ queue[s] # <<>> /\ Goto(s, "send")
    /\ msg' = [msg EXCEPT ![s] = <<queue[s][Len(queue[s])]>>]
    /\ queue' = [queue EXCEPT ![s] = <<>>]
    /\ UNCHANGED <<gone, active, open, got, since, resets, published, faults>>

\* get_message; with nothing to read the coroutine sleeps and tries again.
Read(s) ==
    /\ At(s, "read") /\ queue[s] # <<>> /\ Goto(s, "send")
    /\ msg' = [msg EXCEPT ![s] = <<Head(queue[s])>>]
    /\ queue' = [queue EXCEPT ![s] = Tail(queue[s])]
    /\ UNCHANGED <<gone, active, open, got, since, resets, published, faults>>

\* finally: ps.close().
Release(s) ==
    /\ open' = open \ {s}
    /\ queue' = [queue EXCEPT ![s] = <<>>]
    /\ msg' = [msg EXCEPT ![s] = <<>>]
    /\ UNCHANGED <<gone, got, since, resets, published>>

ReadFails(s) ==
    /\ At(s, "read") /\ Goto(s, "failed")
    /\ Fault
    /\ Release(s)
    /\ UNCHANGED active

\* A time-out inside a message: redis-py connects and subscribes again.
Resubscribe(s) ==
    /\ At(s, "read") /\ queue[s] # <<>>
    /\ Fault
    /\ queue' = [queue EXCEPT ![s] = <<>>]
    /\ resets' = [resets EXCEPT ![s] = @ + 1]
    /\ UNCHANGED <<pc, gone, active, open, msg, got, since, published>>

Send(s) ==
    /\ At(s, "send") /\ s \notin gone /\ Goto(s, "read")
    /\ got' = [got EXCEPT ![s] = @ \o msg[s]]
    /\ msg' = [msg EXCEPT ![s] = <<>>]
    /\ UNCHANGED <<gone, active, open, queue, since, resets, published, faults>>

SendToGoneForgotten(s) ==
    /\ At(s, "send") /\ s \in gone /\ Goto(s, "closed")
    /\ Release(s)
    /\ UNCHANGED <<active, faults>>
SendToGoneRetried(s) == At(s, "send") /\ s \in gone /\ UNCHANGED vars
\* WebSocketDisconnect.
SendToGone(s) ==
    /\ At(s, "send") /\ s \in gone /\ Goto(s, "closed")
    /\ active' = active \ {s}
    /\ Release(s)
    /\ UNCHANGED faults
-----------------------------------------------------------------------------
Handler(s) ==
    \/ Accept(s) \/ Subscribe(s)
    \/ Read(s) \/ Send(s) \/ SendToGone(s)

Next ==
    \/ Publish
    \/ \E s \in Sockets :
          \/ Handler(s)
          \/ Leave(s)
          \/ SubscribeFails(s) \/ ReadFails(s) \/ Resubscribe(s)

\* The event loop resumes every coroutine whose wait is over.
Fairness == \A s \in Sockets : WF_vars(Handler(s))

Spec == Init /\ [][Next]_vars /\ Fairness
-----------------------------------------------------------------------------
Stream(s) == got[s] \o msg[s] \o queue[s]

\* What a client has received, what its handler holds and what Redis keeps
\* for it are, in this order, an increasing run of the messages published
\* since its subscription, and without a gap unless the subscription was made
\* anew: nothing is relayed twice, out of order or from before.
StreamInOrder ==
    \A s \in Sockets :
        /\ \A i \in 1 .. Len(Stream(s)) :
              /\ Stream(s)[i] >= since[s] + i
              /\ i > 1 => Stream(s)[i] > Stream(s)[i - 1]
              /\ resets[s] = 0 => Stream(s)[i] = since[s] + i
        /\ s \in open /\ resets[s] = 0 => Len(Stream(s)) = published - since[s]

\* _active_ws holds the sockets of all subscribed handlers and, besides them,
\* only those whose handler ended by an exception it does not catch: one
\* socket per failure of the connection to Redis stays there for good.
LeakBound ==
    /\ open \subseteq active
    /\ Cardinality(active \ open) <= faults
    /\ \A s \in active \ open : pc[s] = "failed"

\* A message that reached a subscription is relayed to the client, unless the
\* handler ends or the subscription is made anew: so the handler of a client
\* that has gone ends once there is a message for it - and not before.
MessageSettled ==
    \A s \in Sockets, n \in 1 .. MaxMessages :
        (\E i \in 1 .. Len(queue[s]) : queue[s][i] = n) ~>
            \/ \E i \in 1 .. Len(got[s]) : got[s][i] = n
            \/ pc[s] \in {"closed", "failed"}
            \/ resets[s] > 0
-----------------------------------------------------------------------------
\* Every variable has its type; a handler holds a message only while it sends
\* it, and a subscription only while it reads and sends.
TypeOK ==
    /\ pc \in [Sockets -> {"new", "accepted", "read", "send", "closed", "failed"}]
    /\ gone \subseteq Sockets /\ active \subseteq Sockets
    /\ open = {s \in Sockets : pc[s] \in {"read", "send"}}
    /\ queue \in [Sockets -> Seq(Nat)]
    /\ msg \in [Sockets -> Seq(Nat)]
    /\ \A s \in Sockets : (msg[s] # <<>>) <=> (pc[s] = "send")
    /\ got \in [Sockets -> Seq(Nat)]
    /\ since \in [Sockets -> Nat]
    /\ resets \in [Sockets -> Nat]
    /\ published \in Nat /\ faults \in Nat

\* Nothing is held for a socket without a subscription, and nothing was sent
\* before it.
NothingHeld ==
    \A s \in Sockets :
        /\ s \notin open => queue[s] = <<>>
        /\ pc[s] \in {"new", "accepted"} => got[s] = <<>> /\ resets[s] = 0

\* Only what has been published is in a stream.
NothingAhead ==
    \A s \in Sockets :
        /\ since[s] <= published
        /\ \A i \in 1 .. Len(Stream(s)) : Stream(s)[i] <= published

\* The inductive invariant behind the theorems on this module.
IndInv ==
    /\ TypeOK
    /\ NothingHeld
    /\ NothingAhead
    /\ StreamInOrder
    /\ IsFiniteSet(active \ open)
    /\ LeakBound
=============================================================================
