-------------------------------- MODULE Hub --------------------------------
(***************************************************************************)
(* The WebSocket fan-out of the API process (internal/ws): a subscriber    *)
(* goroutine takes the notifications off the Redis channel and hands each  *)
(* to Hub.Run over the unbuffered broadcast channel; Hub.Run puts it into  *)
(* the send buffer of every client, and drops a client whose buffer is     *)
(* full; a writePump per client writes its buffer to the connection.       *)
(*                                                                         *)
(* Notifications are numbered in the order Redis publishes them.  The loop *)
(* over the clients is one step: it only appends to one buffer at a time,  *)
(* never waits, and a pump that takes a message meanwhile might as well    *)
(* have taken it before.                                                   *)
(***************************************************************************)
EXTENDS Naturals, Sequences

CONSTANTS Clients,
          SendBuffer,       \* capacity of Client.send (256 in ServeWs)
          MaxBroadcasts     \* bound: notifications published

ASSUME HubAssumption == SendBuffer \in Nat \ {0} /\ MaxBroadcasts \in Nat

VARIABLES
    offered,    \* what the subscriber is handing to the hub, 0 for nothing
    casts,      \* how many notifications the hub has taken
    member,     \* member[c]: "new", "joining", "in" (in h.clients), "out" of it
    since,      \* casts when the client was registered
    send,       \* send[c]: the buffered channel
    closed,     \* closed[c]: send has been closed
    pump,       \* pump[c]: "none", "running" or "ended"
    writing,    \* writing[c]: the message in WriteMessage, 0 for none
    peer,       \* peer[c]: the browser: "reading", "stalled" or "left"
    got         \* got[c]: what the browser received

hub  == <<member, since, closed>>
vars == <<offered, casts, hub, send, pump, writing, peer, got>>

Init ==
    /\ offered = 0 /\ casts = 0
    /\ member = [c \in Clients |-> "new"]
    /\ since = [c \in Clients |-> 0]
    /\ send = [c \in Clients |-> <<>>]
    /\ closed = [c \in Clients |-> FALSE]
    /\ pump = [c \in Clients |-> "none"]
    /\ writing = [c \in Clients |-> 0]
    /\ peer = [c \in Clients |-> "reading"]
    /\ got = [c \in Clients |-> <<>>]

-----------------------------------------------------------------------------
(* StartRedisSubscriber *)
Forward ==
    /\ offered = 0 /\ casts < MaxBroadcasts
    /\ offered' = casts + 1
    /\ UNCHANGED <<casts, hub, send, pump, writing, peer, got>>

(* ServeWs: upgrade, register, then the pump *)
Upgrade(c) ==
    /\ member[c] = "new"
    /\ member' = [member EXCEPT ![c] = "joining"]
    /\ UNCHANGED <<offered, casts, since, closed, send, pump, writing, peer, got>>

StartPump(c) ==
    /\ member[c] \in {"in", "out"} /\ pump[c] = "none"
    /\ pump' = [pump EXCEPT ![c] = "running"]
    /\ UNCHANGED <<offered, casts, hub, send, writing, peer, got>>

-----------------------------------------------------------------------------
(* Hub.Run.  Nothing sends on unregister, so that case is never taken. *)

Register(c) ==
    /\ member[c] = "joining"
    /\ member' = [member EXCEPT ![c] = "in"]
    /\ since' = [since EXCEPT ![c] = casts]
    /\ UNCHANGED <<offered, casts, closed, send, pump, writing, peer, got>>

Members == {c \in Clients : member[c] = "in"}

(* Faulty variant: a client is given up with room left in its buffer. *)
FullEarly(c) == Len(send[c]) + 1 >= SendBuffer

Full(c) == Len(send[c]) >= SendBuffer

(* Faulty variant: a full buffer loses the message and keeps the client. *)
BroadcastSkipping ==
    /\ offered # 0
    /\ casts' = offered /\ offered' = 0
    /\ send' = [c \in Clients |-> IF c \in Members /\ ~Full(c)
                                  THEN Append(send[c], offered) ELSE send[c]]
    /\ UNCHANGED <<hub, pump, writing, peer, got>>

(* Faulty variant: the send has no default case, the hub waits for room. *)
BroadcastWaiting ==
    /\ offered # 0
    /\ \A c \in Members : ~Full(c)
    /\ casts' = offered /\ offered' = 0
    /\ send' = [c \in Clients |-> IF c \in Members
                                  THEN Append(send[c], offered) ELSE send[c]]
    /\ UNCHANGED <<hub, pump, writing, peer, got>>

(* Faulty variant: a send that always finds room. *)
BroadcastUnbounded ==
    /\ offered # 0
    /\ casts' = offered /\ offered' = 0
    /\ send' = [c \in Clients |-> IF c \in Members
                                  THEN Append(send[c], offered) ELSE send[c]]
    /\ UNCHANGED <<hub, pump, writing, peer, got>>

(* Faulty variant: the client is closed and stays in h.clients. *)
BroadcastKeeping ==
    /\ offered # 0
    /\ casts' = offered /\ offered' = 0
    /\ send' = [c \in Clients |-> IF c \in Members /\ ~Full(c)
                                  THEN Append(send[c], offered) ELSE send[c]]
    /\ closed' = [c \in Clients |-> closed[c] \/ (c \in Members /\ Full(c))]
    /\ UNCHANGED <<member, since, pump, writing, peer, got>>

Broadcast ==
    /\ offered # 0
    /\ casts' = offered /\ offered' = 0
    /\ send' = [c \in Clients |-> IF c \in Members /\ ~Full(c)
                                  THEN Append(send[c], offered) ELSE send[c]]
    /\ LET slow == {c \in Members : Full(c)}
       IN /\ member' = [c \in Clients |-> IF c \in slow THEN "out" ELSE member[c]]
          /\ closed' = [c \in Clients |-> closed[c] \/ c \in slow]
    /\ UNCHANGED <<since, pump, writing, peer, got>>

-----------------------------------------------------------------------------
(* writePump: the error of WriteMessage is ignored *)

(* Faulty variant: the loop ends as soon as send is closed. *)
TakeWhileOpen(c) ==
    /\ pump[c] = "running" /\ writing[c] = 0 /\ send[c] # <<>> /\ ~closed[c]
    /\ writing' = [writing EXCEPT ![c] = Head(send[c])]
    /\ send' = [send EXCEPT ![c] = Tail(@)]
    /\ UNCHANGED <<offered, casts, hub, pump, peer, got>>

Take(c) ==
    /\ pump[c] = "running" /\ writing[c] = 0 /\ send[c] # <<>>
    /\ writing' = [writing EXCEPT ![c] = Head(send[c])]
    /\ send' = [send EXCEPT ![c] = Tail(@)]
    /\ UNCHANGED <<offered, casts, hub, pump, peer, got>>

Write(c) ==
    /\ writing[c] # 0 /\ peer[c] # "stalled"
    /\ got' = IF peer[c] = "reading"
              THEN [got EXCEPT ![c] = Append(@, writing[c])] ELSE got
    /\ writing' = [writing EXCEPT ![c] = 0]
    /\ UNCHANGED <<offered, casts, hub, send, pump, peer>>

PumpEnds(c) ==
    /\ pump[c] = "running" /\ writing[c] = 0 /\ send[c] = <<>> /\ closed[c]
    /\ pump' = [pump EXCEPT ![c] = "ended"]
    /\ UNCHANGED <<offered, casts, hub, send, writing, peer, got>>

(* The browser stops reading, reads on, or is gone; nobody tells the hub. *)
PeerMoves(c) ==
    /\ peer[c] # "left" /\ member[c] # "new"
    /\ \E s \in {"reading", "stalled", "left"} \ {peer[c]} :
         peer' = [peer EXCEPT ![c] = s]
    /\ UNCHANGED <<offered, casts, hub, send, pump, writing, got>>

-----------------------------------------------------------------------------
Pump(c) == Take(c) \/ Write(c) \/ PumpEnds(c)

Next ==
    \/ Forward \/ Broadcast
    \/ \E c \in Clients : \/ Upgrade(c) \/ Register(c) \/ StartPump(c)
                          \/ Pump(c) \/ PeerMoves(c)

Spec == Init /\ [][Next]_vars

(* Hub.Run, the subscriber and the pumps are goroutines of one process; a  *)
(* pump in WriteMessage moves only if its peer reads.                      *)
Fairness ==
    /\ WF_vars(Broadcast)
    /\ \A c \in Clients : WF_vars(StartPump(c)) /\ WF_vars(Pump(c))

FairSpec == Spec /\ Fairness

-----------------------------------------------------------------------------
(* Properties *)

InHand(c) == IF writing[c] = 0 THEN <<>> ELSE <<writing[c]>>
Queued(c) == got[c] \o InHand(c) \o send[c]

TypeOK ==
    /\ offered \in 0..MaxBroadcasts /\ casts \in 0..MaxBroadcasts
    /\ member \in [Clients -> {"new", "joining", "in", "out"}]
    /\ since \in [Clients -> 0..MaxBroadcasts]
    /\ send \in [Clients -> Seq(1..MaxBroadcasts)]
    /\ \A c \in Clients : Len(send[c]) <= SendBuffer
    /\ got \in [Clients -> Seq(1..MaxBroadcasts)]
    /\ closed \in [Clients -> BOOLEAN]
    /\ pump \in [Clients -> {"none", "running", "ended"}]
    /\ writing \in [Clients -> 0..MaxBroadcasts]
    /\ peer \in [Clients -> {"reading", "stalled", "left"}]

(* A browser that stays connected sees the notifications from its          *)
(* registration on without a gap, a repetition or a swap; and as long as   *)
(* it is in the hub it has, or will have, all of them: the hub never skips *)
(* a message for a slow client, it drops the client.                       *)
NoGap ==
    \A c \in Clients : peer[c] # "left" =>
        /\ \A i \in 1..Len(Queued(c)) : Queued(c)[i] = since[c] + i
        /\ member[c] = "in" => Len(Queued(c)) = casts - since[c]

(* The hub never sends on a channel it has closed, which would panic: a    *)
(* client it gave up leaves h.clients in the same turn.                    *)
NoSendOnClosed == \A c \in Members : ~closed[c]

(* No client, stalled or gone, keeps the hub from taking the next          *)
(* notification.                                                           *)
HubNeverBlocks == \A n \in 1..MaxBroadcasts : offered = n ~> casts >= n

(* What was put into the buffer of a browser reaches it if it goes on      *)
(* reading, even after the hub has dropped the client.                     *)
QueuedIsWritten ==
    \A c \in Clients : \A n \in 1..MaxBroadcasts :
        Len(Queued(c)) >= n ~> (Len(got[c]) >= n \/ peer[c] # "reading")

(* To each browser the hub keeps the promise of Feed: it owes it every     *)
(* notification from its registration on, delivers them in order, and      *)
(* gives it up only when it has left a whole buffer of them unread, of     *)
(* which nothing is taken back.                                            *)
Gone(c) == peer[c] = "left"
Stage(c) ==
    CASE Gone(c) -> "gone"
      [] ~Gone(c) /\ member[c] = "in" -> "on"
      [] ~Gone(c) /\ member[c] = "out" -> "off"
      [] ~Gone(c) /\ member[c] \in {"new", "joining"} -> "away"
Base(c) == IF Gone(c) THEN 0 ELSE since[c]
Backlog(c) == Len(InHand(c)) + Len(send[c])
Owed(c) == IF Gone(c) THEN 0 ELSE Len(got[c]) + Backlog(c)

Promise == INSTANCE Feed WITH
               Readers <- Clients,
               Slack <- SendBuffer,
               published <- casts,
               stage <- [c \in Clients |-> Stage(c)],
               base <- [c \in Clients |-> Base(c)],
               owed <- [c \in Clients |-> Owed(c)]
KeepsFeed == Promise!Spec
=============================================================================
