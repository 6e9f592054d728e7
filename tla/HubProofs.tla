------------------------------ MODULE HubProofs ------------------------------
(***************************************************************************)
(* The safety of the WebSocket hub, for every set of clients, every        *)
(* capacity of their buffers and every number of notifications.            *)
(***************************************************************************)
EXTENDS Hub, TLAPS

(* What Append returns. *)
LEMMA AppendFact ==
  ASSUME NEW S, NEW s \in Seq(S), NEW x \in S
  PROVE  /\ Append(s, x) \in Seq(S) /\ Len(Append(s, x)) = Len(s) + 1
         /\ \A i \in 1..Len(s) : Append(s, x)[i] = s[i]
         /\ Append(s, x)[Len(s) + 1] = x
  OBVIOUS

(* What Head and Tail return. *)
LEMMA TailFact ==
  ASSUME NEW S, NEW s \in Seq(S), s # <<>>
  PROVE  /\ Head(s) \in S /\ Head(s) = s[1] /\ Tail(s) \in Seq(S) /\ Len(s) # 0
         /\ Len(Tail(s)) = Len(s) - 1
         /\ \A i \in 1..Len(Tail(s)) : Tail(s)[i] = s[i + 1]
  OBVIOUS

(* The numbers of s go on from n.  Two parts of a line make a line. *)
CountsFrom(s, n) == \A i \in 1..Len(s) : s[i] = n + i

LEMMA ConcatFact ==
  ASSUME NEW S, NEW s \in Seq(S), NEW t \in Seq(S), NEW n \in Nat,
         CountsFrom(s, n), CountsFrom(t, n + Len(s))
  PROVE  /\ s \o t \in Seq(S) /\ Len(s \o t) = Len(s) + Len(t)
         /\ CountsFrom(s \o t, n)
  <1>1. /\ s \o t \in Seq(S) /\ Len(s \o t) = Len(s) + Len(t)
        /\ Len(s) \in Nat /\ Len(t) \in Nat
      OBVIOUS
  <1>2. ASSUME NEW i \in 1..Len(s \o t) PROVE (s \o t)[i] = n + i
    <2>1. CASE i <= Len(s)
      <3>1. (s \o t)[i] = s[i] BY <1>1, <2>1
      <3>2. QED BY <1>1, <2>1, <3>1 DEF CountsFrom
    <2>2. CASE i > Len(s)
      <3>1. (s \o t)[i] = t[i - Len(s)] BY <1>1, <2>2
      <3>2. i - Len(s) \in 1..Len(t) BY <1>1, <2>2
      <3>3. t[i - Len(s)] = n + Len(s) + (i - Len(s)) BY <3>2 DEF CountsFrom
      <3>4. n + Len(s) + (i - Len(s)) = n + i BY <1>1
      <3>5. QED BY <3>1, <3>3, <3>4
    <2>3. QED BY <1>1, <2>1, <2>2
  <1>3. QED BY <1>1, <1>2 DEF CountsFrom

(* A sum grows with its last term. *)
LEMMA SumGrows == \A a, b, n, x \in Nat : a + b + n = x => a + b + (n + 1) = x + 1
  OBVIOUS

(* How far the line of a client has come: what is in the browser and what  *)
(* the pump holds.                                                         *)
Holding(c)   == IF writing[c] = 0 THEN 0 ELSE 1
Delivered(c) == since[c] + Len(got[c])

(* The subscriber offers the next notification. *)
Offer == offered \in {0, casts + 1}

(* A client that has not been registered has nothing and is not closed, *)
(* and one in the hub is not closed.                                    *)
Untouched ==
    \A c \in Clients :
        /\ member[c] \in {"new", "joining"} =>
             /\ send[c] = <<>> /\ got[c] = <<>> /\ writing[c] = 0
             /\ pump[c] = "none" /\ ~closed[c]
        /\ member[c] = "in" => ~closed[c]

(* The three parts of a client's line follow one another without a gap,    *)
(* and the line of a client in the hub ends with the last notification.    *)
InLine(c) ==
    /\ \A i \in 1..Len(got[c]) : got[c][i] = since[c] + i
    /\ writing[c] # 0 => writing[c] = Delivered(c) + 1
    /\ \A i \in 1..Len(send[c]) : send[c][i] = Delivered(c) + Holding(c) + i
    /\ member[c] = "in" => Delivered(c) + Holding(c) + Len(send[c]) = casts

Lines == \A c \in Clients : peer[c] # "left" => InLine(c)

IInv == TypeOK /\ Offer /\ Untouched /\ Lines

-----------------------------------------------------------------------------
(* Nothing has happened yet. *)
LEMMA InitIInv == Init => IInv
  <1> SUFFICES ASSUME Init PROVE IInv OBVIOUS
  <1> USE HubAssumption DEF HubAssumption, Init
  <1>1. <<>> \in Seq(1..MaxBroadcasts) /\ Len(<<>>) = 0 OBVIOUS
  <1>2. TypeOK BY <1>1 DEF TypeOK
  <1>3. Offer /\ Untouched BY DEF Offer, Untouched
  <1>4. Lines BY <1>1 DEF Lines, InLine, Delivered, Holding
  <1>5. QED BY <1>2, <1>3, <1>4 DEF IInv

(* A broadcast appends the next number to every line that has room. *)
LEMMA BroadcastStep == IInv /\ Broadcast => IInv'
  <1> SUFFICES ASSUME IInv, Broadcast PROVE IInv' OBVIOUS
  <1> USE HubAssumption DEF HubAssumption, IInv
  <1>1. /\ offered = casts + 1 /\ offered \in 1..MaxBroadcasts /\ casts' = offered
        /\ offered' = 0 /\ casts \in Nat
        /\ UNCHANGED <<since, pump, writing, peer, got>>
      BY DEF Broadcast, Offer, TypeOK
  <1>2. ASSUME NEW c \in Clients
        PROVE  \/ /\ member[c] = "in" /\ ~Full(c) /\ member'[c] = "in"
                  /\ closed'[c] = closed[c] /\ send'[c] = Append(send[c], offered)
               \/ /\ member'[c] # "in" /\ send'[c] = send[c]
                  /\ \/ member[c] = "in" /\ member'[c] = "out"
                     \/ member'[c] = member[c] /\ closed'[c] = closed[c]
      BY DEF Broadcast, Members, TypeOK
  <1>3. TypeOK'
    <2>1. \A c \in Clients : /\ send'[c] \in Seq(1..MaxBroadcasts)
                             /\ Len(send'[c]) <= SendBuffer
      <3>1. SUFFICES ASSUME NEW c \in Clients
                     PROVE  send'[c] \in Seq(1..MaxBroadcasts) /\ Len(send'[c]) <= SendBuffer
            OBVIOUS
      <3>2. /\ send[c] \in Seq(1..MaxBroadcasts) /\ Len(send[c]) <= SendBuffer
            /\ Len(send[c]) \in Nat
          BY DEF TypeOK
      <3>3. CASE ~Full(c) /\ send'[c] = Append(send[c], offered)
          BY <1>1, <3>2, <3>3, AppendFact DEF Full
      <3>4. QED BY <1>2, <3>2, <3>3
    <2>2. send' \in [Clients -> Seq(1..MaxBroadcasts)] BY <2>1 DEF Broadcast
    <2>3. closed' \in [Clients -> BOOLEAN] /\ member' \in [Clients -> {"new", "joining", "in", "out"}]
      BY DEF Broadcast, TypeOK
    <2>4. QED BY <1>1, <2>1, <2>2, <2>3 DEF TypeOK
  <1>4. Offer' BY <1>1 DEF Offer
  <1>5. Untouched' BY <1>1, <1>2 DEF Untouched, TypeOK
  <1>6. Lines'
    <2> SUFFICES ASSUME NEW c \in Clients, peer'[c] # "left" PROVE InLine(c)'
        BY DEF Lines
    <2>1. InLine(c) BY <1>1 DEF Lines
    <2>2. /\ send[c] \in Seq(1..MaxBroadcasts) /\ Len(send[c]) \in Nat
          /\ Delivered(c) \in Nat /\ Holding(c) \in Nat
        BY DEF TypeOK, Delivered, Holding
    <2>3. Delivered(c)' = Delivered(c) /\ Holding(c)' = Holding(c)
        BY <1>1 DEF Delivered, Holding
    <2>4. CASE member[c] = "in" /\ send'[c] = Append(send[c], offered)
      <3>1. /\ Len(send'[c]) = Len(send[c]) + 1
            /\ \A i \in 1..Len(send[c]) : send'[c][i] = send[c][i]
            /\ send'[c][Len(send[c]) + 1] = offered
          BY <1>1, <2>2, <2>4, AppendFact
      <3>2. Delivered(c) + Holding(c) + Len(send[c]) = casts BY <2>1, <2>4 DEF InLine
      <3>3. Delivered(c) + Holding(c) + (Len(send[c]) + 1) = casts + 1
          BY <3>2, <2>2, <1>1, SumGrows
      <3>4. \A i \in 1..Len(send'[c]) : send'[c][i] = Delivered(c) + Holding(c) + i
        <4>1. SUFFICES ASSUME NEW i \in 1..Len(send'[c])
                       PROVE  send'[c][i] = Delivered(c) + Holding(c) + i
              OBVIOUS
        <4>2. i \in 1..Len(send[c]) \/ i = Len(send[c]) + 1 BY <3>1, <2>2
        <4>3. CASE i \in 1..Len(send[c]) BY <4>3, <3>1, <2>1 DEF InLine
        <4>4. CASE i = Len(send[c]) + 1
          <5>1. send'[c][i] = casts + 1 BY <4>4, <3>1, <1>1
          <5>2. QED BY <4>4, <5>1, <3>3
        <4>5. QED BY <4>2, <4>3, <4>4
      <3>5. Delivered(c) + Holding(c) + Len(send'[c]) = casts'
          BY <3>3, <3>1, <1>1
      <3>6. QED BY <1>1, <2>1, <2>3, <3>4, <3>5 DEF InLine
    <2>5. CASE member'[c] # "in" /\ send'[c] = send[c]
        BY <1>1, <2>1, <2>3, <2>5 DEF InLine
    <2>6. QED BY <1>2, <2>4, <2>5
  <1>7. QED BY <1>3, <1>4, <1>5, <1>6

(* The pump moves the first number of the buffer into its hand. *)
LEMMA TakeStep == \A c \in Clients : IInv /\ Take(c) => IInv'
  <1> SUFFICES ASSUME IInv, NEW c \in Clients, Take(c) PROVE IInv' OBVIOUS
  <1> USE HubAssumption DEF HubAssumption, IInv
  <1>1. /\ pump[c] = "running" /\ writing[c] = 0 /\ send[c] # <<>>
        /\ writing' = [writing EXCEPT ![c] = Head(send[c])]
        /\ send' = [send EXCEPT ![c] = Tail(send[c])]
        /\ UNCHANGED <<offered, casts, member, since, closed, pump, peer, got>>
      BY DEF Take, hub
  <1>2. send[c] \in Seq(1..MaxBroadcasts) /\ Len(send[c]) \in Nat BY DEF TypeOK
  <1>3. /\ Head(send[c]) \in 1..MaxBroadcasts /\ Head(send[c]) = send[c][1]
        /\ Tail(send[c]) \in Seq(1..MaxBroadcasts) /\ Len(send[c]) # 0
        /\ Len(Tail(send[c])) = Len(send[c]) - 1
        /\ \A i \in 1..Len(Tail(send[c])) : Tail(send[c])[i] = send[c][i + 1]
    <2>1. send[c] # <<>> BY <1>1
    <2>2. QED BY ONLY <2>1, <1>2, TailFact
  <1>4. /\ writing'[c] = Head(send[c]) /\ send'[c] = Tail(send[c])
        /\ \A d \in Clients \ {c} : writing'[d] = writing[d] /\ send'[d] = send[d]
      BY <1>1 DEF TypeOK
  <1>5. TypeOK'
    <2>1. writing' \in [Clients -> 0..MaxBroadcasts] BY <1>1, <1>3 DEF TypeOK
    <2>2. send' \in [Clients -> Seq(1..MaxBroadcasts)] BY <1>1, <1>3 DEF TypeOK
    <2>3. \A d \in Clients : Len(send'[d]) <= SendBuffer
      <3>1. Len(send[c]) - 1 <= SendBuffer /\ \A d \in Clients : Len(send[d]) <= SendBuffer
        BY <1>2 DEF TypeOK
      <3>2. QED BY <3>1, <1>3, <1>4
    <2>4. QED BY <1>1, <2>1, <2>2, <2>3 DEF TypeOK
  <1>6. Offer' BY <1>1 DEF Offer
  <1>7. Untouched' BY <1>1, <1>4 DEF Untouched
  <1>8. Lines'
    <2> SUFFICES ASSUME NEW d \in Clients, peer'[d] # "left" PROVE InLine(d)' BY DEF Lines
    <2>1. InLine(d) BY <1>1 DEF Lines
    <2>2. CASE d # c
        BY <1>1, <1>4, <2>1, <2>2 DEF InLine, Delivered, Holding
    <2>3. CASE d = c
      <3>1. Delivered(c)' = Delivered(c) /\ Delivered(c) \in Nat
          BY <1>1 DEF Delivered, TypeOK
      <3>2. Holding(c) = 0 /\ Holding(c)' = 1 BY <1>1, <1>3, <1>4 DEF Holding
      <3>3. writing'[c] = Delivered(c) + 1
          BY <1>2, <1>3, <1>4, <2>1, <2>3, <3>1, <3>2 DEF InLine
      <3>4. \A i \in 1..Len(send'[c]) : send'[c][i] = Delivered(c) + 1 + i
        <4>1. SUFFICES ASSUME NEW i \in 1..Len(Tail(send[c]))
                       PROVE  Tail(send[c])[i] = Delivered(c) + 1 + i
              BY <1>4
        <4>2. i + 1 \in 1..Len(send[c]) /\ i \in Nat BY <1>2, <1>3
        <4>3. send[c][i + 1] = Delivered(c) + 0 + (i + 1)
            BY <2>1, <2>3, <3>2, <4>2 DEF InLine
        <4>4. QED BY <1>3, <3>1, <4>2, <4>3
      <3>5. member[c] = "in" => Delivered(c) + 1 + Len(send'[c]) = casts
          BY <1>2, <1>3, <1>4, <2>1, <2>3, <3>1, <3>2 DEF InLine
      <3>6. QED BY <1>1, <2>1, <2>3, <3>1, <3>2, <3>3, <3>4, <3>5 DEF InLine
    <2>4. QED BY <2>2, <2>3
  <1>9. QED BY <1>5, <1>6, <1>7, <1>8

(* The pump hands what it holds to the browser, or loses it if that left.  *)
LEMMA WriteStep == \A c \in Clients : IInv /\ Write(c) => IInv'
  <1> SUFFICES ASSUME IInv, NEW c \in Clients, Write(c) PROVE IInv' OBVIOUS
  <1> USE HubAssumption DEF HubAssumption, IInv
  <1>1. /\ writing[c] # 0 /\ peer[c] # "stalled"
        /\ got' = IF peer[c] = "reading"
                  THEN [got EXCEPT ![c] = Append(got[c], writing[c])] ELSE got
        /\ writing' = [writing EXCEPT ![c] = 0]
        /\ UNCHANGED <<offered, casts, member, since, closed, send, pump, peer>>
      BY DEF Write, hub
  <1>0. writing[c] \in 1..MaxBroadcasts /\ got[c] \in Seq(1..MaxBroadcasts)
      BY <1>1 DEF TypeOK
  <1>2. since[c] \in Nat /\ Len(got[c]) \in Nat /\ Len(send[c]) \in Nat
      BY DEF TypeOK
  <1>3. /\ Append(got[c], writing[c]) \in Seq(1..MaxBroadcasts)
        /\ Len(Append(got[c], writing[c])) = Len(got[c]) + 1
        /\ \A i \in 1..Len(got[c]) : Append(got[c], writing[c])[i] = got[c][i]
        /\ Append(got[c], writing[c])[Len(got[c]) + 1] = writing[c]
      BY <1>0, AppendFact
  <1>4. /\ writing'[c] = 0
        /\ peer[c] = "reading" => got'[c] = Append(got[c], writing[c])
        /\ \A d \in Clients \ {c} : writing'[d] = writing[d] /\ got'[d] = got[d]
      BY <1>1 DEF TypeOK
  <1>5. TypeOK'
    <2>1. writing' \in [Clients -> 0..MaxBroadcasts] BY <1>1 DEF TypeOK
    <2>2. got' \in [Clients -> Seq(1..MaxBroadcasts)] BY <1>1, <1>3 DEF TypeOK
    <2>3. QED BY <1>1, <2>1, <2>2 DEF TypeOK
  <1>6. Offer' BY <1>1 DEF Offer
  <1>7. Untouched' BY <1>1, <1>4 DEF Untouched
  <1>8. Lines'
    <2> SUFFICES ASSUME NEW d \in Clients, peer'[d] # "left" PROVE InLine(d)' BY DEF Lines
    <2>1. InLine(d) BY <1>1 DEF Lines
    <2>2. CASE d # c
        BY <1>1, <1>4, <2>1, <2>2 DEF InLine, Delivered, Holding
    <2>3. CASE d = c
      <3>0. got'[c] = Append(got[c], writing[c])
          BY <1>1, <1>4, <2>3 DEF TypeOK
      <3>1. Delivered(c)' = Delivered(c) + 1 /\ Delivered(c) \in Nat
        <4>1. since'[c] = since[c] /\ Len(got'[c]) = Len(got[c]) + 1
          BY <1>1, <1>3, <3>0
        <4>2. QED BY <4>1, <1>2 DEF Delivered
      <3>2. Holding(c) = 1 /\ Holding(c)' = 0 BY <1>1, <1>4 DEF Holding
      <3>3. writing[c] = since[c] + (Len(got[c]) + 1)
        <4>1. writing[c] = since[c] + Len(got[c]) + 1
          BY <1>1, <2>1, <2>3 DEF InLine, Delivered
        <4>2. QED BY <4>1, <1>2
      <3>4. \A i \in 1..Len(got'[c]) : got'[c][i] = since[c] + i
        <4>1. SUFFICES ASSUME NEW i \in 1..Len(got'[c])
                       PROVE  got'[c][i] = since[c] + i
              OBVIOUS
        <4>2. i \in 1..Len(got[c]) \/ i = Len(got[c]) + 1 BY <1>2, <1>3, <3>0
        <4>3. CASE i \in 1..Len(got[c]) BY <4>3, <1>3, <3>0, <2>1, <2>3 DEF InLine
        <4>4. CASE i = Len(got[c]) + 1 BY <4>4, <1>3, <3>0, <3>3
        <4>5. QED BY <4>2, <4>3, <4>4
      <3>5. \A i \in 1..Len(send[c]) : send[c][i] = Delivered(c)' + 0 + i
          BY <1>2, <2>1, <2>3, <3>1, <3>2 DEF InLine
      <3>6. member[c] = "in" => Delivered(c)' + 0 + Len(send[c]) = casts
          BY <1>2, <2>1, <2>3, <3>1, <3>2 DEF InLine
      <3>7. QED BY <1>1, <1>4, <2>3, <3>2, <3>4, <3>5, <3>6 DEF InLine
    <2>4. QED BY <2>2, <2>3
  <1>9. QED BY <1>5, <1>6, <1>7, <1>8

(* The line of a client that is registered starts with the next number.    *)
LEMMA RegisterStep == \A c \in Clients : IInv /\ Register(c) => IInv'
  <1> SUFFICES ASSUME IInv, NEW c \in Clients, Register(c) PROVE IInv' OBVIOUS
  <1> USE HubAssumption DEF HubAssumption, IInv
  <1>1. /\ member[c] = "joining" /\ member' = [member EXCEPT ![c] = "in"]
        /\ since' = [since EXCEPT ![c] = casts]
        /\ UNCHANGED <<offered, casts, closed, send, pump, writing, peer, got>>
      BY DEF Register
  <1>2. send[c] = <<>> /\ got[c] = <<>> /\ writing[c] = 0 /\ ~closed[c]
      BY <1>1 DEF Untouched
  <1>3. TypeOK' BY <1>1 DEF TypeOK
  <1>4. Offer' BY <1>1 DEF Offer
  <1>5. Untouched' BY <1>1, <1>2 DEF Untouched, TypeOK
  <1>6. Lines'
    <2> SUFFICES ASSUME NEW d \in Clients, peer'[d] # "left" PROVE InLine(d)' BY DEF Lines
    <2>1. InLine(d) BY <1>1 DEF Lines
    <2>2. CASE d # c
        BY <1>1, <2>1, <2>2 DEF InLine, Delivered, Holding, TypeOK
    <2>3. CASE d = c
      <3>1. Len(<<>>) = 0 OBVIOUS
      <3>2. since'[c] = casts /\ casts \in Nat BY <1>1 DEF TypeOK
      <3>3. QED BY <1>1, <1>2, <2>3, <3>1, <3>2 DEF InLine, Delivered, Holding
    <2>4. QED BY <2>2, <2>3
  <1>7. QED BY <1>3, <1>4, <1>5, <1>6

(* Every step keeps the invariant. *)
LEMMA StepIInv == IInv /\ [Next]_vars => IInv'
  <1> SUFFICES ASSUME IInv, [Next]_vars PROVE IInv' OBVIOUS
  <1> USE HubAssumption DEF HubAssumption
  <1>1. CASE UNCHANGED vars
    BY <1>1 DEF vars, hub, IInv, TypeOK, Offer, Untouched, Lines, InLine, Delivered, Holding
  <1>2. CASE Forward
    BY <1>2 DEF Forward, hub, IInv, TypeOK, Offer, Untouched, Lines, InLine, Delivered,
                Holding
  <1>3. ASSUME NEW c \in Clients, Upgrade(c) PROVE IInv'
    BY <1>3 DEF Upgrade, IInv, TypeOK, Offer, Untouched, Lines, InLine, Delivered, Holding
  <1>4. ASSUME NEW c \in Clients, StartPump(c) PROVE IInv'
    BY <1>4 DEF StartPump, hub, IInv, TypeOK, Offer, Untouched, Lines, InLine, Delivered,
                Holding
  <1>5. ASSUME NEW c \in Clients, PumpEnds(c) PROVE IInv'
    BY <1>5 DEF PumpEnds, hub, IInv, TypeOK, Offer, Untouched, Lines, InLine, Delivered,
                Holding
  <1>6. ASSUME NEW c \in Clients, PeerMoves(c) PROVE IInv'
    BY <1>6 DEF PeerMoves, hub, IInv, TypeOK, Offer, Untouched, Lines, InLine, Delivered,
                Holding
  <1>7. QED
    BY <1>1, <1>2, <1>3, <1>4, <1>5, <1>6, BroadcastStep, TakeStep, WriteStep,
       RegisterStep DEF Next, Pump

(* The inductive invariant always holds. *)
LEMMA Invariant == Spec => []IInv
  BY InitIInv, StepIInv, PTL DEF Spec

-----------------------------------------------------------------------------
(* The three parts of a line, put together. *)
LEMMA LineHasNoGap ==
  ASSUME IInv, NEW c \in Clients, peer[c] # "left"
  PROVE  /\ \A i \in 1..Len(Queued(c)) : Queued(c)[i] = since[c] + i
         /\ member[c] = "in" => Len(Queued(c)) = casts - since[c]
  <1> DEFINE g == got[c]
             w == InHand(c)
             s == send[c]
  <1>1. /\ g \in Seq(1..MaxBroadcasts) /\ s \in Seq(1..MaxBroadcasts)
        /\ w \in Seq(1..MaxBroadcasts) /\ Len(w) = Holding(c)
        /\ writing[c] # 0 => w[1] = writing[c]
        /\ since[c] \in Nat /\ casts \in Nat
    <2>1. /\ g \in Seq(1..MaxBroadcasts) /\ s \in Seq(1..MaxBroadcasts)
          /\ since[c] \in Nat /\ casts \in Nat /\ writing[c] \in 0..MaxBroadcasts
        BY HubAssumption DEF HubAssumption, IInv, TypeOK
    <2>2. CASE writing[c] = 0 BY <2>1, <2>2 DEF InHand, Holding
    <2>3. CASE writing[c] # 0
      <3>1. w = <<writing[c]>> /\ writing[c] \in 1..MaxBroadcasts
        BY <2>1, <2>3, HubAssumption DEF InHand, HubAssumption
      <3>2. QED BY <2>1, <2>3, <3>1 DEF Holding
    <2>4. QED BY <2>2, <2>3
  <1>2. InLine(c) BY DEF IInv, Lines
  <1>3. /\ \A i \in 1..Len(g) : g[i] = since[c] + i
        /\ \A i \in 1..Len(w) : w[i] = since[c] + Len(g) + i
        /\ \A i \in 1..Len(s) : s[i] = since[c] + Len(g) + Len(w) + i
        /\ member[c] = "in" => since[c] + Len(g) + Len(w) + Len(s) = casts
    <2>1. \A i \in 1..Len(w) : i = 1 /\ writing[c] # 0 BY <1>1 DEF Holding
    <2>2. QED BY <1>1, <1>2, <2>1 DEF InLine, Delivered
  <1>4. Queued(c) = (g \o w) \o s BY DEF Queued
  <1> HIDE DEF g, w, s
  <1>5. Len(g) \in Nat /\ Len(w) \in Nat /\ Len(s) \in Nat BY <1>1
  <1>6. /\ g \o w \in Seq(1..MaxBroadcasts) /\ Len(g \o w) = Len(g) + Len(w)
        /\ CountsFrom(g \o w, since[c])
    <2>1. CountsFrom(g, since[c]) /\ CountsFrom(w, since[c] + Len(g))
      BY <1>3 DEF CountsFrom
    <2>2. QED BY <1>1, <2>1, ConcatFact
  <1>7. /\ Len((g \o w) \o s) = Len(g \o w) + Len(s)
        /\ CountsFrom((g \o w) \o s, since[c])
    <2>1. since[c] + Len(g \o w) = since[c] + Len(g) + Len(w) BY <1>1, <1>5, <1>6
    <2>2. CountsFrom(s, since[c] + Len(g \o w)) BY <1>3, <2>1 DEF CountsFrom
    <2>3. QED BY <1>1, <1>6, <2>2, ConcatFact
  <1>8. member[c] = "in" => Len((g \o w) \o s) = casts - since[c]
      BY <1>1, <1>3, <1>5, <1>6, <1>7
  <1>9. QED BY <1>4, <1>7, <1>8 DEF CountsFrom

(* The variables keep their types; no buffer ever exceeds its capacity. *)
THEOREM TypeCorrect == Spec => []TypeOK
  <1>1. IInv => TypeOK BY DEF IInv
  <1>2. QED BY <1>1, Invariant, PTL

(* The hub never sends on a channel it has closed. *)
THEOREM NeverSendsOnClosed == Spec => []NoSendOnClosed
  <1>1. IInv => NoSendOnClosed BY DEF IInv, Untouched, NoSendOnClosed, Members
  <1>2. QED BY <1>1, Invariant, PTL

(* A connected browser sees the notifications from its registration on     *)
(* without a gap, and all of them while it is in the hub.                  *)
THEOREM LinesHaveNoGap == Spec => []NoGap
  <1>1. IInv => NoGap BY LineHasNoGap DEF NoGap
  <1>2. QED BY <1>1, Invariant, PTL

-----------------------------------------------------------------------------
(* The promise of Feed: what the browser has, the pump holds and the       *)
(* buffer holds is what it is owed.                                        *)

(* The parts of a line, as they are counted. *)
LEMMA Counts ==
  ASSUME IInv, NEW c \in Clients
  PROVE  /\ Len(InHand(c)) = Holding(c) /\ Holding(c) \in Nat
         /\ Len(got[c]) \in Nat /\ Len(send[c]) \in Nat
         /\ since[c] \in Nat /\ writing[c] \in Nat
  <1>1. Len(<<>>) = 0 /\ Len(<<writing[c]>>) = 1 OBVIOUS
  <1>2. QED BY <1>1, HubAssumption DEF HubAssumption, InHand, Holding, IInv, TypeOK

(* How the parts of a line add up. *)
LEMMA PartsAddUp ==
  /\ \A g, s \in Nat : \A x : x = g + (1 + s) => g < x
  /\ \A g, h, s, k \in Nat : \A x : x = g + (h + s) /\ s >= k => x >= g + k
  OBVIOUS

(* A step that changes none of what Feed looks at. *)
LEMMA Stutters ==
  ASSUME casts' = casts, got' = got,
         \A c \in Clients : Stage(c)' = Stage(c) /\ Base(c)' = Base(c) /\ Owed(c)' = Owed(c)
  PROVE  UNCHANGED Promise!vars
  BY DEF Promise!vars

(* What Feed looks at depends on these alone. *)
LEMMA SameView ==
  ASSUME NEW c \in Clients,
         (peer'[c] = "left") = (peer[c] = "left"), since'[c] = since[c], got'[c] = got[c],
         Backlog(c)' = Backlog(c),
         \/ member'[c] = member[c]
         \/ {member[c], member'[c]} \subseteq {"new", "joining"}
  PROVE  Stage(c)' = Stage(c) /\ Base(c)' = Base(c) /\ Owed(c)' = Owed(c)
  <1>1. Stage(c)' = Stage(c) BY DEF Stage, Gone
  <1>2. Base(c)' = Base(c) BY DEF Base, Gone
  <1>3. Owed(c)' = Owed(c) BY DEF Owed, Gone
  <1>4. QED BY <1>1, <1>2, <1>3

(* A broadcast is a Publish: who is given up has a full buffer. *)
LEMMA BroadcastPublishes == IInv /\ Broadcast => Promise!Publish
  <1> SUFFICES ASSUME IInv, Broadcast PROVE Promise!Publish OBVIOUS
  <1> USE HubAssumption DEF HubAssumption
  <1>1. /\ casts' = casts + 1
        /\ UNCHANGED <<since, writing, peer, got>>
      BY DEF Broadcast, Offer, IInv
  <1> DEFINE slow == {c \in Clients : member[c] = "in" /\ Full(c) /\ ~Gone(c)}
  <1>2. ASSUME NEW c \in Clients
        PROVE  /\ Stage(c)' = IF c \in slow THEN "off" ELSE Stage(c)
               /\ Base(c)' = Base(c)
               /\ Owed(c)' = IF Stage(c) = "on" /\ c \notin slow THEN Owed(c) + 1 ELSE Owed(c)
               /\ c \in slow => Stage(c) = "on" /\ Owed(c) >= Len(got[c]) + SendBuffer
    <2>1. Gone(c)' = Gone(c) /\ Base(c)' = Base(c) /\ InHand(c)' = InHand(c)
        BY <1>1 DEF Gone, Base, InHand
    <2>2. member[c] \in {"new", "joining", "in", "out"} BY DEF IInv, TypeOK
    <2>3. member'[c] = IF member[c] = "in" /\ Full(c) THEN "out" ELSE member[c]
        BY DEF Broadcast, Members
    <2>4. Stage(c)' = IF c \in slow THEN "off" ELSE Stage(c)
        BY <2>1, <2>2, <2>3 DEF Stage
    <2>5. Stage(c) = "on" <=> member[c] = "in" /\ ~Gone(c) BY <2>2 DEF Stage
    <2>6. /\ Len(InHand(c)) \in Nat /\ Len(got[c]) \in Nat /\ Len(send[c]) \in Nat
          /\ got'[c] = got[c]
        BY <1>1, Counts
    <2>7. CASE Gone(c) BY <2>1, <2>4, <2>5, <2>7 DEF Owed
    <2>8. CASE ~Gone(c) /\ member[c] = "in" /\ ~Full(c)
      <3>1. send'[c] = Append(send[c], offered) BY <2>8 DEF Broadcast, Members
      <3>2. Len(send'[c]) = Len(send[c]) + 1
        <4>1. send[c] \in Seq(1..MaxBroadcasts) BY DEF IInv, TypeOK
        <4>2. offered \in 1..MaxBroadcasts BY DEF Broadcast, IInv, TypeOK
        <4>3. QED BY <3>1, <4>1, <4>2, AppendFact
      <3>3. Owed(c) = Len(got[c]) + (Len(InHand(c)) + Len(send[c])) BY <2>8 DEF Owed, Backlog
      <3>4. Owed(c)' = Len(got[c]) + (Len(InHand(c)) + (Len(send[c]) + 1))
          BY <2>1, <2>6, <2>8, <3>2 DEF Owed, Backlog
      <3>5. Owed(c)' = Owed(c) + 1
        <4> DEFINE g == Len(got[c])
                   h == Len(InHand(c))
                   n == Len(send[c])
        <4>1. g \in Nat /\ h \in Nat /\ n \in Nat BY <2>6
        <4>2. Owed(c) = g + (h + n) /\ Owed(c)' = g + (h + (n + 1)) BY <3>3, <3>4
        <4> HIDE DEF g, h, n
        <4>3. QED BY ONLY <4>1, <4>2
      <3>6. QED BY <2>1, <2>4, <2>5, <2>8, <3>5
    <2>9. CASE ~Gone(c) /\ ~(member[c] = "in" /\ ~Full(c))
      <3>1. send'[c] = send[c] BY <2>9 DEF Broadcast, Members
      <3>2. Owed(c)' = Owed(c) BY <2>1, <2>6, <3>1 DEF Owed, Backlog
      <3>3. c \in slow => Owed(c) >= Len(got[c]) + SendBuffer
        <4>1. SUFFICES ASSUME Full(c) PROVE Owed(c) >= Len(got[c]) + SendBuffer OBVIOUS
        <4>2. Len(send[c]) >= SendBuffer BY <4>1 DEF Full
        <4>3. Owed(c) = Len(got[c]) + (Len(InHand(c)) + Len(send[c]))
            BY <2>9 DEF Owed, Backlog
        <4>4. SendBuffer \in Nat OBVIOUS
        <4>5. QED BY <2>6, <4>2, <4>3, <4>4, PartsAddUp
      <3>4. QED BY <2>1, <2>4, <2>5, <2>9, <3>2, <3>3
    <2>10. QED BY <2>7, <2>8, <2>9
  <1> HIDE DEF slow
  <1>3. slow \in SUBSET {c \in Clients : [d \in Clients |-> Stage(d)][c] = "on"
                                         /\ Promise!Behind(c)}
      BY <1>2 DEF slow, Promise!Behind
  <1>4. QED BY <1>1, <1>2, <1>3 DEF Promise!Publish

(* What the pump writes to a browser that reads is the next it is owed. *)
LEMMA WriteDelivers ==
  ASSUME NEW c \in Clients, IInv, Write(c), peer[c] = "reading"
  PROVE  Promise!Deliver(c)
  <1> USE HubAssumption DEF HubAssumption
  <1>1. /\ writing[c] # 0 /\ writing'[c] = 0 /\ ~Gone(c)
        /\ got' = [got EXCEPT ![c] = Append(got[c], writing[c])]
        /\ \A d \in Clients \ {c} : writing'[d] = writing[d] /\ got'[d] = got[d]
        /\ UNCHANGED <<offered, casts, member, since, closed, send, pump, peer>>
      BY DEF Write, hub, Gone, IInv, TypeOK
  <1>2. InLine(c) BY <1>1 DEF IInv, Lines, Gone
  <1>3. writing[c] = since[c] + Len(got[c]) + 1 BY <1>1, <1>2 DEF InLine, Delivered
  <1>4. ASSUME NEW d \in Clients
        PROVE  Stage(d)' = Stage(d) /\ Base(d)' = Base(d) /\ Owed(d)' = Owed(d)
    <2>1. CASE d # c
      <3>1. Backlog(d)' = Backlog(d) BY <1>1, <2>1 DEF Backlog, InHand
      <3>2. QED BY <1>1, <2>1, <3>1, SameView
    <2>2. CASE d = c
      <3>1. Stage(c)' = Stage(c) /\ Base(c)' = Base(c) /\ Gone(c)' = Gone(c)
          BY <1>1 DEF Stage, Base, Gone
      <3>2. /\ Len(got[c]) \in Nat /\ Len(send[c]) \in Nat /\ Len(send[c])' = Len(send[c])
          BY <1>1, Counts
      <3>3. Len(InHand(c)) = 1 /\ Len(InHand(c))' = 0 BY <1>1 DEF InHand
      <3>4. Len(got'[c]) = Len(got[c]) + 1
        <4>1. got[c] \in Seq(1..MaxBroadcasts) /\ writing[c] \in 1..MaxBroadcasts
            BY <1>1 DEF IInv, TypeOK
        <4>2. got'[c] = Append(got[c], writing[c]) BY <1>1 DEF IInv, TypeOK
        <4>3. QED BY <4>1, <4>2, AppendFact
      <3>5. Owed(c) = Len(got[c]) + (1 + Len(send[c])) BY <1>1, <3>3 DEF Owed, Backlog
      <3>6. Owed(c)' = (Len(got[c]) + 1) + (0 + Len(send[c]))
          BY <1>1, <3>1, <3>2, <3>3, <3>4 DEF Owed, Backlog
      <3>7. Owed(c)' = Owed(c)
        <4> DEFINE g == Len(got[c])
                   n == Len(send[c])
        <4>1. g \in Nat /\ n \in Nat BY <3>2
        <4>2. Owed(c) = g + (1 + n) /\ Owed(c)' = (g + 1) + (0 + n) BY <3>5, <3>6
        <4> HIDE DEF g, n
        <4>3. QED BY ONLY <4>1, <4>2
      <3>8. QED BY <2>2, <3>1, <3>7
    <2>3. QED BY <2>1, <2>2
  <1>5. member[c] \in {"in", "out"} BY <1>1 DEF IInv, Untouched, TypeOK
  <1>6. Stage(c) \in {"on", "off"} /\ Base(c) = since[c] BY <1>1, <1>5 DEF Stage, Base
  <1>7. Len(got[c]) < Owed(c)
    <2>1. Len(InHand(c)) = 1 BY <1>1 DEF InHand
    <2>2. Owed(c) = Len(got[c]) + (1 + Len(send[c])) BY <1>1, <2>1 DEF Owed, Backlog
    <2>3. Len(got[c]) \in Nat /\ Len(send[c]) \in Nat BY Counts
    <2>4. QED BY <2>2, <2>3, PartsAddUp
  <1>8. QED BY <1>1, <1>3, <1>4, <1>6, <1>7 DEF Promise!Deliver

(* Every step maps to a step of Feed or to a stutter. *)
LEMMA StepKeepsFeed == IInv /\ [Next]_vars => [Promise!Next]_Promise!vars
  <1> SUFFICES ASSUME IInv, [Next]_vars PROVE Promise!Next \/ UNCHANGED Promise!vars
      OBVIOUS
  <1>1. CASE UNCHANGED vars
    <2>1. ASSUME NEW c \in Clients
          PROVE  Stage(c)' = Stage(c) /\ Base(c)' = Base(c) /\ Owed(c)' = Owed(c)
      BY <1>1 DEF vars, hub, Stage, Base, Owed, Gone, Backlog, InHand
    <2>2. QED BY <1>1, <2>1, Stutters DEF vars
  <1>2. CASE Forward
    <2>1. ASSUME NEW c \in Clients
          PROVE  Stage(c)' = Stage(c) /\ Base(c)' = Base(c) /\ Owed(c)' = Owed(c)
      BY <1>2 DEF Forward, hub, Stage, Base, Owed, Gone, Backlog, InHand
    <2>2. QED BY <1>2, <2>1, Stutters DEF Forward
  <1>3. CASE Broadcast BY <1>3, BroadcastPublishes DEF Promise!Next
  <1>4. ASSUME NEW c \in Clients, Upgrade(c) PROVE UNCHANGED Promise!vars
    <2>1. /\ member[c] = "new" /\ member' = [member EXCEPT ![c] = "joining"]
          /\ UNCHANGED <<casts, since, send, writing, peer, got>>
        BY <1>4 DEF Upgrade
    <2>2. ASSUME NEW d \in Clients
          PROVE  Stage(d)' = Stage(d) /\ Base(d)' = Base(d) /\ Owed(d)' = Owed(d)
      <3>1. Backlog(d)' = Backlog(d) BY <2>1 DEF Backlog, InHand
      <3>2. \/ member'[d] = member[d]
            \/ {member[d], member'[d]} \subseteq {"new", "joining"}
          BY <2>1 DEF IInv, TypeOK
      <3>3. QED BY <2>1, <3>1, <3>2, SameView
    <2>3. QED BY <2>1, <2>2, Stutters
  <1>5. ASSUME NEW c \in Clients, Register(c)
        PROVE  Promise!Next \/ UNCHANGED Promise!vars
    <2>1. /\ member[c] = "joining" /\ member'[c] = "in" /\ since'[c] = casts
          /\ \A d \in Clients \ {c} : member'[d] = member[d] /\ since'[d] = since[d]
          /\ UNCHANGED <<casts, send, writing, peer, got>>
        BY <1>5 DEF Register, IInv, TypeOK
    <2>2. ASSUME NEW d \in Clients PROVE Gone(d)' = Gone(d) /\ Owed(d)' = Owed(d)
      BY <2>1 DEF Gone, Owed, Backlog, InHand
    <2>3. ASSUME NEW d \in Clients, d # c \/ Gone(c)
          PROVE  Stage(d)' = Stage(d) /\ Base(d)' = Base(d)
      BY <2>1, <2>2, <2>3 DEF Stage, Base
    <2>4. CASE Gone(c) BY <2>1, <2>2, <2>3, <2>4, Stutters
    <2>5. CASE ~Gone(c)
      <3>1. Stage(c) = "away" /\ Stage(c)' = "on" /\ Base(c)' = casts
          BY <2>1, <2>2, <2>5 DEF Stage, Base
      <3>2. Promise!Join(c) BY <2>1, <2>2, <2>3, <3>1 DEF Promise!Join
      <3>3. QED BY <3>2 DEF Promise!Next
    <2>6. QED BY <2>4, <2>5
  <1>6. ASSUME NEW c \in Clients, StartPump(c) \/ PumpEnds(c)
        PROVE  UNCHANGED Promise!vars
    <2>1. UNCHANGED <<casts, member, since, send, writing, peer, got>>
        BY <1>6 DEF StartPump, PumpEnds, hub
    <2>2. ASSUME NEW d \in Clients
          PROVE  Stage(d)' = Stage(d) /\ Base(d)' = Base(d) /\ Owed(d)' = Owed(d)
      BY <2>1 DEF Stage, Base, Owed, Gone, Backlog, InHand
    <2>3. QED BY <2>1, <2>2, Stutters
  <1>7. ASSUME NEW c \in Clients, Take(c) PROVE UNCHANGED Promise!vars
    <2>1. /\ writing[c] = 0 /\ send[c] # <<>> /\ writing'[c] = Head(send[c])
          /\ send'[c] = Tail(send[c])
          /\ \A d \in Clients \ {c} : writing'[d] = writing[d] /\ send'[d] = send[d]
          /\ UNCHANGED <<casts, member, since, peer, got>>
        BY <1>7 DEF Take, hub, IInv, TypeOK
    <2>2. send[c] \in Seq(1..MaxBroadcasts) /\ Len(send[c]) \in Nat
        BY HubAssumption DEF HubAssumption, IInv, TypeOK
    <2>3. Head(send[c]) \in 1..MaxBroadcasts /\ Len(Tail(send[c])) = Len(send[c]) - 1
        BY <2>1, <2>2, TailFact
    <2>4. Len(InHand(c)) = 0 /\ Len(InHand(c))' = 1
      <3>1. writing'[c] # 0 BY <2>1, <2>3, HubAssumption DEF HubAssumption
      <3>2. QED BY <2>1, <3>1 DEF InHand
    <2>5. ASSUME NEW d \in Clients PROVE Backlog(d)' = Backlog(d)
      <3>1. CASE d # c BY <2>1, <3>1 DEF Backlog, InHand
      <3>2. CASE d = c
        <4>1. Len(send[c])' = Len(send[c]) - 1 BY <2>1, <2>3
        <4>2. 1 + (Len(send[c]) - 1) = 0 + Len(send[c]) BY <2>2
        <4>3. QED BY <2>4, <3>2, <4>1, <4>2 DEF Backlog
      <3>3. QED BY <3>1, <3>2
    <2>6. ASSUME NEW d \in Clients
          PROVE  Stage(d)' = Stage(d) /\ Base(d)' = Base(d) /\ Owed(d)' = Owed(d)
      BY <2>1, <2>5, SameView
    <2>7. QED BY <2>1, <2>6, Stutters
  <1>8. ASSUME NEW c \in Clients, Write(c)
        PROVE  Promise!Next \/ UNCHANGED Promise!vars
    <2>1. CASE peer[c] = "reading" BY <1>8, <2>1, WriteDelivers DEF Promise!Next
    <2>2. CASE peer[c] # "reading"
      <3>1. /\ peer[c] = "left"
            /\ \A d \in Clients \ {c} : writing'[d] = writing[d]
            /\ UNCHANGED <<casts, member, since, send, peer, got>>
          BY <1>8, <2>2 DEF Write, hub, IInv, TypeOK
      <3>2. ASSUME NEW d \in Clients
            PROVE  Stage(d)' = Stage(d) /\ Base(d)' = Base(d) /\ Owed(d)' = Owed(d)
        <4>1. CASE d # c BY <3>1, <4>1 DEF Stage, Base, Owed, Gone, Backlog, InHand
        <4>2. CASE d = c BY <3>1, <4>2 DEF Stage, Base, Owed, Gone
        <4>3. QED BY <4>1, <4>2
      <3>3. QED BY <3>1, <3>2, Stutters
    <2>3. QED BY <2>1, <2>2
  <1>9. ASSUME NEW c \in Clients, PeerMoves(c)
        PROVE  Promise!Next \/ UNCHANGED Promise!vars
    <2>1. /\ peer[c] # "left"
          /\ \A d \in Clients \ {c} : peer'[d] = peer[d]
          /\ UNCHANGED <<casts, member, since, send, writing, got>>
        BY <1>9 DEF PeerMoves, hub, IInv, TypeOK
    <2>2. ASSUME NEW d \in Clients, Gone(d)' = Gone(d)
          PROVE  Stage(d)' = Stage(d) /\ Base(d)' = Base(d) /\ Owed(d)' = Owed(d)
      BY <2>1, <2>2 DEF Stage, Base, Owed, Backlog, InHand
    <2>3. ASSUME NEW d \in Clients, d # c PROVE Gone(d)' = Gone(d)
      BY <2>1, <2>3 DEF Gone
    <2>4. CASE peer'[c] # "left"
      <3>1. Gone(c)' = Gone(c) BY <2>1, <2>4 DEF Gone
      <3>2. QED BY <2>1, <2>2, <2>3, <3>1, Stutters
    <2>5. CASE peer'[c] = "left"
      <3>1. Stage(c)' = "gone" /\ Base(c)' = 0 /\ Owed(c)' = 0
          BY <2>5 DEF Stage, Base, Owed, Gone
      <3>2. Promise!Leave(c) BY <2>1, <2>2, <2>3, <3>1 DEF Promise!Leave
      <3>3. QED BY <3>2 DEF Promise!Next
    <2>6. QED BY <2>4, <2>5
  <1>10. QED
    BY <1>1, <1>2, <1>3, <1>4, <1>5, <1>6, <1>7, <1>8, <1>9 DEF Next, Pump

(* Nobody has joined yet. *)
LEMMA InitKeepsFeed == Init => Promise!Init
  <1> SUFFICES ASSUME Init PROVE Promise!Init OBVIOUS
  <1>1. Len(<<>>) = 0 OBVIOUS
  <1>2. ASSUME NEW c \in Clients
        PROVE  Stage(c) = "away" /\ Base(c) = 0 /\ Owed(c) = 0
    BY <1>1 DEF Init, Stage, Base, Owed, Gone, Backlog, InHand
  <1>3. QED BY <1>2 DEF Init, Promise!Init

(* The hub keeps the promise of Feed: every browser is owed and gets the   *)
(* notifications in order, and is given up only a full buffer behind.      *)
THEOREM KeepsThePromise == Spec => KeepsFeed
  <1>1. Init => Promise!Init BY InitKeepsFeed
  <1>2. IInv /\ [Next]_vars => [Promise!Next]_Promise!vars BY StepKeepsFeed
  <1>3. QED BY <1>1, <1>2, Invariant, PTL DEF Spec, KeepsFeed, Promise!Spec
=============================================================================
