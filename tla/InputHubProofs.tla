--------------------------- MODULE InputHubProofs ---------------------------
(***************************************************************************)
(* One session at a time, controls in their order, releases after their    *)
(* presses, and nothing lost while no connection is, for any number of     *)
(* HTTP threads, input threads, connections and controls.  HubInv follows  *)
(* a control from the queue to the dispatcher: the packets of a connection *)
(* come after those its input thread has delivered and before all that is  *)
(* queued.  KeptInv adds what an unbroken session still has of all that    *)
(* was accepted.                                                           *)
(***************************************************************************)
EXTENDS InputHub, TLAPS

(* A connection that is not there carries nothing, and no input thread     *)
(* reads it; one that its input thread has dropped is read by nobody.      *)
SlotInv ==
  /\ \A c \in Slots : handler[c] = "none" => wire[c] = <<>> /\ c \notin gone
  /\ \A c \in Slots : packets[c] # <<>> => handler[c] = "serving"
  /\ \A c \in gone : wire[c] = <<>> /\ handler[c] # "ended"
  /\ \A g \in Inputs : fd[g] # NoSlot => handler[fd[g]] # "none" /\ fd[g] \notin gone
  /\ \A g, h \in Inputs : fd[g] = fd[h] /\ fd[g] # NoSlot => g = h

(* Controls under way are in the order of acceptance: what an input thread *)
(* has delivered, what is on its connection, what its handler is sending,  *)
(* what is queued.                                                         *)
QueueInv ==
  /\ \A k \in 1..Len(queue) : queue[k] <= accepted
  /\ \A k, l \in 1..Len(queue) : k < l => queue[k] < queue[l]

Before(s, q, a) ==
  \A k \in 1..Len(s) : s[k].event <= a /\ \A l \in 1..Len(q) : s[k].event < q[l]

Ordered(s) == \A k, l \in 1..Len(s) : k < l => Place(s[k]) < Place(s[l])

Below(s, r) == \A k \in 1..Len(s), l \in 1..Len(r) : Place(s[k]) < Place(r[l])

OrderInv ==
  /\ \A c \in Slots :
       /\ Before(packets[c], queue, accepted) /\ Before(wire[c], queue, accepted)
       /\ Ordered(packets[c]) /\ Ordered(wire[c]) /\ Below(wire[c], packets[c])
  /\ \A g \in Inputs :
       /\ Before(delivered[g], queue, accepted) /\ Ordered(delivered[g])
       /\ fd[g] # NoSlot => /\ Below(delivered[g], wire[fd[g]])
                            /\ Below(delivered[g], packets[fd[g]])

(* A release comes directly after the press of its button, wherever the    *)
(* two are on their way.                                                   *)
Joins(p, q) == q.part = "release" => p = [event |-> q.event, part |-> "press"]

Joined(s) == \A k \in 1..(Len(s) - 1) : Joins(s[k], s[k + 1])

(* The packet q may come next after s. *)
Continues(s, q) == IF s = <<>> THEN q.part # "release" ELSE Joins(s[Len(s)], q)

PressInv ==
  /\ \A c \in Slots :
       /\ Joined(packets[c]) /\ Joined(wire[c])
       /\ packets[c] # <<>> /\ wire[c] # <<>> => Continues(wire[c], packets[c][1])
  /\ \A g \in Inputs :
       /\ Joined(delivered[g])
       /\ delivered[g] # <<>> => delivered[g][1].part # "release"
       /\ fd[g] # NoSlot =>
            /\ wire[fd[g]] # <<>> => Continues(delivered[g], wire[fd[g]][1])
            /\ wire[fd[g]] = <<>> /\ packets[fd[g]] # <<>> =>
                 Continues(delivered[g], packets[fd[g]][1])

HubInv == TypeOK /\ OneSession /\ SlotInv /\ QueueInv /\ OrderInv /\ PressInv

-----------------------------------------------------------------------------
LEMMA NumberFacts ==
  /\ Events \subseteq Nat \ {0}
  /\ \A p \in Packet : p.event \in Nat \ {0} /\ Place(p) \in Nat
                       /\ Place(p) >= 2 * p.event /\ Place(p) <= 2 * p.event + 1
<1>1. Events \subseteq Nat \ {0} BY BoundsAssumption DEF Events
<1>2. \A p \in Packet : p.event \in Nat \ {0} BY <1>1 DEF Packet
<1> QED BY <1>1, <1>2 DEF Place

(* A sequence that is not empty, and the rest of it.                       *)
LEMMA TailFacts ==
  ASSUME NEW S, NEW s \in Seq(S), s # <<>>
  PROVE  /\ Head(s) = s[1] /\ s[1] \in S
         /\ Len(s) \in Nat \ {0} /\ 1 \in 1..Len(s)
         /\ Tail(s) \in Seq(S) /\ Len(Tail(s)) = Len(s) - 1
         /\ \A k \in 1..Len(Tail(s)) : Tail(s)[k] = s[k + 1] /\ k + 1 \in 1..Len(s)
OBVIOUS

(* A sequence with an element added.                                       *)
LEMMA AppendFacts ==
  ASSUME NEW S, NEW s \in Seq(S), NEW e \in S
  PROVE  /\ Append(s, e) \in Seq(S) /\ Append(s, e) # <<>>
         /\ Len(s) \in Nat /\ Len(Append(s, e)) = Len(s) + 1
         /\ \A k \in 1..Len(s) : Append(s, e)[k] = s[k]
         /\ Append(s, e)[Len(s) + 1] = e
         /\ \A k \in 1..Len(Append(s, e)) : k \in 1..Len(s) \/ k = Len(s) + 1
<1>1. /\ Append(s, e) \in Seq(S) /\ Len(s) \in Nat /\ Len(Append(s, e)) = Len(s) + 1
      /\ \A k \in 1..Len(s) : Append(s, e)[k] = s[k]
      /\ Append(s, e)[Len(s) + 1] = e
  OBVIOUS
<1>2. Append(s, e) # <<>> BY <1>1
<1>3. \A k \in 1..Len(Append(s, e)) : k \in 1..Len(s) \/ k = Len(s) + 1 BY <1>1
<1> QED BY <1>1, <1>2, <1>3

(* Only the empty sequence has length zero.                                *)
LEMMA EmptyFacts ==
  ASSUME NEW S, NEW s \in Seq(S)
  PROVE  Len(s) \in Nat /\ (s = <<>> <=> Len(s) = 0)
OBVIOUS

(* Nothing is wrong with the empty sequence.                               *)
LEMMA NothingFacts ==
  /\ \A S : <<>> \in Seq(S)
  /\ Ordered(<<>>) /\ Joined(<<>>)
  /\ \A q, a : Before(<<>>, q, a)
  /\ \A s : Below(s, <<>>) /\ Below(<<>>, s)
<1>1. Len(<<>>) = 0 /\ (\A k \in 1..0 : FALSE) /\ (\A k \in 1..(0 - 1) : FALSE) OBVIOUS
<1>2. Ordered(<<>>) /\ Joined(<<>>) BY <1>1 DEF Ordered, Joined
<1>3. \A q, a : Before(<<>>, q, a) BY <1>1 DEF Before
<1>4. \A s : Below(s, <<>>) /\ Below(<<>>, s) BY <1>1 DEF Below
<1> QED BY <1>2, <1>3, <1>4

(* The packets of an event, in order.                                      *)
LEMMA PacketFacts ==
  ASSUME NEW e \in Events
  PROVE  /\ PacketsOf(e) \in Seq(Packet) /\ PacketsOf(e) # <<>>
         /\ \A k \in 1..Len(PacketsOf(e)) : PacketsOf(e)[k].event = e
         /\ PacketsOf(e)[1].part # "release"
         /\ Ordered(PacketsOf(e)) /\ Joined(PacketsOf(e))
<1> DEFINE p == [event |-> e, part |-> "press"]
           r == [event |-> e, part |-> "release"]
           o == [event |-> e, part |-> "single"]
<1>1. p \in Packet /\ r \in Packet /\ o \in Packet BY DEF Packet
<1>2. CASE e \in Buttons
  <2>1. PacketsOf(e) = <<p, r>> BY <1>2 DEF PacketsOf
  <2>2. <<p, r>> \in Seq(Packet) /\ Len(<<p, r>>) = 2 /\ <<p, r>>[1] = p /\ <<p, r>>[2] = r
    BY <1>1
  <2>3. Place(p) < Place(r) BY NumberFacts DEF Place
  <2>4. Ordered(<<p, r>>) BY <2>2, <2>3 DEF Ordered
  <2>5. Joined(<<p, r>>)
    <3>1. Joins(p, r) BY DEF Joins
    <3> QED BY <2>2, <3>1 DEF Joined
  <2>6. <<p, r>> # <<>> BY <2>2
  <2>7. \A k \in 1..Len(<<p, r>>) : <<p, r>>[k].event = e BY <2>2
  <2> QED BY <2>1, <2>2, <2>4, <2>5, <2>6, <2>7
<1>3. CASE e \notin Buttons
  <2>1. PacketsOf(e) = <<o>> BY <1>3 DEF PacketsOf
  <2>2. <<o>> \in Seq(Packet) /\ Len(<<o>>) = 1 /\ <<o>>[1] = o BY <1>1
  <2>3. Ordered(<<o>>) BY <2>2 DEF Ordered
  <2>4. Joined(<<o>>) BY <2>2 DEF Joined
  <2>5. <<o>> # <<>> BY <2>2
  <2>6. \A k \in 1..Len(<<o>>) : <<o>>[k].event = e BY <2>2
  <2> QED BY <2>1, <2>2, <2>3, <2>4, <2>5, <2>6
<1> QED BY <1>2, <1>3

(* Of events in their order, the earlier has the lower places.             *)
LEMMA EventPlace ==
  ASSUME NEW p \in Packet, NEW r \in Packet, p.event < r.event
  PROVE  Place(p) < Place(r)
BY NumberFacts DEF Place

(* The head of r goes to the end of s.                                     *)
LEMMA MoveFacts ==
  ASSUME NEW s \in Seq(Packet), NEW r \in Seq(Packet), r # <<>>,
         Ordered(s), Ordered(r), Below(s, r),
         Joined(s), Joined(r), s # <<>> => Continues(s, r[1])
  PROVE  LET s1 == Append(s, Head(r))
             r1 == Tail(r)
         IN  /\ s1 \in Seq(Packet) /\ r1 \in Seq(Packet) /\ s1 # <<>>
             /\ Ordered(s1) /\ Ordered(r1) /\ Below(s1, r1)
             /\ Joined(s1) /\ Joined(r1)
             /\ r1 # <<>> => Continues(s1, r1[1])
             /\ s1[1] = IF s = <<>> THEN r[1] ELSE s[1]
             /\ s1[Len(s1)] = r[1]
             /\ r1 = <<>> => r[Len(r)] = r[1]
             /\ r1 # <<>> => r1[Len(r1)] = r[Len(r)]
<1> DEFINE s1 == Append(s, Head(r))
           r1 == Tail(r)
<1>1. /\ Head(r) = r[1] /\ r[1] \in Packet /\ Len(r) \in Nat \ {0} /\ 1 \in 1..Len(r)
      /\ r1 \in Seq(Packet) /\ Len(r1) = Len(r) - 1
      /\ \A k \in 1..Len(r1) : r1[k] = r[k + 1] /\ k + 1 \in 1..Len(r)
  BY TailFacts
<1>2. /\ s1 \in Seq(Packet) /\ s1 # <<>> /\ Len(s) \in Nat /\ Len(s1) = Len(s) + 1
      /\ \A k \in 1..Len(s) : s1[k] = s[k]
      /\ s1[Len(s) + 1] = r[1]
      /\ \A k \in 1..Len(s1) : k \in 1..Len(s) \/ k = Len(s) + 1
  BY <1>1, AppendFacts
<1> HIDE DEF s1, r1
<1>3. Ordered(s1)
  <2> SUFFICES ASSUME NEW k \in 1..Len(s1), NEW l \in 1..Len(s1), k < l
               PROVE  Place(s1[k]) < Place(s1[l])
    BY DEF Ordered
  <2>1. k \in 1..Len(s) BY <1>2
  <2>2. CASE l \in 1..Len(s) BY <1>2, <2>1, <2>2 DEF Ordered
  <2>3. CASE l = Len(s) + 1 BY <1>1, <1>2, <2>1, <2>3 DEF Below
  <2> QED BY <1>2, <2>2, <2>3
<1>4. Ordered(r1)
  <2> SUFFICES ASSUME NEW k \in 1..Len(r1), NEW l \in 1..Len(r1), k < l
               PROVE  Place(r1[k]) < Place(r1[l])
    BY DEF Ordered
  <2>1. k + 1 < l + 1 OBVIOUS
  <2> QED BY <1>1, <2>1 DEF Ordered
<1>5. Below(s1, r1)
  <2> SUFFICES ASSUME NEW k \in 1..Len(s1), NEW l \in 1..Len(r1)
               PROVE  Place(s1[k]) < Place(r1[l])
    BY DEF Below
  <2>1. r1[l] = r[l + 1] /\ l + 1 \in 1..Len(r) /\ 1 < l + 1 BY <1>1
  <2>2. CASE k \in 1..Len(s) BY <1>2, <2>1, <2>2 DEF Below
  <2>3. CASE k = Len(s) + 1 BY <1>1, <1>2, <2>1, <2>3 DEF Ordered
  <2> QED BY <1>2, <2>2, <2>3
<1>6. Joined(s1)
  <2> SUFFICES ASSUME NEW k \in 1..(Len(s1) - 1) PROVE Joins(s1[k], s1[k + 1])
    BY DEF Joined
  <2>1. k \in 1..Len(s) BY <1>2
  <2>2. CASE k + 1 \in 1..Len(s)
    <3>1. k \in 1..(Len(s) - 1) BY <1>2, <2>2
    <3> QED BY <1>2, <2>1, <2>2, <3>1 DEF Joined
  <2>3. CASE k = Len(s)
    <3>1. s # <<>> BY <2>1
    <3> QED BY <1>2, <2>1, <2>3, <3>1 DEF Continues
  <2> QED BY <1>2, <2>1, <2>2, <2>3
<1>7. Joined(r1)
  <2> SUFFICES ASSUME NEW k \in 1..(Len(r1) - 1) PROVE Joins(r1[k], r1[k + 1])
    BY DEF Joined
  <2>1. k \in 1..Len(r1) /\ k + 1 \in 1..Len(r1) /\ k + 1 \in 1..(Len(r) - 1) BY <1>1
  <2> QED BY <1>1, <2>1 DEF Joined
<1>8. r1 # <<>> => Continues(s1, r1[1])
  <2>1. CASE r1 # <<>>
    <3>1. 1 \in 1..Len(r1) /\ Len(r1) \in Nat \ {0} BY <1>1, <2>1, TailFacts
    <3>2. 1 \in 1..(Len(r) - 1) /\ r1[1] = r[1 + 1] BY <1>1, <3>1
    <3>3. Joins(r[1], r1[1]) BY <3>2 DEF Joined
    <3> QED BY <1>2, <3>3 DEF Continues
  <2> QED BY <2>1
<1>9. s1[1] = IF s = <<>> THEN r[1] ELSE s[1]
  <2>1. CASE s = <<>>
    <3>1. Len(s) = 0 BY <2>1
    <3> QED BY <1>2, <2>1, <3>1
  <2>2. CASE s # <<>>
    <3>1. 1 \in 1..Len(s) BY <2>2, TailFacts
    <3> QED BY <1>2, <2>2, <3>1
  <2> QED BY <2>1, <2>2
<1>10. r1 = <<>> => r[Len(r)] = r[1]
  <2>1. r1 = <<>> => Len(r1) = 0 OBVIOUS
  <2>2. r1 = <<>> => Len(r) = 1 BY <1>1, <2>1
  <2> QED BY <2>2
<1>11. r1 # <<>> => r1[Len(r1)] = r[Len(r)]
  <2>1. CASE r1 # <<>>
    <3>1. Len(r1) \in Nat \ {0} BY <1>1, <2>1, TailFacts
    <3>2. Len(r1) \in 1..Len(r1) /\ Len(r1) + 1 = Len(r) BY <1>1, <3>1
    <3> QED BY <1>1, <3>2
  <2> QED BY <2>1
<1> QED BY <1>1, <1>2, <1>3, <1>4, <1>5, <1>6, <1>7, <1>8, <1>9, <1>10, <1>11 DEF s1, r1

(* What holds of all packets of two sequences holds after the move.        *)
LEMMA SpanFacts ==
  ASSUME NEW s \in Seq(Packet), NEW r \in Seq(Packet), r # <<>>
  PROVE  /\ \A t : Below(t, s) /\ Below(t, r) => Below(t, Append(s, Head(r)))
         /\ \A t : Below(s, t) /\ Below(r, t) => Below(Append(s, Head(r)), t)
         /\ \A t : Below(t, r) => Below(t, Tail(r))
         /\ \A t : Below(r, t) => Below(Tail(r), t)
         /\ \A q, a : Before(s, q, a) /\ Before(r, q, a) => Before(Append(s, Head(r)), q, a)
         /\ \A q, a : Before(r, q, a) => Before(Tail(r), q, a)
<1> DEFINE s1 == Append(s, Head(r))
           r1 == Tail(r)
<1>1. /\ Head(r) = r[1] /\ r[1] \in Packet /\ 1 \in 1..Len(r)
      /\ \A k \in 1..Len(r1) : r1[k] = r[k + 1] /\ k + 1 \in 1..Len(r)
  BY TailFacts
<1>2. /\ \A k \in 1..Len(s) : s1[k] = s[k]
      /\ s1[Len(s) + 1] = r[1]
      /\ \A k \in 1..Len(s1) : k \in 1..Len(s) \/ k = Len(s) + 1
  BY <1>1, AppendFacts
<1>3. \A k \in 1..Len(s1) : (\E i \in 1..Len(s) : s1[k] = s[i]) \/ (\E i \in 1..Len(r) : s1[k] = r[i])
  BY <1>1, <1>2
<1>4. \A k \in 1..Len(r1) : \E i \in 1..Len(r) : r1[k] = r[i] BY <1>1
<1> HIDE DEF s1, r1
<1>5. \A t : Below(t, s) /\ Below(t, r) => Below(t, s1) BY <1>3 DEF Below
<1>6. \A t : Below(s, t) /\ Below(r, t) => Below(s1, t) BY <1>3 DEF Below
<1>7. \A t : Below(t, r) => Below(t, r1) BY <1>4 DEF Below
<1>8. \A t : Below(r, t) => Below(r1, t) BY <1>4 DEF Below
<1>9. \A q, a : Before(s, q, a) /\ Before(r, q, a) => Before(s1, q, a) BY <1>3 DEF Before
<1>10. \A q, a : Before(r, q, a) => Before(r1, q, a) BY <1>4 DEF Before
<1> QED BY <1>5, <1>6, <1>7, <1>8, <1>9, <1>10 DEF s1, r1

(* Taken from the queue, an event comes after all that was taken before.   *)
LEMMA TakeFacts ==
  ASSUME NEW s \in Seq(Packet), NEW e \in Events, NEW q \in Seq(Events), NEW a,
         q # <<>>, e = Head(q), Before(s, q, a)
  PROVE  Below(s, PacketsOf(e)) /\ Before(s, Tail(q), a)
<1>1. /\ e = q[1] /\ 1 \in 1..Len(q)
      /\ \A k \in 1..Len(Tail(q)) : Tail(q)[k] = q[k + 1] /\ k + 1 \in 1..Len(q)
  BY TailFacts
<1>2. \A k \in 1..Len(PacketsOf(e)) : PacketsOf(e)[k] \in Packet /\ PacketsOf(e)[k].event = e
  BY PacketFacts
<1>3. \A k \in 1..Len(s) : s[k] \in Packet /\ s[k].event < e BY <1>1 DEF Before
<1>4. Below(s, PacketsOf(e)) BY <1>2, <1>3, EventPlace DEF Below
<1>5. Before(s, Tail(q), a) BY <1>1 DEF Before
<1> QED BY <1>4, <1>5

(* What is behind all of the queue is behind the rest of it, and behind an *)
(* event that is accepted now.                                             *)
LEMMA QueueFacts ==
  ASSUME NEW s \in Seq(Packet), NEW q \in Seq(Events), NEW a \in Nat, Before(s, q, a)
  PROVE  /\ q # <<>> => Before(s, Tail(q), a)
         /\ a + 1 \in Events => Before(s, Append(q, a + 1), a + 1)
<1>1. ASSUME q # <<>> PROVE Before(s, Tail(q), a)
  <2>1. \A k \in 1..Len(Tail(q)) : Tail(q)[k] = q[k + 1] /\ k + 1 \in 1..Len(q)
    BY <1>1, TailFacts
  <2> QED BY <2>1 DEF Before
<1>2. ASSUME a + 1 \in Events PROVE Before(s, Append(q, a + 1), a + 1)
  <2> DEFINE q1 == Append(q, a + 1)
  <2>1. /\ \A k \in 1..Len(q) : q1[k] = q[k]
        /\ q1[Len(q) + 1] = a + 1
        /\ \A k \in 1..Len(q1) : k \in 1..Len(q) \/ k = Len(q) + 1
    BY <1>2, AppendFacts
  <2> HIDE DEF q1
  <2> SUFFICES ASSUME NEW k \in 1..Len(s)
               PROVE  s[k].event <= a + 1 /\ \A l \in 1..Len(q1) : s[k].event < q1[l]
    BY DEF Before, q1
  <2>2. s[k].event \in Nat /\ s[k].event <= a BY NumberFacts DEF Before
  <2>3. \A l \in 1..Len(q1) : s[k].event < q1[l]
    <3> TAKE l \in 1..Len(q1)
    <3>1. CASE l \in 1..Len(q) BY <2>1, <3>1 DEF Before
    <3>2. CASE l = Len(q) + 1 BY <2>1, <2>2, <3>2
    <3> QED BY <2>1, <3>1, <3>2
  <2> QED BY <2>2, <2>3
<1> QED BY <1>1, <1>2

-----------------------------------------------------------------------------
(* The types in the forms the steps need.                                  *)
LEMMA TypeFacts ==
  ASSUME TypeOK
  PROVE  /\ queue \in Seq(Events) /\ accepted \in Nat
         /\ \A c \in Slots : packets[c] \in Seq(Packet) /\ wire[c] \in Seq(Packet)
         /\ \A g \in Inputs : delivered[g] \in Seq(Packet)
         /\ \A g \in Inputs : fd[g] # NoSlot => fd[g] \in Slots
BY BoundsAssumption DEF TypeOK

(* A step that moves no control.                                           *)
LEMMA QuietStep ==
  ASSUME HubInv, UNCHANGED <<queue, accepted, packets, wire, fd, delivered>>
  PROVE  QueueInv' /\ OrderInv' /\ PressInv'
BY DEF HubInv, QueueInv, OrderInv, PressInv

(* A step that begins and ends no session.                                 *)
LEMMA SameSession ==
  ASSUME HubInv, UNCHANGED connected,
         \A c \in Slots : handler'[c] \in {"serving", "probe", "leaving"}
                            <=> handler[c] \in {"serving", "probe", "leaving"}
  PROVE  OneSession'
BY DEF HubInv, OneSession, InSession

LEMMA InitHub == ASSUME Init PROVE HubInv
<1>1. TypeOK
  <2>1. \A S : <<>> \in Seq(S) BY NothingFacts
  <2>2. /\ packets \in [Slots -> Seq(Packet)] /\ wire \in [Slots -> Seq(Packet)]
        /\ delivered \in [Inputs -> Seq(Packet)] /\ queue \in Seq(Events)
    BY <2>1 DEF Init
  <2>3. Len(queue) <= QueueBound
    <3>1. Len(queue) = 0 BY DEF Init
    <3> QED BY <3>1, BoundsAssumption
  <2>4. accepted \in 0..MaxEvents /\ sent \in Nat BY BoundsAssumption DEF Init
  <2>5. connected \in BOOLEAN /\ broken \in BOOLEAN BY Zenon DEF Init
  <2>6. /\ submit \in [Submitters -> {"idle", "checked"}]
        /\ handler \in [Slots -> {"none", "new", "serving", "probe", "leaving", "draining", "ended"}]
        /\ gone \subseteq Slots /\ fd \in [Inputs -> Slots \cup {NoSlot}]
    BY DEF Init
  <2> QED BY <2>2, <2>3, <2>4, <2>5, <2>6 DEF TypeOK
<1>2. OneSession BY DEF Init, OneSession, InSession
<1>3. SlotInv BY DEF Init, SlotInv
<1>4. QueueInv
  <2>1. \A k \in 1..Len(queue) : FALSE BY DEF Init
  <2> QED BY <2>1 DEF QueueInv
<1>5. OrderInv BY NothingFacts DEF Init, OrderInv
<1>6. PressInv BY NothingFacts DEF Init, PressInv
<1> QED BY <1>1, <1>2, <1>3, <1>4, <1>5, <1>6 DEF HubInv

-----------------------------------------------------------------------------
(* submit: looking at connected, or giving up, moves nothing.              *)
LEMMA CheckStep ==
  ASSUME HubInv, NEW s \in Submitters, Check(s) \/ Full(s)
  PROVE  HubInv'
<1>1. /\ UNCHANGED <<connected, queue, accepted, sent, handler, packets, wire, gone, fd, delivered, broken>>
      /\ submit' \in [Submitters -> {"idle", "checked"}]
  BY DEF HubInv, TypeOK, Check, Full, hub
<1>2. TypeOK' BY <1>1 DEF HubInv, TypeOK
<1>3. OneSession' BY <1>1, SameSession
<1>4. SlotInv' BY <1>1 DEF HubInv, SlotInv
<1>5. QueueInv' /\ OrderInv' /\ PressInv' BY <1>1, QuietStep
<1> QED BY <1>2, <1>3, <1>4, <1>5 DEF HubInv

(* A control is queued behind all others.                                  *)
LEMMA PutStep == ASSUME HubInv, NEW s \in Submitters, Put(s) PROVE HubInv'
<1>0. TypeOK /\ OneSession /\ SlotInv /\ QueueInv /\ OrderInv /\ PressInv BY DEF HubInv
<1>1. /\ UNCHANGED <<connected, sent, handler, packets, wire, gone, fd, delivered, broken>>
      /\ submit' \in [Submitters -> {"idle", "checked"}]
      /\ queue' = Append(queue, accepted + 1) /\ accepted' = accepted + 1
      /\ accepted < MaxEvents /\ Len(queue) < QueueBound
  BY <1>0 DEF TypeOK, Put
<1>2. queue \in Seq(Events) /\ accepted \in Nat /\ accepted + 1 \in Events
  BY <1>0, <1>1, TypeFacts, BoundsAssumption DEF Events
<1>3. /\ queue' \in Seq(Events) /\ Len(queue) \in Nat /\ Len(queue') = Len(queue) + 1
      /\ \A k \in 1..Len(queue) : queue'[k] = queue[k]
      /\ queue'[Len(queue) + 1] = accepted + 1
      /\ \A k \in 1..Len(queue') : k \in 1..Len(queue) \/ k = Len(queue) + 1
  BY <1>1, <1>2, AppendFacts
<1>4. TypeOK'
  <2>1. Len(queue') <= QueueBound BY <1>1, <1>3, BoundsAssumption
  <2>2. accepted' \in 0..MaxEvents BY <1>1, <1>2, BoundsAssumption
  <2> QED BY <1>0, <1>1, <1>3, <2>1, <2>2 DEF TypeOK
<1>5. OneSession' BY <1>1, SameSession
<1>6. SlotInv' BY <1>0, <1>1 DEF SlotInv
<1>7. QueueInv'
  <2>1. \A k \in 1..Len(queue) : queue[k] \in Nat /\ queue[k] <= accepted
    <3>1. \A k \in 1..Len(queue) : queue[k] \in Events BY <1>2
    <3> QED BY <1>0, <3>1, NumberFacts DEF QueueInv
  <2>2. \A k \in 1..Len(queue') : queue'[k] <= accepted' BY <1>1, <1>2, <1>3, <2>1
  <2>3. ASSUME NEW k \in 1..Len(queue'), NEW l \in 1..Len(queue'), k < l
        PROVE  queue'[k] < queue'[l]
    <3>1. k \in 1..Len(queue) BY <1>3, <2>3
    <3>2. CASE l \in 1..Len(queue) BY <1>0, <1>3, <2>3, <3>1, <3>2 DEF QueueInv
    <3>3. CASE l = Len(queue) + 1 BY <1>2, <1>3, <2>1, <3>1, <3>3
    <3> QED BY <1>3, <3>2, <3>3
  <2> QED BY <2>2, <2>3 DEF QueueInv
<1>8. OrderInv'
  <2>1. \A t \in Seq(Packet) : Before(t, queue, accepted) => Before(t, queue', accepted')
    BY <1>1, <1>2, QueueFacts
  <2> QED BY <1>0, <1>1, <2>1, TypeFacts DEF OrderInv
<1>9. PressInv' BY <1>0, <1>1 DEF PressInv
<1> QED BY <1>4, <1>5, <1>6, <1>7, <1>8, <1>9 DEF HubInv

-----------------------------------------------------------------------------
(* A session begins when there is none.                                    *)
LEMMA BeginStep == ASSUME HubInv, NEW c \in Slots, Begin(c) PROVE HubInv'
<1>0. TypeOK /\ OneSession /\ SlotInv /\ QueueInv /\ OrderInv /\ PressInv BY DEF HubInv
<1>1. /\ UNCHANGED <<submit, queue, accepted, sent, packets, wire, gone, fd, delivered, broken>>
      /\ handler[c] = "new" /\ ~connected /\ connected' = TRUE
      /\ handler' = [handler EXCEPT ![c] = "serving"]
  BY DEF Begin
<1>2. handler'[c] = "serving" /\ \A d \in Slots : d # c => handler'[d] = handler[d]
  BY <1>0, <1>1 DEF TypeOK
<1>3. TypeOK'
  <2>1. connected' \in BOOLEAN BY <1>1, Zenon
  <2> QED BY <1>0, <1>1, <2>1 DEF TypeOK
<1>4. OneSession'
  <2>1. \A d \in Slots : handler[d] \notin {"serving", "probe", "leaving"}
    BY <1>0, <1>1 DEF OneSession, InSession
  <2> QED BY <1>1, <1>2, <2>1 DEF OneSession, InSession
<1>5. SlotInv'
  <2>1. \A d \in Slots : handler'[d] = handler[d] \/ (d = c /\ handler'[d] = "serving") BY <1>2
  <2>2. \A g \in Inputs : fd[g] # NoSlot => fd[g] \in Slots BY <1>0, TypeFacts
  <2>3. gone \subseteq Slots BY <1>0 DEF TypeOK
  <2> QED BY <1>0, <1>1, <2>1, <2>2, <2>3 DEF SlotInv
<1>6. QueueInv' /\ OrderInv' /\ PressInv' BY <1>1, QuietStep
<1> QED BY <1>3, <1>4, <1>5, <1>6 DEF HubInv

(* A connection is turned away, or its session is over: the handler ends.  *)
LEMMA FinishStep ==
  ASSUME HubInv, NEW c \in Slots, Refuse(c) \/ End(c)
  PROVE  HubInv'
<1>0. TypeOK /\ OneSession /\ SlotInv /\ QueueInv /\ OrderInv /\ PressInv BY DEF HubInv
<1>1. /\ UNCHANGED <<submit, connected, queue, accepted, sent, packets, wire, fd, delivered, broken>>
      /\ handler[c] \in {"new", "draining"} /\ gone' = gone \ {c}
      /\ handler' = [handler EXCEPT ![c] = IF c \in gone THEN "none" ELSE "ended"]
  BY DEF Refuse, End, Finished, hub
<1>2. /\ handler'[c] = IF c \in gone THEN "none" ELSE "ended"
      /\ \A d \in Slots : d # c => handler'[d] = handler[d]
  BY <1>0, <1>1 DEF TypeOK
<1>3. TypeOK' BY <1>0, <1>1 DEF TypeOK
<1>4. OneSession' BY <1>0, <1>1, <1>2, SameSession
<1>5. SlotInv'
  <2>1. packets[c] = <<>> BY <1>0, <1>1 DEF SlotInv
  <2>2. \A d \in Slots : handler'[d] = "none" => wire[d] = <<>> /\ d \notin gone'
    BY <1>0, <1>1, <1>2 DEF SlotInv
  <2>3. \A d \in Slots : packets[d] # <<>> => handler'[d] = "serving"
    BY <1>0, <1>2, <2>1 DEF SlotInv
  <2>4. \A d \in gone' : wire[d] = <<>> /\ handler'[d] # "ended"
    BY <1>0, <1>1, <1>2 DEF SlotInv, TypeOK
  <2>5. \A g \in Inputs : fd[g] # NoSlot => handler'[fd[g]] # "none" /\ fd[g] \notin gone'
    BY <1>0, <1>1, <1>2, TypeFacts DEF SlotInv
  <2> QED BY <1>0, <1>1, <2>2, <2>3, <2>4, <2>5 DEF SlotInv
<1>6. QueueInv' /\ OrderInv' /\ PressInv' BY <1>1, QuietStep
<1> QED BY <1>3, <1>4, <1>5, <1>6 DEF HubInv

(* The handler looks for end of file, or leaves after it.                  *)
LEMMA ProbeStep ==
  ASSUME HubInv, NEW c \in Slots, Empty(c) \/ Probe(c)
  PROVE  HubInv'
<1>0. TypeOK /\ OneSession /\ SlotInv /\ QueueInv /\ OrderInv /\ PressInv BY DEF HubInv
<1>1. UNCHANGED <<submit, connected, queue, accepted, sent, packets, wire, gone, fd, delivered, broken>>
  BY DEF Empty, Probe, hub
<1>2. PICK to \in {"serving", "probe", "leaving"} :
        /\ handler[c] \in {"serving", "probe"} /\ packets[c] = <<>>
        /\ handler' = [handler EXCEPT ![c] = to]
  <2>1. CASE Empty(c) BY <2>1 DEF Empty
  <2>2. CASE Probe(c) BY <1>0, <2>2 DEF Probe, SlotInv
  <2> QED BY <2>1, <2>2
<1>3. handler'[c] = to /\ \A d \in Slots : d # c => handler'[d] = handler[d]
  BY <1>0, <1>2 DEF TypeOK
<1>4. TypeOK' BY <1>0, <1>1, <1>2 DEF TypeOK
<1>5. OneSession' BY <1>0, <1>1, <1>2, <1>3, SameSession
<1>6. SlotInv'
  <2>1. \A d \in Slots : handler'[d] = "none" => handler[d] = "none" BY <1>2, <1>3
  <2>2. \A d \in Slots : packets[d] # <<>> => handler'[d] = "serving"
    BY <1>0, <1>2, <1>3 DEF SlotInv
  <2>3. \A d \in gone : handler'[d] # "ended" BY <1>0, <1>2, <1>3 DEF SlotInv, TypeOK
  <2>4. \A g \in Inputs : fd[g] # NoSlot => handler'[fd[g]] # "none"
    BY <1>0, <1>2, <1>3, TypeFacts DEF SlotInv
  <2> QED BY <1>0, <1>1, <2>1, <2>2, <2>3, <2>4 DEF SlotInv
<1>7. QueueInv' /\ OrderInv' /\ PressInv' BY <1>1, QuietStep
<1> QED BY <1>4, <1>5, <1>6, <1>7 DEF HubInv

(* The session ends: only the one there is can clear connected.            *)
LEMMA DisconnectStep == ASSUME HubInv, NEW c \in Slots, Disconnect(c) PROVE HubInv'
<1>0. TypeOK /\ OneSession /\ SlotInv /\ QueueInv /\ OrderInv /\ PressInv BY DEF HubInv
<1>1. /\ UNCHANGED <<submit, queue, accepted, sent, packets, wire, gone, fd, delivered, broken>>
      /\ handler[c] = "leaving" /\ connected' = FALSE
      /\ handler' = [handler EXCEPT ![c] = "draining"]
  BY DEF Disconnect
<1>2. handler'[c] = "draining" /\ \A d \in Slots : d # c => handler'[d] = handler[d]
  BY <1>0, <1>1 DEF TypeOK
<1>3. TypeOK'
  <2>1. connected' \in BOOLEAN BY <1>1, Zenon
  <2> QED BY <1>0, <1>1, <2>1 DEF TypeOK
<1>4. OneSession'
  <2>1. \A d \in Slots : handler[d] \in {"serving", "probe", "leaving"} => d = c
    BY <1>0, <1>1 DEF OneSession, InSession
  <2>2. \A d \in Slots : handler'[d] \notin {"serving", "probe", "leaving"} BY <1>2, <2>1
  <2> QED BY <1>1, <2>2 DEF OneSession, InSession
<1>5. SlotInv'
  <2>1. \A d \in Slots : handler'[d] = handler[d] \/ (d = c /\ handler'[d] = "draining") BY <1>2
  <2>2. packets[c] = <<>> BY <1>0, <1>1 DEF SlotInv
  <2>3. \A g \in Inputs : fd[g] # NoSlot => fd[g] \in Slots BY <1>0, TypeFacts
  <2>4. gone \subseteq Slots BY <1>0 DEF TypeOK
  <2> QED BY <1>0, <1>1, <2>1, <2>2, <2>3, <2>4 DEF SlotInv
<1>6. QueueInv' /\ OrderInv' /\ PressInv' BY <1>1, QuietStep
<1> QED BY <1>3, <1>4, <1>5, <1>6 DEF HubInv

(* The handler takes the oldest event.                                     *)
LEMMA TakeStep == ASSUME HubInv, NEW c \in Slots, Take(c) PROVE HubInv'
<1> DEFINE e == Head(queue)
           p == PacketsOf(e)
<1>0. TypeOK /\ OneSession /\ SlotInv /\ QueueInv /\ OrderInv /\ PressInv BY DEF HubInv
<1>1. /\ UNCHANGED <<submit, connected, accepted, sent, handler, wire, gone, fd, delivered, broken>>
      /\ handler[c] = "serving" /\ packets[c] = <<>> /\ queue # <<>>
      /\ packets' = [packets EXCEPT ![c] = p] /\ queue' = Tail(queue)
  BY DEF Take
<1>2. /\ queue \in Seq(Events) /\ accepted \in Nat
      /\ e = queue[1] /\ e \in Events /\ 1 \in 1..Len(queue) /\ Len(queue) \in Nat
      /\ queue' \in Seq(Events) /\ Len(queue') = Len(queue) - 1
      /\ \A k \in 1..Len(queue') : queue'[k] = queue[k + 1] /\ k + 1 \in 1..Len(queue)
  BY <1>0, <1>1, TailFacts, TypeFacts
<1>3. /\ p \in Seq(Packet) /\ p # <<>> /\ p[1].part # "release" /\ Ordered(p) /\ Joined(p)
      /\ \A k \in 1..Len(p) : p[k].event = e
  BY <1>2, PacketFacts
<1> HIDE DEF p
<1>4. packets'[c] = p /\ \A d \in Slots : d # c => packets'[d] = packets[d]
  BY <1>0, <1>1 DEF TypeOK
<1>5. TypeOK'
  <2>1. Len(queue') <= QueueBound BY <1>0, <1>2, BoundsAssumption DEF TypeOK
  <2>2. packets' \in [Slots -> Seq(Packet)] BY <1>0, <1>1, <1>3 DEF TypeOK
  <2> QED BY <1>0, <1>1, <1>2, <2>1, <2>2 DEF TypeOK
<1>6. OneSession' BY <1>1, SameSession
<1>7. SlotInv' BY <1>0, <1>1, <1>4 DEF SlotInv
<1>8. QueueInv'
  <2>1. \A k \in 1..Len(queue') : queue'[k] <= accepted BY <1>0, <1>2 DEF QueueInv
  <2>2. ASSUME NEW k \in 1..Len(queue'), NEW l \in 1..Len(queue'), k < l
        PROVE  queue'[k] < queue'[l]
    <3>1. k + 1 < l + 1 BY <2>2
    <3> QED BY <1>0, <1>2, <3>1 DEF QueueInv
  <2> QED BY <1>1, <2>1, <2>2 DEF QueueInv
<1>9. \A s \in Seq(Packet) : Before(s, queue, accepted) => Before(s, queue', accepted') /\ Below(s, p)
  BY <1>1, <1>2, TakeFacts DEF p
<1>10. Before(p, queue', accepted')
  <2>1. e <= accepted BY <1>0, <1>2 DEF QueueInv
  <2>2. ASSUME NEW l \in 1..Len(queue') PROVE e < queue'[l]
    <3>1. 1 < l + 1 OBVIOUS
    <3> QED BY <1>0, <1>2, <3>1 DEF QueueInv
  <2> QED BY <1>1, <1>3, <2>1, <2>2 DEF Before
<1>11. OrderInv'
  <2>1. \A d \in Slots : /\ Before(packets'[d], queue', accepted') /\ Before(wire[d], queue', accepted')
                         /\ Ordered(packets'[d]) /\ Ordered(wire[d]) /\ Below(wire[d], packets'[d])
    <3> TAKE d \in Slots
    <3>1. packets[d] \in Seq(Packet) /\ wire[d] \in Seq(Packet) BY <1>0, TypeFacts
    <3>2. CASE d = c BY <1>0, <1>3, <1>4, <1>9, <1>10, <3>1, <3>2 DEF OrderInv
    <3>3. CASE d # c BY <1>0, <1>4, <1>9, <3>1, <3>3 DEF OrderInv
    <3> QED BY <3>2, <3>3
  <2>2. \A g \in Inputs : /\ Before(delivered[g], queue', accepted') /\ Ordered(delivered[g])
                          /\ fd[g] # NoSlot => /\ Below(delivered[g], wire[fd[g]])
                                               /\ Below(delivered[g], packets'[fd[g]])
    <3> TAKE g \in Inputs
    <3>1. delivered[g] \in Seq(Packet) /\ (fd[g] # NoSlot => fd[g] \in Slots) BY <1>0, TypeFacts
    <3>2. Before(delivered[g], queue', accepted') /\ Below(delivered[g], p)
      BY <1>0, <1>9, <3>1 DEF OrderInv
    <3>3. fd[g] # NoSlot => Below(delivered[g], packets'[fd[g]])
      BY <1>0, <1>4, <3>1, <3>2 DEF OrderInv
    <3> QED BY <1>0, <3>2, <3>3 DEF OrderInv
  <2> QED BY <1>1, <2>1, <2>2 DEF OrderInv
<1>12. PressInv'
  <2>1. \A s : Continues(s, p[1]) BY <1>3 DEF Continues, Joins
  <2>2. \A d \in Slots : /\ Joined(packets'[d])
                         /\ packets'[d] # <<>> /\ wire[d] # <<>> => Continues(wire[d], packets'[d][1])
    BY <1>0, <1>3, <1>4, <2>1 DEF PressInv
  <2>3. \A g \in Inputs : fd[g] # NoSlot =>
          (wire[fd[g]] = <<>> /\ packets'[fd[g]] # <<>> => Continues(delivered[g], packets'[fd[g]][1]))
    BY <1>0, <1>4, <2>1, TypeFacts DEF PressInv
  <2> QED BY <1>0, <1>1, <2>2, <2>3 DEF PressInv
<1> QED BY <1>5, <1>6, <1>7, <1>8, <1>11, <1>12 DEF HubInv

(* The queue is emptied.                                                   *)
LEMMA DrainStep == ASSUME HubInv, NEW c \in Slots, Drain(c) PROVE HubInv'
<1>0. TypeOK /\ OneSession /\ SlotInv /\ QueueInv /\ OrderInv /\ PressInv BY DEF HubInv
<1>1. /\ UNCHANGED <<submit, connected, accepted, sent, handler, packets, wire, gone, fd, delivered, broken>>
      /\ queue # <<>> /\ queue' = Tail(queue)
  BY DEF Drain
<1>2. /\ queue \in Seq(Events) /\ accepted \in Nat /\ Len(queue) \in Nat
      /\ queue' \in Seq(Events) /\ Len(queue') = Len(queue) - 1
      /\ \A k \in 1..Len(queue') : queue'[k] = queue[k + 1] /\ k + 1 \in 1..Len(queue)
  BY <1>0, <1>1, TailFacts, TypeFacts
<1>3. TypeOK'
  <2>1. Len(queue') <= QueueBound BY <1>0, <1>2, BoundsAssumption DEF TypeOK
  <2> QED BY <1>0, <1>1, <1>2, <2>1 DEF TypeOK
<1>4. OneSession' BY <1>1, SameSession
<1>5. SlotInv' BY <1>0, <1>1 DEF SlotInv
<1>6. QueueInv'
  <2>1. \A k \in 1..Len(queue') : queue'[k] <= accepted BY <1>0, <1>2 DEF QueueInv
  <2>2. ASSUME NEW k \in 1..Len(queue'), NEW l \in 1..Len(queue'), k < l
        PROVE  queue'[k] < queue'[l]
    <3>1. k + 1 < l + 1 BY <2>2
    <3> QED BY <1>0, <1>2, <3>1 DEF QueueInv
  <2> QED BY <1>1, <2>1, <2>2 DEF QueueInv
<1>7. OrderInv'
  <2>1. \A t \in Seq(Packet) : Before(t, queue, accepted) => Before(t, queue', accepted')
    BY <1>1, <1>2, QueueFacts
  <2> QED BY <1>0, <1>1, <2>1, TypeFacts DEF OrderInv
<1>8. PressInv' BY <1>0, <1>1 DEF PressInv
<1> QED BY <1>3, <1>4, <1>5, <1>6, <1>7, <1>8 DEF HubInv

(* A packet goes onto the connection, or nowhere when the guest has gone.  *)
LEMMA SendStep == ASSUME HubInv, NEW c \in Slots, Send(c) PROVE HubInv'
<1> DEFINE p == packets[c]
           w == wire[c]
<1>0. TypeOK /\ OneSession /\ SlotInv /\ QueueInv /\ OrderInv /\ PressInv BY DEF HubInv
<1>1. /\ UNCHANGED <<submit, connected, queue, accepted, handler, gone, fd, delivered, broken>>
      /\ handler[c] = "serving" /\ p # <<>> /\ sent' = sent + 1
      /\ packets' = [packets EXCEPT ![c] = Tail(p)]
      /\ wire' = IF c \in gone THEN wire ELSE [wire EXCEPT ![c] = Append(w, Head(p))]
  BY DEF Send
<1>2. /\ p \in Seq(Packet) /\ w \in Seq(Packet) /\ p[1] \in Packet
      /\ Ordered(p) /\ Ordered(w) /\ Below(w, p) /\ Joined(p) /\ Joined(w)
      /\ Before(p, queue, accepted) /\ Before(w, queue, accepted)
      /\ w # <<>> => Continues(w, p[1])
  <2>1. p \in Seq(Packet) /\ w \in Seq(Packet) BY <1>0, TypeFacts
  <2>2. p[1] \in Packet BY <1>1, <2>1, TailFacts
  <2> QED BY <1>0, <1>1, <2>1, <2>2 DEF OrderInv, PressInv
<1>3. /\ Append(w, Head(p)) \in Seq(Packet) /\ Tail(p) \in Seq(Packet) /\ Append(w, Head(p)) # <<>>
      /\ Ordered(Append(w, Head(p))) /\ Ordered(Tail(p)) /\ Below(Append(w, Head(p)), Tail(p))
      /\ Joined(Append(w, Head(p))) /\ Joined(Tail(p))
      /\ Tail(p) # <<>> => Continues(Append(w, Head(p)), Tail(p)[1])
      /\ Append(w, Head(p))[1] = IF w = <<>> THEN p[1] ELSE w[1]
  BY <1>1, <1>2, MoveFacts
<1>4. /\ \A t : Below(t, w) /\ Below(t, p) => Below(t, Append(w, Head(p)))
      /\ \A t : Below(t, p) => Below(t, Tail(p))
      /\ Before(Append(w, Head(p)), queue, accepted) /\ Before(Tail(p), queue, accepted)
  BY <1>1, <1>2, SpanFacts
<1>5. packets'[c] = Tail(p) /\ \A d \in Slots : d # c => packets'[d] = packets[d]
  BY <1>0, <1>1 DEF TypeOK
<1>6. /\ c \in gone => wire' = wire /\ w = <<>>
      /\ c \notin gone => wire'[c] = Append(w, Head(p))
      /\ \A d \in Slots : d # c => wire'[d] = wire[d]
  BY <1>0, <1>1 DEF TypeOK, SlotInv
<1>7. TypeOK'
  <2>1. wire' \in [Slots -> Seq(Packet)] BY <1>0, <1>1, <1>3 DEF TypeOK
  <2>2. packets' \in [Slots -> Seq(Packet)] BY <1>0, <1>1, <1>3 DEF TypeOK
  <2>3. sent' \in Nat BY <1>0, <1>1 DEF TypeOK
  <2> QED BY <1>0, <1>1, <2>1, <2>2, <2>3 DEF TypeOK
<1>8. OneSession' BY <1>1, SameSession
<1>9. SlotInv'
  <2>1. \A d \in Slots : handler[d] = "none" => wire'[d] = <<>> BY <1>0, <1>1, <1>6 DEF SlotInv
  <2>2. \A d \in Slots : packets'[d] # <<>> => handler[d] = "serving" BY <1>0, <1>1, <1>5 DEF SlotInv
  <2>3. \A d \in gone : wire'[d] = <<>> BY <1>0, <1>6 DEF SlotInv, TypeOK
  <2> QED BY <1>0, <1>1, <2>1, <2>2, <2>3 DEF SlotInv
<1>10. QueueInv' BY <1>0, <1>1 DEF QueueInv
<1>11. OrderInv'
  <2>1. \A d \in Slots : /\ Before(packets'[d], queue, accepted) /\ Before(wire'[d], queue, accepted)
                         /\ Ordered(packets'[d]) /\ Ordered(wire'[d]) /\ Below(wire'[d], packets'[d])
    <3> TAKE d \in Slots
    <3>1. CASE d # c BY <1>0, <1>5, <1>6, <3>1 DEF OrderInv
    <3>2. CASE d = c /\ c \notin gone BY <1>3, <1>4, <1>5, <1>6, <3>2
    <3>3. CASE d = c /\ c \in gone
      <4>1. wire'[d] = <<>> /\ packets'[d] = Tail(p) BY <1>5, <1>6, <3>3
      <4> QED BY <1>3, <1>4, <4>1, NothingFacts
    <3> QED BY <3>1, <3>2, <3>3
  <2>2. \A g \in Inputs : fd[g] # NoSlot => /\ Below(delivered[g], wire'[fd[g]])
                                            /\ Below(delivered[g], packets'[fd[g]])
    <3> SUFFICES ASSUME NEW g \in Inputs, fd[g] # NoSlot
                 PROVE  Below(delivered[g], wire'[fd[g]]) /\ Below(delivered[g], packets'[fd[g]])
      OBVIOUS
    <3>1. /\ fd[g] \in Slots /\ fd[g] \notin gone
          /\ Below(delivered[g], wire[fd[g]]) /\ Below(delivered[g], packets[fd[g]])
      BY <1>0, TypeFacts DEF SlotInv, OrderInv
    <3>2. CASE fd[g] # c BY <1>5, <1>6, <3>1, <3>2
    <3>3. CASE fd[g] = c BY <1>4, <1>5, <1>6, <3>1, <3>3
    <3> QED BY <3>2, <3>3
  <2> QED BY <1>0, <1>1, <2>1, <2>2 DEF OrderInv
<1>12. PressInv'
  <2>1. \A d \in Slots : /\ Joined(packets'[d]) /\ Joined(wire'[d])
                         /\ packets'[d] # <<>> /\ wire'[d] # <<>> => Continues(wire'[d], packets'[d][1])
    <3> TAKE d \in Slots
    <3>1. CASE d # c BY <1>0, <1>5, <1>6, <3>1 DEF PressInv
    <3>2. CASE d = c /\ c \notin gone BY <1>3, <1>5, <1>6, <3>2
    <3>3. CASE d = c /\ c \in gone BY <1>2, <1>3, <1>5, <1>6, <3>3
    <3> QED BY <3>1, <3>2, <3>3
  <2>2. ASSUME NEW g \in Inputs, fd[g] # NoSlot
        PROVE  /\ wire'[fd[g]] # <<>> => Continues(delivered[g], wire'[fd[g]][1])
               /\ wire'[fd[g]] = <<>> /\ packets'[fd[g]] # <<>> =>
                    Continues(delivered[g], packets'[fd[g]][1])
    <3>1. /\ fd[g] \in Slots /\ fd[g] \notin gone
          /\ wire[fd[g]] # <<>> => Continues(delivered[g], wire[fd[g]][1])
          /\ wire[fd[g]] = <<>> /\ packets[fd[g]] # <<>> => Continues(delivered[g], packets[fd[g]][1])
      BY <1>0, <2>2, TypeFacts DEF SlotInv, PressInv
    <3>2. CASE fd[g] # c BY <1>5, <1>6, <3>1, <3>2
    <3>3. CASE fd[g] = c
      <4>1. wire'[c] = Append(w, Head(p)) /\ wire'[c] # <<>> BY <1>3, <1>6, <3>1, <3>3
      <4>2. Continues(delivered[g], wire'[c][1]) BY <1>1, <1>3, <3>1, <3>3, <4>1
      <4> QED BY <3>3, <4>1, <4>2
    <3> QED BY <3>2, <3>3
  <2> QED BY <1>0, <1>1, <2>1, <2>2 DEF PressInv
<1> QED BY <1>7, <1>8, <1>9, <1>10, <1>11, <1>12 DEF HubInv

(* The rest of an event is lost.                                           *)
LEMMA SendFailsStep == ASSUME HubInv, NEW c \in Slots, SendFails(c) PROVE HubInv'
<1>0. TypeOK /\ OneSession /\ SlotInv /\ QueueInv /\ OrderInv /\ PressInv BY DEF HubInv
<1>1. /\ UNCHANGED <<submit, connected, queue, accepted, sent, wire, gone, fd, delivered>>
      /\ handler[c] = "serving" /\ broken' = TRUE
      /\ handler' = [handler EXCEPT ![c] = "leaving"] /\ packets' = [packets EXCEPT ![c] = <<>>]
  BY DEF SendFails, hub
<1>2. handler'[c] = "leaving" /\ \A d \in Slots : d # c => handler'[d] = handler[d]
  BY <1>0, <1>1 DEF TypeOK
<1>3. packets'[c] = <<>> /\ \A d \in Slots : d # c => packets'[d] = packets[d]
  BY <1>0, <1>1 DEF TypeOK
<1>4. TypeOK'
  <2>1. broken' \in BOOLEAN BY <1>1, Zenon
  <2>2. packets' \in [Slots -> Seq(Packet)] BY <1>0, <1>1, NothingFacts DEF TypeOK
  <2> QED BY <1>0, <1>1, <2>1, <2>2 DEF TypeOK
<1>5. OneSession' BY <1>0, <1>1, <1>2, SameSession
<1>6. SlotInv'
  <2>1. \A d \in Slots : handler'[d] = handler[d] \/ (d = c /\ handler'[d] = "leaving") BY <1>2
  <2>2. \A d \in Slots : packets'[d] # <<>> => handler'[d] = "serving" BY <1>0, <1>2, <1>3 DEF SlotInv
  <2>3. \A g \in Inputs : fd[g] # NoSlot => fd[g] \in Slots BY <1>0, TypeFacts
  <2>4. gone \subseteq Slots BY <1>0 DEF TypeOK
  <2> QED BY <1>0, <1>1, <2>1, <2>2, <2>3, <2>4 DEF SlotInv
<1>7. QueueInv' BY <1>0, <1>1 DEF QueueInv
<1>8. \A d \in Slots : packets'[d] = packets[d] \/ packets'[d] = <<>> BY <1>3
<1>9. OrderInv' BY <1>0, <1>1, <1>8, NothingFacts, TypeFacts DEF OrderInv
<1>10. PressInv' BY <1>0, <1>1, <1>8, NothingFacts, TypeFacts DEF PressInv
<1> QED BY <1>4, <1>5, <1>6, <1>7, <1>9, <1>10 DEF HubInv

-----------------------------------------------------------------------------
(* An input thread gets a connection that carries nothing yet.             *)
LEMMA ConnectStep == ASSUME HubInv, NEW g \in Inputs, Connect(g) PROVE HubInv'
<1>0. TypeOK /\ OneSession /\ SlotInv /\ QueueInv /\ OrderInv /\ PressInv BY DEF HubInv
<1>1. /\ UNCHANGED <<submit, connected, queue, accepted, sent, packets, wire, gone, delivered, broken>>
      /\ fd[g] = NoSlot
  BY DEF Connect, hub
<1>2. PICK c \in Slots : /\ handler[c] = "none"
                         /\ handler' = [handler EXCEPT ![c] = "new"] /\ fd' = [fd EXCEPT ![g] = c]
  BY DEF Connect
<1>3. handler'[c] = "new" /\ \A d \in Slots : d # c => handler'[d] = handler[d]
  BY <1>0, <1>2 DEF TypeOK
<1>4. fd'[g] = c /\ \A h \in Inputs : h # g => fd'[h] = fd[h] BY <1>0, <1>2 DEF TypeOK
<1>5. packets[c] = <<>> /\ wire[c] = <<>> /\ c \notin gone BY <1>0, <1>2 DEF SlotInv
<1>6. TypeOK' BY <1>0, <1>1, <1>2 DEF TypeOK
<1>7. OneSession' BY <1>1, <1>2, <1>3, SameSession
<1>8. SlotInv'
  <2>1. \A d \in Slots : handler'[d] = "none" => wire[d] = <<>> /\ d \notin gone
    BY <1>0, <1>3 DEF SlotInv
  <2>2. \A d \in Slots : packets[d] # <<>> => handler'[d] = "serving" BY <1>0, <1>3, <1>5 DEF SlotInv
  <2>3. \A d \in gone : wire[d] = <<>> /\ handler'[d] # "ended" BY <1>0, <1>3 DEF SlotInv, TypeOK
  <2>4. \A h \in Inputs : h # g /\ fd[h] # NoSlot => fd[h] # c BY <1>0, <1>2 DEF SlotInv
  <2>5. \A h \in Inputs : fd'[h] # NoSlot => handler'[fd'[h]] # "none" /\ fd'[h] \notin gone
    BY <1>0, <1>3, <1>4, <1>5, <2>4, TypeFacts DEF SlotInv
  <2>6. \A h, i \in Inputs : fd'[h] = fd'[i] /\ fd'[h] # NoSlot => h = i
    BY <1>0, <1>4, <2>4 DEF SlotInv
  <2> QED BY <1>1, <2>1, <2>2, <2>3, <2>5, <2>6 DEF SlotInv
<1>9. QueueInv' BY <1>0, <1>1 DEF QueueInv
<1>10. OrderInv'
  <2>1. \A h \in Inputs : fd'[h] # NoSlot => Below(delivered[h], wire[fd'[h]]) /\ Below(delivered[h], packets[fd'[h]])
    BY <1>0, <1>4, <1>5, NothingFacts DEF OrderInv
  <2> QED BY <1>0, <1>1, <2>1 DEF OrderInv
<1>11. PressInv'
  <2>1. \A h \in Inputs : fd'[h] # NoSlot =>
          /\ wire[fd'[h]] # <<>> => Continues(delivered[h], wire[fd'[h]][1])
          /\ wire[fd'[h]] = <<>> /\ packets[fd'[h]] # <<>> => Continues(delivered[h], packets[fd'[h]][1])
    BY <1>0, <1>4, <1>5 DEF PressInv
  <2> QED BY <1>0, <1>1, <2>1 DEF PressInv
<1> QED BY <1>6, <1>7, <1>8, <1>9, <1>10, <1>11 DEF HubInv

(* A packet goes from the connection to the dispatcher.                    *)
LEMMA DeliverStep == ASSUME HubInv, NEW g \in Inputs, Deliver(g) PROVE HubInv'
<1> DEFINE c == fd[g]
           w == wire[c]
           s == delivered[g]
<1>0. TypeOK /\ OneSession /\ SlotInv /\ QueueInv /\ OrderInv /\ PressInv BY DEF HubInv
<1>1. /\ UNCHANGED <<submit, connected, queue, accepted, sent, handler, packets, gone, fd, broken>>
      /\ c # NoSlot /\ w # <<>>
      /\ delivered' = [delivered EXCEPT ![g] = Append(s, Head(w))]
      /\ wire' = [wire EXCEPT ![c] = Tail(w)]
  BY DEF Deliver, hub
<1>2. /\ c \in Slots /\ s \in Seq(Packet) /\ w \in Seq(Packet) /\ packets[c] \in Seq(Packet)
      /\ Ordered(s) /\ Ordered(w) /\ Below(s, w) /\ Joined(s) /\ Joined(w)
      /\ Below(s, packets[c]) /\ Below(w, packets[c])
      /\ Before(s, queue, accepted) /\ Before(w, queue, accepted)
      /\ Continues(s, w[1]) /\ (s # <<>> => s[1].part # "release")
      /\ packets[c] # <<>> => Continues(w, packets[c][1])
  BY <1>0, <1>1, TypeFacts DEF OrderInv, PressInv
<1>3. /\ Append(s, Head(w)) \in Seq(Packet) /\ Tail(w) \in Seq(Packet) /\ Append(s, Head(w)) # <<>>
      /\ Ordered(Append(s, Head(w))) /\ Ordered(Tail(w)) /\ Below(Append(s, Head(w)), Tail(w))
      /\ Joined(Append(s, Head(w))) /\ Joined(Tail(w))
      /\ Tail(w) # <<>> => Continues(Append(s, Head(w)), Tail(w)[1])
      /\ Append(s, Head(w))[1] = IF s = <<>> THEN w[1] ELSE s[1]
      /\ Append(s, Head(w))[Len(Append(s, Head(w)))] = w[1]
      /\ Tail(w) = <<>> => w[Len(w)] = w[1]
      /\ Tail(w) # <<>> => Tail(w)[Len(Tail(w))] = w[Len(w)]
  <2> HIDE DEF c, w, s
  <2>1. s \in Seq(Packet) /\ w \in Seq(Packet) /\ w # <<>> BY <1>1, <1>2
  <2>2. /\ Ordered(s) /\ Ordered(w) /\ Below(s, w) /\ Joined(s) /\ Joined(w)
        /\ s # <<>> => Continues(s, w[1])
    BY <1>2
  <2> QED BY <2>1, <2>2, MoveFacts
<1>4. /\ Below(Append(s, Head(w)), packets[c]) /\ Below(Tail(w), packets[c])
      /\ Before(Append(s, Head(w)), queue, accepted) /\ Before(Tail(w), queue, accepted)
  BY <1>1, <1>2, SpanFacts
<1>5. delivered'[g] = Append(s, Head(w)) /\ \A h \in Inputs : h # g => delivered'[h] = delivered[h]
  BY <1>0, <1>1 DEF TypeOK
<1>6. wire'[c] = Tail(w) /\ \A d \in Slots : d # c => wire'[d] = wire[d]
  BY <1>0, <1>1, <1>2 DEF TypeOK
<1>7. \A h \in Inputs : h # g => fd[h] # c BY <1>0, <1>1 DEF SlotInv
<1>8. TypeOK'
  <2>1. delivered' \in [Inputs -> Seq(Packet)] /\ wire' \in [Slots -> Seq(Packet)]
    BY <1>0, <1>1, <1>3 DEF TypeOK
  <2> QED BY <1>0, <1>1, <2>1 DEF TypeOK
<1>9. OneSession' BY <1>1, SameSession
<1>10. SlotInv'
  <2>1. c \notin gone /\ handler[c] # "none" BY <1>0, <1>1 DEF SlotInv
  <2>2. \A d \in Slots : handler[d] = "none" => wire'[d] = <<>> BY <1>0, <1>6, <2>1 DEF SlotInv
  <2>3. \A d \in gone : wire'[d] = <<>> BY <1>0, <1>6, <2>1 DEF SlotInv, TypeOK
  <2> QED BY <1>0, <1>1, <2>2, <2>3 DEF SlotInv
<1>11. QueueInv' BY <1>0, <1>1 DEF QueueInv
<1>12. OrderInv'
  <2>1. \A d \in Slots : Before(wire'[d], queue, accepted) /\ Ordered(wire'[d]) /\ Below(wire'[d], packets[d])
    BY <1>0, <1>3, <1>4, <1>6 DEF OrderInv
  <2>2. \A h \in Inputs :
          /\ Before(delivered'[h], queue, accepted) /\ Ordered(delivered'[h])
          /\ fd[h] # NoSlot => /\ Below(delivered'[h], wire'[fd[h]])
                               /\ Below(delivered'[h], packets[fd[h]])
    <3> TAKE h \in Inputs
    <3>1. CASE h = g BY <1>3, <1>4, <1>5, <1>6, <3>1
    <3>2. CASE h # g
      <4>1. fd[h] # NoSlot => fd[h] \in Slots /\ wire'[fd[h]] = wire[fd[h]]
        BY <1>0, <1>6, <1>7, <3>2, TypeFacts
      <4> QED BY <1>0, <1>5, <3>2, <4>1 DEF OrderInv
    <3> QED BY <3>1, <3>2
  <2> QED BY <1>0, <1>1, <2>1, <2>2 DEF OrderInv
<1>13. PressInv'
  <2>1. \A d \in Slots : /\ Joined(wire'[d])
                         /\ packets[d] # <<>> /\ wire'[d] # <<>> => Continues(wire'[d], packets[d][1])
    <3> TAKE d \in Slots
    <3>1. CASE d # c BY <1>0, <1>6, <3>1 DEF PressInv
    <3>2. CASE d = c BY <1>1, <1>2, <1>3, <1>6, <3>2 DEF Continues
    <3> QED BY <3>1, <3>2
  <2>2. \A h \in Inputs :
          /\ Joined(delivered'[h])
          /\ delivered'[h] # <<>> => delivered'[h][1].part # "release"
          /\ fd[h] # NoSlot =>
               /\ wire'[fd[h]] # <<>> => Continues(delivered'[h], wire'[fd[h]][1])
               /\ wire'[fd[h]] = <<>> /\ packets[fd[h]] # <<>> =>
                    Continues(delivered'[h], packets[fd[h]][1])
    <3> TAKE h \in Inputs
    <3>1. CASE h = g
      <4>1. delivered'[g][1].part # "release" BY <1>2, <1>3, <1>5 DEF Continues
      <4>2. wire'[c] # <<>> => Continues(delivered'[g], wire'[c][1]) BY <1>3, <1>5, <1>6
      <4>3. wire'[c] = <<>> /\ packets[c] # <<>> => Continues(delivered'[g], packets[c][1])
        BY <1>1, <1>2, <1>3, <1>5, <1>6 DEF Continues
      <4>4. Joined(delivered'[g]) BY <1>3, <1>5
      <4> QED BY <3>1, <4>1, <4>2, <4>3, <4>4
    <3>2. CASE h # g
      <4>1. fd[h] # NoSlot => fd[h] \in Slots /\ wire'[fd[h]] = wire[fd[h]]
        BY <1>0, <1>6, <1>7, <3>2, TypeFacts
      <4> QED BY <1>0, <1>5, <3>2, <4>1 DEF PressInv
    <3> QED BY <3>1, <3>2
  <2> QED BY <1>0, <1>1, <2>1, <2>2 DEF PressInv
<1> QED BY <1>8, <1>9, <1>10, <1>11, <1>12, <1>13 DEF HubInv

(* A connection is left, at its end or with what was on it.                *)
LEMMA LeaveStep ==
  ASSUME HubInv, NEW g \in Inputs, EndOfFile(g) \/ Drop(g)
  PROVE  HubInv'
<1> DEFINE c == fd[g]
<1>0. TypeOK /\ OneSession /\ SlotInv /\ QueueInv /\ OrderInv /\ PressInv BY DEF HubInv
<1>1. /\ UNCHANGED <<submit, connected, queue, accepted, sent, packets, delivered>>
      /\ c # NoSlot /\ fd' = [fd EXCEPT ![g] = NoSlot]
  BY DEF EndOfFile, Drop, hub
<1>2. /\ c \in Slots /\ handler[c] # "none" /\ c \notin gone /\ gone \subseteq Slots
      /\ \A h \in Inputs : h # g => fd[h] # c
  BY <1>0, <1>1, TypeFacts DEF SlotInv, TypeOK
<1>3. /\ wire' \in [Slots -> Seq(Packet)] /\ wire'[c] = <<>>
      /\ \A d \in Slots : d # c => wire'[d] = wire[d]
  <2>1. CASE EndOfFile(g) BY <1>0, <2>1 DEF EndOfFile, TypeOK
  <2>2. CASE Drop(g) BY <1>0, <1>2, <2>2, NothingFacts DEF Drop, TypeOK
  <2> QED BY <2>1, <2>2
<1>4. \/ /\ handler[c] = "ended" /\ gone' = gone
         /\ handler' = [handler EXCEPT ![c] = "none"]
      \/ /\ handler[c] # "ended" /\ gone' = gone \cup {c} /\ handler' = handler
  BY DEF EndOfFile, Drop
<1>5. fd'[g] = NoSlot /\ \A h \in Inputs : h # g => fd'[h] = fd[h] BY <1>0, <1>1 DEF TypeOK
<1>6. /\ handler'[c] = IF handler[c] = "ended" THEN "none" ELSE handler[c]
      /\ \A d \in Slots : d # c => handler'[d] = handler[d]
  BY <1>0, <1>2, <1>4 DEF TypeOK
<1>7. TypeOK'
  <2>1. broken' \in BOOLEAN
    <3>1. broken' = broken \/ broken' = TRUE BY DEF EndOfFile, Drop
    <3>2. broken \in BOOLEAN BY <1>0 DEF TypeOK
    <3> QED BY <3>1, <3>2, Zenon
  <2>2. handler' \in [Slots -> {"none", "new", "serving", "probe", "leaving", "draining", "ended"}]
    BY <1>0, <1>4 DEF TypeOK
  <2>3. gone' \subseteq Slots BY <1>2, <1>4
  <2>4. fd' \in [Inputs -> Slots \cup {NoSlot}] BY <1>0, <1>1 DEF TypeOK
  <2> QED BY <1>0, <1>1, <1>3, <2>1, <2>2, <2>3, <2>4 DEF TypeOK
<1>8. OneSession' BY <1>1, <1>6, SameSession
<1>9. SlotInv'
  <2>1. \A d \in Slots : handler'[d] = "none" => wire'[d] = <<>> /\ d \notin gone'
    <3> TAKE d \in Slots
    <3>1. CASE d = c BY <1>2, <1>3, <1>4, <1>6, <3>1
    <3>2. CASE d # c BY <1>0, <1>3, <1>4, <1>6, <3>2 DEF SlotInv
    <3> QED BY <3>1, <3>2
  <2>2. \A d \in Slots : packets[d] # <<>> => handler'[d] = "serving" BY <1>0, <1>6 DEF SlotInv
  <2>3. \A d \in gone' : wire'[d] = <<>> /\ handler'[d] # "ended"
    <3> TAKE d \in gone'
    <3>1. CASE d = c BY <1>2, <1>3, <1>4, <1>6, <3>1
    <3>2. CASE d # c BY <1>0, <1>2, <1>3, <1>4, <1>6, <3>2 DEF SlotInv
    <3> QED BY <3>1, <3>2
  <2>4. ASSUME NEW h \in Inputs, fd'[h] # NoSlot
        PROVE  fd'[h] = fd[h] /\ handler'[fd[h]] # "none" /\ fd[h] \notin gone'
    <3>1. h # g /\ fd'[h] = fd[h] /\ fd[h] # NoSlot /\ fd[h] # c BY <1>2, <1>5, <2>4
    <3>2. fd[h] \in Slots BY <1>0, <3>1, TypeFacts
    <3> QED BY <1>0, <1>4, <1>6, <3>1, <3>2 DEF SlotInv
  <2>5. \A h, i \in Inputs : fd'[h] = fd'[i] /\ fd'[h] # NoSlot => h = i
    BY <1>0, <1>5 DEF SlotInv
  <2> QED BY <1>1, <2>1, <2>2, <2>3, <2>4, <2>5 DEF SlotInv
<1>10. QueueInv' BY <1>0, <1>1 DEF QueueInv
<1>11. \A d \in Slots : wire'[d] = <<>> \/ wire'[d] = wire[d] BY <1>3
<1>12. \A h \in Inputs : fd'[h] # NoSlot =>
         fd'[h] = fd[h] /\ fd[h] \in Slots /\ wire'[fd[h]] = wire[fd[h]]
  BY <1>0, <1>2, <1>3, <1>5, TypeFacts
<1>13. OrderInv' BY <1>0, <1>1, <1>11, <1>12, NothingFacts DEF OrderInv
<1>14. PressInv' BY <1>0, <1>1, <1>11, <1>12, NothingFacts DEF PressInv
<1> QED BY <1>7, <1>8, <1>9, <1>10, <1>13, <1>14 DEF HubInv

LEMMA NextHub == ASSUME HubInv, [Next]_vars PROVE HubInv'
<1>1. ASSUME NEW s \in Submitters, Check(s) \/ Put(s) \/ Full(s) PROVE HubInv'
  BY <1>1, CheckStep, PutStep
<1>2. ASSUME NEW c \in Slots, Session(c) \/ SendFails(c) PROVE HubInv'
  BY <1>2, BeginStep, FinishStep, TakeStep, ProbeStep, SendStep, DisconnectStep, DrainStep, SendFailsStep
  DEF Session
<1>3. ASSUME NEW g \in Inputs, Input(g) \/ Drop(g) PROVE HubInv'
  BY <1>3, ConnectStep, DeliverStep, LeaveStep DEF Input
<1>4. CASE UNCHANGED vars
  <2>1. UNCHANGED <<submit, connected, queue, accepted, sent, handler, packets, wire, gone, fd,
                    delivered, broken>>
    BY <1>4 DEF vars, hub
  <2>2. TypeOK' /\ SlotInv' BY <2>1 DEF HubInv, TypeOK, SlotInv
  <2>3. OneSession' BY <2>1, SameSession
  <2>4. QueueInv' /\ OrderInv' /\ PressInv' BY <2>1, QuietStep
  <2> QED BY <2>2, <2>3, <2>4 DEF HubInv
<1> QED BY <1>1, <1>2, <1>3, <1>4 DEF Next

-----------------------------------------------------------------------------
(* The inductive invariant holds in every reachable state.                 *)
THEOREM HubInvariant == Spec => []HubInv
<1>1. Init => HubInv BY InitHub
<1>2. HubInv /\ [Next]_vars => HubInv' BY NextHub
<1> QED BY <1>1, <1>2, PTL DEF Spec

(* Every variable keeps its type; the queue never holds more than its size *)
(* (mib_input.py, Hub).                                                    *)
THEOREM HubTypeCorrect == Spec => []TypeOK
<1>1. HubInv => TypeOK BY DEF HubInv
<1> QED BY <1>1, HubInvariant, PTL

(* One connection at a time feeds from the queue, and connected tells      *)
(* whether there is one (Guest.handle).                                    *)
THEOREM SingleSession == Spec => []OneSession
<1>1. HubInv => OneSession BY DEF HubInv
<1> QED BY <1>1, HubInvariant, PTL

(* An input thread hands on controls in the order in which the hub         *)
(* accepted them and none twice, over any number of lost connections.      *)
THEOREM DeliveryOrder == Spec => []DeliveredInOrder
<1>1. HubInv => DeliveredInOrder BY DEF HubInv, OrderInv, Ordered, DeliveredInOrder
<1> QED BY <1>1, HubInvariant, PTL

(* The dispatcher never gets a release without the press before it.        *)
THEOREM ReleaseAfterPress == Spec => []ReleaseFollowsPress
<1>1. ASSUME HubInv, NEW g \in Inputs, NEW k \in 1..Len(delivered[g]),
             delivered[g][k].part = "release"
      PROVE  k > 1 /\ delivered[g][k - 1] = [event |-> delivered[g][k].event, part |-> "press"]
  <2>1. delivered[g] \in Seq(Packet) BY <1>1, TypeFacts DEF HubInv
  <2>2. delivered[g] # <<>> /\ Len(delivered[g]) \in Nat BY <2>1, EmptyFacts
  <2>3. k # 1 BY <1>1, <2>2 DEF HubInv, PressInv
  <2>4. k - 1 \in 1..(Len(delivered[g]) - 1) /\ (k - 1) + 1 = k BY <2>2, <2>3
  <2>5. Joins(delivered[g][k - 1], delivered[g][(k - 1) + 1])
    BY <1>1, <2>4 DEF HubInv, PressInv, Joined
  <2> QED BY <1>1, <2>4, <2>5 DEF Joins
<1>2. HubInv => ReleaseFollowsPress BY <1>1 DEF ReleaseFollowsPress
<1> QED BY <1>2, HubInvariant, PTL
-----------------------------------------------------------------------------
(* Nothing is lost as long as no connection is.  The queue is the end of   *)
(* what was accepted; the rest, Taken, is under way or delivered.          *)
Taken == accepted - Len(queue)

NumberInv == Len(queue) <= accepted /\ \A k \in 1..Len(queue) : queue[k] = Taken + k

(* p is one of the packets its event has.                                  *)
IsPart(p) == IF p.event \in Buttons THEN p.part \in {"press", "release"} ELSE p.part = "single"

Genuine(s) == \A k \in 1..Len(s) : IsPart(s[k])

GenuineInv ==
  /\ \A c \in Slots : Genuine(packets[c]) /\ Genuine(wire[c])
  /\ \A g \in Inputs : Genuine(delivered[g])

In(p, s) == \E k \in 1..Len(s) : s[k] = p

Somewhere(p) ==
  \/ \E g \in Inputs : In(p, delivered[g])
  \/ \E c \in Slots : In(p, wire[c]) \/ In(p, packets[c])

(* Once begun a session does not end, and it has all the packets.          *)
LineInv ==
  /\ gone = {} /\ \A c \in Slots : handler[c] \notin {"leaving", "draining"}
  /\ \A c \in Slots : ~InSession(c) => wire[c] = <<>> /\ packets[c] = <<>>
  /\ \A c \in Slots : handler[c] # "none" => \E g \in Inputs : fd[g] = c
  /\ \A g \in Inputs : delivered[g] # <<>> => fd[g] # NoSlot /\ InSession(fd[g])
  /\ accepted > 0 => connected
  /\ \A s \in Submitters : submit[s] = "checked" => connected
  /\ \A p \in Packet : p.event <= Taken /\ IsPart(p) => Somewhere(p)

KeptInv == NumberInv /\ GenuineInv /\ (~broken => LineInv)

-----------------------------------------------------------------------------
LEMMA TailIn ==
  ASSUME NEW s \in Seq(Packet), s # <<>>
  PROVE  /\ \A p : In(p, s) <=> p = Head(s) \/ In(p, Tail(s))
         /\ Genuine(s) => IsPart(Head(s)) /\ Genuine(Tail(s))
<1>1. /\ Head(s) = s[1] /\ 1 \in 1..Len(s) /\ Len(s) \in Nat /\ Len(Tail(s)) = Len(s) - 1
      /\ \A k \in 1..Len(Tail(s)) : Tail(s)[k] = s[k + 1] /\ k + 1 \in 1..Len(s)
  BY TailFacts
<1>2. \A k \in 1..Len(s) : k = 1 \/ (k - 1 \in 1..Len(Tail(s)) /\ Tail(s)[k - 1] = s[k])
  BY <1>1
<1>3. ASSUME NEW p PROVE In(p, s) <=> p = Head(s) \/ In(p, Tail(s)) BY <1>1, <1>2 DEF In
<1> QED BY <1>1, <1>3 DEF Genuine

LEMMA AppendIn ==
  ASSUME NEW s \in Seq(Packet), NEW e \in Packet
  PROVE  /\ \A p : In(p, Append(s, e)) <=> In(p, s) \/ p = e
         /\ Genuine(s) /\ IsPart(e) => Genuine(Append(s, e))
<1> DEFINE u == Append(s, e)
<1>1. /\ Len(s) \in Nat /\ Len(u) = Len(s) + 1
      /\ \A k \in 1..Len(s) : u[k] = s[k]
      /\ u[Len(s) + 1] = e
      /\ \A k \in 1..Len(u) : k \in 1..Len(s) \/ k = Len(s) + 1
  BY AppendFacts
<1> HIDE DEF u
<1>2. Len(s) + 1 \in 1..Len(u) /\ \A k \in 1..Len(s) : k \in 1..Len(u) BY <1>1
<1>3. ASSUME NEW p PROVE In(p, u) <=> In(p, s) \/ p = e BY <1>1, <1>2 DEF In
<1>4. Genuine(s) /\ IsPart(e) => Genuine(u) BY <1>1 DEF Genuine
<1> QED BY <1>3, <1>4 DEF u

LEMMA NoneIn == (\A p : ~In(p, <<>>)) /\ Genuine(<<>>)
<1>1. Len(<<>>) = 0 /\ \A k \in 1..0 : FALSE OBVIOUS
<1> QED BY <1>1 DEF In, Genuine

(* The packets of an event are those that are part of it.                  *)
LEMMA PartFacts ==
  ASSUME NEW e \in Events
  PROVE  /\ Genuine(PacketsOf(e))
         /\ \A p \in Packet : p.event = e /\ IsPart(p) <=> In(p, PacketsOf(e))
<1> DEFINE p1 == [event |-> e, part |-> "press"]
           p2 == [event |-> e, part |-> "release"]
           p0 == [event |-> e, part |-> "single"]
<1>1. ASSUME NEW p \in Packet
      PROVE  /\ p = p1 <=> p.event = e /\ p.part = "press"
             /\ p = p2 <=> p.event = e /\ p.part = "release"
             /\ p = p0 <=> p.event = e /\ p.part = "single"
  BY DEF Packet
<1>2. CASE e \in Buttons
  <2>1. PacketsOf(e) = <<p1, p2>> BY <1>2 DEF PacketsOf
  <2>2. /\ Len(<<p1, p2>>) = 2 /\ <<p1, p2>>[1] = p1 /\ <<p1, p2>>[2] = p2
        /\ \A k \in 1..2 : k = 1 \/ k = 2
        /\ 1 \in 1..2 /\ 2 \in 1..2
    OBVIOUS
  <2>3. IsPart(p1) /\ IsPart(p2) BY <1>2 DEF IsPart
  <2>4. \A p : In(p, PacketsOf(e)) <=> p = p1 \/ p = p2
    <3> HIDE DEF p1, p2
    <3> QED BY <2>1, <2>2 DEF In
  <2>5. Genuine(PacketsOf(e))
    <3> HIDE DEF p1, p2
    <3> QED BY <2>1, <2>2, <2>3 DEF Genuine
  <2>6. ASSUME NEW p \in Packet PROVE p.event = e /\ IsPart(p) <=> p = p1 \/ p = p2
    BY <1>1, <1>2 DEF IsPart
  <2> QED BY <2>4, <2>5, <2>6
<1>3. CASE e \notin Buttons
  <2>1. PacketsOf(e) = <<p0>> BY <1>3 DEF PacketsOf
  <2>2. Len(<<p0>>) = 1 /\ <<p0>>[1] = p0 /\ (\A k \in 1..1 : k = 1) /\ 1 \in 1..1 OBVIOUS
  <2>3. IsPart(p0) BY <1>3 DEF IsPart
  <2>4. \A p : In(p, PacketsOf(e)) <=> p = p0
    <3> HIDE DEF p0
    <3> QED BY <2>1, <2>2 DEF In
  <2>5. Genuine(PacketsOf(e))
    <3> HIDE DEF p0
    <3> QED BY <2>1, <2>2, <2>3 DEF Genuine
  <2>6. ASSUME NEW p \in Packet PROVE p.event = e /\ IsPart(p) <=> p = p0
    BY <1>1, <1>3 DEF IsPart
  <2> QED BY <2>4, <2>5, <2>6
<1> QED BY <1>2, <1>3

(* One sequence behind the other.                                          *)
LEMMA ConcatFacts ==
  ASSUME NEW s \in Seq(Packet), NEW t \in Seq(Packet), Ordered(s), Ordered(t), Below(s, t)
  PROVE  /\ s \o t \in Seq(Packet) /\ Ordered(s \o t)
         /\ \A p : In(p, s \o t) <=> In(p, s) \/ In(p, t)
         /\ \A r : Below(s, r) /\ Below(t, r) => Below(s \o t, r)
<1> DEFINE u == s \o t  m == Len(s)
<1>1. /\ u \in Seq(Packet) /\ m \in Nat /\ Len(t) \in Nat /\ Len(u) = m + Len(t)
      /\ \A k \in 1..m : u[k] = s[k]
      /\ \A k \in 1..Len(t) : u[m + k] = t[k]
  OBVIOUS
<1> HIDE DEF u, m
<1>2. \A k \in 1..Len(u) : k \in 1..m \/ (k - m \in 1..Len(t) /\ u[k] = t[k - m])
  <2> TAKE k \in 1..Len(u)
  <2>1. k \in 1..m \/ (k - m \in 1..Len(t) /\ m + (k - m) = k) BY <1>1
  <2> QED BY <1>1, <2>1
<1>3. (\A k \in 1..m : k \in 1..Len(u)) /\ \A k \in 1..Len(t) : m + k \in 1..Len(u) BY <1>1
<1>4. ASSUME NEW p PROVE In(p, u) <=> In(p, s) \/ In(p, t) BY <1>1, <1>2, <1>3 DEF In, m
<1>5. ASSUME NEW r, Below(s, r), Below(t, r) PROVE Below(u, r) BY <1>1, <1>2, <1>5 DEF Below, m
<1>6. Ordered(u)
  <2> SUFFICES ASSUME NEW k \in 1..Len(u), NEW l \in 1..Len(u), k < l
               PROVE  Place(u[k]) < Place(u[l])
    BY DEF Ordered
  <2>1. CASE k \in 1..m /\ l \in 1..m BY <1>1, <2>1 DEF Ordered, m
  <2>2. CASE k \in 1..m /\ l \notin 1..m BY <1>1, <1>2, <2>2 DEF Below, m
  <2>3. CASE k \notin 1..m
    <3>1. l \notin 1..m BY <1>1, <2>3
    <3>2. k - m < l - m BY <1>1
    <3> QED BY <1>2, <2>3, <3>1, <3>2 DEF Ordered
  <2> QED BY <2>1, <2>2, <2>3
<1> QED BY <1>1, <1>4, <1>5, <1>6 DEF u

-----------------------------------------------------------------------------
(* A step that moves no control. *)
LEMMA KeptQuiet ==
  ASSUME HubInv, KeptInv, UNCHANGED <<queue, accepted, packets, wire, delivered>>,
         ~broken' => /\ ~broken
                     /\ gone' = {} /\ \A c \in Slots : handler'[c] \notin {"leaving", "draining"}
                     /\ \A c \in Slots : InSession(c) => InSession(c)'
                     /\ \A c \in Slots : handler'[c] # "none" => \E g \in Inputs : fd'[g] = c
                     /\ \A g \in Inputs : fd[g] # NoSlot /\ InSession(fd[g]) => fd'[g] = fd[g]
                     /\ connected => connected'
                     /\ \A s \in Submitters : submit'[s] = "checked" => connected'
  PROVE  KeptInv'
<1>1. NumberInv' /\ GenuineInv' BY DEF KeptInv, NumberInv, GenuineInv, Taken
<1>2. ASSUME ~broken' PROVE LineInv'
  <2>1. LineInv BY <1>2 DEF KeptInv
  <2>2. \A g \in Inputs : fd[g] # NoSlot => fd[g] \in Slots BY TypeFacts DEF HubInv
  <2>3. \A g \in Inputs : delivered'[g] # <<>> =>
          fd'[g] # NoSlot /\ handler'[fd'[g]] \in {"serving", "probe", "leaving"}
    <3> SUFFICES ASSUME NEW g \in Inputs, delivered'[g] # <<>>
                 PROVE  fd'[g] # NoSlot /\ handler'[fd'[g]] \in {"serving", "probe", "leaving"}
      OBVIOUS
    <3>1. fd[g] # NoSlot /\ InSession(fd[g]) BY <2>1 DEF LineInv
    <3>2. fd'[g] = fd[g] /\ fd[g] \in Slots BY <1>2, <2>2, <3>1
    <3> QED BY <1>2, <3>1, <3>2 DEF InSession
  <2>5. \A p \in Packet : p.event <= Taken' /\ IsPart(p) => Somewhere(p)'
    BY <2>1 DEF LineInv, Taken, Somewhere
  <2> QED BY <1>2, <2>1, <2>3, <2>5 DEF LineInv, InSession
<1> QED BY <1>1, <1>2 DEF KeptInv
LEMMA QuietKept ==
  ASSUME HubInv, KeptInv, NEW s \in Submitters, Check(s) \/ Full(s)
  PROVE  KeptInv'
<1>1. /\ UNCHANGED <<connected, queue, accepted, handler, packets, wire, gone, fd, delivered, broken>>
      /\ \A r \in Submitters : submit'[r] = "checked" => connected \/ submit[r] = "checked"
  BY DEF HubInv, TypeOK, Check, Full, hub
<1>2. ASSUME ~broken PROVE LineInv BY <1>2 DEF KeptInv
<1> QED BY <1>1, <1>2, KeptQuiet DEF LineInv, InSession

(* A session begins, is refused, looks around or ends.                     *)
LEMMA SessionKept ==
  ASSUME HubInv, KeptInv, NEW c \in Slots,
         Begin(c) \/ Refuse(c) \/ Empty(c) \/ Probe(c) \/ Disconnect(c) \/ End(c)
  PROVE  KeptInv'
<1>1. UNCHANGED <<queue, accepted, packets, wire, delivered, fd, submit, broken>>
  BY DEF Begin, Refuse, Empty, Probe, Disconnect, End, hub
<1>2. ASSUME ~broken
      PROVE  /\ gone' = {} /\ handler[c] # "none" /\ handler'[c] \in {"serving", "probe", "ended"}
             /\ InSession(c) => handler'[c] # "ended"
             /\ \A d \in Slots : d # c => handler'[d] = handler[d]
             /\ connected => connected'
  <2>1. LineInv BY <1>2 DEF KeptInv
  <2>2. handler[c] \notin {"leaving", "draining"} /\ gone = {} BY <2>1 DEF LineInv
  <2>3. ~Disconnect(c) /\ ~End(c) BY <2>2 DEF Disconnect, End
  <2>4. CASE Begin(c) BY <2>2, <2>4 DEF Begin, HubInv, TypeOK, InSession
  <2>5. CASE Refuse(c) BY <2>2, <2>5 DEF Refuse, Finished, HubInv, TypeOK, InSession, hub
  <2>6. CASE Empty(c) BY <2>2, <2>6 DEF Empty, HubInv, TypeOK, InSession, hub
  <2>7. CASE Probe(c) BY <2>2, <2>7 DEF Probe, HubInv, TypeOK, InSession, hub
  <2> QED BY <2>3, <2>4, <2>5, <2>6, <2>7
<1>3. ASSUME ~broken'
      PROVE  /\ ~broken
             /\ gone' = {} /\ \A d \in Slots : handler'[d] \notin {"leaving", "draining"}
             /\ \A d \in Slots : InSession(d) => InSession(d)'
             /\ \A d \in Slots : handler'[d] # "none" => \E g \in Inputs : fd'[g] = d
             /\ \A g \in Inputs : fd[g] # NoSlot /\ InSession(fd[g]) => fd'[g] = fd[g]
             /\ connected => connected'
             /\ \A s \in Submitters : submit'[s] = "checked" => connected'
  <2>1. ~broken /\ LineInv BY <1>1, <1>3 DEF KeptInv
  <2>2. /\ gone' = {} /\ handler[c] # "none" /\ handler'[c] \in {"serving", "probe", "ended"}
        /\ InSession(c) => handler'[c] # "ended"
        /\ \A d \in Slots : d # c => handler'[d] = handler[d]
        /\ connected => connected'
    BY <1>2, <2>1
  <2>3. ASSUME NEW d \in Slots
        PROVE  /\ handler'[d] \notin {"leaving", "draining"}
               /\ InSession(d) => InSession(d)'
               /\ handler'[d] # "none" => \E g \in Inputs : fd'[g] = d
    BY <1>1, <2>1, <2>2 DEF LineInv, InSession
  <2> QED BY <1>1, <2>1, <2>2, <2>3 DEF LineInv
<1> QED BY <1>1, <1>3, KeptQuiet

(* The guest connects, or has read a connection to its end.                *)
LEMMA GuestKept ==
  ASSUME HubInv, KeptInv, NEW g \in Inputs, Connect(g) \/ EndOfFile(g)
  PROVE  KeptInv'
<1>0. TypeOK /\ SlotInv BY DEF HubInv
<1>1. UNCHANGED <<connected, queue, accepted, packets, wire, gone, delivered, submit, broken>>
  BY DEF Connect, EndOfFile, hub
<1>2. PICK c \in Slots :
        \/ /\ handler[c] = "none" /\ fd[g] = NoSlot
           /\ handler' = [handler EXCEPT ![c] = "new"] /\ fd' = [fd EXCEPT ![g] = c]
        \/ /\ handler[c] = "ended" /\ fd[g] = c
           /\ handler' = [handler EXCEPT ![c] = "none"] /\ fd' = [fd EXCEPT ![g] = NoSlot]
  <2>1. CASE Connect(g) BY <2>1 DEF Connect
  <2>2. CASE EndOfFile(g)
    <3>1. fd[g] \in Slots BY <1>0, <2>2, TypeFacts DEF EndOfFile
    <3> QED BY <2>2, <3>1 DEF EndOfFile
  <2> QED BY <2>1, <2>2
<1>3. /\ ~InSession(c) /\ handler'[c] \in {"new", "none"}
      /\ handler'[c] = "new" => fd'[g] = c
      /\ \A d \in Slots : d # c => handler'[d] = handler[d]
      /\ \A h \in Inputs : h # g => fd'[h] = fd[h]
      /\ fd[g] = NoSlot \/ fd[g] = c
  BY <1>0, <1>2 DEF TypeOK, InSession
<1>4. ASSUME ~broken'
      PROVE  /\ ~broken
             /\ gone' = {} /\ \A d \in Slots : handler'[d] \notin {"leaving", "draining"}
             /\ \A d \in Slots : InSession(d) => InSession(d)'
             /\ \A d \in Slots : handler'[d] # "none" => \E h \in Inputs : fd'[h] = d
             /\ \A h \in Inputs : fd[h] # NoSlot /\ InSession(fd[h]) => fd'[h] = fd[h]
             /\ connected => connected'
             /\ \A s \in Submitters : submit'[s] = "checked" => connected'
  <2>1. ~broken /\ LineInv BY <1>1, <1>4 DEF KeptInv
  <2>2. ASSUME NEW d \in Slots
        PROVE  /\ handler'[d] \notin {"leaving", "draining"}
               /\ InSession(d) => InSession(d)'
               /\ handler'[d] # "none" => \E h \in Inputs : fd'[h] = d
    <3>1. CASE d = c BY <1>3, <3>1
    <3>2. CASE d # c
      <4>1. handler'[d] = handler[d] BY <1>3, <3>2
      <4>2. handler[d] # "none" => \E h \in Inputs : fd[h] = d BY <2>1 DEF LineInv
      <4>3. \A h \in Inputs : fd[h] = d => h # g
        <5>1. d # NoSlot BY SlotsAssumption
        <5> QED BY <1>3, <3>2, <5>1
      <4> QED BY <1>3, <2>1, <4>1, <4>2, <4>3 DEF LineInv, InSession
    <3> QED BY <3>1, <3>2
  <2>3. ASSUME NEW h \in Inputs, fd[h] # NoSlot, InSession(fd[h]) PROVE fd'[h] = fd[h]
    BY <1>3, <2>3
  <2> QED BY <1>1, <2>1, <2>2, <2>3 DEF LineInv
<1> QED BY <1>1, <1>4, KeptQuiet

(* A connection is lost.                                                   *)
LEMMA LossKept ==
  ASSUME HubInv, KeptInv, (\E c \in Slots : SendFails(c)) \/ \E g \in Inputs : Drop(g)
  PROVE  KeptInv'
<1>1. broken' = TRUE /\ UNCHANGED <<queue, accepted, delivered>> BY DEF SendFails, Drop, hub
<1>2. \A d \in Slots : packets'[d] \in {packets[d], <<>>} /\ wire'[d] \in {wire[d], <<>>}
  <2>1. ASSUME NEW c \in Slots, SendFails(c)
        PROVE  \A d \in Slots : packets'[d] \in {packets[d], <<>>} /\ wire'[d] \in {wire[d], <<>>}
    BY <2>1 DEF HubInv, TypeOK, SendFails
  <2>2. ASSUME NEW g \in Inputs, Drop(g)
        PROVE  \A d \in Slots : packets'[d] \in {packets[d], <<>>} /\ wire'[d] \in {wire[d], <<>>}
    BY <2>2 DEF HubInv, TypeOK, Drop
  <2> QED BY <2>1, <2>2
<1>3. NumberInv' BY <1>1 DEF KeptInv, NumberInv, Taken
<1>4. GenuineInv' BY <1>1, <1>2, NoneIn DEF KeptInv, GenuineInv
<1> QED BY <1>1, <1>3, <1>4 DEF KeptInv

-----------------------------------------------------------------------------
(* The steps that move a control. *)
LEMMA PutKept == ASSUME HubInv, KeptInv, NEW s \in Submitters, Put(s) PROVE KeptInv'
<1>0. TypeOK /\ NumberInv /\ GenuineInv BY DEF HubInv, KeptInv
<1>1. /\ UNCHANGED <<connected, handler, packets, wire, gone, fd, delivered, broken>>
      /\ submit[s] = "checked" /\ \A r \in Submitters : submit'[r] = "checked" => submit[r] = "checked"
      /\ queue' = Append(queue, accepted + 1) /\ accepted' = accepted + 1
      /\ accepted < MaxEvents
  BY <1>0 DEF TypeOK, Put
<1>2. queue \in Seq(Events) /\ accepted \in Nat /\ accepted + 1 \in Events
  BY <1>0, <1>1, TypeFacts, BoundsAssumption DEF Events
<1>3. /\ Len(queue) \in Nat /\ Len(queue') = Len(queue) + 1
      /\ \A k \in 1..Len(queue) : queue'[k] = queue[k]
      /\ queue'[Len(queue) + 1] = accepted + 1
      /\ \A k \in 1..Len(queue') : k \in 1..Len(queue) \/ k = Len(queue) + 1
  BY <1>1, <1>2, AppendFacts
<1>4. Taken' = Taken BY <1>1, <1>2, <1>3 DEF Taken
<1>5. NumberInv'
  <2>1. Len(queue') <= accepted' BY <1>0, <1>1, <1>2, <1>3 DEF NumberInv
  <2>2. ASSUME NEW k \in 1..Len(queue') PROVE queue'[k] = Taken + k
    <3>1. CASE k \in 1..Len(queue) BY <1>0, <1>3, <3>1 DEF NumberInv
    <3>2. CASE k = Len(queue) + 1
      <4>1. Taken + (Len(queue) + 1) = accepted + 1 BY <1>2, <1>3 DEF Taken
      <4> QED BY <1>3, <3>2, <4>1
    <3> QED BY <1>3, <3>1, <3>2
  <2> QED BY <1>4, <2>1, <2>2 DEF NumberInv
<1>6. GenuineInv' BY <1>0, <1>1 DEF GenuineInv
<1>7. ASSUME ~broken' PROVE LineInv'
  <2>1. LineInv BY <1>1, <1>7 DEF KeptInv
  <2>2. connected BY <1>1, <2>1 DEF LineInv
  <2>3. \A p : Somewhere(p)' <=> Somewhere(p) BY <1>1 DEF Somewhere
  <2> QED BY <1>1, <1>4, <2>1, <2>2, <2>3 DEF LineInv, InSession
<1> QED BY <1>5, <1>6, <1>7 DEF KeptInv

(* A control leaves the queue: it is sent, or dropped after a loss.        *)
LEMMA HeadLeaves ==
  ASSUME HubInv, NumberInv, queue # <<>>, queue' = Tail(queue), accepted' = accepted
  PROVE  /\ NumberInv' /\ Taken' = Taken + 1 /\ Taken \in Nat
         /\ Head(queue) = Taken + 1 /\ Head(queue) \in Events
<1>1. queue \in Seq(Events) /\ accepted \in Nat BY TypeFacts DEF HubInv
<1>2. /\ Head(queue) = queue[1] /\ queue[1] \in Events /\ Len(queue) \in Nat \ {0} /\ 1 \in 1..Len(queue)
      /\ Len(queue') = Len(queue) - 1
      /\ \A k \in 1..Len(queue') : queue'[k] = queue[k + 1] /\ k + 1 \in 1..Len(queue)
  BY <1>1, TailFacts
<1>3. Taken' = Taken + 1 /\ Taken \in Nat BY <1>1, <1>2 DEF Taken, NumberInv
<1>4. ASSUME NEW k \in 1..Len(queue') PROVE queue'[k] = Taken' + k
  <2>1. queue'[k] = Taken + (k + 1) BY <1>2 DEF NumberInv
  <2> QED BY <1>3, <2>1
<1>5. Len(queue') <= accepted' BY <1>1, <1>2 DEF NumberInv
<1> QED BY <1>2, <1>3, <1>4, <1>5 DEF NumberInv

LEMMA DrainKept == ASSUME HubInv, KeptInv, NEW c \in Slots, Drain(c) PROVE KeptInv'
<1>1. /\ handler[c] = "draining" /\ queue # <<>> /\ queue' = Tail(queue)
      /\ UNCHANGED <<accepted, packets, wire, delivered, broken>>
  BY DEF Drain
<1>2. broken BY <1>1 DEF KeptInv, LineInv
<1>3. NumberInv' BY <1>1, HeadLeaves DEF KeptInv
<1>4. GenuineInv' BY <1>1 DEF KeptInv, GenuineInv
<1> QED BY <1>1, <1>2, <1>3, <1>4 DEF KeptInv

LEMMA TakeKept == ASSUME HubInv, KeptInv, NEW c \in Slots, Take(c) PROVE KeptInv'
<1>0. TypeOK /\ NumberInv /\ GenuineInv BY DEF HubInv, KeptInv
<1> DEFINE e == Head(queue)
<1>1. /\ handler[c] = "serving" /\ packets[c] = <<>> /\ queue # <<>> /\ queue' = Tail(queue)
      /\ packets' = [packets EXCEPT ![c] = PacketsOf(e)]
      /\ UNCHANGED <<submit, connected, accepted, handler, wire, gone, fd, delivered, broken>>
  BY DEF Take
<1>2. NumberInv' /\ Taken' = Taken + 1 /\ Taken \in Nat /\ e = Taken + 1 /\ e \in Events
  BY <1>0, <1>1, HeadLeaves
<1> HIDE DEF e
<1>3. packets'[c] = PacketsOf(e) /\ \A d \in Slots : d # c => packets'[d] = packets[d]
  BY <1>0, <1>1 DEF TypeOK
<1>4. GenuineInv'
  <2>1. Genuine(PacketsOf(e)) BY <1>2, PartFacts
  <2> QED BY <1>0, <1>1, <1>3, <2>1 DEF GenuineInv
<1>5. ASSUME ~broken' PROVE LineInv'
  <2>1. LineInv BY <1>1, <1>5 DEF KeptInv
  <2>2. ASSUME NEW p \in Packet, p.event <= Taken', IsPart(p) PROVE Somewhere(p)'
    <3>1. p.event \in Nat BY NumberFacts
    <3>2. CASE p.event <= Taken
      <4>1. Somewhere(p) BY <2>1, <2>2, <3>2 DEF LineInv
      <4>2. ~In(p, packets[c]) BY <1>1, NoneIn
      <4> QED BY <1>1, <1>3, <4>1, <4>2 DEF Somewhere
    <3>3. CASE p.event = e
      <4>1. In(p, PacketsOf(e)) BY <1>2, <2>2, <3>3, PartFacts
      <4> QED BY <1>3, <4>1 DEF Somewhere
    <3> QED BY <1>2, <2>2, <3>1, <3>2, <3>3
  <2>3. \A d \in Slots : ~InSession(d)' => wire'[d] = <<>> /\ packets'[d] = <<>>
    BY <1>1, <1>3, <2>1 DEF LineInv, InSession
  <2> QED BY <1>1, <2>1, <2>2, <2>3 DEF LineInv, InSession
<1> QED BY <1>2, <1>4, <1>5 DEF KeptInv

LEMMA SendKept == ASSUME HubInv, KeptInv, NEW c \in Slots, Send(c) PROVE KeptInv'
<1>0. TypeOK /\ NumberInv /\ GenuineInv BY DEF HubInv, KeptInv
<1> DEFINE q == Head(packets[c])
<1>1. /\ handler[c] = "serving" /\ packets[c] # <<>>
      /\ wire' = IF c \in gone THEN wire ELSE [wire EXCEPT ![c] = Append(@, q)]
      /\ packets' = [packets EXCEPT ![c] = Tail(@)]
      /\ UNCHANGED <<submit, connected, queue, accepted, handler, gone, fd, delivered, broken>>
  BY DEF Send
<1>2. packets[c] \in Seq(Packet) /\ wire[c] \in Seq(Packet) BY <1>0, TypeFacts
<1>3. q \in Packet BY <1>1, <1>2, TailFacts
<1>4. /\ \A p : In(p, packets[c]) <=> p = q \/ In(p, Tail(packets[c]))
      /\ IsPart(q) /\ Genuine(Tail(packets[c]))
  BY <1>0, <1>1, <1>2, TailIn DEF GenuineInv
<1> HIDE DEF q
<1>5. /\ \A p : In(p, Append(wire[c], q)) <=> In(p, wire[c]) \/ p = q
      /\ Genuine(Append(wire[c], q))
  BY <1>0, <1>2, <1>3, <1>4, AppendIn DEF GenuineInv
<1>6. /\ packets'[c] = Tail(packets[c]) /\ \A d \in Slots : d # c => packets'[d] = packets[d]
      /\ wire'[c] \in {wire[c], Append(wire[c], q)} /\ \A d \in Slots : d # c => wire'[d] = wire[d]
      /\ c \notin gone => wire'[c] = Append(wire[c], q)
  BY <1>0, <1>1 DEF TypeOK
<1>7. NumberInv' /\ Taken' = Taken BY <1>0, <1>1 DEF NumberInv, Taken
<1>8. GenuineInv' BY <1>0, <1>1, <1>4, <1>5, <1>6 DEF GenuineInv
<1>9. ASSUME ~broken' PROVE LineInv'
  <2>1. LineInv BY <1>1, <1>9 DEF KeptInv
  <2>2. wire'[c] = Append(wire[c], q) BY <1>6, <2>1 DEF LineInv
  <2>3. ASSUME NEW p, Somewhere(p) PROVE Somewhere(p)'
    <3>1. CASE \E g \in Inputs : In(p, delivered[g]) BY <1>1, <3>1 DEF Somewhere
    <3>2. CASE \E d \in Slots : In(p, wire[d]) \/ In(p, packets[d])
      <4>1. PICK d \in Slots : In(p, wire[d]) \/ In(p, packets[d]) BY <3>2
      <4>2. In(p, wire'[d]) \/ In(p, packets'[d])
        <5>1. CASE d = c BY <1>4, <1>5, <1>6, <2>2, <4>1, <5>1
        <5>2. CASE d # c BY <1>6, <4>1, <5>2
        <5> QED BY <5>1, <5>2
      <4> QED BY <4>2 DEF Somewhere
    <3> QED BY <2>3, <3>1, <3>2 DEF Somewhere
  <2>4. \A d \in Slots : ~InSession(d)' => wire'[d] = <<>> /\ packets'[d] = <<>>
    BY <1>1, <1>6, <2>1 DEF LineInv, InSession
  <2> QED BY <1>1, <1>7, <2>1, <2>3, <2>4 DEF LineInv, InSession
<1> QED BY <1>7, <1>8, <1>9 DEF KeptInv

LEMMA DeliverKept == ASSUME HubInv, KeptInv, NEW g \in Inputs, Deliver(g) PROVE KeptInv'
<1>0. TypeOK /\ NumberInv /\ GenuineInv BY DEF HubInv, KeptInv
<1> DEFINE c == fd[g]  q == Head(wire[c])
<1>1. /\ fd[g] # NoSlot /\ c \in Slots /\ wire[c] # <<>>
      /\ delivered' = [delivered EXCEPT ![g] = Append(@, q)]
      /\ wire' = [wire EXCEPT ![c] = Tail(@)]
      /\ UNCHANGED <<submit, connected, queue, accepted, handler, packets, gone, fd, broken>>
  BY <1>0, TypeFacts DEF Deliver, hub
<1>2. wire[c] \in Seq(Packet) /\ delivered[g] \in Seq(Packet) BY <1>0, <1>1, TypeFacts
<1>3. q \in Packet BY <1>1, <1>2, TailFacts
<1>4. /\ \A p : In(p, wire[c]) <=> p = q \/ In(p, Tail(wire[c]))
      /\ IsPart(q) /\ Genuine(Tail(wire[c]))
  BY <1>0, <1>1, <1>2, TailIn DEF GenuineInv
<1> HIDE DEF c, q
<1>5. /\ \A p : In(p, Append(delivered[g], q)) <=> In(p, delivered[g]) \/ p = q
      /\ Genuine(Append(delivered[g], q))
  BY <1>0, <1>2, <1>3, <1>4, AppendIn DEF GenuineInv
<1>6. /\ wire'[c] = Tail(wire[c]) /\ \A d \in Slots : d # c => wire'[d] = wire[d]
      /\ delivered'[g] = Append(delivered[g], q)
      /\ \A h \in Inputs : h # g => delivered'[h] = delivered[h]
  BY <1>0, <1>1 DEF TypeOK
<1>7. NumberInv' /\ Taken' = Taken BY <1>0, <1>1 DEF NumberInv, Taken
<1>8. GenuineInv' BY <1>0, <1>1, <1>4, <1>5, <1>6 DEF GenuineInv
<1>9. ASSUME ~broken' PROVE LineInv'
  <2>1. LineInv BY <1>1, <1>9 DEF KeptInv
  <2>2. ASSUME NEW p, Somewhere(p) PROVE Somewhere(p)'
    <3>1. CASE \E h \in Inputs : In(p, delivered[h])
      <4>1. PICK h \in Inputs : In(p, delivered[h]) BY <3>1
      <4>2. In(p, delivered'[h]) BY <1>5, <1>6, <4>1
      <4> QED BY <4>2 DEF Somewhere
    <3>2. CASE \E d \in Slots : In(p, wire[d]) \/ In(p, packets[d])
      <4>1. PICK d \in Slots : In(p, wire[d]) \/ In(p, packets[d]) BY <3>2
      <4>2. In(p, wire'[d]) \/ In(p, packets'[d]) \/ In(p, delivered'[g])
        BY <1>1, <1>4, <1>5, <1>6, <4>1
      <4> QED BY <4>2 DEF Somewhere
    <3> QED BY <2>2, <3>1, <3>2 DEF Somewhere
  <2>3. InSession(fd[g]) BY <1>1, <2>1 DEF LineInv, c
  <2>4. \A h \in Inputs : delivered'[h] # <<>> =>
          fd'[h] # NoSlot /\ handler'[fd'[h]] \in {"serving", "probe", "leaving"}
    BY <1>1, <1>6, <2>1, <2>3 DEF LineInv, InSession
  <2>5. \A d \in Slots : ~InSession(d)' => wire'[d] = <<>> /\ packets'[d] = <<>>
    BY <1>1, <1>6, <2>1, <2>3 DEF LineInv, InSession, c
  <2> QED BY <1>1, <1>7, <2>1, <2>2, <2>4, <2>5 DEF LineInv, InSession
<1> QED BY <1>7, <1>8, <1>9 DEF KeptInv

-----------------------------------------------------------------------------
LEMMA InitKept == ASSUME Init PROVE KeptInv
<1>1. Len(<<>>) = 0 /\ \A k \in 1..0 : FALSE OBVIOUS
<1>2. NumberInv BY <1>1 DEF Init, NumberInv
<1>3. GenuineInv BY NoneIn DEF Init, GenuineInv
<1>4. \A p \in Packet : ~(p.event <= Taken)
  <2>1. Taken = 0
    <3>1. accepted = 0 /\ Len(queue) = 0 BY <1>1 DEF Init
    <3> QED BY <3>1 DEF Taken
  <2> QED BY <2>1, NumberFacts
<1>5. LineInv BY <1>4 DEF Init, LineInv, InSession
<1> QED BY <1>2, <1>3, <1>5 DEF KeptInv

LEMMA NextKept == ASSUME HubInv, KeptInv, [Next]_vars PROVE KeptInv'
<1>1. ASSUME NEW s \in Submitters, Check(s) \/ Put(s) \/ Full(s) PROVE KeptInv'
  BY <1>1, QuietKept, PutKept
<1>2. ASSUME NEW c \in Slots, Session(c) \/ SendFails(c) PROVE KeptInv'
  BY <1>2, SessionKept, TakeKept, SendKept, DrainKept, LossKept DEF Session
<1>3. ASSUME NEW g \in Inputs, Input(g) \/ Drop(g) PROVE KeptInv'
  BY <1>3, GuestKept, DeliverKept, LossKept DEF Input
<1>4. CASE UNCHANGED vars
  <2>1. UNCHANGED <<submit, connected, queue, accepted, handler, packets, wire, gone, fd, delivered, broken>>
    BY <1>4 DEF vars, hub
  <2>2. NumberInv' /\ GenuineInv' BY <2>1 DEF KeptInv, NumberInv, GenuineInv, Taken
  <2>3. LineInv => LineInv' BY <2>1 DEF LineInv, InSession, Taken, Somewhere
  <2> QED BY <2>1, <2>2, <2>3 DEF KeptInv
<1> QED BY <1>1, <1>2, <1>3, <1>4 DEF Next

(* What has left the queue is on the way of the one session, in order.     *)
LEMMA LineFacts ==
  ASSUME HubInv, KeptInv, ~broken, accepted > 0
  PROVE  NothingLost
<1>0. /\ TypeOK /\ OneSession /\ SlotInv /\ QueueInv /\ OrderInv
      /\ NumberInv /\ GenuineInv /\ LineInv
  BY DEF HubInv, KeptInv
<1>1. PICK c \in Slots : InSession(c) BY <1>0 DEF LineInv, OneSession
<1>2. PICK g \in Inputs : fd[g] = c BY <1>0, <1>1 DEF LineInv, InSession
<1>3. fd[g] # NoSlot BY <1>2, SlotsAssumption
<1>4. \A d \in Slots \ {c} : wire[d] = <<>> /\ packets[d] = <<>>
  BY <1>0, <1>1 DEF OneSession, LineInv
<1>5. \A h \in Inputs \ {g} : delivered[h] = <<>>
  <2> SUFFICES ASSUME NEW h \in Inputs, delivered[h] # <<>> PROVE h = g
    OBVIOUS
  <2>1. fd[h] # NoSlot /\ InSession(fd[h]) BY <1>0 DEF LineInv
  <2>2. fd[h] \in Slots BY <1>0, <2>1, TypeFacts
  <2>3. fd[h] = fd[g] BY <1>0, <1>1, <1>2, <2>1, <2>2 DEF OneSession
  <2> QED BY <1>0, <1>3, <2>3 DEF SlotInv
<1> DEFINE line == delivered[g] \o wire[c] \o packets[c]
           taken == accepted - Len(queue)
<1>6. /\ delivered[g] \in Seq(Packet) /\ wire[c] \in Seq(Packet) /\ packets[c] \in Seq(Packet)
      /\ queue \in Seq(Events) /\ accepted \in Nat
  BY <1>0, TypeFacts
<1>7. /\ line \in Seq(Packet) /\ Ordered(line)
      /\ \A p : In(p, line) <=> In(p, delivered[g]) \/ In(p, wire[c]) \/ In(p, packets[c])
  <2>1. /\ Ordered(delivered[g]) /\ Ordered(wire[c]) /\ Ordered(packets[c])
        /\ Below(wire[c], packets[c]) /\ Below(delivered[g], wire[c]) /\ Below(delivered[g], packets[c])
    BY <1>0, <1>2, <1>3 DEF OrderInv
  <2>2. /\ delivered[g] \o wire[c] \in Seq(Packet) /\ Ordered(delivered[g] \o wire[c])
        /\ \A p : In(p, delivered[g] \o wire[c]) <=> In(p, delivered[g]) \/ In(p, wire[c])
        /\ Below(delivered[g] \o wire[c], packets[c])
    BY <1>6, <2>1, ConcatFacts
  <2> QED BY <1>6, <2>1, <2>2, ConcatFacts
<1>8. \A k, l \in DOMAIN line : k < l => Place(line[k]) < Place(line[l])
  <2> HIDE DEF line
  <2>1. DOMAIN line = 1..Len(line) BY <1>7
  <2> QED BY <1>7, <2>1 DEF Ordered
<1>9. \A s \in Seq(Packet) : \A p : p \in ToSet(s) <=> In(p, s)
  <2> TAKE s \in Seq(Packet)
  <2>1. DOMAIN s = 1..Len(s) OBVIOUS
  <2> QED BY <2>1 DEF ToSet, In
<1> HIDE DEF line
<1>10. taken = Taken /\ taken \in Nat /\ taken <= accepted
  BY <1>0, <1>6, EmptyFacts DEF Taken, NumberInv
<1>11. \A e \in 1..taken : e \in Events BY <1>0, <1>6, <1>10, BoundsAssumption DEF TypeOK, Events
<1>12. ASSUME NEW p, In(p, line) PROVE p \in Packet /\ IsPart(p) /\ p.event \in 1..taken
  <2>1. PICK s \in {delivered[g], wire[c], packets[c]} : In(p, s) BY <1>7, <1>12
  <2>2. s \in Seq(Packet) /\ Genuine(s) /\ Before(s, queue, accepted)
    BY <1>0, <1>6, <2>1 DEF GenuineInv, OrderInv
  <2>3. PICK k \in 1..Len(s) : s[k] = p BY <2>1 DEF In
  <2>4. p \in Packet /\ IsPart(p) /\ p.event <= accepted /\ \A l \in 1..Len(queue) : p.event < queue[l]
    BY <2>2, <2>3 DEF Genuine, Before
  <2>5. p.event \in Nat \ {0} BY <2>4, NumberFacts
  <2>6. p.event <= taken
    <3>1. CASE queue = <<>>
      <4>1. taken = accepted BY <1>6, <3>1, EmptyFacts
      <4> QED BY <2>4, <4>1
    <3>2. CASE queue # <<>>
      <4>1. 1 \in 1..Len(queue) BY <1>6, <3>2, TailFacts
      <4>2. queue[1] = Taken + 1 BY <1>0, <4>1 DEF NumberInv
      <4>3. p.event < taken + 1 BY <1>10, <2>4, <4>1, <4>2
      <4> QED BY <1>10, <2>5, <4>3
    <3> QED BY <3>1, <3>2
  <2> QED BY <1>10, <2>4, <2>5, <2>6
<1>13. ASSUME NEW p \in Packet, IsPart(p), p.event \in 1..taken PROVE In(p, line)
  <2>1. Somewhere(p) BY <1>0, <1>10, <1>13 DEF LineInv
  <2>2. ~In(p, <<>>) BY NoneIn
  <2> QED BY <1>4, <1>5, <1>7, <2>1, <2>2 DEF Somewhere
<1>14. ToSet(line) = UNION {ToSet(PacketsOf(e)) : e \in 1..taken}
  <2>1. ASSUME NEW p \in ToSet(line) PROVE p \in UNION {ToSet(PacketsOf(e)) : e \in 1..taken}
    <3>1. p \in Packet /\ IsPart(p) /\ p.event \in 1..taken BY <1>7, <1>9, <1>12, <2>1
    <3>2. p.event \in Events /\ In(p, PacketsOf(p.event)) BY <1>11, <3>1, PartFacts
    <3>3. p \in ToSet(PacketsOf(p.event)) BY <1>9, <3>2, PacketFacts
    <3> QED BY <3>1, <3>3
  <2>2. ASSUME NEW e \in 1..taken, NEW p \in ToSet(PacketsOf(e)) PROVE p \in ToSet(line)
    <3>1. e \in Events /\ PacketsOf(e) \in Seq(Packet) BY <1>11, PacketFacts
    <3>2. In(p, PacketsOf(e)) BY <1>9, <3>1
    <3>3. p \in Packet BY <3>1, <3>2 DEF In
    <3>4. p.event = e /\ IsPart(p) BY <3>1, <3>2, <3>3, PartFacts
    <3> QED BY <1>7, <1>9, <1>13, <3>3, <3>4
  <2> QED BY <2>1, <2>2
<1>15. \A k \in DOMAIN queue : queue[k] = taken + k
  <2>1. DOMAIN queue = 1..Len(queue) BY <1>6
  <2> QED BY <1>0, <2>1 DEF NumberInv, Taken
<1> QED BY <1>4, <1>5, <1>8, <1>14, <1>15 DEF NothingLost, line

(* The second invariant, given the first. *)
THEOREM KeptInvariant == Spec => []KeptInv
<1>1. Init => KeptInv BY InitKept
<1>2. HubInv /\ KeptInv /\ [Next]_vars => KeptInv' BY NextKept
<1> QED BY <1>1, <1>2, HubInvariant, PTL DEF Spec

(* As long as no connection is lost, what has left the queue is delivered  *)
(* or on its way in one session, all of it, once and in order; the queue   *)
(* has the rest (mib_input.py, Guest.handle).                              *)
THEOREM Kept == Spec => []NothingLost
<1>1. HubInv /\ KeptInv => NothingLost BY LineFacts DEF NothingLost
<1> QED BY <1>1, HubInvariant, KeptInvariant, PTL
=============================================================================
