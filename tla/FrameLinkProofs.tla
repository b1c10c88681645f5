--------------------------- MODULE FrameLinkProofs ---------------------------
(***************************************************************************)
(* The window shows whole frames, for any number of frames and             *)
(* connections.  The inductive invariant says of every unit under way      *)
(* where it stands: a connection continues exactly where the device is,    *)
(* and what the renderer will write continues the connection.              *)
(***************************************************************************)
EXTENDS FrameLink, TLAPS

(* The order in which units are sent.                                      *)
Place(u) == 4 * u.frame + u.part

(* What may come after a unit: the next part of its frame, or a frame.     *)
Follows(u, v) ==
  IF u.part = 4 THEN v.part = 1 ELSE v.part = u.part + 1 /\ v.frame = u.frame

(* What the device can take for what it is waiting for.                    *)
Fits(u) == u.part = received + 1 /\ (received > 0 => u.frame = header[1].frame)

(* Connections are opened one after the other, and none twice.             *)
ConnInv ==
  /\ closed \subseteq 1..conns
  /\ sock # Closed => sock = conns /\ sock \notin closed
  /\ \A c \in 1..conns : c # sock => c \in closed
  /\ chr \in 0..conns
  /\ \A c \in Conns : c > conns \/ c < chr => stream[c] = <<>>

(* The rest of a frame, in its order.                                      *)
OutInv ==
  /\ Len(out) <= 4 /\ (out # <<>> => sock # Closed /\ frames > 0)
  /\ \A k \in 1..Len(out) : out[k].frame = frames /\ out[k].part = 4 - Len(out) + k

(* Whatever is under way is in the order of sending.                       *)
OrderInv ==
  /\ \A c \in Conns : \A k \in 1..Len(stream[c]) :
       /\ stream[c][k].frame <= frames
       /\ out # <<>> => Place(stream[c][k]) < Place(out[1])
       /\ \A l \in 1..Len(shown) : shown[l][1].frame < stream[c][k].frame
  /\ \A c, d \in Conns : \A k \in 1..Len(stream[c]), l \in 1..Len(stream[d]) :
       c < d \/ (c = d /\ k < l) => Place(stream[c][k]) < Place(stream[d][l])

(* Each connection carries frames without a gap, from where the device is. *)
GapInv ==
  /\ \A c \in Conns : \A k \in 1..(Len(stream[c]) - 1) : Follows(stream[c][k], stream[c][k + 1])
  /\ \A c \in Conns : stream[c] # <<>> => IF c = chr THEN Fits(stream[c][1]) ELSE stream[c][1].part = 1

(* What will be written continues what has been.                           *)
SeamInv ==
  sock # Closed =>
    IF stream[sock] # <<>>
    THEN IF out = <<>> THEN Last(stream[sock]).part = 4 ELSE Follows(Last(stream[sock]), out[1])
    ELSE IF out = <<>> THEN chr = sock => received = 0
    ELSE IF chr = sock THEN Fits(out[1]) ELSE out[1].part = 1

(* The device is in the middle of one frame, newer than all shown.         *)
DeviceInv ==
  /\ received > 0 => /\ chr # Closed /\ header # <<>> /\ header[1].part = 1
                     /\ header[1].frame <= frames
                     /\ \A l \in 1..Len(shown) : shown[l][1].frame < header[1].frame
  /\ received = 1 => Len(header) = 1
  /\ received = 3 => pixels[1] = [frame |-> header[1].frame, part |-> 3]

ShownInv ==
  /\ \A k \in 1..Len(shown) : shown[k][1].frame <= frames
  /\ out # <<>> => \A k \in 1..Len(shown) : shown[k][1].frame < frames
  /\ has_frame <=> shown # <<>>

FlInv ==
  /\ TypeOK /\ ConnInv /\ OutInv /\ OrderInv /\ GapInv /\ SeamInv
  /\ DeviceInv /\ ShownInv /\ FramesAreWhole

-----------------------------------------------------------------------------
(* A sequence with an element added.                                       *)
LEMMA AppendFacts ==
  ASSUME NEW S, NEW s \in Seq(S), NEW e \in S
  PROVE  /\ Append(s, e) \in Seq(S) /\ Append(s, e) # <<>>
         /\ Len(s) \in Nat /\ Len(Append(s, e)) = Len(s) + 1
         /\ \A k \in 1..Len(s) : Append(s, e)[k] = s[k]
         /\ Append(s, e)[Len(s) + 1] = e
         /\ s # <<>> => Len(s) \in 1..Len(s)
<1>1. /\ Append(s, e) \in Seq(S) /\ Len(s) \in Nat /\ Len(Append(s, e)) = Len(s) + 1
      /\ \A k \in 1..Len(s) : Append(s, e)[k] = s[k]
      /\ Append(s, e)[Len(s) + 1] = e
  OBVIOUS
<1>2. Append(s, e) # <<>> BY <1>1
<1>3. s # <<>> => Len(s) \in 1..Len(s) OBVIOUS
<1> QED BY <1>1, <1>2, <1>3

(* A sequence that is not empty, and the rest of it.                       *)
LEMMA TailFacts ==
  ASSUME NEW S, NEW s \in Seq(S), s # <<>>
  PROVE  /\ Head(s) = s[1] /\ s[1] \in S
         /\ Len(s) \in Nat \ {0} /\ 1 \in 1..Len(s)
         /\ Tail(s) \in Seq(S) /\ Len(Tail(s)) = Len(s) - 1
         /\ \A k \in 1..Len(Tail(s)) : Tail(s)[k] = s[k + 1] /\ k + 1 \in 1..Len(s)
OBVIOUS

(* Only the empty sequence has length zero.                                *)
LEMMA EmptyFacts ==
  ASSUME NEW S, NEW s \in Seq(S)
  PROVE  Len(s) \in Nat /\ (s = <<>> <=> Len(s) = 0)
OBVIOUS

(* The last two of four.                                                   *)
LEMMA PixelFacts ==
  ASSUME NEW S, NEW s \in Seq(S), Len(s) = 4
  PROVE  /\ SubSeq(s, 3, 4) \in Seq(S) /\ Len(SubSeq(s, 3, 4)) = 2
         /\ \A k \in 1..2 : SubSeq(s, 3, 4)[k] = s[k + 2]
<1>1. SubSeq(s, 3, 4) \in Seq(S) OBVIOUS
<1>2. Len(SubSeq(s, 3, 4)) = 2 OBVIOUS
<1>3. \A k \in 1..2 : SubSeq(s, 3, 4)[k] = s[k + 2] OBVIOUS
<1> QED BY <1>1, <1>2, <1>3

(* The units of a frame, and its pixels.                                   *)
LEMMA UnitFacts ==
  ASSUME NEW f \in Frames
  PROVE  /\ UnitsOf(f) \in Seq(Unit) /\ Len(UnitsOf(f)) = 4 /\ UnitsOf(f) # <<>>
         /\ \A k \in 1..4 : UnitsOf(f)[k] = [frame |-> f, part |-> k]
         /\ Picture(f) = [k \in 1..2 |-> [frame |-> f, part |-> k + 2]]
<1>1. \A k \in 1..4 : UnitsOf(f)[k] = [frame |-> f, part |-> k] /\ UnitsOf(f)[k] \in Unit
  BY DEF UnitsOf, Unit
<1>2. UnitsOf(f) = [k \in 1..4 |-> UnitsOf(f)[k]] BY DEF UnitsOf
<1>3. UnitsOf(f) \in Seq(Unit) /\ Len(UnitsOf(f)) = 4 BY <1>1, <1>2
<1>4. UnitsOf(f) # <<>> BY <1>3, EmptyFacts
<1>5. Picture(f) = [k \in 1..2 |-> [frame |-> f, part |-> k + 2]]
  <2> DEFINE p == SubSeq(UnitsOf(f), 3, 4)
  <2>1. p \in Seq(Unit) /\ Len(p) = 2 BY <1>3, PixelFacts
  <2>2. \A k \in 1..2 : p[k] = UnitsOf(f)[k + 2] BY <1>3, PixelFacts
  <2>3. \A k \in 1..2 : k + 2 \in 1..4 OBVIOUS
  <2>4. \A k \in 1..2 : p[k] = [frame |-> f, part |-> k + 2] BY <1>1, <2>2, <2>3
  <2>5. p = [k \in 1..2 |-> p[k]] BY <2>1
  <2>6. p = [k \in 1..2 |-> [frame |-> f, part |-> k + 2]]
    <3> HIDE DEF p
    <3> QED BY <2>4, <2>5
  <2> QED BY <2>6 DEF Picture
<1> QED BY <1>1, <1>3, <1>4, <1>5

LEMMA NumberFacts ==
  /\ Frames \subseteq Nat \ {0} /\ Conns \subseteq Nat \ {0} /\ Closed = 0 /\ Closed \notin Conns
  /\ \A u \in Unit : u.frame \in Nat \ {0} /\ u.part \in 1..4 /\ Place(u) \in Nat
BY BoundsAssumption DEF Frames, Conns, Closed, Unit, Place

(* Parts of an earlier frame come before those of a later one; one that    *)
(* comes after the last part of a frame is of a later one.                 *)
LEMMA PlaceBelow ==
  ASSUME NEW u, NEW v, u.frame \in Nat, v.frame \in Nat, u.part \in 1..4, v.part \in 1..4
  PROVE  /\ u.frame < v.frame => Place(u) < Place(v)
         /\ Place(u) < Place(v) => u.frame <= v.frame
         /\ Place(u) < Place(v) /\ u.part = 4 => u.frame < v.frame
         /\ u.frame = v.frame /\ v.part = u.part + 1 => Place(v) = Place(u) + 1
BY DEF Place

LEMMA InitFl == ASSUME Init PROVE FlInv
<1>1. TypeOK
  <2>1. <<Black, Black>> \in [1..2 -> Unit \cup {Black}] OBVIOUS
  <2>2. \A S : <<>> \in Seq(S) OBVIOUS
  <2>3. Len(<<>>) = 0 /\ {} \subseteq Conns /\ 0 \in 0..(Dots - 1) BY BoundsAssumption
  <2>4. 0 \in 0..MaxConns /\ 0 \in 0..MaxFrames BY BoundsAssumption
  <2>5. window \in [pixels : [1..2 -> Unit \cup {Black}], loading : BOOLEAN, phase : 0..(Dots - 1)]
    BY <2>1, <2>3 DEF Init
  <2>6. stream \in [Conns -> Seq(Unit)] BY <2>2 DEF Init
  <2>7. out \in Seq(Unit) /\ header \in Seq(Unit) /\ shown \in Seq([1..2 -> Unit]) BY <2>2 DEF Init
  <2>8. sock \in Conns \cup {Closed} /\ chr \in Conns \cup {Closed} /\ closed \subseteq Conns
    BY DEF Init
  <2>9. conns \in 0..MaxConns /\ frames \in 0..MaxFrames /\ spinner_phase \in 0..(Dots - 1)
    BY <2>3, <2>4 DEF Init
  <2>10. received \in 0..3 BY DEF Init
  <2>13. has_frame \in BOOLEAN BY Zenon DEF Init
  <2>12. Len(header) <= 2
    <3>1. Len(header) = 0 BY <2>3 DEF Init
    <3> QED BY <3>1
  <2>11. pixels \in [1..2 -> Unit \cup {Black}] BY <2>1 DEF Init
  <2> QED BY <2>5, <2>6, <2>7, <2>8, <2>9, <2>10, <2>11, <2>12, <2>13 DEF TypeOK
<1>2. ConnInv /\ OutInv /\ OrderInv /\ GapInv /\ SeamInv
  BY BoundsAssumption DEF Init, ConnInv, OutInv, OrderInv, GapInv, SeamInv, Closed, Conns
<1>3. DeviceInv /\ ShownInv /\ FramesAreWhole BY DEF Init, DeviceInv, ShownInv, FramesAreWhole
<1> QED BY <1>1, <1>2, <1>3 DEF FlInv

(* A new frame.                                                            *)
LEMMA SendStep == ASSUME FlInv, Send PROVE FlInv'
<1> DEFINE f == frames + 1
<1>0. /\ TypeOK /\ ConnInv /\ OutInv /\ OrderInv /\ GapInv /\ SeamInv
      /\ DeviceInv /\ ShownInv /\ FramesAreWhole
  BY DEF FlInv
<1>1. /\ out = <<>> /\ frames' = f /\ f \in Frames /\ frames \in Nat
      /\ UNCHANGED <<stream, closed, chr, received, header, pixels, has_frame, spinner_phase, window, shown>>
  BY <1>0, BoundsAssumption DEF Send, TypeOK, Frames, display
<1>2. \/ sock # Closed /\ out' = UnitsOf(f) /\ UNCHANGED <<sock, conns>>
      \/ sock = Closed /\ conns < MaxConns /\ conns' = conns + 1 /\ sock' = conns + 1 /\ out' = UnitsOf(f)
      \/ sock = Closed /\ UNCHANGED <<sock, conns, out>>
  BY DEF Send
<1>3. /\ out' = <<>> \/ out' = UnitsOf(f)
      /\ out' \in Seq(Unit) /\ Len(out') <= 4
      /\ out' # <<>> => Len(out') = 4 /\ \A k \in 1..4 : out'[k].frame = frames' /\ out'[k].part = k
  <2>1. out' = <<>> \/ out' = UnitsOf(f) BY <1>1, <1>2
  <2>2. CASE out' = <<>>
    <3>1. out' \in Seq(Unit) /\ Len(out') = 0 BY <2>2
    <3> QED BY <2>1, <2>2, <3>1
  <2>3. CASE out' = UnitsOf(f)
    <3>1. out' \in Seq(Unit) /\ Len(out') = 4 BY <1>1, <2>3, UnitFacts
    <3>2. \A k \in 1..4 : out'[k] = [frame |-> f, part |-> k] BY <1>1, <2>3, UnitFacts
    <3>3. \A k \in 1..4 : out'[k].frame = frames' /\ out'[k].part = k BY <1>1, <3>2
    <3>4. Len(out') <= 4 BY <3>1
    <3> QED BY <2>1, <3>1, <3>3, <3>4, Zenon
  <2> QED BY <2>1, <2>2, <2>3, Zenon
<1>3a. UnitsOf(f) # <<>> BY <1>1, UnitFacts
<1>4. /\ sock' \in Conns \cup {Closed} /\ conns' \in 0..MaxConns /\ conns \in 0..MaxConns
      /\ out' # <<>> => sock' # Closed
  <2>1. /\ sock \in Conns \cup {Closed} /\ conns \in 0..MaxConns /\ MaxConns \in Nat
        /\ conns < MaxConns => conns + 1 \in Conns /\ conns + 1 \in 0..MaxConns /\ conns + 1 # Closed
    BY <1>0, BoundsAssumption DEF TypeOK, Conns, Closed
  <2> QED BY <1>1, <1>2, <2>1
<1>5. TypeOK'
  <2>1. out' \in Seq(Unit) BY <1>3
  <2>2. frames' \in 0..MaxFrames BY <1>1 DEF Frames
  <2> QED BY <1>0, <1>1, <1>4, <2>1, <2>2 DEF TypeOK
<1>6. ConnInv' BY <1>0, <1>1, <1>2, <1>4, BoundsAssumption DEF ConnInv, TypeOK, Conns, Closed
<1>7. OutInv'
  <2>1. CASE out' = <<>> BY <2>1 DEF OutInv
  <2>2. CASE out' # <<>>
    <3>1. Len(out') = 4 /\ sock' # Closed /\ frames' > 0 BY <1>1, <1>3, <1>4, <2>2
    <3>2. \A k \in 1..Len(out') : out'[k].frame = frames' /\ out'[k].part = 4 - Len(out') + k
      BY <1>3, <2>2, <3>1
    <3> QED BY <3>1, <3>2 DEF OutInv
  <2> QED BY <2>1, <2>2
<1>8. OrderInv'
  <2>1. ASSUME NEW c \in Conns, NEW k \in 1..Len(stream[c])
        PROVE  stream[c][k].frame <= frames' /\ (out' # <<>> => Place(stream[c][k]) < Place(out'[1]))
    <3>1. stream[c][k] \in Unit /\ stream[c][k].frame <= frames BY <1>0 DEF TypeOK, OrderInv
    <3>2. stream[c][k].frame \in Nat /\ stream[c][k].part \in 1..4 BY <3>1, NumberFacts
    <3>3. out' # <<>> => out'[1].frame = frames' /\ out'[1].part = 1 BY <1>3
    <3>4. out' # <<>> => Place(stream[c][k]) < Place(out'[1])
      BY <1>1, <3>1, <3>2, <3>3, PlaceBelow
    <3> QED BY <1>1, <3>1, <3>2, <3>4
  <2> QED BY <1>0, <1>1, <2>1 DEF OrderInv
<1>9. GapInv' BY <1>0, <1>1 DEF GapInv, Fits
<1>10. SeamInv'
  <2>1. CASE sock' = Closed BY <2>1 DEF SeamInv
  <2>2. CASE sock # Closed /\ out' = UnitsOf(f) /\ UNCHANGED <<sock, conns>>
    <3>1. out' # <<>> /\ out'[1].part = 1 BY <1>3, <1>3a, <2>2
    <3> QED BY <1>0, <1>1, <2>2, <3>1, NumberFacts DEF SeamInv, Fits, Follows
  <2>3. CASE sock = Closed /\ sock' = conns + 1 /\ conns' = conns + 1 /\ out' = UnitsOf(f)
    <3>1. out' # <<>> /\ out'[1].part = 1 BY <1>3, <1>3a, <2>3
    <3>2. sock' \in Conns /\ sock' > conns
      BY <1>4, <2>3, BoundsAssumption DEF Conns, Closed
    <3>3. stream[sock'] = <<>> /\ chr # sock' BY <1>0, <1>4, <3>2 DEF ConnInv
    <3> QED BY <1>1, <3>1, <3>3 DEF SeamInv
  <2> QED BY <1>2, <2>1, <2>2, <2>3
<1>11. DeviceInv'
  <2>1. received > 0 => header[1].frame \in Nat
    <3>1. received > 0 => header # <<>> BY <1>0 DEF DeviceInv
    <3>2. header # <<>> => header[1] \in Unit BY <1>0, TailFacts DEF TypeOK
    <3> QED BY <3>1, <3>2, NumberFacts
  <2> QED BY <1>0, <1>1, <2>1 DEF DeviceInv
<1>12. ShownInv'
  <2>1. \A k \in 1..Len(shown) : shown[k][1].frame \in Nat
    <3>1. \A k \in 1..Len(shown) : shown[k] \in [1..2 -> Unit] BY <1>0 DEF TypeOK
    <3>2. \A k \in 1..Len(shown) : shown[k][1] \in Unit BY <3>1
    <3> QED BY <3>2, NumberFacts
  <2> QED BY <1>0, <1>1, <2>1 DEF ShownInv
<1>13. FramesAreWhole' BY <1>0, <1>1 DEF FramesAreWhole
<1> QED BY <1>5, <1>6, <1>7, <1>8, <1>9, <1>10, <1>11, <1>12, <1>13 DEF FlInv

(* A unit of it goes to the connection.                                    *)
LEMMA WriteStep == ASSUME FlInv, Write PROVE FlInv'
<1> DEFINE u == out[1]
           s == stream[sock]
<1>0. /\ TypeOK /\ ConnInv /\ OutInv /\ OrderInv /\ GapInv /\ SeamInv
      /\ DeviceInv /\ ShownInv /\ FramesAreWhole
  BY DEF FlInv
<1>1. /\ out # <<>>
      /\ UNCHANGED <<sock, conns, frames, closed, chr, received, header, pixels,
                     has_frame, spinner_phase, window, shown>>
  BY DEF Write, display
<1>2. sock = conns /\ sock \in Conns /\ sock # Closed /\ sock \notin closed /\ conns \in Nat
  BY <1>0, <1>1 DEF TypeOK, ConnInv, OutInv
<1>3. /\ u \in Unit /\ u.frame = frames /\ u.part = 5 - Len(out) /\ out' = Tail(out)
      /\ Len(out) \in 1..4 /\ out' \in Seq(Unit) /\ Len(out') = Len(out) - 1
      /\ \A k \in 1..Len(out') : out'[k] = out[k + 1] /\ k + 1 \in 1..Len(out)
      /\ frames \in Nat
  <2>1. out \in Seq(Unit) /\ Len(out) <= 4 /\ frames \in Nat BY <1>0 DEF TypeOK, OutInv
  <2>2. out' = Tail(out) BY DEF Write
  <2>3. /\ u \in Unit /\ Len(out) \in 1..4 /\ 1 \in 1..Len(out)
        /\ out' \in Seq(Unit) /\ Len(out') = Len(out) - 1
        /\ \A k \in 1..Len(out') : out'[k] = out[k + 1] /\ k + 1 \in 1..Len(out)
    <3>1. /\ u \in Unit /\ Len(out) \in Nat \ {0} /\ 1 \in 1..Len(out)
          /\ Tail(out) \in Seq(Unit) /\ Len(Tail(out)) = Len(out) - 1
          /\ \A k \in 1..Len(Tail(out)) : Tail(out)[k] = out[k + 1] /\ k + 1 \in 1..Len(out)
      BY <1>1, <2>1, TailFacts
    <3>2. Len(out) \in 1..4 BY <2>1, <3>1
    <3> QED BY <2>2, <3>1, <3>2
  <2>4. u.frame = frames /\ u.part = 4 - Len(out) + 1 BY <1>0, <2>3 DEF OutInv
  <2>5. u.part = 5 - Len(out) BY <2>3, <2>4
  <2> QED BY <2>1, <2>2, <2>3, <2>4, <2>5
<1>4. /\ stream' \in [Conns -> Seq(Unit)] /\ s \in Seq(Unit) /\ stream'[sock] = Append(s, u)
      /\ \A c \in Conns : c # sock => stream'[c] = stream[c]
  <2>1. s \in Seq(Unit) /\ out \in Seq(Unit) BY <1>0, <1>2 DEF TypeOK
  <2>2. Head(out) = u BY <1>1, <2>1, TailFacts
  <2>3. stream' = [stream EXCEPT ![sock] = Append(s, u)] BY <2>2 DEF Write
  <2>4. Append(s, u) \in Seq(Unit) BY <1>3, <2>1
  <2> QED BY <1>0, <1>2, <2>1, <2>3, <2>4 DEF TypeOK
<1>5. /\ Len(s) \in Nat /\ Len(stream'[sock]) = Len(s) + 1 /\ stream'[sock] # <<>>
      /\ \A k \in 1..Len(s) : stream'[sock][k] = s[k]
      /\ stream'[sock][Len(s) + 1] = u
  BY <1>3, <1>4, AppendFacts
<1>6. out' # <<>> => out'[1] = out[2] /\ out'[1].frame = frames /\ out'[1].part = u.part + 1 /\ u.part # 4
  <2>1. CASE out' # <<>>
    <3>1. 1 \in 1..Len(out') /\ Len(out) \in 2..4 BY <1>3, <2>1, EmptyFacts
    <3>2. out'[1] = out[2] /\ 2 \in 1..Len(out) BY <1>3, <3>1
    <3>3. out[2].frame = frames /\ out[2].part = 4 - Len(out) + 2 BY <1>0, <3>2 DEF OutInv
    <3> QED BY <1>3, <3>1, <3>2, <3>3
  <2> QED BY <2>1
<1>7. TypeOK' BY <1>0, <1>1, <1>3, <1>4 DEF TypeOK
<1>8. ConnInv' BY <1>0, <1>1, <1>2, <1>4 DEF ConnInv, TypeOK, Conns, Closed
<1>9. OutInv'
  <2>1. \A k \in 1..Len(out') : out'[k].frame = frames /\ out'[k].part = 4 - Len(out') + k
    <3> TAKE k \in 1..Len(out')
    <3>1. out'[k] = out[k + 1] /\ k + 1 \in 1..Len(out) BY <1>3
    <3>2. out[k + 1].frame = frames /\ out[k + 1].part = 4 - Len(out) + (k + 1)
      BY <1>0, <3>1 DEF OutInv
    <3> QED BY <1>3, <3>1, <3>2
  <2>2. Len(out') <= 4 BY <1>3
  <2> QED BY <1>0, <1>1, <1>2, <2>1, <2>2 DEF OutInv
<1>10. ShownInv'
  BY <1>0, <1>1 DEF ShownInv
<1>11. OrderInv'
  <2>1. u.frame \in Nat /\ u.part \in 1..4 /\ Place(u) \in Nat BY <1>3, NumberFacts
  <2>2. out' # <<>> => Place(out'[1]) = Place(u) + 1
    <3>1. out' # <<>> => out'[1].frame = u.frame /\ out'[1].part = u.part + 1 /\ out'[1].part \in 1..4
      BY <1>3, <1>6, <2>1
    <3> QED BY <2>1, <3>1, PlaceBelow
  <2>3. \A c \in Conns : \A k \in 1..Len(stream[c]) : Place(stream[c][k]) < Place(u)
    BY <1>0, <1>1 DEF OrderInv
  <2>4. \A c \in Conns : \A k \in 1..Len(stream[c]) : Place(stream[c][k]) \in Nat
    <3>1. \A c \in Conns : \A k \in 1..Len(stream[c]) : stream[c][k] \in Unit BY <1>0 DEF TypeOK
    <3> QED BY <3>1, NumberFacts
  <2>5. ASSUME NEW c \in Conns, NEW k \in 1..Len(stream'[c])
        PROVE  \/ k \in 1..Len(stream[c]) /\ stream'[c][k] = stream[c][k]
               \/ c = sock /\ k = Len(s) + 1 /\ stream'[c][k] = u
    BY <1>4, <1>5
  <2>6. ASSUME NEW c \in Conns, NEW k \in 1..Len(stream'[c])
        PROVE  /\ stream'[c][k].frame <= frames
               /\ out' # <<>> => Place(stream'[c][k]) < Place(out'[1])
               /\ \A l \in 1..Len(shown) : shown[l][1].frame < stream'[c][k].frame
    <3>1. CASE k \in 1..Len(stream[c]) /\ stream'[c][k] = stream[c][k]
      <4>1. Place(stream[c][k]) < Place(u) /\ Place(stream[c][k]) \in Nat BY <2>3, <2>4, <3>1
      <4>2. out' # <<>> => Place(stream[c][k]) < Place(out'[1]) BY <2>1, <2>2, <4>1
      <4> QED BY <1>0, <3>1, <4>2 DEF OrderInv
    <3>2. CASE stream'[c][k] = u
      <4>1. u.frame <= frames BY <1>3
      <4>2. out' # <<>> => Place(u) < Place(out'[1]) BY <2>1, <2>2
      <4>3. \A l \in 1..Len(shown) : shown[l][1].frame < u.frame BY <1>0, <1>1, <1>3 DEF ShownInv
      <4> QED BY <3>2, <4>1, <4>2, <4>3
    <3> QED BY <2>5, <3>1, <3>2
  <2>7. ASSUME NEW c \in Conns, NEW d \in Conns,
               NEW k \in 1..Len(stream'[c]), NEW l \in 1..Len(stream'[d]),
               c < d \/ (c = d /\ k < l)
        PROVE  Place(stream'[c][k]) < Place(stream'[d][l])
    <3>1. CASE l \in 1..Len(stream[d]) /\ stream'[d][l] = stream[d][l]
      <4>1. d <= sock
        <5>1. stream[d] # <<>> BY <3>1, EmptyFacts
        <5>2. d <= conns BY <1>0, <1>2, <5>1 DEF ConnInv, Conns
        <5> QED BY <1>2, <5>2
      <4>2. ~(c = sock /\ k = Len(s) + 1)
        BY <1>2, <1>5, <2>7, <3>1, <4>1 DEF Conns
      <4>3. k \in 1..Len(stream[c]) /\ stream'[c][k] = stream[c][k] BY <2>5, <4>2
      <4> QED BY <1>0, <2>7, <3>1, <4>3 DEF OrderInv
    <3>2. CASE d = sock /\ l = Len(s) + 1 /\ stream'[d][l] = u
      <4>1. ~(c = sock /\ k = Len(s) + 1) BY <1>2, <1>5, <2>7, <3>2 DEF Conns
      <4>2. k \in 1..Len(stream[c]) /\ stream'[c][k] = stream[c][k] BY <2>5, <4>1
      <4> QED BY <2>3, <3>2, <4>2
    <3> QED BY <2>5, <3>1, <3>2
  <2> QED BY <1>1, <2>6, <2>7 DEF OrderInv
<1>12. GapInv'
  <2>1. \A c \in Conns : \A k \in 1..(Len(stream'[c]) - 1) : Follows(stream'[c][k], stream'[c][k + 1])
    <3> TAKE c \in Conns
    <3>1. CASE c # sock BY <1>0, <1>4, <3>1 DEF GapInv
    <3>2. CASE c = sock
      <4> TAKE k \in 1..(Len(stream'[c]) - 1)
      <4>1. CASE k < Len(s)
        <5>1. k \in 1..(Len(s) - 1) /\ k \in 1..Len(s) /\ k + 1 \in 1..Len(s) BY <1>5, <3>2, <4>1
        <5>2. stream'[c][k] = s[k] /\ stream'[c][k + 1] = s[k + 1] BY <1>5, <3>2, <5>1
        <5>3. Follows(s[k], s[k + 1]) BY <1>0, <1>2, <5>1 DEF GapInv
        <5> QED BY <5>2, <5>3
      <4>2. CASE k = Len(s)
        <5>1. k \in 1..Len(s) /\ s # <<>> BY <1>4, <1>5, <3>2, <4>2, EmptyFacts
        <5>2. stream'[c][k] = s[k] /\ stream'[c][k + 1] = u BY <1>5, <3>2, <4>2, <5>1
        <5>3. Follows(s[k], u) BY <1>0, <1>1, <1>2, <4>2, <5>1 DEF SeamInv, Last
        <5> QED BY <5>2, <5>3
      <4>3. k < Len(s) \/ k = Len(s) BY <1>5, <3>2
      <4> QED BY <4>1, <4>2, <4>3
    <3> QED BY <3>1, <3>2
  <2>2. ASSUME NEW c \in Conns, stream'[c] # <<>>
        PROVE  IF c = chr THEN Fits(stream'[c][1]) ELSE stream'[c][1].part = 1
    <3>1. CASE c # sock BY <1>0, <1>4, <2>2, <3>1 DEF GapInv
    <3>2. CASE c = sock /\ s # <<>>
      <4>1. 1 \in 1..Len(s) BY <1>4, <3>2, EmptyFacts
      <4>2. stream'[c][1] = s[1] BY <1>5, <3>2, <4>1
      <4> QED BY <1>0, <1>2, <3>2, <4>2 DEF GapInv
    <3>3. CASE c = sock /\ s = <<>>
      <4>1. stream'[c][1] = u BY <1>4, <1>5, <3>3, EmptyFacts
      <4> QED BY <1>0, <1>1, <1>2, <3>3, <4>1 DEF SeamInv
    <3> QED BY <3>1, <3>2, <3>3
  <2> QED BY <1>1, <2>1, <2>2 DEF GapInv, Fits
<1>13. SeamInv'
  <2>1. Last(stream'[sock]) = u BY <1>5 DEF Last
  <2>2. out' = <<>> => u.part = 4 BY <1>3
  <2>3. out' # <<>> => Follows(u, out'[1]) BY <1>3, <1>6 DEF Follows
  <2> QED BY <1>1, <1>5, <2>1, <2>2, <2>3 DEF SeamInv, Last
<1>14. DeviceInv' /\ FramesAreWhole' BY <1>0, <1>1 DEF DeviceInv, FramesAreWhole
<1> QED BY <1>7, <1>8, <1>9, <1>10, <1>11, <1>12, <1>13, <1>14 DEF FlInv

(* The rest of it is given up, with the connection.                        *)
LEMMA TimeoutStep == ASSUME FlInv, Timeout PROVE FlInv'
<1>0. /\ TypeOK /\ ConnInv /\ OutInv /\ OrderInv /\ GapInv /\ SeamInv
      /\ DeviceInv /\ ShownInv /\ FramesAreWhole
  BY DEF FlInv
<1>1. /\ out # <<>> /\ out' = <<>> /\ closed' = closed \cup {sock} /\ sock' = Closed
      /\ UNCHANGED <<conns, frames, stream, chr, received, header, pixels,
                     has_frame, spinner_phase, window, shown>>
  BY DEF Timeout, display
<1>2. sock = conns /\ sock \in Conns /\ conns \in Nat BY <1>0, <1>1 DEF TypeOK, ConnInv, OutInv
<1>3. TypeOK' BY <1>0, <1>1, <1>2 DEF TypeOK
<1>4. ConnInv'
  <2>1. sock \in 1..conns BY <1>2 DEF Conns
  <2>2. closed' \subseteq 1..conns /\ \A c \in 1..conns : c \in closed'
    BY <1>0, <1>1, <1>2, <2>1 DEF ConnInv
  <2> QED BY <1>0, <1>1, <2>2 DEF ConnInv
<1>5. OutInv' /\ SeamInv' BY <1>1 DEF OutInv, SeamInv
<1>6. OrderInv' /\ GapInv' BY <1>0, <1>1 DEF OrderInv, GapInv, Fits
<1>7. DeviceInv' /\ ShownInv' /\ FramesAreWhole'
  BY <1>0, <1>1 DEF DeviceInv, ShownInv, FramesAreWhole
<1> QED BY <1>3, <1>4, <1>5, <1>6, <1>7 DEF FlInv

(* The device takes the next connection.                                   *)
LEMMA AcceptStep == ASSUME FlInv, Accept PROVE FlInv'
<1>0. /\ TypeOK /\ ConnInv /\ OutInv /\ OrderInv /\ GapInv /\ SeamInv
      /\ DeviceInv /\ ShownInv /\ FramesAreWhole
  BY DEF FlInv
<1>1. /\ chr = Closed
      /\ UNCHANGED <<sock, conns, frames, out, closed, stream, received, header, pixels,
                     has_frame, spinner_phase, window, shown>>
  BY DEF Accept, sender, display
<1>2. /\ chr' \in 1..conns /\ chr' \in Conns /\ conns \in Nat
      /\ \A d \in 1..(chr' - 1) : stream[d] = <<>>
  <2>1. PICK c \in 1..conns : chr' = c /\ \A d \in 1..(c - 1) : stream[d] = <<>> BY DEF Accept
  <2>2. conns \in 0..MaxConns BY <1>0 DEF TypeOK
  <2>3. c \in 1..MaxConns /\ conns \in Nat BY <2>2, BoundsAssumption
  <2> QED BY <2>1, <2>3 DEF Conns
<1>3. received = 0 BY <1>0, <1>1 DEF DeviceInv, TypeOK
<1>4. TypeOK' BY <1>0, <1>1, <1>2 DEF TypeOK
<1>5. ConnInv'
  <2>1. \A c \in Conns : c > conns \/ c < chr' => stream[c] = <<>>
    <3> TAKE c \in Conns
    <3>1. c < chr' => c \in 1..(chr' - 1) BY <1>2 DEF Conns
    <3> QED BY <1>0, <1>2, <3>1 DEF ConnInv
  <2>2. chr' \in 0..conns BY <1>2
  <2> QED BY <1>0, <1>1, <2>1, <2>2 DEF ConnInv
<1>6. OutInv' /\ OrderInv' BY <1>0, <1>1 DEF OutInv, OrderInv
<1>7. \A u : Fits(u) <=> u.part = 1 BY <1>3 DEF Fits
<1>8. chr # chr' /\ chr \notin Conns BY <1>1, <1>2, NumberFacts
<1>9. GapInv' BY <1>0, <1>1, <1>7, <1>8 DEF GapInv, Fits
<1>10. SeamInv' BY <1>0, <1>1, <1>3, <1>7 DEF SeamInv, Fits
<1>11. DeviceInv' /\ ShownInv' /\ FramesAreWhole'
  BY <1>0, <1>1, <1>3 DEF DeviceInv, ShownInv, FramesAreWhole
<1> QED BY <1>4, <1>5, <1>6, <1>9, <1>10, <1>11 DEF FlInv

(* The end of a connection ends the frame.                                 *)
LEMMA HangupStep == ASSUME FlInv, Hangup PROVE FlInv'
<1>0. /\ TypeOK /\ ConnInv /\ OutInv /\ OrderInv /\ GapInv /\ SeamInv
      /\ DeviceInv /\ ShownInv /\ FramesAreWhole
  BY DEF FlInv
<1>1. /\ chr \in closed /\ chr' = Closed /\ received' = 0
      /\ stream' = [stream EXCEPT ![chr] = <<>>]
      /\ UNCHANGED <<sock, conns, frames, out, closed, header, pixels,
                     has_frame, spinner_phase, window, shown>>
  BY DEF Hangup, sender, display
<1>2. chr \in Conns /\ chr # sock BY <1>0, <1>1, NumberFacts DEF ConnInv, TypeOK
<1>3. /\ stream'[chr] = <<>> /\ stream' \in [Conns -> Seq(Unit)]
      /\ \A c \in Conns : c # chr => stream'[c] = stream[c]
  <2>1. <<>> \in Seq(Unit) OBVIOUS
  <2> QED BY <1>0, <1>1, <1>2, <2>1 DEF TypeOK
<1>4. \A c \in Conns : stream'[c] = <<>> \/ (c # chr /\ stream'[c] = stream[c]) BY <1>3
<1>5. TypeOK' BY <1>0, <1>1, <1>3 DEF TypeOK
<1>6. ConnInv'
  <2>1. chr' \in 0..conns BY <1>0, <1>1, NumberFacts DEF TypeOK
  <2>2. \A c \in Conns : c > conns \/ c < chr' => stream'[c] = <<>>
    BY <1>0, <1>1, <1>4, NumberFacts DEF ConnInv
  <2> QED BY <1>0, <1>1, <2>1, <2>2 DEF ConnInv
<1>7. OutInv' BY <1>0, <1>1 DEF OutInv
<1>8. \A c \in Conns : \A k \in 1..Len(stream'[c]) :
        c # chr /\ k \in 1..Len(stream[c]) /\ stream'[c] = stream[c]
  <2>1. \A k \in 1..Len(<<>>) : FALSE OBVIOUS
  <2> QED BY <1>4, <2>1
<1>9. OrderInv' BY <1>0, <1>1, <1>8 DEF OrderInv
<1>10. GapInv'
  <2>1. \A c \in Conns : \A k \in 1..(Len(stream'[c]) - 1) : Follows(stream'[c][k], stream'[c][k + 1])
    <3> TAKE c \in Conns
    <3>1. CASE stream'[c] = <<>>
      <4>1. \A k \in 1..(Len(<<>>) - 1) : FALSE OBVIOUS
      <4> QED BY <3>1, <4>1
    <3>2. CASE stream'[c] = stream[c] BY <1>0, <3>2 DEF GapInv
    <3> QED BY <1>4, <3>1, <3>2
  <2>2. \A c \in Conns : stream'[c] # <<>> => stream'[c][1].part = 1
    BY <1>0, <1>4 DEF GapInv
  <2>3. chr' \notin Conns BY <1>1, NumberFacts
  <2> QED BY <2>1, <2>2, <2>3 DEF GapInv
<1>11. SeamInv'
  <2>1. sock # Closed => sock \in Conns /\ stream'[sock] = stream[sock]
    BY <1>0, <1>2, <1>3 DEF TypeOK
  <2> QED BY <1>0, <1>1, <1>2, <2>1 DEF SeamInv
<1>12. DeviceInv' /\ ShownInv' /\ FramesAreWhole'
  BY <1>0, <1>1 DEF DeviceInv, ShownInv, FramesAreWhole
<1> QED BY <1>5, <1>6, <1>7, <1>9, <1>10, <1>11, <1>12 DEF FlInv

(* The loading screen.                                                     *)
LEMMA TickStep == ASSUME FlInv, Tick PROVE FlInv'
<1>0. /\ TypeOK /\ ConnInv /\ OutInv /\ OrderInv /\ GapInv /\ SeamInv
      /\ DeviceInv /\ ShownInv /\ FramesAreWhole
  BY DEF FlInv
<1>1. /\ ~has_frame /\ spinner_phase' = (spinner_phase + 1) % Dots
      /\ window' = [pixels |-> pixels, loading |-> TRUE, phase |-> spinner_phase']
      /\ UNCHANGED <<sock, conns, frames, out, closed, stream, chr, received, header, pixels,
                     has_frame, shown>>
  BY <1>0 DEF Tick, Paint, sender, TypeOK
<1>2. spinner_phase' \in 0..(Dots - 1) BY <1>0, <1>1, BoundsAssumption DEF TypeOK
<1>3. window' \in [pixels : [1..2 -> Unit \cup {Black}], loading : BOOLEAN, phase : 0..(Dots - 1)]
  BY <1>0, <1>1, <1>2 DEF TypeOK
<1>4. TypeOK' BY <1>0, <1>1, <1>2, <1>3 DEF TypeOK
<1>5. shown = <<>> BY <1>0, <1>1 DEF ShownInv
<1>6. ConnInv' /\ OutInv' /\ OrderInv' /\ GapInv'
  BY <1>0, <1>1 DEF ConnInv, OutInv, OrderInv, GapInv, Fits
<1>7. SeamInv' /\ DeviceInv' /\ ShownInv' BY <1>0, <1>1 DEF SeamInv, Fits, DeviceInv, ShownInv
<1>8. FramesAreWhole' BY <1>0, <1>1, <1>5 DEF FramesAreWhole
<1> QED BY <1>4, <1>6, <1>7, <1>8 DEF FlInv

-----------------------------------------------------------------------------
(* A unit comes to the device from the connection it serves,               *)
Consume ==
  /\ chr # Closed /\ stream[chr] # <<>>
  /\ stream' = [stream EXCEPT ![chr] = Tail(@)]
  /\ UNCHANGED <<sender, chr>>

(* which then waits for what follows that unit, and may show its frame.    *)
Advance(u) ==
  /\ received' = IF u.part = 4 THEN 0 ELSE u.part
  /\ u.part # 4 => header'[1].frame = u.frame
  /\ \A l \in 1..Len(shown') :
       \/ l \in 1..Len(shown) /\ shown'[l] = shown[l]
       \/ u.part = 4 /\ shown'[l][1].frame = u.frame

(* The unit is the one the device is waiting for.                          *)
LEMMA NextUnit ==
  ASSUME FlInv, Consume
  PROVE  LET u == stream[chr][1]
         IN  /\ chr \in Conns /\ u = Head(stream[chr])
             /\ u \in Unit /\ u.frame \in Nat \ {0} /\ u.part \in 1..4
             /\ u.part = received + 1 /\ u.frame <= frames
             /\ received > 0 => u.frame = header[1].frame
             /\ \A l \in 1..Len(shown) : shown[l][1].frame < u.frame
             /\ out # <<>> => (u.part = 4 => u.frame < frames)
             /\ stream'[chr] = Tail(stream[chr]) /\ stream' \in [Conns -> Seq(Unit)]
             /\ Len(stream[chr]) \in Nat \ {0} /\ Len(stream'[chr]) = Len(stream[chr]) - 1
             /\ \A k \in 1..Len(stream'[chr]) :
                  stream'[chr][k] = stream[chr][k + 1] /\ k + 1 \in 1..Len(stream[chr])
             /\ \A c \in Conns : c # chr => stream'[c] = stream[c]
<1> DEFINE u == stream[chr][1]
<1>0. /\ TypeOK /\ ConnInv /\ OutInv /\ OrderInv /\ GapInv /\ SeamInv
      /\ DeviceInv /\ ShownInv /\ FramesAreWhole
  BY DEF FlInv
<1>1. chr \in Conns /\ stream[chr] \in Seq(Unit) /\ stream[chr] # <<>>
  BY <1>0 DEF TypeOK, Consume
<1>2. /\ u = Head(stream[chr]) /\ u \in Unit /\ 1 \in 1..Len(stream[chr])
      /\ Len(stream[chr]) \in Nat \ {0}
      /\ Tail(stream[chr]) \in Seq(Unit) /\ Len(Tail(stream[chr])) = Len(stream[chr]) - 1
      /\ \A k \in 1..Len(Tail(stream[chr])) :
           Tail(stream[chr])[k] = stream[chr][k + 1] /\ k + 1 \in 1..Len(stream[chr])
  BY <1>1, TailFacts
<1>3. u.frame \in Nat \ {0} /\ u.part \in 1..4 BY <1>2, NumberFacts
<1>4. u.part = received + 1 /\ (received > 0 => u.frame = header[1].frame)
  BY <1>0, <1>1 DEF GapInv, Fits
<1>5. /\ u.frame <= frames /\ \A l \in 1..Len(shown) : shown[l][1].frame < u.frame
      /\ out # <<>> => Place(u) < Place(out[1])
  BY <1>0, <1>1, <1>2 DEF OrderInv
<1>6. out # <<>> => (u.part = 4 => u.frame < frames)
  <2>1. out # <<>> => out[1] \in Unit /\ out[1].frame = frames
    <3>1. out \in Seq(Unit) BY <1>0 DEF TypeOK
    <3>2. out # <<>> => out[1] \in Unit /\ 1 \in 1..Len(out) BY <3>1, TailFacts
    <3> QED BY <1>0, <3>2 DEF OutInv
  <2>2. out # <<>> => out[1].frame \in Nat /\ out[1].part \in 1..4 BY <2>1, NumberFacts
  <2> QED BY <1>3, <1>5, <2>1, <2>2, PlaceBelow
<1>7. /\ stream'[chr] = Tail(stream[chr]) /\ stream' \in [Conns -> Seq(Unit)]
      /\ \A c \in Conns : c # chr => stream'[c] = stream[c]
  BY <1>0, <1>1, <1>2 DEF Consume, TypeOK
<1> QED BY <1>1, <1>2, <1>3, <1>4, <1>5, <1>6, <1>7

(* What is under way keeps its order and still fits the device.            *)
LEMMA ConsumeStep ==
  ASSUME FlInv, Consume, Advance(stream[chr][1])
  PROVE  ConnInv' /\ OutInv' /\ OrderInv' /\ GapInv' /\ SeamInv'
<1> DEFINE u == stream[chr][1]
<1>0. /\ TypeOK /\ ConnInv /\ OutInv /\ OrderInv /\ GapInv /\ SeamInv
      /\ DeviceInv /\ ShownInv /\ FramesAreWhole
  BY DEF FlInv
<1>1. /\ chr # Closed /\ stream[chr] # <<>>
      /\ UNCHANGED <<sock, conns, frames, out, closed, chr>>
  BY DEF Consume, sender
<1>2. /\ chr \in Conns /\ u \in Unit /\ u.frame \in Nat \ {0} /\ u.part \in 1..4
      /\ stream' \in [Conns -> Seq(Unit)]
      /\ Len(stream[chr]) \in Nat \ {0} /\ Len(stream'[chr]) = Len(stream[chr]) - 1
      /\ \A k \in 1..Len(stream'[chr]) :
           stream'[chr][k] = stream[chr][k + 1] /\ k + 1 \in 1..Len(stream[chr])
      /\ \A c \in Conns : c # chr => stream'[c] = stream[c]
  BY NextUnit
<1>3. /\ received' = IF u.part = 4 THEN 0 ELSE u.part
      /\ u.part # 4 => header'[1].frame = u.frame
  BY DEF Advance
<1>4. \A v : Follows(u, v) => v.part = received' + 1 /\ (received' > 0 => v.frame = header'[1].frame)
  BY <1>2, <1>3 DEF Follows
<1>5. ConnInv'
  <2>1. chr <= conns /\ ~(chr < chr)
    <3>1. conns \in Nat /\ chr \in Nat BY <1>0, <1>2, NumberFacts DEF TypeOK
    <3> QED BY <1>0, <1>1, <1>2, <3>1 DEF ConnInv
  <2>2. ~(chr > conns)
    BY <1>0, <1>1, <1>2 DEF ConnInv
  <2>3. \A c \in Conns : c > conns \/ c < chr => stream'[c] = <<>>
    BY <1>0, <1>2, <2>1, <2>2 DEF ConnInv
  <2> QED BY <1>0, <1>1, <2>3 DEF ConnInv
<1>6. OutInv' BY <1>0, <1>1 DEF OutInv
<1>7. ASSUME NEW c \in Conns, NEW k \in 1..Len(stream'[c])
      PROVE  \E i \in 1..Len(stream[c]) :
               stream'[c][k] = stream[c][i] /\ i = IF c = chr THEN k + 1 ELSE k
  <2>1. CASE c = chr BY <1>2, <2>1
  <2>2. CASE c # chr BY <1>2, <2>2
  <2> QED BY <2>1, <2>2
<1>8. OrderInv'
  <2>1. ASSUME NEW c \in Conns, NEW k \in 1..Len(stream'[c])
        PROVE  /\ stream'[c][k].frame <= frames
               /\ out # <<>> => Place(stream'[c][k]) < Place(out[1])
               /\ \A l \in 1..Len(shown') : shown'[l][1].frame < stream'[c][k].frame
    <3>1. PICK i \in 1..Len(stream[c]) :
                 stream'[c][k] = stream[c][i] /\ i = IF c = chr THEN k + 1 ELSE k
      BY <1>7
    <3>2. /\ stream[c][i].frame <= frames
          /\ out # <<>> => Place(stream[c][i]) < Place(out[1])
          /\ \A l \in 1..Len(shown) : shown[l][1].frame < stream[c][i].frame
      BY <1>0, <3>1 DEF OrderInv
    <3>3. u.part = 4 => u.frame < stream[c][i].frame
      <4>1. c >= chr
        <5>1. stream[c] # <<>> BY <1>0, <3>1, EmptyFacts DEF TypeOK
        <5>2. ~(c < chr) BY <1>0, <5>1 DEF ConnInv
        <5> QED BY <1>2, <5>2 DEF Conns
      <4>2. 1 \in 1..Len(stream[chr]) BY <1>2
      <4>3. chr < c \/ (chr = c /\ 1 < i)
        BY <1>2, <3>1, <4>1 DEF Conns
      <4>4. Place(u) < Place(stream[c][i]) BY <1>0, <1>2, <3>1, <4>2, <4>3 DEF OrderInv
      <4>5. stream[c][i] \in Unit BY <1>0, <3>1 DEF TypeOK
      <4>6. stream[c][i].frame \in Nat /\ stream[c][i].part \in 1..4 BY <4>5, NumberFacts
      <4> QED BY <1>2, <4>4, <4>6, PlaceBelow
    <3>4. ASSUME NEW l \in 1..Len(shown') PROVE shown'[l][1].frame < stream[c][i].frame
      BY <3>2, <3>3 DEF Advance
    <3> QED BY <3>1, <3>2, <3>4
  <2>2. ASSUME NEW c \in Conns, NEW d \in Conns,
               NEW k \in 1..Len(stream'[c]), NEW l \in 1..Len(stream'[d]),
               c < d \/ (c = d /\ k < l)
        PROVE  Place(stream'[c][k]) < Place(stream'[d][l])
    <3>1. PICK i \in 1..Len(stream[c]) :
                 stream'[c][k] = stream[c][i] /\ i = IF c = chr THEN k + 1 ELSE k
      BY <1>7
    <3>2. PICK j \in 1..Len(stream[d]) :
                 stream'[d][l] = stream[d][j] /\ j = IF d = chr THEN l + 1 ELSE l
      BY <1>7
    <3>3. c < d \/ (c = d /\ i < j)
      <4>1. k \in Int /\ l \in Int OBVIOUS
      <4> QED BY <2>2, <3>1, <3>2, <4>1
    <3> QED BY <1>0, <3>1, <3>2, <3>3 DEF OrderInv
  <2> QED BY <1>1, <2>1, <2>2 DEF OrderInv
<1>9. GapInv'
  <2>1. \A c \in Conns : \A k \in 1..(Len(stream'[c]) - 1) : Follows(stream'[c][k], stream'[c][k + 1])
    <3> TAKE c \in Conns
    <3>1. CASE c # chr BY <1>0, <1>2, <3>1 DEF GapInv
    <3>2. CASE c = chr
      <4> TAKE k \in 1..(Len(stream'[c]) - 1)
      <4>1. k \in 1..Len(stream'[chr]) /\ k + 1 \in 1..Len(stream'[chr])
            /\ k + 1 \in 1..(Len(stream[chr]) - 1)
        BY <1>2, <3>2
      <4>2. stream'[chr][k] = stream[chr][k + 1] /\ stream'[chr][k + 1] = stream[chr][(k + 1) + 1]
        BY <1>2, <4>1
      <4>3. Follows(stream[chr][k + 1], stream[chr][(k + 1) + 1]) BY <1>0, <1>2, <4>1 DEF GapInv
      <4> QED BY <3>2, <4>2, <4>3
    <3> QED BY <3>1, <3>2
  <2>2. ASSUME NEW c \in Conns, stream'[c] # <<>>
        PROVE  IF c = chr THEN /\ stream'[c][1].part = received' + 1
                               /\ received' > 0 => stream'[c][1].frame = header'[1].frame
               ELSE stream'[c][1].part = 1
    <3>1. CASE c # chr BY <1>0, <1>2, <2>2, <3>1 DEF GapInv
    <3>2. CASE c = chr
      <4>1. stream'[chr] \in Seq(Unit) /\ 1 \in 1..Len(stream'[chr])
        <5>1. stream'[chr] \in Seq(Unit) /\ stream'[chr] # <<>> BY <1>2, <2>2, <3>2
        <5> QED BY <5>1, TailFacts
      <4>2. stream'[chr][1] = stream[chr][1 + 1] /\ 1 \in 1..(Len(stream[chr]) - 1)
        BY <1>2, <4>1
      <4>3. Follows(u, stream[chr][1 + 1]) BY <1>0, <1>2, <4>2 DEF GapInv
      <4> QED BY <1>4, <3>2, <4>2, <4>3
    <3> QED BY <3>1, <3>2
  <2> QED BY <1>1, <2>1, <2>2 DEF GapInv, Fits
<1>10. SeamInv'
  <2>1. CASE sock = Closed BY <1>1, <2>1 DEF SeamInv
  <2>2. CASE sock # Closed /\ sock # chr
    <3>1. sock \in Conns /\ stream'[sock] = stream[sock] BY <1>0, <1>2, <2>2 DEF TypeOK
    <3> QED BY <1>0, <1>1, <2>2, <3>1 DEF SeamInv
  <2>3. CASE sock # Closed /\ sock = chr /\ stream'[chr] # <<>>
    <3>1. stream'[chr] \in Seq(Unit) /\ Len(stream'[chr]) \in Nat \ {0}
      <4>1. stream'[chr] \in Seq(Unit) BY <1>2
      <4> QED BY <2>3, <4>1, TailFacts
    <3>2. Last(stream'[chr]) = Last(stream[chr])
      <4>1. Len(stream'[chr]) \in 1..Len(stream'[chr]) /\ Len(stream'[chr]) + 1 = Len(stream[chr])
        <5>1. \A n \in Nat \ {0} : n \in 1..n OBVIOUS
        <5>2. \A n \in Nat, m \in Nat : n = m - 1 => n + 1 = m OBVIOUS
        <5> QED BY <1>2, <3>1, <5>1, <5>2
      <4>2. stream'[chr][Len(stream'[chr])] = stream[chr][Len(stream'[chr]) + 1] BY <1>2, <4>1
      <4> QED BY <4>1, <4>2 DEF Last
    <3> QED BY <1>0, <1>1, <2>3, <3>2 DEF SeamInv, Last
  <2>4. CASE sock # Closed /\ sock = chr /\ stream'[chr] = <<>>
    <3>1. Last(stream[chr]) = u
      <4>1. Len(stream'[chr]) = 0 BY <2>4
      <4>2. Len(stream[chr]) = 1 BY <1>2, <4>1
      <4> QED BY <4>2 DEF Last
    <3>2. IF out = <<>> THEN u.part = 4 ELSE Follows(u, out[1])
      BY <1>0, <1>1, <2>4, <3>1 DEF SeamInv
    <3>3. out = <<>> => received' = 0 BY <1>3, <3>2
    <3>4. out # <<>> => /\ out[1].part = received' + 1
                        /\ received' > 0 => out[1].frame = header'[1].frame
      BY <1>4, <3>2
    <3> QED BY <1>1, <2>4, <3>3, <3>4 DEF SeamInv, Fits
  <2> QED BY <2>1, <2>2, <2>3, <2>4
<1> QED BY <1>5, <1>6, <1>8, <1>9, <1>10

(* A unit of a header.                                                     *)
LEMMA HeaderStep == ASSUME FlInv, Read, ReadHeader PROVE FlInv'
<1> DEFINE u == stream[chr][1]
<1>0. /\ TypeOK /\ ConnInv /\ OutInv /\ OrderInv /\ GapInv /\ SeamInv
      /\ DeviceInv /\ ShownInv /\ FramesAreWhole
  BY DEF FlInv
<1>1. Consume BY DEF Read, Consume
<1>2. /\ chr \in Conns /\ u = Head(stream[chr])
      /\ u \in Unit /\ u.part = received + 1 /\ u.frame <= frames
      /\ received > 0 => u.frame = header[1].frame
      /\ \A l \in 1..Len(shown) : shown[l][1].frame < u.frame
      /\ stream' \in [Conns -> Seq(Unit)]
  BY <1>1, NextUnit
<1>3. /\ UNCHANGED <<sock, conns, frames, out, closed, chr, pixels, has_frame, spinner_phase, window, shown>>
      /\ header' = Append(IF received = 0 THEN <<>> ELSE header, u)
      /\ received' = IF received = 1 /\ ~GoodHeader(header') THEN 0 ELSE received + 1
      /\ received \in {0, 1}
  <2>1. received \in {0, 1} BY <1>0 DEF ReadHeader, TypeOK
  <2>2. UNCHANGED <<pixels, has_frame, spinner_phase, window, shown>> BY DEF ReadHeader, display
  <2>3. UNCHANGED <<sock, conns, frames, out, closed, chr>> BY DEF Read, sender
  <2> QED BY <1>2, <2>1, <2>2, <2>3 DEF ReadHeader
<1>4. /\ header' \in Seq(Unit) /\ Len(header') = received + 1 /\ received' = received + 1
      /\ header' # <<>> /\ header'[1].frame = u.frame /\ header'[1].part = 1
  <2>1. CASE received = 0
    <3>1. <<>> \in Seq(Unit) /\ Len(<<>>) = 0 OBVIOUS
    <3>2. header' = Append(<<>>, u) BY <1>3, <2>1
    <3>3. header' \in Seq(Unit) /\ header' # <<>> /\ Len(header') = 1 /\ header'[1] = u
      BY <1>2, <3>1, <3>2, AppendFacts
    <3> QED BY <1>2, <1>3, <2>1, <3>3
  <2>2. CASE received = 1
    <3>1. header \in Seq(Unit) /\ Len(header) = 1 /\ header[1].part = 1
      BY <1>0, <2>2 DEF TypeOK, DeviceInv
    <3>2. header' = Append(header, u) BY <1>3, <2>2
    <3>3. /\ header' \in Seq(Unit) /\ header' # <<>> /\ Len(header') = 2
          /\ header'[1] = header[1] /\ header'[2] = u
      <4>1. u \in Unit /\ header \in Seq(Unit) BY <1>2, <3>1
      <4>2. /\ Append(header, u) \in Seq(Unit) /\ Append(header, u) # <<>>
            /\ Len(Append(header, u)) = Len(header) + 1
            /\ \A k \in 1..Len(header) : Append(header, u)[k] = header[k]
            /\ Append(header, u)[Len(header) + 1] = u
        BY <4>1, AppendFacts
      <4> QED BY <3>1, <3>2, <4>2
    <3>4. u.part = 2 /\ u.frame = header[1].frame BY <1>2, <2>2
    <3>5. GoodHeader(header') BY <3>1, <3>3, <3>4 DEF GoodHeader
    <3> QED BY <1>3, <2>2, <3>1, <3>3, <3>4, <3>5
  <2> QED BY <1>3, <2>1, <2>2
<1>5. Advance(u) BY <1>2, <1>3, <1>4 DEF Advance
<1>6. ConnInv' /\ OutInv' /\ OrderInv' /\ GapInv' /\ SeamInv' BY <1>1, <1>5, ConsumeStep
<1>7. TypeOK'
  <2>1. received' \in 0..3 /\ Len(header') <= 2 BY <1>3, <1>4
  <2> QED BY <1>0, <1>2, <1>3, <1>4, <2>1 DEF TypeOK
<1>8. DeviceInv'
  <2>1. received' # 3 /\ (received' = 1 => Len(header') = 1) BY <1>3, <1>4
  <2>2. chr # Closed BY <1>1 DEF Consume
  <2> QED BY <1>2, <1>3, <1>4, <2>1, <2>2 DEF DeviceInv
<1>9. ShownInv' /\ FramesAreWhole' BY <1>0, <1>3 DEF ShownInv, FramesAreWhole
<1> QED BY <1>6, <1>7, <1>8, <1>9 DEF FlInv

(* A unit of pixels; the last one shows the frame.                         *)
LEMMA PixelsStep == ASSUME FlInv, Read, ReadPixels PROVE FlInv'
<1> DEFINE u == stream[chr][1]
<1>0. /\ TypeOK /\ ConnInv /\ OutInv /\ OrderInv /\ GapInv /\ SeamInv
      /\ DeviceInv /\ ShownInv /\ FramesAreWhole
  BY DEF FlInv
<1>1. Consume BY DEF Read, Consume
<1>2. /\ chr \in Conns /\ u = Head(stream[chr])
      /\ u \in Unit /\ u.part = received + 1 /\ u.frame <= frames /\ u.frame \in Nat \ {0}
      /\ received > 0 => u.frame = header[1].frame
      /\ \A l \in 1..Len(shown) : shown[l][1].frame < u.frame
      /\ out # <<>> => (u.part = 4 => u.frame < frames)
      /\ stream' \in [Conns -> Seq(Unit)]
  BY <1>1, NextUnit
<1>3. /\ UNCHANGED <<sock, conns, frames, out, closed, chr, header, spinner_phase>>
      /\ pixels' = [pixels EXCEPT ![received - 1] = u]
      /\ received \in {2, 3}
  <2>1. received \in {2, 3} BY <1>0 DEF ReadPixels, TypeOK
  <2>2. UNCHANGED <<sock, conns, frames, out, closed, chr>> BY DEF Read, sender
  <2> QED BY <1>2, <2>1, <2>2 DEF ReadPixels, Overwrite
<1>4. pixels' \in [1..2 -> Unit \cup {Black}]
  <2>1. received - 1 \in 1..2 BY <1>3
  <2> QED BY <1>0, <1>2, <1>3, <2>1 DEF TypeOK
<1>5. u.frame = header[1].frame BY <1>2, <1>3
<1>6. CASE received = 2
  <2>1. received' = 3 /\ u.part = 3 /\ UNCHANGED <<has_frame, window, shown>>
    BY <1>2, <1>6 DEF ReadPixels
  <2>2. Advance(u) BY <1>3, <1>5, <2>1 DEF Advance
  <2>3. ConnInv' /\ OutInv' /\ OrderInv' /\ GapInv' /\ SeamInv' BY <1>1, <2>2, ConsumeStep
  <2>4. TypeOK'
    <3>1. stream' \in [Conns -> Seq(Unit)] /\ received' \in 0..3 BY <1>2, <2>1
    <3> QED BY <1>0, <1>3, <1>4, <2>1, <3>1 DEF TypeOK
  <2>5. pixels'[1] = [frame |-> header[1].frame, part |-> 3]
    <3>1. pixels'[1] = u BY <1>0, <1>3, <1>6 DEF TypeOK
    <3>2. u = [frame |-> u.frame, part |-> u.part] BY <1>2 DEF Unit
    <3> QED BY <1>5, <2>1, <3>1, <3>2
  <2>6. DeviceInv'
    <3>1. chr # Closed /\ header # <<>> /\ header[1].part = 1 BY <1>0, <1>6 DEF DeviceInv
    <3> QED BY <1>2, <1>3, <1>5, <2>1, <2>5, <3>1 DEF DeviceInv
  <2>7. ShownInv' /\ FramesAreWhole' BY <1>0, <1>3, <2>1 DEF ShownInv, FramesAreWhole
  <2> QED BY <2>3, <2>4, <2>6, <2>7 DEF FlInv
<1>7. CASE received = 3
  <2> DEFINE f == u.frame
             n == Len(shown)
  <2>1. /\ received' = 0 /\ u.part = 4 /\ has_frame' = TRUE /\ shown' = Append(shown, pixels')
        /\ window' = [pixels |-> pixels', loading |-> FALSE, phase |-> spinner_phase]
    <3>1. received' = 0 /\ u.part = 4 /\ ShowFrame BY <1>2, <1>7 DEF ReadPixels
    <3>2. has_frame' = TRUE /\ shown' = Append(shown, pixels') BY <3>1 DEF ShowFrame
    <3>3. window' = [pixels |-> pixels', loading |-> ~has_frame', phase |-> spinner_phase]
      BY <1>3, <3>1 DEF ShowFrame, Paint
    <3>4. ~has_frame' = FALSE BY <3>2, Zenon
    <3> QED BY <3>1, <3>2, <3>3, <3>4, Zenon
  <2>2. f \in Frames BY <1>2 DEF Unit
  <2>3. /\ pixels' = Picture(f) /\ pixels'[1].frame = f /\ pixels' \in [1..2 -> Unit]
    <3>1. pixels'[1] = [frame |-> f, part |-> 3] BY <1>0, <1>3, <1>5, <1>7 DEF TypeOK, DeviceInv
    <3>2. pixels'[2] = u BY <1>0, <1>3, <1>7 DEF TypeOK
    <3>3. u = [frame |-> f, part |-> 4] BY <1>2, <2>1 DEF Unit
    <3>4. \A k \in 1..2 : pixels'[k] = [frame |-> f, part |-> k + 2] BY <3>1, <3>2, <3>3
    <3>5. pixels' = [k \in 1..2 |-> pixels'[k]] BY <1>4
    <3>6. pixels' = [k \in 1..2 |-> [frame |-> f, part |-> k + 2]] BY <3>4, <3>5
    <3>7. \A k \in 1..2 : [frame |-> f, part |-> k + 2] \in Unit BY <2>2 DEF Unit
    <3>8. pixels' = Picture(f) BY <2>2, <3>6, UnitFacts
    <3>9. pixels'[1].frame = f BY <3>1
    <3>10. pixels' \in [1..2 -> Unit] BY <3>6, <3>7
    <3> QED BY <3>8, <3>9, <3>10
  <2>4. /\ shown' \in Seq([1..2 -> Unit]) /\ shown' # <<>> /\ n \in Nat /\ Len(shown') = n + 1
        /\ \A k \in 1..n : shown'[k] = shown[k]
        /\ shown'[n + 1] = pixels'
    <3>1. shown \in Seq([1..2 -> Unit]) BY <1>0 DEF TypeOK
    <3> QED BY <2>1, <2>3, <3>1, AppendFacts
  <2>5. \A k \in 1..Len(shown') :
          \/ k \in 1..n /\ shown'[k] = shown[k]
          \/ k = n + 1 /\ shown'[k] = pixels'
    BY <2>4
  <2>6. Advance(u) BY <2>1, <2>3, <2>5 DEF Advance
  <2>7. ConnInv' /\ OutInv' /\ OrderInv' /\ GapInv' /\ SeamInv' BY <1>1, <2>6, ConsumeStep
  <2>8. TypeOK'
    <3>1. window' \in [pixels : [1..2 -> Unit \cup {Black}], loading : BOOLEAN, phase : 0..(Dots - 1)]
      BY <1>0, <1>4, <2>1 DEF TypeOK
    <3>2. has_frame' \in BOOLEAN BY <2>1, Zenon
    <3>3. received' \in 0..3 BY <2>1
    <3> HIDE DEF n
    <3> QED BY <1>0, <1>2, <1>3, <1>4, <2>4, <3>1, <3>2, <3>3 DEF TypeOK
  <2>9. DeviceInv' BY <2>1 DEF DeviceInv
  <2>10. ShownInv'
    <3>1. \A k \in 1..Len(shown') : shown'[k][1].frame <= frames BY <1>0, <1>2, <2>3, <2>5 DEF ShownInv
    <3>2. out # <<>> => \A k \in 1..Len(shown') : shown'[k][1].frame < frames
      BY <1>0, <1>2, <2>1, <2>3, <2>5 DEF ShownInv
    <3> QED BY <1>3, <2>1, <2>4, <3>1, <3>2 DEF ShownInv
  <2>11. FramesAreWhole'
    <3>1. \A k \in 1..Len(shown') : \E g \in Frames : shown'[k] = Picture(g)
      BY <1>0, <2>2, <2>3, <2>5 DEF FramesAreWhole
    <3>2. ASSUME NEW k \in 1..Len(shown'), NEW l \in 1..Len(shown'), k < l
          PROVE  shown'[k][1].frame < shown'[l][1].frame
      <4>1. k \in 1..n BY <2>4, <3>2
      <4>2. CASE l \in 1..n BY <1>0, <2>4, <3>2, <4>1, <4>2 DEF FramesAreWhole
      <4>3. CASE l = n + 1 BY <1>2, <2>3, <2>4, <4>1, <4>3
      <4> QED BY <2>5, <4>2, <4>3
    <3>3. ~window'.loading /\ window'.pixels = Last(shown')
      <4>1. ~window'.loading /\ window'.pixels = pixels' BY <2>1
      <4> QED BY <2>4, <4>1 DEF Last
    <3> QED BY <2>4, <3>1, <3>2, <3>3 DEF FramesAreWhole, Last
  <2> QED BY <2>7, <2>8, <2>9, <2>10, <2>11 DEF FlInv
<1> QED BY <1>3, <1>6, <1>7

LEMMA NextFl == ASSUME FlInv, [Next]_vars PROVE FlInv'
<1>1. CASE Send BY <1>1, SendStep
<1>2. CASE Write BY <1>2, WriteStep
<1>3. CASE Timeout BY <1>3, TimeoutStep
<1>4. CASE Accept BY <1>4, AcceptStep
<1>5. CASE Read
  <2>1. ReadHeader \/ ReadPixels BY <1>5 DEF Read
  <2> QED BY <1>5, <2>1, HeaderStep, PixelsStep
<1>6. CASE Hangup BY <1>6, HangupStep
<1>7. CASE Tick BY <1>7, TickStep
<1>8. CASE UNCHANGED vars
  <2>1. UNCHANGED <<sock, conns, frames, out, closed, stream, chr, received, header, pixels,
                    has_frame, spinner_phase, window, shown>>
    BY <1>8 DEF vars, sender, display
  <2>2. TypeOK' /\ ConnInv' /\ OutInv' /\ OrderInv'
    BY <2>1 DEF FlInv, TypeOK, ConnInv, OutInv, OrderInv
  <2>3. GapInv' /\ SeamInv' /\ DeviceInv' /\ ShownInv' /\ FramesAreWhole'
    BY <2>1 DEF FlInv, GapInv, SeamInv, Fits, DeviceInv, ShownInv, FramesAreWhole
  <2> QED BY <2>2, <2>3 DEF FlInv
<1> QED BY <1>1, <1>2, <1>3, <1>4, <1>5, <1>6, <1>7, <1>8 DEF Next

-----------------------------------------------------------------------------
(* The inductive invariant holds in every reachable state.                 *)
THEOREM FlInvariant == Spec => []FlInv
<1>1. Init => FlInv BY InitFl
<1>2. FlInv /\ [Next]_vars => FlInv' BY NextFl
<1> QED BY <1>1, <1>2, PTL DEF Spec

(* Every variable keeps its type.                                          *)
THEOREM FlTypeCorrect == Spec => []TypeOK
<1>1. FlInv => TypeOK BY DEF FlInv
<1> QED BY <1>1, FlInvariant, PTL

(* Every picture the window shows once it has a frame is one frame of the  *)
(* renderer, whole and newer than the one before, however connections are  *)
(* given up (mib-display.c:113, qemu_display.py).                          *)
THEOREM WholeFrames == Spec => []FramesAreWhole
<1>1. FlInv => FramesAreWhole BY DEF FlInv
<1> QED BY <1>1, FlInvariant, PTL
=============================================================================
