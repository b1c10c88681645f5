-------------------------- MODULE TouchPanelProofs --------------------------
(***************************************************************************)
(* What the panel says makes sense, and the viewer gets it whole, once and *)
(* in order but for late POSTs, for any controls, connections and numbers  *)
(* of events.  PointerInv ties the pointer's three variables to what was   *)
(* last said; LinesInv and PostsInv follow the numbers of the lines from   *)
(* the device to their POSTs and on to the viewer.                         *)
(***************************************************************************)
EXTENDS TouchPanel, TLAPS

(* The touch that is on has been told, and so has that it moved; a control *)
(* that is held down was pressed, and nothing since then.                  *)
Last == Len(said) + 1
PointerInv ==
  /\ touching =>
       \E j \in 1..Len(said) :
          /\ Before(said, Last, Gestures, j)
          /\ said[j].kind = "down" \/ (moved /\ said[j].kind = "move")
  /\ pressed # Nothing =>
       \E j \in 1..Len(said) :
          Before(said, Last, Clicks, j) /\ said[j] = [kind |-> "press", on |-> pressed]

(* The lines that became POSTs, handled or not.                            *)
Made == requests \cup {posted[k] : k \in 1..Len(posted)}

(* Each line is in one place: on one connection, behind those of it that   *)
(* were posted before, or posted.                                          *)
LinesInv ==
  /\ \A c \in Conns : \A m \in 1..Len(lines[c]) : lines[c][m].number <= Len(said)
  /\ \A c \in Conns : \A m, n \in 1..Len(lines[c]) : m < n => lines[c][m].number < lines[c][n].number
  /\ \A c, d \in Conns : c # d =>
       \A m \in 1..Len(lines[c]), n \in 1..Len(lines[d]) : lines[c][m].number # lines[d][n].number
  /\ \A r \in Made : r.number <= Len(said)
  /\ \A r \in Made, c \in Conns : \A m \in 1..Len(lines[c]) :
       r.number # lines[c][m].number /\ (r.from = c => r.number < lines[c][m].number)

(* The POST a thread waits for is its last.                                *)
PostsInv ==
  /\ \A r \in Made : r.whole
  /\ \A r, q \in Made : r.number = q.number => r = q
  /\ \A r \in requests, k \in 1..Len(posted) : posted[k] # r
  /\ \A k, l \in 1..Len(posted) : posted[k] = posted[l] => k = l
  /\ \A r \in requests, q \in Made :
       r.from = q.from => q.number <= r.number \/ r.number \in given_up
  /\ \A k, l \in 1..Len(posted) :
       k < l /\ posted[k].from = posted[l].from =>
          posted[k].number < posted[l].number \/ posted[l].number \in given_up

Told == TouchesAreGestures /\ ButtonsArePresses /\ PointerInv
PanelInv == TypeOK /\ Told /\ LinesInv /\ PostsInv

-----------------------------------------------------------------------------
(* What is said.                                                           *)
LEMMA SaidGrows ==
  ASSUME said \in Seq(Event), NEW e \in Event, said' = Append(said, e)
  PROVE  /\ said' \in Seq(Event) /\ Len(said) \in Nat
         /\ Len(said') = Len(said) + 1 /\ Last = Len(said) + 1 /\ Last' = Len(said) + 2
         /\ \A i \in 1..Len(said) : said'[i] = said[i]
         /\ said'[Len(said) + 1] = e
BY DEF Last

LEMMA BeforeGrows ==
  ASSUME NEW s \in Seq(Event), NEW e \in Event, NEW kinds
  PROVE  LET t == Append(s, e)
             n == Len(s) + 1
         IN  /\ \A k \in 1..n, j \in 1..Len(s) : Before(s, k, kinds, j) => Before(t, k, kinds, j)
             /\ e.kind \in kinds => Before(t, n + 1, kinds, n)
             /\ e.kind \notin kinds =>
                  \A j \in 1..Len(s) : Before(s, n, kinds, j) => Before(t, n + 1, kinds, j)
<1> DEFINE t == Append(s, e)  n == Len(s) + 1
<1>0. /\ Len(s) \in Nat /\ Len(t) = n /\ n \in Nat
      /\ \A i \in 1..Len(s) : t[i] = s[i]
      /\ t[n] = e
  OBVIOUS
<1> HIDE DEF t
<1>1. ASSUME NEW k \in 1..n, NEW j \in 1..Len(s), Before(s, k, kinds, j) PROVE Before(t, k, kinds, j)
  <2>1. \A i \in (j + 1)..(k - 1) : i \in 1..Len(s) BY <1>0
  <2> QED BY <1>0, <1>1, <2>1 DEF Before
<1>2. ASSUME e.kind \in kinds PROVE Before(t, n + 1, kinds, n)
  <2>1. n \in 1..(n + 1 - 1) /\ (n + 1)..(n + 1 - 1) = {} BY <1>0
  <2> QED BY <1>0, <1>2, <2>1 DEF Before
<1>3. ASSUME e.kind \notin kinds, NEW j \in 1..Len(s), Before(s, n, kinds, j)
      PROVE  Before(t, n + 1, kinds, j)
  <2>1. \A i \in (j + 1)..(n + 1 - 1) : i = n \/ i \in (j + 1)..(n - 1) BY <1>0
  <2>2. \A i \in (j + 1)..(n - 1) : i \in 1..Len(s) BY <1>0
  <2>3. j \in 1..(n + 1 - 1) BY <1>0
  <2> QED BY <1>0, <1>3, <2>1, <2>2, <2>3 DEF Before
<1> QED BY <1>1, <1>2, <1>3 DEF t

(* An event that continues what was said before keeps the history right.   *)
LEMMA ToldGrows ==
  ASSUME said \in Seq(Event), NEW e \in Event, said' = Append(said, e),
         TouchesAreGestures, ButtonsArePresses,
         e.kind \in {"move", "release"} =>
           \E j \in 1..Len(said) : Before(said, Last, Gestures, j) /\ said[j].kind \in {"down", "move"},
         e.kind = "up" =>
           \E j \in 1..Len(said) : Before(said, Last, Gestures, j) /\ said[j].kind = "down",
         e.kind = "button" =>
           \E j \in 1..Len(said) : Before(said, Last, Clicks, j) /\ said[j] = [kind |-> "press", on |-> e.on]
  PROVE  TouchesAreGestures' /\ ButtonsArePresses'
<1>0. /\ Len(said) \in Nat /\ Len(said') = Len(said) + 1 /\ Last = Len(said) + 1
      /\ \A i \in 1..Len(said) : said'[i] = said[i]
      /\ said'[Len(said) + 1] = e
  BY SaidGrows
<1>1. \A k \in 1..Len(said') : k = Last \/ k \in 1..Len(said) BY <1>0
<1>2. \A j \in 1..Len(said) : j \in 1..Len(said') BY <1>0
<1>3. \A k \in 1..Last, j \in 1..Len(said) :
         /\ Before(said, k, Gestures, j) => Before(said', k, Gestures, j)
         /\ Before(said, k, Clicks, j) => Before(said', k, Clicks, j)
  BY BeforeGrows DEF Last
<1>4. Last \in 1..Last /\ \A k \in 1..Len(said) : k \in 1..Last BY <1>0
<1>5. TouchesAreGestures'
  <2> SUFFICES ASSUME NEW k \in 1..Len(said')
               PROVE  /\ said'[k].kind \in {"move", "release"} =>
                           \E j \in 1..Len(said') :
                              Before(said', k, Gestures, j) /\ said'[j].kind \in {"down", "move"}
                      /\ said'[k].kind = "up" =>
                           \E j \in 1..Len(said') : Before(said', k, Gestures, j) /\ said'[j].kind = "down"
    BY DEF TouchesAreGestures
  <2>1. CASE k = Last BY <1>0, <1>2, <1>3, <1>4, <2>1
  <2>2. CASE k \in 1..Len(said) BY <1>0, <1>2, <1>3, <1>4, <2>2 DEF TouchesAreGestures
  <2> QED BY <1>1, <2>1, <2>2
<1>6. ButtonsArePresses'
  <2> SUFFICES ASSUME NEW k \in 1..Len(said'), said'[k].kind = "button"
               PROVE  \E j \in 1..Len(said') :
                         Before(said', k, Clicks, j) /\ said'[j] = [kind |-> "press", on |-> said'[k].on]
    BY DEF ButtonsArePresses
  <2>1. CASE k = Last BY <1>0, <1>2, <1>3, <1>4, <2>1
  <2>2. CASE k \in 1..Len(said) BY <1>0, <1>2, <1>3, <1>4, <2>2 DEF ButtonsArePresses
  <2> QED BY <1>1, <2>1, <2>2
<1> QED BY <1>5, <1>6

-----------------------------------------------------------------------------
(* Where the lines are.                                                    *)

(* The line of the event just said is on the served connection, or lost.   *)
Sent ==
  \/ lines' = lines
  \/ /\ chr \in Conns \ closed
     /\ \E whole \in BOOLEAN :
          lines' = [lines EXCEPT ![chr] = Append(@, [number |-> Len(said'), whole |-> whole])]

LEMMA AppendFacts ==
  ASSUME NEW S, NEW s \in Seq(S), NEW e \in S
  PROVE  /\ Append(s, e) \in Seq(S) /\ Len(s) \in Nat /\ Len(Append(s, e)) = Len(s) + 1
         /\ \A i \in 1..Len(s) : s[i] \in S /\ Append(s, e)[i] = s[i]
         /\ Append(s, e)[Len(s) + 1] = e
         /\ \A i \in 1..(Len(s) + 1) : i \in 1..Len(s) \/ i = Len(s) + 1
OBVIOUS

LEMMA Elements ==
  ASSUME NEW S, NEW s \in Seq(S)
  PROVE  Len(s) \in Nat /\ \A i \in 1..Len(s) : s[i] \in S
OBVIOUS

LEMMA LineTypes ==
  ASSUME TypeOK
  PROVE  /\ \A c \in Conns : lines[c] \in Seq(Line) /\ Len(lines[c]) \in Nat /\ c \in Nat
         /\ \A c \in Conns : \A m \in 1..Len(lines[c]) :
              lines[c][m] \in Line /\ lines[c][m].number \in Nat
         /\ \A r \in Made : r \in Posts /\ r.number \in Nat
         /\ Len(posted) \in Nat /\ Len(said) \in Nat /\ conns \in Nat
<1>1. /\ lines \in [Conns -> Seq(Line)] /\ posted \in Seq(Posts) /\ said \in Seq(Event)
      /\ conns \in 0..MaxConns /\ requests \subseteq Posts
  BY DEF TypeOK
<1>2. \A i \in 1..MaxEvents : i \in Nat BY BoundsAssumption
<1>3. \A c \in Conns : c \in Nat BY BoundsAssumption DEF Conns
<1>4. \A c \in Conns : lines[c] \in Seq(Line) /\ Len(lines[c]) \in Nat BY <1>1
<1>5. ASSUME NEW c \in Conns, NEW m \in 1..Len(lines[c])
      PROVE  lines[c][m] \in Line /\ lines[c][m].number \in Nat
  <2>1. lines[c][m] \in Line BY <1>4
  <2> QED BY <1>2, <2>1 DEF Line
<1>6. ASSUME NEW r \in Made PROVE r \in Posts /\ r.number \in Nat
  <2>1. r \in Posts BY <1>1, Elements DEF Made
  <2> QED BY <1>2, <2>1 DEF Posts
<1>7. conns \in Nat BY <1>1, BoundsAssumption
<1> QED BY <1>1, <1>3, <1>4, <1>5, <1>6, <1>7

LEMMA SentLines ==
  ASSUME TypeOK, LinesInv, NEW e \in Event, said' = Append(said, e),
         Len(said) < MaxEvents, Sent, UNCHANGED <<link, reader, posts>>
  PROVE  lines' \in [Conns -> Seq(Line)] /\ LinesInv'
<1> USE DEF link, posts
<1>0. said \in Seq(Event) /\ lines \in [Conns -> Seq(Line)] BY DEF TypeOK
<1>1. Len(said') = Len(said) + 1 /\ Len(said) \in Nat BY <1>0, SaidGrows
<1>2. Made' = Made BY DEF Made
<1>3. \A r \in Made : r.number \in Nat /\ r.number <= Len(said) /\ r.number <= Len(said')
  BY <1>1, LineTypes DEF LinesInv
<1>4. CASE lines' = lines
  <2>1. \A c \in Conns : \A m \in 1..Len(lines[c]) : lines[c][m].number <= Len(said')
    BY <1>1, LineTypes DEF LinesInv
  <2> QED BY <1>0, <1>2, <1>3, <1>4, <2>1 DEF LinesInv
<1>5. CASE lines' # lines
  <2>1. PICK whole \in BOOLEAN :
          /\ chr \in Conns \ closed
          /\ lines' = [lines EXCEPT ![chr] = Append(@, [number |-> Len(said'), whole |-> whole])]
    BY <1>5 DEF Sent
  <2> DEFINE w == [number |-> Len(said'), whole |-> whole]
  <2>2. w \in Line /\ w.number = Len(said) + 1 BY <1>1, BoundsAssumption DEF Line
  <2> HIDE DEF w
  <2>3. /\ lines'[chr] = Append(lines[chr], w)
        /\ \A c \in Conns \ {chr} : lines'[c] = lines[c]
    BY <1>0, <2>1 DEF w
  <2>4. lines' \in [Conns -> Seq(Line)] BY <1>0, <2>1, <2>2 DEF w
  <2>5. ASSUME NEW c \in Conns, NEW m \in 1..Len(lines'[c])
        PROVE  \/ /\ m \in 1..Len(lines[c]) /\ lines'[c][m] = lines[c][m]
                  /\ lines[c][m].number <= Len(said)
               \/ /\ c = chr /\ m = Len(lines[c]) + 1 /\ lines'[c][m].number = Len(said) + 1
    <3>1. CASE c = chr
      <4>1. lines[c] \in Seq(Line) /\ lines'[c] = Append(lines[c], w) BY <1>0, <2>3, <3>1
      <4>2. /\ \A i \in 1..Len(lines[c]) : lines'[c][i] = lines[c][i]
            /\ lines'[c][Len(lines[c]) + 1] = w
            /\ m \in 1..Len(lines[c]) \/ m = Len(lines[c]) + 1
        BY <2>2, <4>1, AppendFacts
      <4>3. CASE m \in 1..Len(lines[c]) BY <4>2, <4>3 DEF LinesInv
      <4>4. CASE m = Len(lines[c]) + 1 BY <2>2, <3>1, <4>2, <4>4
      <4> QED BY <4>2, <4>3, <4>4
    <3>2. CASE c # chr BY <2>3, <3>2 DEF LinesInv
    <3> QED BY <3>1, <3>2
  <2>6. \A c \in Conns : Len(lines[c]) \in Nat /\ \A m \in 1..Len(lines[c]) : lines[c][m].number \in Nat
    BY LineTypes
  <2>7. LinesInv'
    <3>1. \A c \in Conns : \A m \in 1..Len(lines'[c]) : lines'[c][m].number <= Len(said')
      BY <1>1, <2>5, <2>6
    <3>3. \A c \in Conns : \A m, n \in 1..Len(lines'[c]) :
             m < n => lines'[c][m].number < lines'[c][n].number
      <4> SUFFICES ASSUME NEW c \in Conns, NEW m \in 1..Len(lines'[c]), NEW n \in 1..Len(lines'[c]), m < n
                   PROVE  lines'[c][m].number < lines'[c][n].number
        OBVIOUS
      <4>1. \/ n \in 1..Len(lines[c]) /\ lines'[c][n] = lines[c][n]
            \/ n = Len(lines[c]) + 1 /\ lines'[c][n].number = Len(said) + 1
        BY <2>5
      <4>2. m \in 1..Len(lines[c]) /\ lines'[c][m] = lines[c][m] /\ lines[c][m].number <= Len(said)
        BY <2>5, <2>6, <4>1
      <4> QED BY <1>1, <2>6, <4>1, <4>2 DEF LinesInv
    <3>4. ASSUME NEW c \in Conns, NEW d \in Conns, c # d,
                 NEW m \in 1..Len(lines'[c]), NEW n \in 1..Len(lines'[d])
          PROVE  lines'[c][m].number # lines'[d][n].number
      <4>1. \/ m \in 1..Len(lines[c]) /\ lines'[c][m] = lines[c][m] /\ lines[c][m].number <= Len(said)
            \/ c = chr /\ lines'[c][m].number = Len(said) + 1
        BY <2>5
      <4>2. \/ n \in 1..Len(lines[d]) /\ lines'[d][n] = lines[d][n] /\ lines[d][n].number <= Len(said)
            \/ d = chr /\ lines'[d][n].number = Len(said) + 1
        BY <2>5
      <4>3. CASE /\ m \in 1..Len(lines[c]) /\ lines'[c][m] = lines[c][m]
                 /\ n \in 1..Len(lines[d]) /\ lines'[d][n] = lines[d][n]
        BY <3>4, <4>3 DEF LinesInv
      <4>4. CASE c = chr /\ lines'[c][m].number = Len(said) + 1
        <5>1. n \in 1..Len(lines[d]) /\ lines'[d][n] = lines[d][n] /\ lines[d][n].number <= Len(said)
          BY <3>4, <4>2, <4>4
        <5>2. lines[d][n].number \in Nat BY <2>6, <5>1
        <5> QED BY <1>1, <4>4, <5>1, <5>2
      <4>5. CASE d = chr /\ lines'[d][n].number = Len(said) + 1
        <5>1. m \in 1..Len(lines[c]) /\ lines'[c][m] = lines[c][m] /\ lines[c][m].number <= Len(said)
          BY <3>4, <4>1, <4>5
        <5>2. lines[c][m].number \in Nat BY <2>6, <5>1
        <5> QED BY <1>1, <4>5, <5>1, <5>2
      <4> QED BY <4>1, <4>2, <4>3, <4>4, <4>5
    <3>5. ASSUME NEW r \in Made, NEW c \in Conns, NEW m \in 1..Len(lines'[c])
          PROVE  r.number # lines'[c][m].number /\ (r.from = c => r.number < lines'[c][m].number)
      <4>1. CASE m \in 1..Len(lines[c]) /\ lines'[c][m] = lines[c][m] BY <4>1 DEF LinesInv
      <4>2. CASE lines'[c][m].number = Len(said) + 1 BY <1>1, <1>3, <4>2
      <4> QED BY <2>5, <4>1, <4>2
    <3> QED BY <1>2, <1>3, <3>1, <3>3, <3>4, <3>5 DEF LinesInv
  <2> QED BY <2>4, <2>7
<1> QED BY <1>4, <1>5

LEMMA RestFacts ==
  ASSUME NEW S, NEW z \in Seq(S), NEW n \in 1..Len(z)
  PROVE  LET s == SubSeq(z, n + 1, Len(z))
         IN  /\ s \in Seq(S) /\ Len(s) = Len(z) - n
             /\ \A m \in 1..Len(s) : m + n \in 1..Len(z) /\ m + n # 1 /\ s[m] = z[m + n]
OBVIOUS

LEMMA PostLines ==
  ASSUME TypeOK, LinesInv, PostsInv, NEW c \in Conns, Post(c)
  PROVE  TypeOK' /\ LinesInv' /\ PostsInv'
<1> USE DEF link, pointer
<1>0. /\ lines \in [Conns -> Seq(Line)] /\ requests \subseteq Posts
  BY DEF TypeOK
<1>1. PICK n \in 1..MaxEvents :
        /\ Take(c, n)
        /\ LET r == [from |-> c, number |-> lines[c][1].number, whole |-> n = 1]
           IN  requests' = IF IsJSON(r) THEN requests \cup {r} ELSE requests
  BY DEF Post
<1>2. /\ n \in 1..Len(lines[c]) /\ n \in Nat /\ lines[c] \in Seq(Line) /\ Len(lines[c]) \in Nat
      /\ lines' = [lines EXCEPT ![c] = SubSeq(@, n + 1, Len(@))]
      /\ Waiting(c) = {}
      /\ UNCHANGED <<link, pointer, reader, posted, given_up, said>>
  BY <1>0, <1>1 DEF Take
<1> DEFINE s == SubSeq(lines[c], n + 1, Len(lines[c]))
<1>3. /\ s \in Seq(Line) /\ Len(s) = Len(lines[c]) - n
      /\ \A m \in 1..Len(s) : m + n \in 1..Len(lines[c]) /\ m + n # 1 /\ s[m] = lines[c][m + n]
  BY <1>2, RestFacts
<1>4. lines'[c] = s /\ \A d \in Conns \ {c} : lines'[d] = lines[d] BY <1>0, <1>2
<1>5. lines' \in [Conns -> Seq(Line)] BY <1>0, <1>2, <1>3
<1> HIDE DEF s
<1> DEFINE x == lines[c][1].number
           w == [from |-> c, number |-> x, whole |-> TRUE]
<1>6. 1 \in 1..Len(lines[c]) /\ x \in 1..MaxEvents /\ x \in Nat /\ x <= Len(said) /\ Len(said) \in Nat
  BY <1>2, LineTypes DEF Line, LinesInv
<1>7. requests' = requests \/ requests' = requests \cup {w} BY <1>1 DEF IsJSON
<1>8. w \in Posts /\ w.from = c /\ w.number = x /\ w.whole BY <1>6 DEF Posts
<1> HIDE DEF w
<1>9. ASSUME NEW d \in Conns, NEW m \in 1..Len(lines'[d])
      PROVE  \E k \in 1..Len(lines[d]) :
                lines'[d][m] = lines[d][k] /\ k = IF d = c THEN m + n ELSE m
  BY <1>3, <1>4
<1>10. \A d \in Conns : Len(lines[d]) \in Nat /\ \A m \in 1..Len(lines[d]) : lines[d][m].number \in Nat
  BY LineTypes
<1>11. ASSUME NEW d \in Conns, NEW m \in 1..Len(lines'[d])
       PROVE  \E k \in 1..Len(lines[d]) : lines'[d][m] = lines[d][k] /\ (d = c => k > 1)
  <2>1. PICK k \in 1..Len(lines[d]) :
          lines'[d][m] = lines[d][k] /\ k = IF d = c THEN m + n ELSE m
    BY <1>9
  <2> QED BY <1>2, <2>1
<1>12. \A r \in Made' : r \in Made \/ r = w BY <1>2, <1>7 DEF Made
<1>13. \A r \in Made : r.number \in Nat /\ r.number # x /\ (r.from = c => r.number < x)
  BY <1>6, LineTypes DEF LinesInv
<1>14. TypeOK' BY <1>2, <1>5, <1>7, <1>8 DEF TypeOK
<1>15. LinesInv'
  <2>1. ASSUME NEW d \in Conns, NEW m \in 1..Len(lines'[d])
        PROVE  lines'[d][m].number <= Len(said')
    <3>1. PICK k \in 1..Len(lines[d]) : lines'[d][m] = lines[d][k] BY <1>11
    <3>2. lines[d][k].number <= Len(said) BY DEF LinesInv
    <3>3. Len(said') = Len(said) BY <1>2
    <3> QED BY <3>1, <3>2, <3>3
  <2>2. \A r \in Made' : r.number <= Len(said') BY <1>2, <1>6, <1>8, <1>12 DEF LinesInv
  <2>3. ASSUME NEW d \in Conns, NEW k \in 1..Len(lines'[d]), NEW m \in 1..Len(lines'[d]), k < m
        PROVE  lines'[d][k].number < lines'[d][m].number
    <3>1. CASE d = c
      <4>1. /\ lines'[d][k] = lines[d][k + n] /\ lines'[d][m] = lines[d][m + n]
            /\ k + n \in 1..Len(lines[d]) /\ m + n \in 1..Len(lines[d]) /\ k + n < m + n
        <5>1. k \in Nat /\ m \in Nat /\ k + n < m + n BY <1>2, <2>3
        <5> QED BY <1>9, <3>1, <5>1
      <4> QED BY <4>1 DEF LinesInv
    <3>2. CASE d # c BY <1>4, <2>3, <3>2 DEF LinesInv
    <3> QED BY <3>1, <3>2
  <2>4. ASSUME NEW d \in Conns, NEW b \in Conns, d # b,
               NEW k \in 1..Len(lines'[d]), NEW m \in 1..Len(lines'[b])
        PROVE  lines'[d][k].number # lines'[b][m].number
    <3>1. PICK i \in 1..Len(lines[d]) : lines'[d][k] = lines[d][i] BY <1>11
    <3>2. PICK j \in 1..Len(lines[b]) : lines'[b][m] = lines[b][j] BY <1>11
    <3> QED BY <2>4, <3>1, <3>2 DEF LinesInv
(* The line just posted was the first of its connection. *)
  <2>5. ASSUME NEW d \in Conns, NEW m \in 1..Len(lines'[d]), NEW r \in Made'
        PROVE  r.number # lines'[d][m].number /\ (r.from = d => r.number < lines'[d][m].number)
    <3>1. PICK k \in 1..Len(lines[d]) : lines'[d][m] = lines[d][k] /\ (d = c => k > 1) BY <1>11
    <3>2. CASE r \in Made BY <3>1, <3>2 DEF LinesInv
    <3>3. CASE r = w
      <4>1. d = c => x < lines[d][k].number BY <1>6, <3>1 DEF LinesInv
      <4>2. x # lines[d][k].number BY <1>6, <1>10, <3>1, <4>1 DEF LinesInv
      <4> QED BY <1>8, <3>1, <3>3, <4>1, <4>2
    <3> QED BY <1>12, <3>2, <3>3
  <2> QED BY <2>1, <2>2, <2>3, <2>4, <2>5 DEF LinesInv
<1>16. PostsInv'
  <2>1. \A r \in Made' : r.whole BY <1>8, <1>12 DEF PostsInv
  <2>2. \A r, q \in Made' : r.number = q.number => r = q BY <1>8, <1>12, <1>13 DEF PostsInv
  <2>3. \A k \in 1..Len(posted) : posted[k] \in Made /\ posted[k] # w BY <1>8, <1>13 DEF Made
  <2>4. \A r \in requests', k \in 1..Len(posted) : posted[k] # r BY <1>7, <2>3 DEF PostsInv
(* Thread c waited for no POST: those of its that are left were given up. *)
  <2>5. ASSUME NEW r \in requests', NEW q \in Made', r.from = q.from
        PROVE  q.number <= r.number \/ r.number \in given_up
    <3>1. CASE r = w BY <1>6, <1>8, <1>12, <1>13, <2>5, <3>1
    <3>2. CASE r # w
      <4>1. r \in requests BY <1>7, <3>2
      <4>2. CASE q \in Made BY <2>5, <4>1, <4>2 DEF PostsInv
      <4>3. CASE q = w
        <5>1. r.from = c BY <1>8, <2>5, <4>3
        <5> QED BY <1>2, <4>1, <5>1 DEF Waiting
      <4> QED BY <1>12, <4>2, <4>3
    <3> QED BY <3>1, <3>2
  <2> QED BY <1>2, <2>1, <2>2, <2>4, <2>5 DEF PostsInv
<1> QED BY <1>14, <1>15, <1>16

(* A POST is handled: it was waited for, or given up.                      *)
LEMMA HandleLines ==
  ASSUME TypeOK, LinesInv, PostsInv, NEW r \in requests, Handle(r)
  PROVE  TypeOK' /\ LinesInv' /\ PostsInv'
<1> USE DEF link, pointer
<1>0. /\ requests \subseteq Posts /\ posted \in Seq(Posts) /\ r \in Posts
  BY DEF TypeOK
<1>1. /\ requests' = requests \ {r} /\ posted' = Append(posted, r)
      /\ UNCHANGED <<link, lines, pointer, reader, given_up, said>>
  BY DEF Handle
<1>2. /\ posted' \in Seq(Posts) /\ Len(posted) \in Nat /\ Len(posted') = Len(posted) + 1
      /\ \A i \in 1..Len(posted) : posted'[i] = posted[i]
      /\ posted'[Len(posted) + 1] = r
  BY <1>0, <1>1, AppendFacts
<1>3. \A k \in 1..Len(posted') : k \in 1..Len(posted) \/ k = Len(posted) + 1 BY <1>2
<1>4. TypeOK' BY <1>1, <1>2 DEF TypeOK
<1>5. Made' \subseteq Made BY <1>1, <1>2, <1>3 DEF Made
<1>6. LinesInv' BY <1>1, <1>5 DEF LinesInv
<1>7. \A k \in 1..Len(posted) : posted[k] \in Made /\ posted[k] # r BY DEF Made, PostsInv
<1>8. PostsInv'
  <2>1. \A q \in requests', k \in 1..Len(posted') : posted'[k] # q
    BY <1>1, <1>2, <1>3 DEF PostsInv
  <2>2. \A k, l \in 1..Len(posted') : posted'[k] = posted'[l] => k = l
    BY <1>2, <1>3, <1>7 DEF PostsInv
  <2>3. ASSUME NEW k \in 1..Len(posted'), NEW l \in 1..Len(posted'),
               k < l, posted'[k].from = posted'[l].from
        PROVE  posted'[k].number < posted'[l].number \/ posted'[l].number \in given_up
    <3>1. k \in 1..Len(posted) /\ posted'[k] = posted[k] BY <1>2, <1>3, <2>3
    <3>2. CASE l \in 1..Len(posted) BY <1>2, <2>3, <3>1, <3>2 DEF PostsInv
    <3>3. CASE l = Len(posted) + 1
      <4>1. posted[k] \in Made /\ r \in Made /\ posted[k] # r BY <1>7, <3>1 DEF Made
      <4>2. posted[k].number <= r.number \/ r.number \in given_up
        BY <1>2, <2>3, <3>1, <3>3, <4>1 DEF PostsInv
      <4>3. posted[k].number # r.number BY <4>1 DEF PostsInv
      <4>4. posted[k].number \in Nat /\ r.number \in Nat BY <4>1, LineTypes
      <4> QED BY <1>2, <3>1, <3>3, <4>2, <4>3, <4>4
    <3> QED BY <1>3, <3>2, <3>3
  <2> QED BY <1>1, <1>5, <2>1, <2>2, <2>3 DEF PostsInv
<1> QED BY <1>4, <1>6, <1>8

LEMMA GiveUpLines ==
  ASSUME TypeOK, LinesInv, PostsInv, NEW c \in Conns, GiveUp(c)
  PROVE  TypeOK' /\ LinesInv' /\ PostsInv'
<1> USE DEF link, pointer
<1>1. PICK r \in Waiting(c) :
         /\ \/ requests' = requests \ {r} /\ UNCHANGED given_up
            \/ given_up' = given_up \cup {r.number} /\ UNCHANGED requests
         /\ UNCHANGED <<link, lines, pointer, reader, posted, said>>
  BY DEF GiveUp
<1>2. r \in Posts /\ r.number \in 1..MaxEvents BY DEF Waiting, TypeOK, Posts
<1>3. /\ requests' \subseteq requests /\ given_up \subseteq given_up'
      /\ given_up' \subseteq given_up \cup {r.number}
  BY <1>1
<1>4. TypeOK' BY <1>1, <1>2, <1>3 DEF TypeOK
<1>5. Made' \subseteq Made BY <1>1, <1>3 DEF Made
<1>6. LinesInv' BY <1>1, <1>5 DEF LinesInv
<1>7. PostsInv' BY <1>1, <1>3, <1>5 DEF PostsInv
<1> QED BY <1>4, <1>6, <1>7

-----------------------------------------------------------------------------
(* The device's steps.                                                     *)

(* A step that says an event, of a kind that fits what was said before,    *)
(* and leaves the pointer as the event tells.                              *)
LEMMA EventStep ==
  ASSUME PanelInv, NEW e \in Event, said' = Append(said, e), Len(said) < MaxEvents, Sent,
         UNCHANGED <<link, reader, posts>>,
         e.kind \in {"move", "release"} => touching,
         e.kind = "up" => touching /\ ~moved,
         e.kind = "button" => pressed # Nothing /\ e.on = pressed,
         pressed' \in Controls \cup {Nothing}, touching' \in BOOLEAN, moved' \in BOOLEAN,
         touching' => /\ pressed' = Nothing
                      /\ \/ e.kind = "down" \/ (e.kind = "move" /\ moved')
                         \/ (e.kind = "knob" /\ UNCHANGED pointer),
         pressed' # Nothing => \/ e = [kind |-> "press", on |-> pressed']
                               \/ e.kind = "knob" /\ UNCHANGED pointer
  PROVE  PanelInv'
<1> USE DEF link
<1>0. TypeOK /\ Told /\ LinesInv /\ PostsInv BY DEF PanelInv
<1>1. /\ said \in Seq(Event) /\ Len(said) \in Nat
      /\ said' \in Seq(Event) /\ Len(said') = Len(said) + 1 /\ Last = Len(said) + 1 /\ Last' = Last + 1
      /\ \A i \in 1..Len(said) : said'[i] = said[i]
      /\ said'[Last] = e
  BY <1>0, SaidGrows DEF TypeOK, Last
<1>2. lines' \in [Conns -> Seq(Line)] /\ LinesInv' BY <1>0, SentLines
<1>3. TypeOK' /\ PostsInv' BY <1>0, <1>1, <1>2 DEF TypeOK, PostsInv, Made, posts
<1>4. TouchesAreGestures' /\ ButtonsArePresses'
  BY <1>0, <1>1, ToldGrows DEF Told, PointerInv
<1>5. /\ e.kind \in Gestures => Before(said', Last', Gestures, Last)
      /\ e.kind \in Clicks => Before(said', Last', Clicks, Last)
      /\ e.kind = "knob" =>
           \A j \in 1..Len(said) :
              /\ Before(said, Last, Gestures, j) => Before(said', Last', Gestures, j)
              /\ Before(said, Last, Clicks, j) => Before(said', Last', Clicks, j)
  BY <1>1, BeforeGrows DEF Gestures, Clicks
<1>6. Last \in 1..Len(said') /\ \A j \in 1..Len(said) : j \in 1..Len(said') BY <1>1
<1>7. PointerInv'
  <2>1. ASSUME touching'
        PROVE  \E j \in 1..Len(said') :
                  /\ Before(said', Last', Gestures, j)
                  /\ said'[j].kind = "down" \/ (moved' /\ said'[j].kind = "move")
    <3>1. CASE e.kind = "down" \/ (e.kind = "move" /\ moved')
      BY <1>1, <1>5, <1>6, <3>1 DEF Gestures
    <3>2. CASE e.kind = "knob" /\ UNCHANGED pointer
      BY <1>0, <1>1, <1>5, <1>6, <2>1, <3>2 DEF Told, PointerInv, pointer
    <3> QED BY <2>1, <3>1, <3>2
  <2>2. ASSUME pressed' # Nothing
        PROVE  \E j \in 1..Len(said') :
                  Before(said', Last', Clicks, j) /\ said'[j] = [kind |-> "press", on |-> pressed']
    <3>1. CASE e = [kind |-> "press", on |-> pressed'] BY <1>1, <1>5, <1>6, <3>1 DEF Clicks
    <3>2. CASE e.kind = "knob" /\ UNCHANGED pointer
      BY <1>0, <1>1, <1>5, <1>6, <2>2, <3>2 DEF Told, PointerInv, pointer
    <3> QED BY <2>2, <3>1, <3>2
  <2> QED BY <2>1, <2>2 DEF PointerInv
<1> QED BY <1>2, <1>3, <1>4, <1>7 DEF PanelInv, Told

(* A step that says nothing: a touch goes on as it was told, or ends.      *)
LEMMA QuietStep ==
  ASSUME PanelInv, UNCHANGED <<said, lines, link, reader, posts>>,
         pressed' \in {pressed, Nothing}, touching' \in BOOLEAN, moved' \in BOOLEAN,
         touching' => touching /\ moved' = moved
  PROVE  PanelInv'
<1> USE DEF link
<1>0. TypeOK /\ Told /\ LinesInv /\ PostsInv BY DEF PanelInv
<1>1. TypeOK' BY <1>0 DEF TypeOK, posts
<1>2. LinesInv' /\ PostsInv' BY <1>0 DEF LinesInv, PostsInv, Made, posts
<1>3. TouchesAreGestures' /\ ButtonsArePresses'
  BY <1>0 DEF Told, TouchesAreGestures, ButtonsArePresses, Before
<1>4. PointerInv' BY <1>0 DEF Told, PointerInv, Last, Before
<1> QED BY <1>0, <1>1, <1>2, <1>3, <1>4 DEF PanelInv, Told

LEMMA WriteSends ==
  ASSUME NEW kind, NEW on, Write(kind, on)
  PROVE  /\ said' = Append(said, [kind |-> kind, on |-> on])
         /\ Len(said) < MaxEvents /\ Sent
BY DEF Write, Sent

LEMMA HitFacts ==
  ASSUME NEW zone \in Zones
  PROVE  /\ Hit(zone) \in Controls \cup {Nothing}
         /\ zone = "screen" => Hit(zone) = Nothing
         /\ Hit(zone) # Nothing => Hit(zone) = zone
BY ControlsAssumption DEF Hit, Zones, Nothing

LEMMA MotionStep ==
  ASSUME PanelInv, NEW far \in BOOLEAN, Motion(far)
  PROVE  PanelInv'
<1>0. TypeOK BY DEF PanelInv
<1>1. /\ moved' = (moved \/ (touching /\ far)) /\ touching' = touching /\ pressed' = pressed
      /\ touching \in BOOLEAN /\ moved \in BOOLEAN /\ pressed \in Controls \cup {Nothing}
      /\ touching => pressed = Nothing
      /\ UNCHANGED <<link, reader, posts>>
  BY <1>0 DEF Motion, TypeOK
<1>2. CASE touching /\ moved'
  <2>1. [kind |-> "move", on |-> "screen"] \in Event BY DEF Event, Zones
  <2>2. Write("move", "screen") BY <1>2 DEF Motion
  <2> QED BY <1>1, <1>2, <2>1, <2>2, WriteSends, EventStep
<1>3. CASE ~(touching /\ moved')
  <2>1. UNCHANGED <<said, lines>> BY <1>3 DEF Motion, NoLine
  <2> QED BY <1>1, <1>3, <2>1, QuietStep
<1> QED BY <1>2, <1>3

LEMMA PressStep ==
  ASSUME PanelInv, NEW zone \in Zones, Press(zone)
  PROVE  PanelInv'
<1>1. /\ pressed' = Hit(zone) /\ touching' = (zone = "screen") /\ moved' = FALSE
      /\ Len(said) < MaxEvents
      /\ UNCHANGED <<link, reader, posts>>
  BY DEF Press
<1>2. CASE zone = "screen"
  <2>1. [kind |-> "down", on |-> zone] \in Event BY DEF Event
  <2>2. Write("down", zone) BY <1>2 DEF Press
  <2> QED BY <1>1, <1>2, <2>1, <2>2, WriteSends, HitFacts, EventStep
<1>3. CASE zone # "screen"
  <2>1. [kind |-> "press", on |-> zone] \in Event BY DEF Event
  <2>2. said' = Append(said, [kind |-> "press", on |-> zone]) /\ Sent BY <1>3 DEF Press, Sent
  <2> QED BY <1>1, <1>3, <2>1, <2>2, HitFacts, EventStep
<1> QED BY <1>2, <1>3

LEMMA ReleaseStep ==
  ASSUME PanelInv, NEW zone \in Zones, NEW far \in BOOLEAN, Release(zone, far)
  PROVE  PanelInv'
<1>0. TypeOK BY DEF PanelInv
<1>1. /\ moved' = (moved \/ (touching /\ far)) /\ touching' = FALSE /\ pressed' = Nothing
      /\ moved \in BOOLEAN /\ touching \in BOOLEAN /\ pressed \in Controls \cup {Nothing}
      /\ UNCHANGED <<link, reader, posts>>
  BY <1>0 DEF Release, TypeOK
<1>2. CASE touching
  <2>1. PICK kind \in {"release", "up"} :
          Write(kind, "screen") /\ (kind = "up" => ~moved)
    BY <1>2 DEF Release
  <2>2. [kind |-> kind, on |-> "screen"] \in Event BY DEF Event, Zones
  <2> QED BY <1>1, <1>2, <2>1, <2>2, WriteSends, EventStep
<1>3. CASE ~touching /\ pressed # Nothing /\ pressed = Hit(zone)
  <2>1. [kind |-> "button", on |-> pressed] \in Event BY <1>1 DEF Event, Zones
  <2>2. Write("button", pressed) BY <1>3 DEF Release
  <2> QED BY <1>1, <1>3, <2>1, <2>2, WriteSends, EventStep
<1>4. CASE ~touching /\ ~(pressed # Nothing /\ pressed = Hit(zone))
  <2>1. UNCHANGED <<said, lines>> BY <1>4 DEF Release, NoLine
  <2> QED BY <1>1, <2>1, QuietStep
<1> QED BY <1>2, <1>3, <1>4

LEMMA KnobStep ==
  ASSUME PanelInv, Knob
  PROVE  PanelInv'
<1>1. /\ TypeOK /\ UNCHANGED <<link, pointer, reader, posts>> BY DEF PanelInv, Knob
<1>2. [kind |-> "knob", on |-> Nothing] \in Event BY DEF Event
<1>3. /\ pressed' \in Controls \cup {Nothing} /\ touching' \in BOOLEAN /\ moved' \in BOOLEAN
      /\ touching' => pressed' = Nothing
  BY <1>1 DEF TypeOK, pointer
<1> QED BY <1>1, <1>2, <1>3, WriteSends, EventStep DEF Knob

(* What is told is a matter of the pointer and of what was said.           *)
LEMMA ToldKept ==
  ASSUME Told, UNCHANGED <<pointer, said>>
  PROVE  Told'
<1>1. touching' = touching /\ moved' = moved /\ pressed' = pressed /\ said' = said BY DEF pointer
<1>2. TouchesAreGestures' BY <1>1 DEF Told, TouchesAreGestures, Before
<1>3. ButtonsArePresses' BY <1>1 DEF Told, ButtonsArePresses, Before
<1>4. PointerInv' BY <1>1 DEF Told, PointerInv, Last, Before
<1> QED BY <1>2, <1>3, <1>4 DEF Told

-----------------------------------------------------------------------------
(* The connection and its thread.                                          *)
LEMMA LinkStep ==
  ASSUME PanelInv, Open \/ Accept \/ Close \/ Hangup
  PROVE  PanelInv'
<1> USE DEF pointer
<1>0. TypeOK /\ Told /\ LinesInv /\ PostsInv BY DEF PanelInv
<1>1. /\ conns \in Nat /\ conns <= MaxConns /\ MaxConns \in Nat
      /\ closed \subseteq 1..conns /\ chr \in 0..conns
  BY <1>0, BoundsAssumption DEF TypeOK
<1>2. /\ conns' \in 0..MaxConns /\ closed' \subseteq 1..conns' /\ chr' \in 0..conns'
      /\ reader' \in [Conns -> {"none", "reading", "ended"}]
      /\ UNCHANGED <<lines, pointer, posts, said>>
  <2>1. CASE Open
    <3>1. /\ conns' = conns + 1 /\ conns' <= MaxConns /\ closed' = closed /\ chr' = chr
          /\ reader' = [reader EXCEPT ![conns + 1] = "reading"]
          /\ UNCHANGED <<lines, pointer, posts, said>>
      BY <1>1, <2>1 DEF Open
    <3>3. closed' \subseteq 1..conns' /\ chr' \in 0..conns' BY <1>1, <3>1
    <3>4. reader' \in [Conns -> {"none", "reading", "ended"}] BY <1>0, <3>1 DEF TypeOK
    <3> QED BY <1>1, <3>1, <3>3, <3>4
  <2>2. CASE Accept
    <3>1. chr' \in 0..conns BY <1>1, <2>2 DEF Accept, Conns
    <3> QED BY <1>0, <1>1, <2>2, <3>1 DEF Accept, TypeOK
  <2>3. CASE Close
    <3>1. closed' \subseteq 1..conns BY <1>1, <2>3 DEF Close, Conns
    <3> QED BY <1>0, <1>1, <2>3, <3>1 DEF Close, TypeOK
  <2>4. CASE Hangup
    <3>1. chr' \in 0..conns BY <1>1, <2>4 DEF Hangup, Closed
    <3> QED BY <1>0, <1>1, <2>4, <3>1 DEF Hangup, TypeOK
  <2> QED BY <2>1, <2>2, <2>3, <2>4
<1>3. TypeOK' BY <1>0, <1>2 DEF TypeOK, posts
<1>4. LinesInv' BY <1>0, <1>2 DEF LinesInv, Made, posts
<1>5. PostsInv' BY <1>0, <1>2 DEF PostsInv, Made, posts
<1>6. Told' BY <1>0, <1>2, ToldKept
<1> QED BY <1>3, <1>4, <1>5, <1>6 DEF PanelInv

LEMMA StopStep ==
  ASSUME PanelInv, NEW c \in Conns, Stop(c)
  PROVE  PanelInv'
<1> USE DEF link, pointer
<1>0. TypeOK /\ Told /\ LinesInv /\ PostsInv BY DEF PanelInv
<1>1. /\ reader' = [reader EXCEPT ![c] = "ended"]
      /\ lines' = [lines EXCEPT ![c] = <<>>]
      /\ UNCHANGED <<link, pointer, posts, said>>
  BY DEF Stop
<1>2. lines' \in [Conns -> Seq(Line)]
  <2>1. <<>> \in Seq(Line) OBVIOUS
  <2> QED BY <1>0, <1>1, <2>1 DEF TypeOK
<1>3. /\ lines'[c] = <<>> /\ 1..Len(lines'[c]) = {}
      /\ \A d \in Conns \ {c} : lines'[d] = lines[d]
  BY <1>0, <1>1 DEF TypeOK
<1>4. TypeOK' BY <1>0, <1>1, <1>2 DEF TypeOK, posts
<1>5. \A d \in Conns : \A m \in 1..Len(lines'[d]) : d # c /\ lines'[d] = lines[d] BY <1>3
<1>6. LinesInv' BY <1>0, <1>1, <1>5 DEF LinesInv, Made, posts
<1>7. PostsInv' BY <1>0, <1>1 DEF PostsInv, Made, posts
<1>8. Told' BY <1>0, <1>1, ToldKept
<1> QED BY <1>4, <1>6, <1>7, <1>8 DEF PanelInv

LEMMA PostStep ==
  ASSUME PanelInv, NEW c \in Conns, Post(c) \/ GiveUp(c)
  PROVE  PanelInv'
<1>0. TypeOK /\ Told /\ LinesInv /\ PostsInv BY DEF PanelInv
<1>1. UNCHANGED <<pointer, said>> BY DEF Post, Take, GiveUp
<1>2. Told' BY <1>0, <1>1, ToldKept
<1> QED BY <1>0, <1>2, PostLines, GiveUpLines DEF PanelInv

LEMMA HandleStep ==
  ASSUME PanelInv, NEW r \in requests, Handle(r)
  PROVE  PanelInv'
<1>0. TypeOK /\ Told /\ LinesInv /\ PostsInv BY DEF PanelInv
<1>1. UNCHANGED <<pointer, said>> BY DEF Handle
<1>2. Told' BY <1>0, <1>1, ToldKept
<1> QED BY <1>0, <1>2, HandleLines DEF PanelInv

-----------------------------------------------------------------------------
(* The invariant of the panel, for every number of controls, connections   *)
(* and events.                                                             *)
THEOREM PanelInvariant == Spec => []PanelInv
<1>1. Init => PanelInv
  <2> SUFFICES ASSUME Init PROVE PanelInv
    OBVIOUS
  <2>1. /\ <<>> \in Seq(Line) /\ <<>> \in Seq(Event) /\ <<>> \in Seq(Posts)
        /\ Len(<<>>) = 0 /\ 1..0 = {}
    OBVIOUS
  <2>2. \A c \in Conns : lines[c] = <<>> BY DEF Init
  <2>3. TypeOK
    <3>1. lines \in [Conns -> Seq(Line)] /\ posted \in Seq(Posts) /\ said \in Seq(Event)
      BY <2>1 DEF Init
    <3>2. conns \in 0..MaxConns /\ closed \subseteq 1..conns /\ chr \in 0..conns
      BY BoundsAssumption DEF Init, Closed
    <3> QED BY <3>1, <3>2 DEF Init, TypeOK
  <2>4. Told BY <2>1 DEF Init, Told, TouchesAreGestures, ButtonsArePresses, PointerInv
  <2>5. LinesInv BY <2>1, <2>2 DEF Init, LinesInv, Made
  <2>6. PostsInv BY <2>1 DEF Init, PostsInv, Made
  <2> QED BY <2>3, <2>4, <2>5, <2>6 DEF PanelInv
<1>2. PanelInv /\ [Next]_vars => PanelInv'
  <2> SUFFICES ASSUME PanelInv, [Next]_vars PROVE PanelInv'
    OBVIOUS
  <2>1. CASE Open \/ Accept \/ Close \/ Hangup BY <2>1, LinkStep
  <2>2. ASSUME NEW far \in BOOLEAN, Motion(far) PROVE PanelInv' BY <2>2, MotionStep
  <2>3. ASSUME NEW z \in Zones, Press(z) PROVE PanelInv' BY <2>3, PressStep
  <2>4. ASSUME NEW z \in Zones, NEW far \in BOOLEAN, Release(z, far) PROVE PanelInv'
    BY <2>4, ReleaseStep
  <2>5. CASE Knob BY <2>5, KnobStep
  <2>6. ASSUME NEW c \in Conns, Post(c) \/ GiveUp(c) PROVE PanelInv' BY <2>6, PostStep
  <2>7. ASSUME NEW c \in Conns, Stop(c) PROVE PanelInv' BY <2>7, StopStep
  <2>9. ASSUME NEW r \in requests, Handle(r) PROVE PanelInv' BY <2>9, HandleStep
  <2>8. CASE UNCHANGED vars
    <3>1. TypeOK /\ pressed \in Controls \cup {Nothing} /\ touching \in BOOLEAN /\ moved \in BOOLEAN
      BY DEF PanelInv, TypeOK
    <3> QED BY <2>8, <3>1, QuietStep DEF vars, pointer
  <2> QED BY <2>1, <2>2, <2>3, <2>4, <2>5, <2>6, <2>7, <2>8, <2>9 DEF Next
<1> QED BY <1>1, <1>2, PTL DEF Spec

(* The variables of the device, the connections and the threads keep their *)
(* types; while the screen is touched no control is held.                  *)
THEOREM PanelTypeCorrect == Spec => []TypeOK
<1>1. PanelInv => TypeOK BY DEF PanelInv
<1> QED BY <1>1, PanelInvariant, PTL

(* The device says motion, releases and taps only of a touch it said.      *)
THEOREM GesturesAreWhole == Spec => []TouchesAreGestures
<1>1. PanelInv => TouchesAreGestures BY DEF PanelInv, Told
<1> QED BY <1>1, PanelInvariant, PTL

(* The device says a button once for each press, of the control pressed.   *)
THEOREM ButtonsOnce == Spec => []ButtonsArePresses
<1>1. PanelInv => ButtonsArePresses BY DEF PanelInv, Told
<1> QED BY <1>1, PanelInvariant, PTL

LEMMA PostsOrdered ==
  ASSUME PostsInv
  PROVE  PostedInOrder
<1>1. \A k \in 1..Len(posted) : posted[k] \in Made BY DEF Made
<1> QED BY <1>1 DEF PostsInv, PostedInOrder

(* The viewer gets whole lines, each at most once, and those of a          *)
(* connection in order, whatever is cut short and whichever connection is  *)
(* replaced, but for POSTs that were given up and come late.               *)
THEOREM PostsInOrder == Spec => []PostedInOrder
<1>1. PanelInv => PostedInOrder BY PostsOrdered DEF PanelInv
<1> QED BY <1>1, PanelInvariant, PTL
=============================================================================
