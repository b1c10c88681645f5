--------------------------- MODULE DsiProxyProofs ---------------------------
(***************************************************************************)
(* What becomes of a request, for any number of Java threads, attributes   *)
(* and switches, and whatever comes of the deliveries.                     *)
(***************************************************************************)
EXTENDS DsiProxy, TLAPS

Outcome == {"left out", "delivered", "failed", "thrown"}
Attempt == [answer : Nat, outcome : Outcome]

(* The attempts s so far, and what is left, t, are together what was asked. *)
Along(s, t, a) ==
  /\ Len(s) + Len(t) = Len(a)
  /\ \A k \in 1..Len(s) : s[k].answer = a[k]
  /\ \A k \in 1..Len(t) : t[k] = a[Len(s) + k]

(* handled tells whether anything was delivered, and only then, or when    *)
(* all has been tried, is the request swallowed or passed on.              *)
CallInv(j) ==
  /\ stage[j] \in {"idle", "start"} => tried[j] = <<>> /\ handled[j] = 0
  /\ stage[j] # "back" => forwarded[j] = 0
  /\ stage[j] # "idle" => Along(tried[j], todo[j], Answers(request[j]))
  /\ stage[j] = "back" =>
       /\ todo[j] = <<>>
       /\ IF handled[j] # 0 THEN forwarded[j] = 0 ELSE forwarded[j] = 1 \/ pending[j]
  /\ handled[j] # 0 <=> \E k \in 1..Len(tried[j]) : tried[j][k].outcome = "delivered"
  /\ handled[j] <= Len(tried[j])
  /\ \A k \in 1..Len(tried[j]) :
       tried[j][k].outcome = "left out" <=> LeftOut(request[j], tried[j][k].answer)

ProxyInv == TypeOK /\ \A j \in Callers : CallInv(j)

-----------------------------------------------------------------------------
LEMMA AppendFacts ==
  ASSUME NEW S, NEW s \in Seq(S), NEW e \in S
  PROVE  /\ Append(s, e) \in Seq(S) /\ Len(s) \in Nat /\ Len(Append(s, e)) = Len(s) + 1
         /\ \A i \in 1..Len(s) : s[i] \in S /\ Append(s, e)[i] = s[i]
         /\ Append(s, e)[Len(s) + 1] = e
         /\ \A i \in 1..(Len(s) + 1) : i \in 1..Len(s) \/ i = Len(s) + 1
OBVIOUS

LEMMA TailFacts ==
  ASSUME NEW S, NEW t \in Seq(S), t # <<>>
  PROVE  /\ Tail(t) \in Seq(S) /\ Head(t) \in S /\ Head(t) = t[1] /\ Len(t) \in Nat /\ Len(t) > 0
         /\ Len(Tail(t)) = Len(t) - 1
         /\ \A i \in 1..(Len(t) - 1) : Tail(t)[i] = t[i + 1] /\ i + 1 \in 1..Len(t)
OBVIOUS

(* One attempt more at the first of what is left.                          *)
LEMMA Advance ==
  ASSUME NEW s \in Seq(Attempt), NEW t \in Seq(Nat), NEW a \in Seq(Nat), t # <<>>, Along(s, t, a),
         NEW e \in Attempt, e.answer = Head(t)
  PROVE  Along(Append(s, e), Tail(t), a)
<1> DEFINE u == Append(s, e)  v == Tail(t)
<1>1. /\ Len(s) \in Nat /\ Len(u) = Len(s) + 1 /\ u[Len(s) + 1] = e
      /\ \A i \in 1..Len(s) : u[i] = s[i]
      /\ \A i \in 1..(Len(s) + 1) : i \in 1..Len(s) \/ i = Len(s) + 1
  BY AppendFacts
<1>2. /\ Head(t) = t[1] /\ Len(t) \in Nat /\ Len(t) > 0 /\ Len(v) = Len(t) - 1
      /\ \A i \in 1..(Len(t) - 1) : v[i] = t[i + 1] /\ i + 1 \in 1..Len(t)
  BY TailFacts
<1> HIDE DEF u, v
<1>3. e.answer = a[Len(s) + 1] BY <1>2 DEF Along
<1>4. \A k \in 1..Len(u) : u[k].answer = a[k] BY <1>1, <1>3 DEF Along
<1>5. \A k \in 1..Len(v) : v[k] = a[Len(u) + k]
  <2> SUFFICES ASSUME NEW k \in 1..Len(v) PROVE v[k] = a[Len(u) + k]
    OBVIOUS
  <2>1. v[k] = t[k + 1] /\ k + 1 \in 1..Len(t) BY <1>2
  <2>2. t[k + 1] = a[Len(s) + (k + 1)] BY <2>1 DEF Along
  <2>3. Len(s) + (k + 1) = Len(u) + k BY <1>1, <1>2
  <2> QED BY <2>1, <2>2, <2>3
<1>6. Len(u) + Len(v) = Len(a)
  <2>1. Len(s) + Len(t) = Len(a) BY DEF Along
  <2>2. Len(s) \in Nat /\ Len(u) = Len(s) + 1 BY <1>1
  <2>3. Len(t) \in Nat /\ Len(v) = Len(t) - 1 BY <1>2
  <2>4. (Len(s) + 1) + (Len(t) - 1) = Len(s) + Len(t) BY <2>2, <2>3
  <2> QED BY <2>1, <2>2, <2>3, <2>4
<1> QED BY <1>4, <1>5, <1>6 DEF Along, u, v

(* What is asked is a list of numbers, within the bound.                   *)
LEMMA AnswersTypes ==
  ASSUME ProxyAssumption, NEW r \in Requests
  PROVE  Answers(r) \in Seq(Nat) /\ Len(Answers(r)) <= MaxAttributes + 1 /\ Len(Answers(r)) \in Nat
<1>1. MaxAttributes \in Nat /\ StoreEvents \subseteq Nat /\ Attributes \subseteq Nat
  BY DEF ProxyAssumption
<1>2. ASSUME r.service = "power"
      PROVE  r.attrs \in Seq(Nat) /\ Len(r.attrs) \in 0..MaxAttributes
  <2>1. r.attrs \in SeqOf(Attributes, MaxAttributes) BY <1>2 DEF Requests
  <2>2. PICK m \in 0..MaxAttributes : r.attrs \in [1..m -> Attributes] BY <2>1 DEF SeqOf
  <2>3. m \in Nat /\ m \in 0..MaxAttributes BY <1>1, <2>2
  <2>4. r.attrs \in Seq(Attributes) /\ Len(r.attrs) = m BY <2>2, <2>3
  <2>5. r.attrs \in Seq(Nat)
    <3>1. \A i \in 1..m : r.attrs[i] \in Nat BY <1>1, <2>2
    <3>2. r.attrs = [i \in 1..m |-> r.attrs[i]] BY <2>2
    <3>3. [i \in 1..m |-> r.attrs[i]] \in Seq(Nat) BY <2>3, <3>1
    <3> QED BY <3>2, <3>3
  <2> QED BY <2>3, <2>4, <2>5
<1>3. ASSUME r.service = "power" PROVE Asked(r) \in Seq(Nat) /\ Len(Asked(r)) <= MaxAttributes + 1
  <2>1. <<>> \in Seq(Nat) /\ Len(<<>>) = 0 OBVIOUS
  <2>2. ASSUME r.attrs # <<>> PROVE <<r.attrs[1]>> \in Seq(Nat) /\ Len(<<r.attrs[1]>>) = 1
    <3>1. r.attrs[1] \in Nat BY <1>2, <1>3, <2>2
    <3> QED BY <3>1
  <2> QED BY <1>1, <1>2, <1>3, <2>1, <2>2 DEF Asked
<1>4. ASSUME r.service = "store"
      PROVE  StoreAnswers(r) \in Seq(Nat) /\ Len(StoreAnswers(r)) <= MaxAttributes + 1
  <2>1. r.event \in Nat BY <1>1, <1>4 DEF Requests
  <2>2. Response(r.event) \in Nat BY <2>1 DEF Response
  <2>3. <<Response(r.event)>> \in Seq(Nat) /\ Len(<<Response(r.event)>>) = 1 BY <2>2
  <2>4. <<>> \in Seq(Nat) /\ Len(<<>>) = 0 OBVIOUS
  <2> QED BY <1>1, <2>3, <2>4 DEF StoreAnswers
<1>5. <<>> \in Seq(Nat) /\ Len(<<>>) <= MaxAttributes + 1 BY <1>1
<1>6. Answers(r) \in Seq(Nat) /\ Len(Answers(r)) <= MaxAttributes + 1
  BY <1>3, <1>4, <1>5 DEF Answers
<1> QED BY <1>6

LEMMA CallTypes ==
  ASSUME ProxyAssumption, TypeOK, NEW j \in Callers
  PROVE  /\ stage[j] \in {"idle", "start", "answer", "back"} /\ request[j] \in Requests
         /\ todo[j] \in Seq(Nat) /\ tried[j] \in Seq(Attempt) /\ Len(tried[j]) \in Nat
         /\ handled[j] \in Nat /\ pending[j] \in BOOLEAN
<1>1. tried[j] \in Seq(Attempt) BY DEF TypeOK, Attempt, Outcome
<1>2. Len(tried[j]) \in Nat BY <1>1
<1>3. handled[j] \in 0..MaxAttributes + 1 BY DEF TypeOK
<1>4. handled[j] \in Nat BY <1>3 DEF ProxyAssumption
<1> QED BY <1>1, <1>2, <1>4 DEF TypeOK

(* The other threads of Java are not touched.                              *)
Apart(j) ==
  \A i \in Callers \ {j} :
     /\ stage'[i] = stage[i] /\ request'[i] = request[i] /\ todo'[i] = todo[i] /\ tried'[i] = tried[i]
     /\ handled'[i] = handled[i] /\ pending'[i] = pending[i] /\ forwarded'[i] = forwarded[i]

LEMMA Others ==
  ASSUME ProxyInv, NEW j \in Callers, Apart(j), TypeOK', CallInv(j)'
  PROVE  ProxyInv'
<1>1. ASSUME NEW i \in Callers \ {j} PROVE CallInv(i)'
  <2>1. CallInv(i) BY DEF ProxyInv
  <2>2. /\ stage'[i] = stage[i] /\ request'[i] = request[i] /\ todo'[i] = todo[i] /\ tried'[i] = tried[i]
        /\ handled'[i] = handled[i] /\ pending'[i] = pending[i] /\ forwarded'[i] = forwarded[i]
    BY DEF Apart
  <2> QED BY <2>1, <2>2 DEF CallInv
<1> QED BY <1>1 DEF ProxyInv

-----------------------------------------------------------------------------
(* The steps of send.                                                      *)
LEMMA CallStep ==
  ASSUME ProxyAssumption, ProxyInv, NEW j \in Callers, NEW r \in Requests, Call(j, r)
  PROVE  ProxyInv'
<1>0. TypeOK /\ CallInv(j) BY DEF ProxyInv
<1>1. /\ stage[j] = "idle" /\ stage'[j] \in {"start", "answer"}
      /\ request'[j] = r /\ todo'[j] = Answers(r)
      /\ stage' \in [Callers -> {"idle", "start", "answer", "back"}]
      /\ UNCHANGED <<tried, handled, pending, forwarded, input_started, inputs>>
  BY <1>0 DEF Call, TypeOK
<1>2. Answers(r) \in Seq(Nat) /\ Len(Answers(r)) \in Nat BY AnswersTypes
<1>3. TypeOK' BY <1>0, <1>1, <1>2 DEF TypeOK, Call
<1>4. Apart(j) BY <1>0 DEF Call, Apart, TypeOK
<1>5. tried[j] = <<>> /\ handled[j] = 0 /\ forwarded[j] = 0 BY <1>0, <1>1 DEF CallInv
<1>6. Along(<<>>, Answers(r), Answers(r)) BY <1>2 DEF Along
<1>7. CallInv(j)' BY <1>1, <1>5, <1>6 DEF CallInv
<1> QED BY <1>3, <1>4, <1>7, Others

LEMMA StartStep ==
  ASSUME ProxyAssumption, ProxyInv, NEW j \in Callers, StartInput(j)
  PROVE  ProxyInv'
<1>0. TypeOK /\ CallInv(j) BY DEF ProxyInv
<1>1. /\ stage[j] = "start" /\ stage'[j] = "answer"
      /\ stage' \in [Callers -> {"idle", "start", "answer", "back"}]
      /\ UNCHANGED <<request, todo, tried, handled, pending, forwarded>>
  BY <1>0 DEF StartInput, TypeOK
<1>2. input_started' \in BOOLEAN /\ inputs' \in 0..MaxInputs
  <2>1. MaxInputs \in Nat /\ input_started \in BOOLEAN /\ inputs \in 0..MaxInputs
    BY <1>0 DEF TypeOK, ProxyAssumption
  <2>2. CASE inputs < MaxInputs /\ inputs' = inputs + 1 /\ input_started' = TRUE BY <2>1, <2>2
  <2>3. CASE UNCHANGED <<input_started, inputs>> BY <2>1, <2>3
  <2>4. CASE input_started' = FALSE /\ UNCHANGED inputs BY <2>1, <2>4
  <2> QED BY <2>2, <2>3, <2>4 DEF StartInput
<1>3. TypeOK' BY <1>0, <1>1, <1>2 DEF TypeOK
<1>4. Apart(j) BY <1>0, <1>1 DEF StartInput, Apart, TypeOK
<1>5. CallInv(j)' BY <1>0, <1>1 DEF CallInv
<1> QED BY <1>3, <1>4, <1>5, Others

(* The loop comes to the next attribute: an answer is delivered or not, or *)
(* there is none to give.                                                  *)
LEMMA LoopStep ==
  ASSUME ProxyAssumption, ProxyInv, NEW j \in Callers, Skip(j) \/ Deliver(j)
  PROVE  ProxyInv'
<1>0. TypeOK /\ CallInv(j) BY DEF ProxyInv
<1> DEFINE a == Head(todo[j])
<1>1. PICK outcome \in Outcome :
        /\ tried' = [tried EXCEPT ![j] = Append(@, [answer |-> a, outcome |-> outcome])]
        /\ todo' = [todo EXCEPT ![j] = Tail(@)]
        /\ handled' = [handled EXCEPT ![j] = @ + IF outcome = "delivered" THEN 1 ELSE 0]
        /\ pending' \in [Callers -> BOOLEAN]
        /\ \A i \in Callers \ {j} : pending'[i] = pending[i]
        /\ outcome = "left out" <=> LeftOut(request[j], a)
  <2>1. CASE Skip(j)
    <3>1. handled' = [handled EXCEPT ![j] = @ + 0]
      <4>1. handled[j] + 0 = handled[j] BY <1>0, CallTypes
      <4>2. handled' = [handled EXCEPT ![j] = handled[j]] BY <1>0, <2>1 DEF Skip, TypeOK
      <4> QED BY <4>1, <4>2
    <3> QED BY <1>0, <2>1, <3>1 DEF Skip, TypeOK, Outcome
  <2>2. CASE Deliver(j)
    <3>1. PICK outcome \in Outcomes(j) :
            /\ tried' = [tried EXCEPT ![j] = Append(@, [answer |-> Head(todo[j]), outcome |-> outcome])]
            /\ todo' = [todo EXCEPT ![j] = Rest(j, outcome)]
            /\ handled' = [handled EXCEPT ![j] = @ + Counts(outcome)]
            /\ pending' = [pending EXCEPT ![j] = @ \/ outcome = "thrown"]
      BY <2>2 DEF Deliver
    <3>2. outcome \in {"delivered", "failed", "thrown"} BY DEF Outcomes
    <3>3. todo' = [todo EXCEPT ![j] = Tail(@)] BY <1>0, <3>1 DEF Rest, TypeOK
    <3>4. /\ pending' \in [Callers -> BOOLEAN]
          /\ \A i \in Callers \ {j} : pending'[i] = pending[i]
      BY <1>0, <3>1 DEF TypeOK
    <3> QED BY <2>2, <3>1, <3>2, <3>3, <3>4 DEF Deliver, Counts, Outcome
  <2> QED BY <2>1, <2>2
<1>2. /\ stage[j] = "answer" /\ todo[j] # <<>> /\ todo[j] \in Seq(Nat) /\ tried[j] \in Seq(Attempt)
      /\ request[j] \in Requests /\ handled[j] \in Nat
      /\ UNCHANGED <<stage, request, forwarded, input_started, inputs>>
  BY <1>0, CallTypes DEF Skip, Deliver
<1> DEFINE e == [answer |-> a, outcome |-> outcome]
<1>3. a \in Nat /\ Tail(todo[j]) \in Seq(Nat) BY <1>2, TailFacts
<1>4. e \in Attempt /\ e.answer = a /\ e.outcome = outcome BY <1>3 DEF Attempt
<1> HIDE DEF a, e
<1>5. /\ tried'[j] = Append(tried[j], e) /\ todo'[j] = Tail(todo[j])
      /\ handled'[j] = handled[j] + IF outcome = "delivered" THEN 1 ELSE 0
  BY <1>0, <1>1 DEF TypeOK, e
<1>6. Apart(j) BY <1>0, <1>1, <1>2 DEF Apart, TypeOK
<1>7. Along(tried'[j], todo'[j], Answers(request[j]))
  <2>1. Answers(request[j]) \in Seq(Nat) BY <1>2, AnswersTypes
  <2>2. Along(tried[j], todo[j], Answers(request[j])) BY <1>0, <1>2 DEF CallInv
  <2>3. e.answer = Head(todo[j]) BY <1>4 DEF a
  <2> QED BY <1>2, <1>4, <1>5, <2>1, <2>2, <2>3, Advance
<1>8. /\ Len(tried[j]) \in Nat /\ Len(tried'[j]) = Len(tried[j]) + 1
      /\ \A k \in 1..Len(tried[j]) : tried'[j][k] = tried[j][k]
      /\ tried'[j][Len(tried[j]) + 1] = e
      /\ \A k \in 1..(Len(tried[j]) + 1) : k \in 1..Len(tried[j]) \/ k = Len(tried[j]) + 1
      /\ tried'[j] \in Seq(Attempt)
  BY <1>2, <1>4, <1>5, AppendFacts
<1>9. handled'[j] # 0 <=> \E k \in 1..Len(tried'[j]) : tried'[j][k].outcome = "delivered"
  <2>1. handled[j] # 0 <=> \E k \in 1..Len(tried[j]) : tried[j][k].outcome = "delivered"
    BY <1>0 DEF CallInv
  <2>2. handled[j] \in Nat BY <1>2
  <2>3. Len(tried[j]) + 1 \in 1..Len(tried'[j]) /\ \A k \in 1..Len(tried[j]) : k \in 1..Len(tried'[j])
    BY <1>8
  <2>4. CASE outcome = "delivered" BY <1>4, <1>5, <1>8, <2>2, <2>3, <2>4
  <2>5. CASE outcome # "delivered"
    <3>1. handled'[j] = handled[j] BY <1>5, <2>2, <2>5
    <3>2. (\E k \in 1..Len(tried'[j]) : tried'[j][k].outcome = "delivered")
            <=> \E k \in 1..Len(tried[j]) : tried[j][k].outcome = "delivered"
      BY <1>4, <1>8, <2>3, <2>5
    <3> QED BY <2>1, <3>1, <3>2
  <2> QED BY <2>4, <2>5
<1>10. handled'[j] \in Nat /\ handled'[j] <= Len(tried'[j])
  <2>1. handled[j] <= Len(tried[j]) BY <1>0 DEF CallInv
  <2>2. handled'[j] = handled[j] \/ handled'[j] = handled[j] + 1 BY <1>2, <1>5
  <2> QED BY <1>2, <1>8, <2>1, <2>2
<1>11. \A k \in 1..Len(tried'[j]) :
          tried'[j][k].outcome = "left out" <=> LeftOut(request[j], tried'[j][k].answer)
  BY <1>0, <1>1, <1>4, <1>8 DEF CallInv
<1>12. CallInv(j)' BY <1>0, <1>2, <1>7, <1>9, <1>10, <1>11 DEF CallInv
<1>13. TypeOK'
  <2>1. Len(tried'[j]) <= MaxAttributes + 1
    <3>1. /\ Len(Answers(request[j])) <= MaxAttributes + 1 /\ Len(Answers(request[j])) \in Nat
          /\ MaxAttributes \in Nat
      BY <1>2, AnswersTypes DEF ProxyAssumption
    <3>2. Len(todo'[j]) \in Nat BY <1>3, <1>5
    <3>3. Len(tried'[j]) + Len(todo'[j]) = Len(Answers(request[j])) BY <1>7 DEF Along
    <3>4. Len(tried'[j]) \in Nat BY <1>8
    <3>5. ASSUME NEW x \in Nat, NEW y \in Nat, NEW z \in Nat, NEW m \in Nat, x + y = z, z <= m
          PROVE  x <= m
      BY <3>5
    <3>6. MaxAttributes + 1 \in Nat BY <3>1
    <3> HIDE DEF e
    <3> QED BY <3>1, <3>2, <3>3, <3>4, <3>5, <3>6
  <2>2. handled[j] \in Nat /\ MaxAttributes \in Nat BY <1>2 DEF ProxyAssumption
  <2>3. handled'[j] \in 0..MaxAttributes + 1 BY <1>2, <1>5, <1>8, <1>10, <2>1, <2>2
  <2>4. handled' \in [Callers -> 0..MaxAttributes + 1]
    <3>1. handled' = [handled EXCEPT ![j] = handled'[j]] BY <1>0, <1>1 DEF TypeOK
    <3> QED BY <1>0, <2>3, <3>1 DEF TypeOK
  <2>5. tried' \in [Callers -> Seq(Attempt)]
    <3>1. tried' = [tried EXCEPT ![j] = Append(tried[j], e)] BY <1>0, <1>1 DEF TypeOK, e
    <3>2. Append(tried[j], e) \in Seq(Attempt) BY <1>5, <1>8
    <3> QED BY <1>0, <3>1, <3>2 DEF TypeOK, Attempt, Outcome
  <2>6. todo' \in [Callers -> Seq(Nat)] BY <1>0, <1>1, <1>3 DEF TypeOK
  <2> QED BY <1>0, <1>1, <1>2, <2>4, <2>5, <2>6 DEF TypeOK, Attempt, Outcome
<1> QED BY <1>6, <1>12, <1>13, Others

(* What was delivered goes no further; all else does, or ends in Java.     *)
LEMMA EndStep ==
  ASSUME ProxyInv, NEW j \in Callers, Swallow(j) \/ Forward(j)
  PROVE  ProxyInv'
<1>0. TypeOK /\ CallInv(j) BY DEF ProxyInv
<1>1. /\ stage[j] = "answer" /\ todo[j] = <<>> /\ stage'[j] = "back"
      /\ stage' \in [Callers -> {"idle", "start", "answer", "back"}]
      /\ UNCHANGED <<request, todo, tried, handled, input_started, inputs>>
      /\ forwarded[j] = 0
  BY <1>0 DEF Swallow, Forward, TypeOK, CallInv
<1>2. /\ IF handled[j] # 0 THEN forwarded'[j] = 0 ELSE forwarded'[j] = 1 \/ pending'[j]
      /\ forwarded' \in [Callers -> 0..1] /\ pending' \in [Callers -> BOOLEAN]
      /\ \A i \in Callers \ {j} :
           stage'[i] = stage[i] /\ forwarded'[i] = forwarded[i] /\ pending'[i] = pending[i]
  <2>1. CASE Swallow(j) BY <1>0, <1>1, <2>1 DEF Swallow, TypeOK
  <2>2. CASE Forward(j)
    <3>1. handled[j] = 0 /\ stage' = [stage EXCEPT ![j] = "back"] BY <2>2 DEF Forward
    <3>2. CASE /\ forwarded' = [forwarded EXCEPT ![j] = @ + 1]
               /\ \E thrown \in BOOLEAN : pending' = [pending EXCEPT ![j] = @ \/ thrown]
      <4>1. forwarded'[j] = 1 /\ forwarded' \in [Callers -> 0..1]
        <5>1. forwarded[j] + 1 = 1 BY <1>1
        <5>2. forwarded' = [forwarded EXCEPT ![j] = 1] BY <3>2, <5>1
        <5>3. forwarded \in [Callers -> 0..1] BY <1>0 DEF TypeOK
        <5>4. 1 \in 0..1 OBVIOUS
        <5> QED BY <5>2, <5>3, <5>4
      <4>2. pending' \in [Callers -> BOOLEAN] BY <1>0, <3>2 DEF TypeOK
      <4> QED BY <1>0, <3>1, <3>2, <4>1, <4>2 DEF TypeOK
    <3>3. CASE pending' = [pending EXCEPT ![j] = TRUE] /\ UNCHANGED forwarded
      BY <1>0, <3>1, <3>3 DEF TypeOK
    <3> QED BY <2>2, <3>2, <3>3 DEF Forward
  <2> QED BY <2>1, <2>2
<1>3. TypeOK' BY <1>0, <1>1, <1>2 DEF TypeOK
<1>4. Apart(j) BY <1>1, <1>2 DEF Apart
<1>5. CallInv(j)' BY <1>0, <1>1, <1>2 DEF CallInv
<1> QED BY <1>3, <1>4, <1>5, Others

LEMMA NoRequestFacts ==
  ASSUME ProxyAssumption
  PROVE  NoRequest \in Requests
<1>1. MaxAttributes \in Nat /\ 0 \in 0..MaxAttributes BY DEF ProxyAssumption
<1>2. <<>> \in [1..0 -> Attributes] OBVIOUS
<1> QED BY <1>1, <1>2 DEF NoRequest, Requests, SeqOf

LEMMA ReturnStep ==
  ASSUME ProxyAssumption, ProxyInv, NEW j \in Callers, Return(j)
  PROVE  ProxyInv'
<1>0. TypeOK /\ CallInv(j) BY DEF ProxyInv
<1>1. /\ stage'[j] = "idle" /\ request'[j] = NoRequest /\ tried'[j] = <<>>
      /\ handled'[j] = 0 /\ forwarded'[j] = 0
  BY <1>0 DEF Return, TypeOK
<1>2. <<>> \in Seq(Attempt) /\ Len(<<>>) = 0 /\ 1..Len(<<>>) = {} OBVIOUS
<1>3. 0 \in 0..MaxAttributes + 1 BY DEF ProxyAssumption
<1>4. TypeOK'
  <2>1. stage' \in [Callers -> {"idle", "start", "answer", "back"}] BY <1>0 DEF Return, TypeOK
  <2>2. request' \in [Callers -> Requests] BY <1>0, NoRequestFacts DEF Return, TypeOK
  <2>3. tried' \in [Callers -> Seq(Attempt)]
    <3>1. tried \in [Callers -> Seq(Attempt)] BY <1>0 DEF TypeOK, Attempt, Outcome
    <3>2. tried' = [tried EXCEPT ![j] = <<>>] BY DEF Return
    <3> QED BY <1>2, <3>1, <3>2
  <2>4. handled' \in [Callers -> 0..MaxAttributes + 1] BY <1>0, <1>3 DEF Return, TypeOK
  <2>5. forwarded' \in [Callers -> 0..1]
    <3>1. 0 \in 0..1 OBVIOUS
    <3> QED BY <1>0, <3>1 DEF Return, TypeOK
  <2>6. pending' \in [Callers -> BOOLEAN] BY <1>0 DEF Return, TypeOK
  <2>7. UNCHANGED <<todo, input_started, inputs>> BY DEF Return
  <2> QED BY <1>0, <2>1, <2>2, <2>3, <2>4, <2>5, <2>6, <2>7 DEF TypeOK, Attempt, Outcome
<1>5. Apart(j) BY <1>0 DEF Return, Apart, TypeOK
<1>6. CallInv(j)' BY <1>1, <1>2 DEF CallInv
<1> QED BY <1>4, <1>5, <1>6, Others

-----------------------------------------------------------------------------
(* The invariant of the proxy, for every number of threads.                *)
THEOREM ProxyInvariant == Spec => []ProxyInv
<1>1. Init => ProxyInv
  <2> SUFFICES ASSUME Init PROVE ProxyInv
    OBVIOUS
  <2>1. /\ <<>> \in Seq(Attempt) /\ <<>> \in Seq(Nat) /\ Len(<<>>) = 0 /\ 1..0 = {}
        /\ NoRequest \in Requests /\ 0 \in 0..MaxAttributes + 1 /\ 0 \in 0..MaxInputs
    BY ProxyAssumption, NoRequestFacts DEF ProxyAssumption
  <2>2. TypeOK
    <3>1. /\ stage \in [Callers -> {"idle", "start", "answer", "back"}]
          /\ request \in [Callers -> Requests]
      BY <2>1 DEF Init
    <3>2. todo \in [Callers -> Seq(Nat)] /\ tried \in [Callers -> Seq(Attempt)] BY <2>1 DEF Init
    <3>3. 0 \in 0..1 OBVIOUS
    <3>4. handled \in [Callers -> 0..MaxAttributes + 1] /\ forwarded \in [Callers -> 0..1]
      BY <2>1, <3>3 DEF Init
    <3>5. /\ pending \in [Callers -> BOOLEAN]
          /\ input_started \in BOOLEAN /\ inputs \in 0..MaxInputs
      BY <2>1 DEF Init
    <3> QED BY <3>1, <3>2, <3>4, <3>5 DEF TypeOK, Attempt, Outcome
  <2>3. \A j \in Callers : CallInv(j) BY <2>1 DEF Init, CallInv
  <2> QED BY <2>2, <2>3 DEF ProxyInv
<1>2. ProxyInv /\ [Next]_vars => ProxyInv'
  <2> SUFFICES ASSUME ProxyInv, [Next]_vars PROVE ProxyInv'
    OBVIOUS
  <2>1. ASSUME NEW j \in Callers, NEW r \in Requests, Call(j, r) PROVE ProxyInv'
    BY <2>1, ProxyAssumption, CallStep
  <2>2. ASSUME NEW j \in Callers, StartInput(j) PROVE ProxyInv' BY <2>2, ProxyAssumption, StartStep
  <2>3. ASSUME NEW j \in Callers, Skip(j) \/ Deliver(j) PROVE ProxyInv'
    BY <2>3, ProxyAssumption, LoopStep
  <2>4. ASSUME NEW j \in Callers, Swallow(j) \/ Forward(j) PROVE ProxyInv' BY <2>4, EndStep
  <2>5. ASSUME NEW j \in Callers, Return(j) PROVE ProxyInv' BY <2>5, ProxyAssumption, ReturnStep
  <2>6. CASE UNCHANGED vars BY <2>6 DEF ProxyInv, TypeOK, CallInv, vars, call
  <2> QED BY <2>1, <2>2, <2>3, <2>4, <2>5, <2>6 DEF Next
<1> QED BY <1>1, <1>2, PTL DEF Spec

(* A request of Java is answered or goes on or ends in an exception.       *)
THEOREM RequestEnds == Spec => []ForwardedOrAnswered
<1>1. ProxyInv => ForwardedOrAnswered
  <2> SUFFICES ASSUME ProxyInv, NEW j \in Callers, stage[j] = "back"
               PROVE  IF Delivered(j) # {} THEN forwarded[j] = 0 ELSE forwarded[j] = 1 \/ pending[j]
    BY DEF ForwardedOrAnswered
  <2>1. CallInv(j) /\ tried[j] \in Seq(Attempt) BY ProxyAssumption, CallTypes DEF ProxyInv
  <2>2. DOMAIN tried[j] = 1..Len(tried[j]) BY <2>1
  <2>3. Delivered(j) # {} <=> handled[j] # 0 BY <2>1, <2>2 DEF Delivered, CallInv
  <2> QED BY <2>1, <2>3 DEF CallInv
<1> QED BY <1>1, ProxyInvariant, PTL

(* Every attribute asked for has its turn, in order, whatever failed.      *)
THEOREM AttributesTried == Spec => []EveryAttributeIsTried
<1>1. ProxyInv => EveryAttributeIsTried
  <2> SUFFICES ASSUME ProxyInv, NEW j \in Callers, stage[j] = "back"
               PROVE  /\ [k \in DOMAIN tried[j] |-> tried[j][k].answer] = Answers(request[j])
                      /\ \A k \in DOMAIN tried[j] :
                           tried[j][k].outcome = "left out" <=> LeftOut(request[j], tried[j][k].answer)
    BY DEF EveryAttributeIsTried
  <2>1. CallInv(j) /\ tried[j] \in Seq(Attempt) /\ request[j] \in Requests BY ProxyAssumption, CallTypes DEF ProxyInv
  <2>2. Along(tried[j], <<>>, Answers(request[j])) BY <2>1 DEF CallInv
  <2>3. Answers(request[j]) \in Seq(Nat) BY <2>1, ProxyAssumption, AnswersTypes
  <2>4. DOMAIN tried[j] = 1..Len(tried[j]) BY <2>1
  <2>5. Len(Answers(request[j])) = Len(tried[j]) BY <2>1, <2>2 DEF Along
  <2>6. \A k \in 1..Len(tried[j]) : tried[j][k].answer = Answers(request[j])[k] BY <2>2 DEF Along
  <2>7. Answers(request[j]) = [k \in 1..Len(tried[j]) |-> Answers(request[j])[k]] BY <2>3, <2>5
  <2>8. [k \in DOMAIN tried[j] |-> tried[j][k].answer] = Answers(request[j])
    BY <2>4, <2>6, <2>7
  <2> QED BY <2>1, <2>4, <2>8 DEF CallInv
<1> QED BY <1>1, ProxyInvariant, PTL
=============================================================================
