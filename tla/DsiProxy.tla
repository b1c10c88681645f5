------------------------------ MODULE DsiProxy ------------------------------
(***************************************************************************)
(* guest/dsi/trace.c: the proxy in front of the HMI's DSI library.  Java   *)
(* threads call send; a request of the power service or of the flash store *)
(* is answered here, by deliveries into the dispatcher's receive queue,    *)
(* and goes no further; any other is forwarded to the original library.    *)
(* The first request of the key panel starts the input thread (input.h).   *)
(*                                                                         *)
(* A delivery makes several JNI calls.  It succeeds, gets no buffer, or    *)
(* leaves a Java exception pending, which nothing clears before the thread *)
(* is back in Java.  trace_tx and trace_rx only log what passes.           *)
(***************************************************************************)
EXTENDS Integers, Sequences, SequencesExt

CONSTANTS Callers,        \* Java threads in send
          Enabled,        \* those of "power", "store", "input" that the environment sets to 1
          Attributes,     \* of the power service, in requests
          MaxAttributes,  \* in one request; 16 in the code
          StoreEvents,    \* of the store service, in requests
          MaxInputs       \* bound on input threads started

ASSUME ProxyAssumption ==
  /\ Enabled \subseteq {"power", "store", "input"}
  /\ Attributes \subseteq Nat /\ StoreEvents \subseteq Nat
  /\ MaxAttributes \in Nat /\ MaxInputs \in Nat

VARIABLES
  stage,          \* stage[j]: where thread j is in send
  request,        \* request[j]: what it sends
  todo,           \* todo[j]: what is asked of it and it has not yet come to
  tried,          \* tried[j]: what it has, and what came of it
  handled,        \* handled[j]: deliveries that succeeded
  pending,        \* pending[j]: a Java exception is pending in its thread
  forwarded,      \* forwarded[j]: calls of the original send
  input_started,
  inputs          \* input threads that run
call == <<stage, request, todo, tried, handled, pending, forwarded>>
vars == <<call, input_started, inputs>>

(* size > 96 is one of the ways not to be readable; whole: all the fields  *)
(* the event needs are there, and have the values the code asks for.       *)
Requests ==
  [service : {"power"}, event : {"register", "get", "other"}, attrs : SeqOf(Attributes, MaxAttributes),
   readable : {TRUE}, whole : BOOLEAN]
  \cup [service : {"store"}, event : StoreEvents, attrs : {<<>>}, readable : {TRUE}, whole : BOOLEAN]
  \cup [service : {"keypanel", "other"}, event : {0}, attrs : {<<>>}, readable : BOOLEAN, whole : {TRUE}]

-----------------------------------------------------------------------------
(* power_on goes through the attributes asked for and answers those that   *)
(* are simulated.                                                          *)
Simulated == {1, 2, 3, 5, 6, 7, 8, 9, 11}

Asked(r) ==
  IF ~r.whole THEN <<>>
  ELSE CASE r.event = "register" -> r.attrs
         [] r.event = "get" -> IF r.attrs = <<>> THEN <<>> ELSE <<r.attrs[1]>>
         [] OTHER -> <<>>

(* empty_store: an empty medium.  Requests 1019 to 1023 are answered like  *)
(* the odd ones from 1001 to 1009, which read; the even ones write.        *)
Response(event) == IF event \in 1019..1023 THEN 1001 + (event - 1019) * 2 ELSE event

StoreAnswers(r) ==
  IF r.event = 1016 \/ (r.whole /\ (r.event \in {0, 3839} \/ Response(r.event) \in 1000..1009))
  THEN <<Response(r.event)>> ELSE <<>>

(* What there may be to answer, and what of it the code leaves out. *)
Answers(r) ==
  CASE ~r.readable -> <<>>
    [] r.service = "power" /\ "power" \in Enabled -> Asked(r)
    [] r.service = "store" /\ "store" \in Enabled -> StoreAnswers(r)
    [] OTHER -> <<>>
LeftOut(r, a) == r.service = "power" /\ a \notin Simulated

-----------------------------------------------------------------------------
NoRequest == [service |-> "other", event |-> 0, attrs |-> <<>>, readable |-> TRUE, whole |-> TRUE]

Init ==
  /\ stage = [j \in Callers |-> "idle"] /\ request = [j \in Callers |-> NoRequest]
  /\ todo = [j \in Callers |-> <<>>] /\ tried = [j \in Callers |-> <<>>]
  /\ handled = [j \in Callers |-> 0] /\ forwarded = [j \in Callers |-> 0]
  /\ pending = [j \in Callers |-> FALSE]
  /\ input_started = FALSE /\ inputs = 0

(* A request that starts the input thread. *)
Starts(r) == r.service = "keypanel" /\ r.readable /\ "input" \in Enabled

(* Java calls send; input_started is tested first of all. *)
Call(j, r) ==
  /\ stage[j] = "idle"
  /\ stage' = [stage EXCEPT ![j] = IF Starts(r) /\ ~input_started THEN "start" ELSE "answer"]
  /\ request' = [request EXCEPT ![j] = r]
  /\ todo' = [todo EXCEPT ![j] = Answers(r)]
  /\ UNCHANGED <<tried, handled, pending, forwarded, input_started, inputs>>

(* start_input: without the VM or the classes, or when no thread can be    *)
(* created, another request may try again.                                 *)
StartInput(j) ==
  /\ stage[j] = "start"
  /\ stage' = [stage EXCEPT ![j] = "answer"]
  /\ \/ /\ inputs < MaxInputs
        /\ inputs' = inputs + 1 /\ input_started' = TRUE
     \/ UNCHANGED <<input_started, inputs>>
     \/ input_started' = FALSE /\ UNCHANGED inputs
  /\ UNCHANGED <<request, todo, tried, handled, pending, forwarded>>

(* deliver can do nothing while an exception is pending. *)
Outcomes(j) == IF pending[j] THEN {"failed"} ELSE {"delivered", "failed", "thrown"}

(* Mutant: the loop stops when a delivery fails. *)
RestUnlessFailed(j, outcome) == IF outcome = "delivered" THEN Tail(todo[j]) ELSE <<>>

(* The loop goes on, whatever came of the delivery. *)
Rest(j, outcome) == Tail(todo[j])

(* Mutant: every attempt counts. *)
CountTries(outcome) == 1

Counts(outcome) == IF outcome = "delivered" THEN 1 ELSE 0

Skip(j) ==
  /\ stage[j] = "answer" /\ todo[j] # <<>>
  /\ LeftOut(request[j], Head(todo[j]))
  /\ tried' = [tried EXCEPT ![j] = Append(@, [answer |-> Head(todo[j]), outcome |-> "left out"])]
  /\ todo' = [todo EXCEPT ![j] = Tail(@)]
  /\ UNCHANGED <<stage, request, handled, pending, forwarded, input_started, inputs>>

Deliver(j) ==
  /\ stage[j] = "answer" /\ todo[j] # <<>>
  /\ ~LeftOut(request[j], Head(todo[j]))
  /\ \E outcome \in Outcomes(j) :
       /\ tried' = [tried EXCEPT ![j] = Append(@, [answer |-> Head(todo[j]), outcome |-> outcome])]
       /\ todo' = [todo EXCEPT ![j] = Rest(j, outcome)]
       /\ handled' = [handled EXCEPT ![j] = @ + Counts(outcome)]
       /\ pending' = [pending EXCEPT ![j] = @ \/ outcome = "thrown"]
  /\ UNCHANGED <<stage, request, forwarded, input_started, inputs>>

(* One delivery is enough: the request goes no further. *)
Swallow(j) ==
  /\ stage[j] = "answer" /\ todo[j] = <<>>
  /\ handled[j] # 0
  /\ stage' = [stage EXCEPT ![j] = "back"]
  /\ UNCHANGED <<request, todo, tried, handled, pending, forwarded, input_started, inputs>>

(* The original send, which may throw; or, if it is not found, an          *)
(* UnsatisfiedLinkError.                                                   *)
Forward(j) ==
  /\ stage[j] = "answer" /\ todo[j] = <<>>
  /\ handled[j] = 0
  /\ \/ /\ forwarded' = [forwarded EXCEPT ![j] = @ + 1]
        /\ \E thrown \in BOOLEAN : pending' = [pending EXCEPT ![j] = @ \/ thrown]
     \/ pending' = [pending EXCEPT ![j] = TRUE] /\ UNCHANGED forwarded
  /\ stage' = [stage EXCEPT ![j] = "back"]
  /\ UNCHANGED <<request, todo, tried, handled, input_started, inputs>>

(* Java takes the exception, if there is one, and goes on. *)
Return(j) ==
  /\ stage[j] = "back"
  /\ stage' = [stage EXCEPT ![j] = "idle"]
  /\ request' = [request EXCEPT ![j] = NoRequest] /\ tried' = [tried EXCEPT ![j] = <<>>]
  /\ handled' = [handled EXCEPT ![j] = 0] /\ forwarded' = [forwarded EXCEPT ![j] = 0]
  /\ pending' = [pending EXCEPT ![j] = FALSE]
  /\ UNCHANGED <<todo, input_started, inputs>>

Next ==
  \E j \in Callers :
     \/ \E r \in Requests : Call(j, r)
     \/ StartInput(j) \/ Skip(j) \/ Deliver(j) \/ Swallow(j) \/ Forward(j) \/ Return(j)

Spec == Init /\ [][Next]_vars

-----------------------------------------------------------------------------
(* Properties. *)

Delivered(j) == {k \in DOMAIN tried[j] : tried[j][k].outcome = "delivered"}

TypeOK ==
  /\ stage \in [Callers -> {"idle", "start", "answer", "back"}]
  /\ request \in [Callers -> Requests]
  /\ todo \in [Callers -> Seq(Nat)]
  /\ tried \in [Callers -> Seq([answer : Nat, outcome : {"left out", "delivered", "failed", "thrown"}])]
  /\ handled \in [Callers -> 0..MaxAttributes + 1]
  /\ pending \in [Callers -> BOOLEAN] /\ forwarded \in [Callers -> 0..1]
  /\ input_started \in BOOLEAN /\ inputs \in 0..MaxInputs

(* No request is lost or handled twice: when send returns, either an       *)
(* answer to it was delivered and the original library has not seen it, or *)
(* no answer was, and the original has been called once or Java gets an    *)
(* exception (trace.c:161, 167-171).                                       *)
ForwardedOrAnswered ==
  \A j \in Callers :
     stage[j] = "back" =>
        IF Delivered(j) # {} THEN forwarded[j] = 0
        ELSE forwarded[j] = 1 \/ pending[j]

(* When send returns, an answer has been tried for each simulated          *)
(* attribute that was asked for, in order, even after one that could not   *)
(* be delivered, so that one failure does not keep the others from a       *)
(* request that then goes no further (trace.c:126-141).                    *)
EveryAttributeIsTried ==
  \A j \in Callers :
     stage[j] = "back" =>
        /\ [k \in DOMAIN tried[j] |-> tried[j][k].answer] = Answers(request[j])
        /\ \A k \in DOMAIN tried[j] :
             tried[j][k].outcome = "left out" <=> LeftOut(request[j], tried[j][k].answer)
=============================================================================
