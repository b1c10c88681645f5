----------------------------- MODULE GlRpcOrder -----------------------------
(***************************************************************************)
(* The host of the graphics RPC executes calls in the order in which their *)
(* threads got the lock, none twice, and none is missing from the middle   *)
(* of a context: OrderInv of GlRpcInv is an invariant, given IInv.  With   *)
(* that every step is a step of RemoteCall, or of none of its variables.   *)
(***************************************************************************)
EXTENDS GlRpcProofs

(* A command that was executed is the request of one call.                 *)
LEMMA ExecutedFacts ==
  ASSUME TypeOK, CommandsAreWhole, NEW k \in 1..LastExecuted
  PROVE  /\ executed[k] \in [command : Seq(Part), context : Calls]
         /\ executed[k].context \in Calls
         /\ LastExecuted \in Nat /\ k \in Nat
         /\ executed[k].command = RequestOf(CallOf(k))
<1>1. executed \in Seq([command : Seq(Part), context : Calls]) BY DEF TypeOK
<1>2. executed[k] \in [command : Seq(Part), context : Calls]
  <2>1. \A S : \A s \in Seq(S) : \A j \in 1..Len(s) : s[j] \in S OBVIOUS
  <2> QED BY <1>1, <2>1 DEF LastExecuted
<1>3. LastExecuted \in Nat /\ k \in Nat BY <1>1 DEF LastExecuted
<1>4. executed[k].command = RequestOf(CallOf(k)) BY DEF CommandsAreWhole, CallOf, LastExecuted
<1> QED BY <1>2, <1>3, <1>4

(* The request of a call. *)
LEMMA RequestFacts ==
  ASSUME NEW i \in Calls
  PROVE  RequestOf(i) \in Seq(Part) /\ RequestOf(i)[1].call = i
<1>1. Parts[i] \in Nat \ {0} BY PartsNat
<1>2. \A k \in 1..Parts[i] : PartOf(i, k) \in Part BY <1>1 DEF PartOf, Part
<1>3. RequestOf(i) \in [1..Parts[i] -> Part] BY <1>2 DEF RequestOf
<1>4. RequestOf(i)[1] = PartOf(i, 1) BY <1>1 DEF RequestOf
<1>5. RequestOf(i) \in Seq(Part) BY <1>1, <1>3
<1> QED BY <1>4, <1>5 DEF PartOf

(* What a step of a guest thread has to do for the invariant when it       *)
(* leaves the host and what is sent to it alone.                           *)
LEMMA GuestQuiet ==
  ASSUME IInv, OrderInv, UNCHANGED <<request, host, executed>>,
         issued' \in {issued, issued + 1},
         \A c \in Calls : Used(c)' => Used(c),
         \A t \in Threads : pc'[t] = "connect" => issued' = issued + 1 \/ pc[t] = "connect",
         GuestTurn'
  PROVE  OrderInv'
<1>0. TypeOK /\ issued \in Nat BY BoundsAssumption DEF IInv, TypeOK
<1>1. UNCHANGED <<serving, phase, command, shut>> BY DEF host
<1>2. ContextInv' /\ ExecutedInCallOrder' /\ ContextIsUnbroken'
  BY <1>1 DEF OrderInv, ContextInv, CallOf, ExecutedInCallOrder, ContextIsUnbroken, LastExecuted
<1>3. \A c, i \in Calls : On(c, i)' => On(c, i) BY <1>1 DEF On, CallOf, LastExecuted
<1>4. SpanInv'
  <2> SUFFICES ASSUME NEW c \in Calls, NEW i \in Calls, On(c, i)
               PROVE  /\ i <= issued'
                      /\ \A t \in Threads : pc'[t] = "connect" => i < issued'
                      /\ \A d \in Calls : Used(d)' /\ c < d => i < d
    BY <1>3 DEF SpanInv
  <2>1. /\ i <= issued /\ \A t \in Threads : pc[t] = "connect" => i < issued
        /\ \A d \in Calls : Used(d) /\ c < d => i < d
    BY DEF OrderInv, SpanInv
  <2>2. i \in Nat BY CallsNat
  <2> QED BY <1>0, <2>1, <2>2
<1>5. HostTurn' BY <1>1 DEF OrderInv, HostTurn, Begun, Expected, CallOf, LastExecuted
<1> QED BY <1>2, <1>4, <1>5 DEF OrderInv

(* The same for a step of the host that executes nothing.                  *)
LEMMA HostQuiet ==
  ASSUME IInv, OrderInv, UNCHANGED <<guest, executed, issued>>,
         \A c \in Calls : Used(c)' => Used(c),
         \A c, i \in Calls : On(c, i)' => On(c, i),
         shut \subseteq shut', serving \in shut' \cup {serving', Closed},
         HostTurn'
  PROVE  OrderInv'
<1>0. TypeOK /\ CommandsAreWhole BY DEF IInv
<1>1. UNCHANGED <<pc, lock, rpc_fd>> BY DEF guest
<1>2. ExecutedInCallOrder' /\ ContextIsUnbroken'
  BY DEF OrderInv, ExecutedInCallOrder, ContextIsUnbroken
<1>3. ContextInv'
  <2>1. \A k \in 1..LastExecuted : executed[k].context # Closed
    BY <1>0, ExecutedFacts, CallsNat
  <2> QED BY <2>1 DEF OrderInv, ContextInv, CallOf, LastExecuted
<1>4. SpanInv' BY <1>1 DEF OrderInv, SpanInv
<1>5. GuestTurn' BY <1>1 DEF OrderInv, GuestTurn, Effect, Expected, CallOf, LastExecuted
<1> QED BY <1>2, <1>3, <1>4, <1>5 DEF OrderInv

-----------------------------------------------------------------------------
(* The guest. *)

(* A step by which no thread moves into or within rpc.                     *)
LEMMA AsideOrder ==
  ASSUME IInv, OrderInv, UNCHANGED <<lock, rpc_fd, issued, request, host, executed>>,
         \A c \in Calls : reply'[c] # <<>> => reply[c] # <<>>,
         \A t \in Threads : pc'[t] \in {"connect", "send", "receive"} => pc'[t] = pc[t]
  PROVE  OrderInv'
<1>1. UNCHANGED <<serving, shut, backlog>> BY DEF host
<1>2. \A c \in Calls : Used(c)' => Used(c) BY <1>1 DEF Used
<1>3. GuestTurn' BY <1>1 DEF OrderInv, GuestTurn, Effect, Expected, CallOf, LastExecuted
<1>4. \A t \in Threads : pc'[t] = "connect" => issued' = issued + 1 \/ pc[t] = "connect" OBVIOUS
<1> QED BY <1>2, <1>3, <1>4, GuestQuiet

LEMMA EnterOrder == ASSUME IInv, OrderInv, NEW t \in Threads, Enter(t) PROVE OrderInv'
<1>1. UNCHANGED <<lock, rpc_fd, issued, request, reply, host, executed>> BY DEF Enter
<1>2. pc' = [pc EXCEPT ![t] = "lock"] BY DEF Enter
<1>3. \A u \in Threads : pc'[u] \in {"connect", "send", "receive"} => pc'[u] = pc[u]
  BY <1>2 DEF IInv, TypeOK
<1> QED BY <1>1, <1>3, AsideOrder

LEMMA RejectOrder == ASSUME IInv, OrderInv, NEW t \in Threads, Reject(t) PROVE OrderInv'
<1>1. UNCHANGED <<pc, lock, rpc_fd, issued, request, reply, host, executed>> BY DEF Reject
<1> QED BY <1>1, AsideOrder

LEMMA ErrorTestOrder == ASSUME IInv, OrderInv, NEW t \in Threads, ErrorTest(t) PROVE OrderInv'
<1>1. UNCHANGED <<lock, rpc_fd, issued, request, reply, host, executed>> BY DEF ErrorTest
<1>2. pc' = [pc EXCEPT ![t] = "take"] BY DEF ErrorTest
<1>3. \A u \in Threads : pc'[u] \in {"connect", "send", "receive"} => pc'[u] = pc[u]
  BY <1>2 DEF IInv, TypeOK
<1> QED BY <1>1, <1>3, AsideOrder

LEMMA ErrorTakeOrder == ASSUME IInv, OrderInv, NEW t \in Threads, ErrorTake(t) PROVE OrderInv'
<1>1. UNCHANGED <<lock, rpc_fd, issued, request, reply, host, executed>> BY DEF ErrorTake
<1>2. pc' = [pc EXCEPT ![t] = "clear"] BY DEF ErrorTake
<1>3. \A u \in Threads : pc'[u] \in {"connect", "send", "receive"} => pc'[u] = pc[u]
  BY <1>2 DEF IInv, TypeOK
<1> QED BY <1>1, <1>3, AsideOrder

LEMMA ErrorClearOrder == ASSUME IInv, OrderInv, NEW t \in Threads, ErrorClear(t) PROVE OrderInv'
<1>1. UNCHANGED <<lock, rpc_fd, issued, request, reply, host, executed>> BY DEF ErrorClear
<1>2. pc' = [pc EXCEPT ![t] = "idle"] BY DEF ErrorClear
<1>3. \A u \in Threads : pc'[u] \in {"connect", "send", "receive"} => pc'[u] = pc[u]
  BY <1>2 DEF IInv, TypeOK
<1> QED BY <1>1, <1>3, AsideOrder

LEMMA ReceiveOrder == ASSUME IInv, OrderInv, NEW t \in Threads, Receive(t) PROVE OrderInv'
<1>1. UNCHANGED <<pc, lock, rpc_fd, issued, request, host, executed>> BY DEF Receive
<1>2. reply' = [reply EXCEPT ![rpc_fd] = Tail(@)] /\ reply[rpc_fd] # <<>> BY DEF Receive
<1>3. \A c \in Calls : reply'[c] # <<>> => reply[c] # <<>> BY <1>2 DEF IInv, TypeOK
<1> QED BY <1>1, <1>3, AsideOrder

(* The next call gets the lock: on an open connection it is its turn.      *)
LEMMA LockOrder == ASSUME IInv, OrderInv, NEW t \in Threads, Lock(t) PROVE OrderInv'
<1>0. TypeOK /\ LockInv BY DEF IInv
<1>1. UNCHANGED <<rpc_fd, reply, request, host, executed>> /\ issued' = issued + 1 BY DEF Lock
<1>2. UNCHANGED <<serving, shut, backlog>> BY <1>1 DEF host
<1>3. \A c \in Calls : Used(c)' => Used(c) BY <1>1, <1>2 DEF Used
<1>4. lock = NoThread /\ lock' = t /\ t # NoThread BY ThreadsAssumption DEF Lock
<1>5. \A u \in Threads : ~Holding(u) BY <1>0, <1>4, ThreadsAssumption DEF LockInv
<1>6. \A u \in Threads : u # t => pc'[u] = pc[u] BY <1>0 DEF TypeOK, Lock
<1>7. pc'[t] # "receive" BY <1>0 DEF TypeOK, Lock
<1>8. GuestTurn'
  BY <1>1, <1>2, <1>4, <1>5, <1>6, <1>7
  DEF OrderInv, GuestTurn, Expected, CallOf, LastExecuted, Holding
<1> QED BY <1>1, <1>3, <1>8, GuestQuiet

(* A call that succeeds has been executed: the next one's turn comes.      *)
LEMMA SucceedOrder == ASSUME IInv, OrderInv, NEW t \in Threads, Succeed(t) PROVE OrderInv'
<1>0. TypeOK /\ LockInv /\ ReceiveInv BY DEF IInv
<1>1. UNCHANGED <<rpc_fd, issued, reply, request, host, executed>> BY DEF Succeed
<1>2. UNCHANGED <<serving, shut, backlog>> BY <1>1 DEF host
<1>3. \A c \in Calls : Used(c)' => Used(c) BY <1>1, <1>2 DEF Used
<1>4. pc[t] = "receive" /\ Len(heard[t]) = Replies[call[t]] BY DEF Succeed
<1>5. Holding(t) /\ rpc_fd \in Calls BY <1>0, <1>4 DEF Holding, LockInv, TypeOK
<1>6. call[t] = issued /\ issued \in Calls /\ Replies[issued] \in Nat \ {0} /\ Parts[issued] \in Nat \ {0}
      /\ \A u \in Threads : Holding(u) => u = t
  BY <1>0, <1>5, Holder
<1>7. Effect(issued)
  <2>1. Len(heard[t]) + Len(reply[rpc_fd]) > 0
    <3>1. Len(reply[rpc_fd]) \in Nat BY <1>0, <1>5, Streams
    <3> QED BY <1>4, <1>6, <3>1
  <2> QED BY <1>0, <1>4, <2>1 DEF ReceiveInv, Awaiting
<1>8. Expected(rpc_fd) = issued + 1
  <2>1. LastExecuted \in 1..LastExecuted /\ executed[LastExecuted].command = RequestOf(issued)
        /\ executed[LastExecuted].context = rpc_fd /\ executed # <<>>
    BY <1>0, <1>7, TailFacts DEF TypeOK, Effect, LastExecuted
  <2>2. RequestOf(issued)[1].call = issued BY <1>6 DEF RequestOf, PartOf
  <2> QED BY <2>1, <2>2 DEF Expected, CallOf
<1>9. \A u \in Threads : pc'[u] \notin {"connect", "send", "receive"}
  BY <1>0, <1>6 DEF Succeed, TypeOK, Holding
<1>10. GuestTurn' BY <1>1, <1>2, <1>8, <1>9 DEF GuestTurn, Expected, CallOf, LastExecuted
<1> QED BY <1>1, <1>3, <1>9, <1>10, GuestQuiet

(* A call that fails closes the connection.                                *)
LEMMA FailOrder == ASSUME IInv, OrderInv, NEW t \in Threads, Fail(t) PROVE OrderInv'
<1>0. TypeOK /\ LockInv BY DEF IInv
<1>1. UNCHANGED <<issued, request, host, executed>> /\ rpc_fd' = Closed BY DEF Fail
<1>2. UNCHANGED <<serving, shut, backlog>> BY <1>1 DEF host
<1>3. \A c \in Calls : reply'[c] # <<>> => reply[c] # <<>> BY <1>0 DEF TypeOK, Fail
<1>4. \A c \in Calls : Used(c)' => Used(c) BY <1>1, <1>2, <1>3, CallsNat DEF Used
<1>5. \A u \in Threads : pc'[u] = "connect" => pc[u] = "connect" BY <1>0 DEF TypeOK, Fail
<1>6. GuestTurn' BY <1>1 DEF GuestTurn
<1> QED BY <1>1, <1>4, <1>5, <1>6, GuestQuiet

(* A new connection is named after the call that opens it, whose turn it is. *)
LEMMA ConnectOrder == ASSUME IInv, OrderInv, NEW t \in Threads, Connect(t) PROVE OrderInv'
<1>0. TypeOK /\ LockInv /\ CommandsAreWhole /\ NameInv BY DEF IInv
<1>1. /\ UNCHANGED <<lock, issued, request, reply, serving, phase, command, shut, executed>>
      /\ rpc_fd' = call[t] /\ backlog' = Append(backlog, call[t]) /\ pc[t] = "connect"
  BY DEF Connect
<1>2. Holding(t) BY <1>1 DEF Holding
<1>3. /\ call[t] = issued /\ issued \in Calls /\ lock # NoThread
      /\ \A u \in Threads : Holding(u) => u = t
  BY <1>0, <1>2, Holder
<1>4. \A u \in Threads : pc'[u] \notin {"connect", "receive"}
  BY <1>0, <1>3 DEF Connect, TypeOK, Holding
<1>5. \A c \in Calls : Used(c)' => Used(c) \/ c = issued
  <2>1. backlog \in Seq(Calls) BY <1>0 DEF TypeOK
  <2>2. \A k \in 1..Len(backlog') : backlog'[k] = issued \/ \E l \in 1..Len(backlog) : backlog[l] = backlog'[k]
    BY <1>1, <1>3, <2>1, AppendFacts
  <2> QED BY <1>1, <1>3, <2>2 DEF Used
<1>6. ContextInv' /\ ExecutedInCallOrder' /\ ContextIsUnbroken'
  BY <1>1 DEF OrderInv, ContextInv, CallOf, ExecutedInCallOrder, ContextIsUnbroken, LastExecuted
<1>7. \A c, i \in Calls : On(c, i)' => On(c, i) BY <1>1 DEF On, CallOf, LastExecuted
<1>8. SpanInv' BY <1>1, <1>4, <1>5, <1>7 DEF OrderInv, SpanInv
<1>9. HostTurn' BY <1>1 DEF OrderInv, HostTurn, Begun, Expected, CallOf, LastExecuted
<1>10. Expected(issued) = issued
  <2>1. CASE executed = <<>> BY <2>1 DEF Expected
  <2>2. CASE executed # <<>>
    <3>1. LastExecuted \in 1..LastExecuted BY <1>0, <2>2, TailFacts DEF TypeOK, LastExecuted
    <3>2. executed[LastExecuted].context \in Calls BY <1>0, <3>1, ExecutedFacts
    <3>3. Used(executed[LastExecuted].context) BY <3>1 DEF OrderInv, ContextInv, Used
    <3>4. executed[LastExecuted].context < issued BY <1>0, <1>1, <3>2, <3>3 DEF NameInv
    <3>5. executed[LastExecuted].context # issued BY <1>3, <3>2, <3>4, CallsNat
    <3> QED BY <3>5 DEF Expected
  <2> QED BY <2>1, <2>2
<1>11. GuestTurn'
  BY <1>1, <1>3, <1>4, <1>10 DEF GuestTurn, Expected, CallOf, LastExecuted
<1> QED BY <1>6, <1>8, <1>9, <1>11 DEF OrderInv

(* What is sent first on a quiet connection belongs to the call whose turn *)
(* it is.                                                                  *)
LEMMA SendOrder == ASSUME IInv, OrderInv, NEW t \in Threads, Send(t) PROVE OrderInv'
<1>0. TypeOK /\ LockInv /\ NameInv BY DEF IInv
<1>1. /\ issued \in Calls /\ rpc_fd \in Calls
      /\ UNCHANGED <<issued, rpc_fd, reply, shut, serving, phase, command, executed>>
      /\ rpc_fd \in shut => request' = request
      /\ rpc_fd \notin shut =>
           /\ request'[rpc_fd] = Append(request[rpc_fd], PartOf(issued, sent[t] + 1))
           /\ \A d \in Calls \ {rpc_fd} : request'[d] = request[d]
      /\ PartOf(issued, sent[t] + 1) \in Part
  BY SendFacts
<1>2. lock' = lock /\ backlog' = backlog BY DEF Send, host
<1>3. lock # NoThread /\ \A u \in Threads : Holding(u) => u = t
  <2>1. Holding(t) BY DEF Send, Holding
  <2> QED BY <1>0, <2>1, Holder
<1>4. \A u \in Threads : pc'[u] # "connect"
  BY <1>0, <1>3 DEF Send, TypeOK, Holding
<1>5. \A u \in Threads : pc'[u] \in {"send", "receive"} => u = t BY SendFacts
<1>6. \A c \in Calls : Used(c)' => Used(c) BY <1>1, <1>2 DEF Used
<1>7. ContextInv' /\ ExecutedInCallOrder' /\ ContextIsUnbroken'
  BY <1>1 DEF OrderInv, ContextInv, CallOf, ExecutedInCallOrder, ContextIsUnbroken, LastExecuted
<1>8. rpc_fd \notin shut => Expected(rpc_fd) = issued
  BY <1>1, CallsNat DEF OrderInv, GuestTurn, Send
<1>9. rpc_fd \notin shut =>
        /\ request[rpc_fd] # <<>> => request'[rpc_fd][1] = request[rpc_fd][1]
        /\ request[rpc_fd] = <<>> => request'[rpc_fd][1].call = issued
  <2>1. request[rpc_fd] \in Seq(Part) BY <1>0, <1>1 DEF TypeOK
  <2>2. PartOf(issued, sent[t] + 1).call = issued BY DEF PartOf
  <2> QED BY <1>1, <2>1, <2>2, AppendFacts
<1>10. \A c, i \in Calls : On(c, i)' => On(c, i) \/ (c = rpc_fd /\ i = issued)
  BY <1>1, <1>9 DEF On, CallOf, LastExecuted
<1>11. SpanInv'
  <2> SUFFICES ASSUME NEW c \in Calls, NEW i \in Calls, On(c, i)'
               PROVE  i <= issued /\ \A d \in Calls : Used(d) /\ c < d => i < d
    BY <1>1, <1>4, <1>6 DEF SpanInv
  <2>1. CASE On(c, i) BY <2>1 DEF OrderInv, SpanInv
  <2>2. CASE c = rpc_fd /\ i = issued
    <3>1. \A d \in Calls : Used(d) => d <= rpc_fd BY <1>0, <1>1, CallsNat DEF NameInv
    <3> QED BY <1>1, <2>2, <3>1, CallsNat
  <2> QED BY <1>10, <2>1, <2>2
<1>12. \A c \in Calls : Begun(c)' = Begun(c) /\ Expected(c)' = Expected(c)
  BY <1>1 DEF Begun, Expected, CallOf, LastExecuted
<1>13. HostTurn'
  <2>1. ASSUME NEW c \in Calls, request'[c] # <<>>, Begun(c) = 0
        PROVE  request'[c][1].call = Expected(c)
    <3>1. CASE request'[c] = request[c] BY <2>1, <3>1 DEF OrderInv, HostTurn
    <3>2. CASE c = rpc_fd /\ rpc_fd \notin shut
      BY <1>8, <1>9, <2>1, <3>2 DEF OrderInv, HostTurn
    <3> QED BY <1>1, <3>1, <3>2
  <2>2. (phase' = "read" /\ command' # <<>>) => Head(command').call = Expected(serving)'
    BY <1>1 DEF OrderInv, HostTurn, Expected, CallOf, LastExecuted
  <2> QED BY <1>12, <2>1, <2>2 DEF HostTurn
<1>14. GuestTurn' BY <1>1, <1>2, <1>3, <1>8, <1>12 DEF GuestTurn
<1> QED BY <1>7, <1>11, <1>13, <1>14 DEF OrderInv

-----------------------------------------------------------------------------
(* The host. *)

LEMMA AcceptOrder == ASSUME IInv, OrderInv, Accept PROVE OrderInv'
<1>0. TypeOK /\ HostInv BY DEF IInv
<1>1. UNCHANGED <<guest, request, reply, command, shut, issued, executed>>
      /\ backlog # <<>> /\ backlog' = Tail(backlog) /\ serving' = Head(backlog)
  BY DEF Accept
<1>2. backlog \in Seq(Calls) BY <1>0 DEF TypeOK
<1>3. serving = Closed /\ command = <<>> BY <1>0 DEF HostInv, Accept
<1>4. \A c \in Calls : Used(c)' => Used(c)
  <2>1. /\ Head(backlog) = backlog[1] /\ 1 \in 1..Len(backlog)
        /\ \A k \in 1..Len(backlog') : backlog'[k] = backlog[k + 1] /\ k + 1 \in 1..Len(backlog)
    BY <1>1, <1>2, TailFacts
  <2> QED BY <1>1, <2>1 DEF Used, guest
<1>5. \A c, i \in Calls : On(c, i)' => On(c, i) BY <1>1, <1>3 DEF On, CallOf, LastExecuted
<1>6. \A c \in Calls : Begun(c) = 0 /\ Begun(c)' = 0 BY <1>1, <1>3 DEF Begun, Accept
<1>7. HostTurn' BY <1>1, <1>3, <1>6 DEF OrderInv, HostTurn, Expected, CallOf, LastExecuted
<1> QED BY <1>1, <1>3, <1>4, <1>5, <1>7, HostQuiet

LEMMA BridgeFailsOrder == ASSUME IInv, OrderInv, BridgeFails PROVE OrderInv'
<1>0. TypeOK /\ HostInv BY DEF IInv
<1>1. /\ UNCHANGED <<guest, reply, serving, command, issued, executed>>
      /\ shut' = shut \cup {backlog[k] : k \in 1..Len(backlog)}
      /\ backlog' = <<>> /\ phase' = "dead" /\ request' = [c \in Calls |-> <<>>]
  BY DEF BridgeFails
<1>2. serving = Closed BY <1>0 DEF HostInv, BridgeFails
<1>3. \A c \in Calls : Used(c)' => Used(c) BY <1>1 DEF Used, guest
<1>4. \A c, i \in Calls : On(c, i)' => On(c, i) BY <1>1 DEF On, CallOf, LastExecuted
<1>5. HostTurn' BY <1>1 DEF HostTurn
<1> QED BY <1>1, <1>2, <1>3, <1>4, <1>5, HostQuiet

LEMMA ReadPartOrder == ASSUME IInv, OrderInv, ReadPart PROVE OrderInv'
<1>0. TypeOK BY DEF IInv
<1>1. /\ serving \in Calls /\ command \in Seq(Part) /\ request[serving] \in Seq(Part)
      /\ request[serving] # <<>> /\ phase = "read" /\ UNCHANGED <<serving, phase, shut, executed>>
      /\ command' = Append(command, Head(request[serving]))
      /\ \A d \in Calls \ {serving} : request'[d] = request[d]
      /\ request'[serving] = Tail(request[serving])
      /\ Begun(serving) = Len(command) /\ Begun(serving)' = Len(command) + 1
      /\ Len(command) \in Nat
      /\ \A d \in Calls \ {serving} : Begun(d) = 0 /\ Begun(d)' = 0
      /\ Head(request[serving]) \in Part
  BY ReadFacts
<1>2. UNCHANGED <<guest, reply, backlog, issued, executed>> BY DEF ReadPart
<1>3. \A c \in Calls : request'[c] # <<>> => request[c] # <<>> BY <1>1
<1>4. \A c \in Calls : Used(c)' => Used(c) BY <1>1, <1>2, <1>3 DEF Used, guest
<1>5. Head(command').call = request[serving][1].call
  BY ReadCommand
<1>6. request'[serving] # <<>> => request'[serving][1].call = request[serving][1].call
  <2>1. ASSUME request'[serving] # <<>>
        PROVE  request'[serving][1].call = request[serving][1].call
    <3>1. 1 \in 1..Len(Tail(request[serving])) BY <1>1, <2>1, TailFacts
    <3>2. Tail(request[serving])[1] = request[serving][2] /\ 2 \in 1..Len(request[serving])
      BY <1>1, <3>1, TailFacts
    <3>3. request[serving][2] = PartOf(request[serving][1].call, Begun(serving) + 2)
      BY <1>1, <3>2 DEF IInv, StreamInv
    <3> QED BY <1>1, <3>2, <3>3 DEF PartOf
  <2> QED BY <2>1
<1>7. \A c, i \in Calls : On(c, i)' => On(c, i)
  BY <1>1, <1>3, <1>5, <1>6 DEF On, CallOf, LastExecuted
<1>8. \A c \in Calls \cup {Closed} : Expected(c)' = Expected(c)
  BY <1>2 DEF Expected, CallOf, LastExecuted
<1>9. HostTurn'
  <2>1. ASSUME NEW c \in Calls, request'[c] # <<>>, Begun(c)' = 0
        PROVE  request'[c][1].call = Expected(c)
    <3>1. c # serving BY <1>1, <2>1
    <3> QED BY <1>1, <2>1, <3>1 DEF OrderInv, HostTurn
  <2>2. Head(command').call = Expected(serving)
    <3>1. CASE command = <<>>
      <4>1. Begun(serving) = 0 BY <1>1, <3>1
      <4> QED BY <1>1, <1>5, <4>1 DEF OrderInv, HostTurn
    <3>2. CASE command # <<>>
      <4>1. Head(command') = Head(command) BY <1>1, <3>2
      <4> QED BY <1>1, <3>2, <4>1 DEF OrderInv, HostTurn
    <3> QED BY <3>1, <3>2
  <2> QED BY <1>1, <1>8, <2>1, <2>2 DEF HostTurn
<1> QED BY <1>1, <1>2, <1>4, <1>7, <1>9, HostQuiet

LEMMA AnswerOrder == ASSUME IInv, OrderInv, Answer PROVE OrderInv'
<1>0. TypeOK BY DEF IInv
<1>1. serving \in Calls /\ UNCHANGED <<guest, request, backlog, serving, phase, command, shut, issued, executed>>
  <2>1. serving \in Calls BY AnswerFacts
  <2> QED BY <2>1 DEF Answer
<1>2. \A c \in Calls : reply'[c] # <<>> => reply[c] # <<>> \/ c = serving
  BY <1>0, <1>1 DEF Answer, TypeOK
<1>3. \A c \in Calls : Used(c)' => Used(c) BY <1>1, <1>2 DEF Used, guest
<1>4. \A c, i \in Calls : On(c, i)' => On(c, i) BY <1>1 DEF On, CallOf, LastExecuted
<1>5. HostTurn' BY <1>1 DEF OrderInv, HostTurn, Begun, Expected, CallOf, LastExecuted
<1> QED BY <1>1, <1>3, <1>4, <1>5, HostQuiet

LEMMA NextCommandOrder == ASSUME IInv, OrderInv, NextCommand PROVE OrderInv'
<1>1. UNCHANGED <<guest, request, reply, backlog, serving, shut, issued, executed>>
      /\ command' = <<>> /\ phase = "reply" /\ phase' = "read"
  BY DEF NextCommand
<1>2. \A c \in Calls : Used(c)' => Used(c) BY <1>1 DEF Used, guest
<1>3. \A c, i \in Calls : On(c, i)' => On(c, i) BY <1>1 DEF On, CallOf, LastExecuted
<1>4. \A c \in Calls : Begun(c) = 0 BY <1>1 DEF Begun
<1>5. HostTurn' BY <1>1, <1>4 DEF OrderInv, HostTurn, Expected, CallOf, LastExecuted
<1> QED BY <1>1, <1>2, <1>3, <1>5, HostQuiet

LEMMA HangupOrder ==
  ASSUME IInv, OrderInv, phase \in {"read", "reply"}, Hangup PROVE OrderInv'
<1>0. TypeOK /\ HostInv BY DEF IInv
<1>1. /\ UNCHANGED <<guest, reply, backlog, issued, executed>>
      /\ shut' = shut \cup {serving} /\ request' = [request EXCEPT ![serving] = <<>>]
      /\ serving' = Closed /\ phase' = "accept" /\ command' = <<>>
  BY DEF Hangup
<1>2. serving \in Calls BY <1>0 DEF TypeOK, HostInv
<1>3. \A c \in Calls : request'[c] # <<>> => request'[c] = request[c] /\ c # serving
  BY <1>0, <1>1, <1>2 DEF TypeOK
<1>4. \A c \in Calls : Used(c)' => Used(c) BY <1>1, <1>2, <1>3, CallsNat DEF Used, guest
<1>5. \A c, i \in Calls : On(c, i)' => On(c, i) BY <1>1, <1>3 DEF On, CallOf, LastExecuted
<1>6. \A c \in Calls : c # serving => Begun(c) = 0 BY DEF Begun
<1>7. HostTurn' BY <1>1, <1>3, <1>6 DEF OrderInv, HostTurn, Expected, CallOf, LastExecuted
<1> QED BY <1>1, <1>4, <1>5, <1>7, HostQuiet

-----------------------------------------------------------------------------
(* The command executed is one whose turn it was, and so it is newer than  *)
(* all that were executed before.                                          *)
LEMMA ExecuteIsNewest ==
  ASSUME IInv, OrderInv, Execute
  PROVE  /\ Head(command).call = Expected(serving)
         /\ \A k \in 1..LastExecuted :
              CallOf(k) < Head(command).call /\ executed[k].context <= serving
<1> DEFINE i == Head(command).call
           n == LastExecuted
<1>0. TypeOK /\ NameInv /\ CommandsAreWhole BY DEF IInv
<1>1. serving \in Calls /\ serving \notin shut /\ phase = "read" /\ i \in Calls BY ExecuteFacts
<1>2. command # <<>> BY DEF Execute, Whole
<1>3. i = Expected(serving) BY <1>1, <1>2 DEF OrderInv, HostTurn
<1>4. \A c \in shut : c < serving BY <1>0, <1>1, CallsNat DEF NameInv
<1>5. \A k \in 1..n : /\ executed[k].context \in Calls /\ CallOf(k) \in Calls
                      /\ n \in Nat /\ k \in Nat
                      /\ executed[k].context = serving \/ executed[k].context \in shut
  BY <1>0, ExecutedFacts DEF OrderInv, ContextInv
<1>6. \A k \in 1..n : executed[k].context <= serving
  <2>1. \A a, b \in Nat : a = b \/ a < b => a <= b OBVIOUS
  <2>2. \A k \in 1..n : executed[k].context = serving \/ executed[k].context < serving BY <1>4, <1>5
  <2> QED BY <1>1, <1>5, <2>1, <2>2, CallsNat
<1>7. ASSUME NEW k \in 1..n PROVE CallOf(k) < i
  <2>1. n \in 1..n /\ executed # <<>> BY <1>5 DEF LastExecuted
  <2>2. CASE executed[n].context = serving
    <3>1. i = CallOf(n) + 1 BY <1>3, <2>1, <2>2 DEF Expected
    <3>2. k = n \/ CallOf(k) < CallOf(n)
      BY <1>5, <2>1 DEF OrderInv, ExecutedInCallOrder, CallOf, LastExecuted
    <3>3. CallOf(k) \in Nat /\ CallOf(n) \in Nat BY <1>5, <2>1, CallsNat
    <3> QED BY <3>1, <3>2, <3>3
  <2>3. CASE executed[n].context # serving
    <3>1. i = serving BY <1>3, <2>3 DEF Expected
    <3>2. executed[n].context < serving BY <1>4, <1>5, <2>1, <2>3
    <3>3. k = n \/ executed[k].context <= executed[n].context
      BY <1>5, <2>1 DEF OrderInv, ContextInv
    <3>4. executed[k].context < serving
      <4>1. executed[k].context \in Nat /\ executed[n].context \in Nat /\ serving \in Nat
        BY <1>1, <1>5, <2>1, CallsNat
      <4> QED BY <3>2, <3>3, <4>1
    <3>5. On(executed[k].context, CallOf(k)) BY DEF On
    <3>6. Used(serving) BY DEF Used
    <3> QED BY <1>1, <1>5, <3>1, <3>4, <3>5, <3>6 DEF OrderInv, SpanInv
  <2> QED BY <2>2, <2>3
<1> QED BY <1>3, <1>6, <1>7

(* What Execute adds to the history.                                       *)
LEMMA ExecutedNext ==
  ASSUME IInv, OrderInv, Execute
  PROVE  /\ LastExecuted \in Nat /\ LastExecuted' = LastExecuted + 1
         /\ executed' # <<>>
         /\ \A k \in 1..LastExecuted :
              executed'[k] = executed[k] /\ executed'[k].command[1].call = CallOf(k)
         /\ executed'[LastExecuted + 1].context = serving
         /\ executed'[LastExecuted + 1].command = RequestOf(Head(command).call)
         /\ executed'[LastExecuted + 1].command[1].call = Head(command).call
         /\ \A k \in 1..LastExecuted' : k \in 1..LastExecuted \/ k = LastExecuted + 1
<1> DEFINE i == Head(command).call
           e == [command |-> RequestOf(i), context |-> serving]
<1>0. TypeOK BY DEF IInv
<1>1. executed' = Append(executed, e) /\ i \in Calls /\ serving \in Calls BY ExecuteFacts
<1>2. executed \in Seq([command : Seq(Part), context : Calls]) BY <1>0 DEF TypeOK
<1>3. /\ RequestOf(i)[1].call = i /\ RequestOf(i) \in Seq(Part)
  BY <1>1, RequestFacts
<1>4. e \in [command : Seq(Part), context : Calls] BY <1>1, <1>3
<1>5. /\ Len(executed') = Len(executed) + 1 /\ Len(executed) \in Nat
      /\ \A k \in 1..Len(executed) : executed'[k] = executed[k]
      /\ executed'[Len(executed) + 1] = e
      /\ \A k \in 1..Len(executed') : k \in 1..Len(executed) \/ k = Len(executed) + 1
      /\ executed' # <<>>
  <2> HIDE DEF e
  <2> QED BY <1>1, <1>2, <1>4, AppendFacts
<1> QED BY <1>3, <1>5 DEF LastExecuted, CallOf

LEMMA ExecuteOrder == ASSUME IInv, OrderInv, Execute PROVE OrderInv'
<1> DEFINE i == Head(command).call
           n == LastExecuted
           later(k) == executed'[k].command[1].call
<1>0. TypeOK /\ HostInv /\ CommandsAreWhole /\ FreeInv /\ SendInv /\ ReceiveInv /\ LockInv BY DEF IInv
<1>1. /\ serving \in Calls /\ serving \notin shut /\ phase = "read" /\ phase' = "reply"
      /\ i \in Calls /\ Len(command) = Parts[i] /\ Len(command) \in Nat \ {0}
      /\ UNCHANGED <<pc, lock, rpc_fd, issued, request, reply, serving, command, shut>>
      /\ Begun(serving) = Len(command)
      /\ \A d \in Calls \ {serving} : Begun(d) = 0
      /\ request[serving] = <<>>
  BY ExecuteFacts
<1>2. /\ n \in Nat /\ LastExecuted' = n + 1 /\ executed' # <<>>
      /\ \A k \in 1..n : executed'[k] = executed[k] /\ later(k) = CallOf(k)
      /\ executed'[n + 1].context = serving
      /\ executed'[n + 1].command = RequestOf(i)
      /\ later(n + 1) = i
      /\ \A k \in 1..(n + 1) : k \in 1..n \/ k = n + 1
  <2>1. LastExecuted' = n + 1 /\ LastExecuted \in Nat BY ExecutedNext
  <2> QED BY <2>1, ExecutedNext
<1>3. i = Expected(serving) /\ \A k \in 1..n : CallOf(k) < i /\ executed[k].context <= serving
  BY ExecuteIsNewest
<1>4. backlog' = backlog BY DEF Execute
<1>5. ContextInv'
  <2>1. ASSUME NEW k \in 1..(n + 1)
        PROVE  /\ executed'[k].context = serving \/ executed'[k].context \in shut
               /\ later(k) \in Calls
    BY <1>1, <1>2 DEF OrderInv, ContextInv
  <2>2. ASSUME NEW k \in 1..(n + 1), NEW l \in 1..(n + 1), k < l
        PROVE  executed'[k].context <= executed'[l].context
    <3>1. k \in 1..n BY <1>2, <2>2
    <3> QED BY <1>2, <1>3, <2>2, <3>1 DEF OrderInv, ContextInv
  <2> QED BY <1>1, <1>2, <2>1, <2>2 DEF ContextInv, CallOf
<1>6. SpanInv'
  <2>1. On(serving, i) BY <1>1 DEF On
  <2>2. \A c, j \in Calls : On(c, j)' => On(c, j) BY <1>1, <1>2, <2>1 DEF On, CallOf
  <2>3. \A c \in Calls : Used(c)' = Used(c) BY <1>1, <1>4 DEF Used
  <2> QED BY <1>1, <2>2, <2>3 DEF OrderInv, SpanInv
<1>7. ExecutedInCallOrder'
  <2>1. ASSUME NEW k \in 1..(n + 1), NEW l \in 1..(n + 1), k < l
        PROVE  later(k) < later(l)
    <3>1. k \in 1..n BY <1>2, <2>1
    <3>2. CASE l = n + 1 BY <1>2, <1>3, <3>1, <3>2
    <3>3. CASE l \in 1..n
      BY <1>2, <2>1, <3>1, <3>3 DEF OrderInv, ExecutedInCallOrder, CallOf, LastExecuted
    <3> QED BY <1>2, <3>2, <3>3
  <2> QED BY <1>2, <2>1 DEF ExecutedInCallOrder, CallOf, LastExecuted
<1>8. ContextIsUnbroken'
  <2>1. ASSUME NEW k \in 1..(n + 1)
        PROVE  \/ later(k) = executed'[k].context
               \/ /\ k > 1 /\ executed'[k - 1].context = executed'[k].context
                  /\ later(k - 1) = later(k) - 1
    <3>1. CASE k = n + 1
      <4>1. CASE executed # <<>> /\ executed[n].context = serving
        <5>1. n \in 1..n BY <1>0, <4>1, TailFacts DEF TypeOK, LastExecuted
        <5>2. i = CallOf(n) + 1 BY <1>3, <4>1 DEF Expected
        <5>3. CallOf(n) \in Nat BY <5>1, CallsNat DEF OrderInv, ContextInv
        <5>4. k - 1 = n /\ k > 1 BY <1>2, <3>1, <5>1
        <5> QED BY <1>2, <3>1, <4>1, <5>1, <5>2, <5>3, <5>4
      <4>2. CASE ~(executed # <<>> /\ executed[n].context = serving)
        BY <1>2, <1>3, <3>1, <4>2 DEF Expected
      <4> QED BY <4>1, <4>2
    <3>2. CASE k \in 1..n
      <4>1. \/ CallOf(k) = executed[k].context
            \/ /\ k > 1 /\ executed[k - 1].context = executed[k].context
               /\ CallOf(k - 1) = CallOf(k) - 1
        BY <3>2 DEF OrderInv, ContextIsUnbroken, CallOf, LastExecuted
      <4>2. k > 1 => k - 1 \in 1..n BY <1>2, <3>2
      <4> QED BY <1>2, <3>2, <4>1, <4>2
    <3> QED BY <1>2, <3>1, <3>2
  <2> QED BY <1>2, <2>1 DEF ContextIsUnbroken, CallOf, LastExecuted
<1>9. \A c \in Calls : (c # serving /\ c \notin shut) =>
        Expected(c)' = Expected(c) /\ (executed # <<>> => executed[n].context # c)
  <2>1. executed # <<>> => n \in 1..n BY <1>0, TailFacts DEF TypeOK, LastExecuted
  <2>2. executed # <<>> => executed[n].context = serving \/ executed[n].context \in shut
    BY <2>1 DEF OrderInv, ContextInv
  <2> QED BY <1>1, <1>2, <2>2 DEF Expected, CallOf
<1>10. HostTurn'
  <2>1. ASSUME NEW c \in Calls, request[c] # <<>>
        PROVE  request[c][1].call = Expected(c)'
    <3>1. c # serving /\ c \notin shut BY <1>0, <1>1, <2>1 DEF HostInv
    <3> QED BY <1>1, <1>9, <2>1, <3>1 DEF OrderInv, HostTurn
  <2> QED BY <1>1, <2>1 DEF HostTurn
<1>11. GuestTurn'
  <2> SUFFICES ASSUME rpc_fd # Closed, rpc_fd \notin shut
               PROVE  /\ lock = NoThread => Expected(rpc_fd)' = issued + 1
                      /\ \A t \in Threads : pc[t] = "send" => Expected(rpc_fd)' = issued
                      /\ \A t \in Threads :
                           (pc[t] = "receive" /\ ~Effect(issued)') => Expected(rpc_fd)' = issued
    <3>1. Expected(rpc_fd)' = (Expected(rpc_fd))' OBVIOUS
    <3> QED BY <1>1 DEF GuestTurn, Expected
  <2>0. rpc_fd \in Calls BY <1>0 DEF TypeOK
  <2>1. CASE rpc_fd # serving
    <3>1. ~Effect(issued) BY <1>9, <2>0, <2>1 DEF Effect, LastExecuted
    <3> QED BY <1>1, <1>9, <2>0, <2>1, <3>1 DEF OrderInv, GuestTurn
  <2>2. CASE rpc_fd = serving
    <3>0. /\ Begun(rpc_fd) = Parts[i] /\ Parts[i] \in Nat \ {0} /\ Len(request[rpc_fd]) = 0
          /\ command # <<>>
      BY <1>1, <2>2
    <3>1. lock # NoThread
      <4>1. ASSUME lock = NoThread PROVE FALSE
        <5>1. Begun(rpc_fd) + Len(request[rpc_fd]) = 0 BY <1>0, <4>1 DEF FreeInv, Line
        <5> QED BY <3>0, <5>1
      <4> QED BY <4>1
    <3>2. \A t \in Threads : pc[t] # "send"
      <4>1. ASSUME NEW t \in Threads, pc[t] = "send" PROVE FALSE
        <5>1. /\ Begun(rpc_fd) + Len(request[rpc_fd]) = sent[t] /\ sent[t] < Parts[issued]
              /\ Begun(rpc_fd) # 0 => i = issued
          BY <1>0, <4>1 DEF SendInv, Line
        <5>2. sent[t] \in Nat BY <1>0, <4>1 DEF TypeOK
        <5> QED BY <3>0, <5>1, <5>2
      <4> QED BY <4>1
    <3>3. ASSUME NEW t \in Threads, pc[t] = "receive" PROVE Effect(issued)'
      <4>1. Line(issued, Parts[issued])
        BY <1>0, <1>1, <3>0, <3>3 DEF ReceiveInv, Awaiting, Answering, Answered
      <4>2. i = issued BY <3>0, <4>1 DEF Line
      <4>3. executed' = Append(executed, [command |-> RequestOf(i), context |-> serving])
        BY ExecuteFacts
      <4>4. executed'[Len(executed')] = [command |-> RequestOf(i), context |-> serving]
        <5>1. executed \in Seq([command : Seq(Part), context : Calls]) BY <1>0 DEF TypeOK
        <5>2. [command |-> RequestOf(i), context |-> serving] \in [command : Seq(Part), context : Calls]
          <6>1. RequestOf(i) \in Seq(Part) BY <1>1, RequestFacts
          <6> QED BY <1>1, <6>1
        <5>3. \A S : \A s \in Seq(S) : \A e \in S : Append(s, e)[Len(Append(s, e))] = e OBVIOUS
        <5> QED BY <4>3, <5>1, <5>2, <5>3
      <4>5. RequestOf(issued)' = RequestOf(i) BY <1>1, <4>2 DEF RequestOf, PartOf
      <4> QED BY <1>1, <1>2, <2>2, <4>4, <4>5 DEF Effect
    <3> QED BY <3>1, <3>2, <3>3
  <2> QED BY <2>1, <2>2
<1> QED BY <1>5, <1>6, <1>7, <1>8, <1>10, <1>11 DEF OrderInv

-----------------------------------------------------------------------------
(* Nothing has been called: nothing is out of order.                       *)
LEMMA InitOrder == ASSUME Init PROVE OrderInv
<1>1. /\ executed = <<>> /\ LastExecuted = 0 /\ command = <<>> /\ rpc_fd = Closed
      /\ \A c \in Calls : request[c] = <<>>
  BY DEF Init, LastExecuted
<1>2. ContextInv /\ ExecutedInCallOrder /\ ContextIsUnbroken
  BY <1>1 DEF ContextInv, ExecutedInCallOrder, ContextIsUnbroken
<1>3. \A c, i \in Calls : ~On(c, i) BY <1>1 DEF On
<1> QED BY <1>1, <1>2, <1>3 DEF OrderInv, SpanInv, HostTurn, GuestTurn

(* Every step preserves the order.                                         *)
LEMMA NextOrder == ASSUME IInv, OrderInv, [Next]_vars PROVE OrderInv'
<1>1. ASSUME NEW t \in Threads, GuestStep(t) PROVE OrderInv'
  BY <1>1, EnterOrder, LockOrder, ConnectOrder, SendOrder, ReceiveOrder, SucceedOrder, FailOrder,
     RejectOrder, ErrorTestOrder, ErrorTakeOrder, ErrorClearOrder
  DEF GuestStep
<1>2. CASE Serve
  <2>1. CASE EndOfFile BY <2>1, HangupOrder DEF EndOfFile, GuestGone
  <2> QED
    BY <1>2, <2>1, AcceptOrder, ReadPartOrder, ExecuteOrder, AnswerOrder, NextCommandOrder DEF Serve
<1>3. CASE BridgeFails BY <1>3, BridgeFailsOrder
<1>4. CASE HandlerFails BY <1>4, HangupOrder DEF HandlerFails
<1>5. CASE UNCHANGED vars
  <2>1. UNCHANGED <<pc, lock, rpc_fd, issued, request, reply, host, executed>>
    BY <1>5 DEF vars, guest
  <2> QED BY <2>1, AsideOrder
<1> QED BY <1>1, <1>2, <1>3, <1>4, <1>5 DEF Next, Quiescent

(* The order holds in every reachable state.                               *)
THEOREM Order == Spec => []OrderInv
<1>1. Init => OrderInv BY InitOrder
<1>2. IInv /\ OrderInv /\ [Next]_vars => OrderInv' BY NextOrder
<1> QED BY <1>1, <1>2, Invariant, PTL DEF Spec

(* The host executes commands in the order in which threads got the lock,  *)
(* and none twice, failed calls and abandoned connections included.        *)
THEOREM InCallOrder == Spec => []ExecutedInCallOrder
<1>1. OrderInv => ExecutedInCallOrder BY DEF OrderInv
<1> QED BY <1>1, Order, PTL

(* A GL context is never missing a command in the middle.                  *)
THEOREM UnbrokenContext == Spec => []ContextIsUnbroken
<1>1. OrderInv => ContextIsUnbroken BY DEF OrderInv
<1> QED BY <1>1, Order, PTL

-----------------------------------------------------------------------------
(* The abstract remote call. *)
stage == [t \in Threads |-> Stage(t)]
done == [k \in 1..LastExecuted |-> CallOf(k)]
abstract == <<stage, call, result, issued, done>>

(* What RemoteCall sees of the detailed state.                             *)
LEMMA AbstractVars == UNCHANGED abstract => UNCHANGED Abstract!vars
BY DEF Abstract!vars, abstract, stage, done, LastExecuted, CallOf

(* Only a thread that moves changes its stage.                             *)
LEMMA StageMoves ==
  ASSUME TypeOK, NEW t \in Threads, NEW to, pc' = [pc EXCEPT ![t] = to]
  PROVE  stage' = [stage EXCEPT ![t] =
           CASE to \in {"idle", "take", "clear"} -> "idle"
             [] to = "lock" -> "asking"
             [] OTHER -> "calling"]
<1>1. pc \in [Threads -> {"idle", "lock", "connect", "send", "receive", "take", "clear"}]
  BY DEF TypeOK
<1>2. \A u \in Threads : pc'[u] = IF u = t THEN to ELSE pc[u] BY <1>1
<1>3. \A u \in Threads : u # t => Stage(u)' = Stage(u) BY <1>2 DEF Stage
<1>4. Stage(t)' = CASE to \in {"idle", "take", "clear"} -> "idle"
                    [] to = "lock" -> "asking"
                    [] OTHER -> "calling"
  BY <1>2 DEF Stage
<1> QED BY <1>3, <1>4 DEF stage

(* The steps of RemoteCall, in these terms.                                *)
LEMMA AbstractSteps ==
  /\ \A t \in Threads :
       /\ stage[t] = "idle"
       /\ stage' = [stage EXCEPT ![t] = "asking"] /\ result' = [result EXCEPT ![t] = "none"]
       /\ UNCHANGED <<call, issued, done>>
       => Abstract!Next
  /\ \A t \in Threads :
       /\ stage[t] = "asking" /\ (\A u \in Threads : stage[u] # "calling") /\ issued < MaxCalls
       /\ stage' = [stage EXCEPT ![t] = "calling"]
       /\ issued' = issued + 1 /\ call' = [call EXCEPT ![t] = issued + 1]
       /\ UNCHANGED <<result, done>>
       => Abstract!Next
  /\ \A t \in Threads, how \in {"ok", "failed"} :
       /\ stage[t] = "calling"
       /\ how = "ok" => \E k \in 1..Len(done) : done[k] = call[t]
       /\ stage' = [stage EXCEPT ![t] = "idle"] /\ result' = [result EXCEPT ![t] = how]
       /\ UNCHANGED <<call, issued, done>>
       => Abstract!Next
  /\ \A i \in 1..issued :
       /\ \A k \in 1..Len(done) : done[k] < i
       /\ done' = Append(done, i)
       /\ UNCHANGED <<stage, call, result, issued>>
       => Abstract!Next
<1>1. stage = [t \in Threads |-> Stage(t)] /\ stage' = [t \in Threads |-> Stage(t)'] BY DEF stage
<1>2. /\ done = [k \in 1..Len(executed) |-> executed[k].command[1].call]
      /\ done' = [k \in 1..Len(executed') |-> executed'[k].command[1].call]
  BY DEF done, LastExecuted, CallOf
<1>3. ASSUME NEW t \in Threads,
             stage[t] = "idle",
             stage' = [stage EXCEPT ![t] = "asking"], result' = [result EXCEPT ![t] = "none"],
             UNCHANGED <<call, issued, done>>
      PROVE  Abstract!Ask(t)
  BY <1>1, <1>2, <1>3 DEF Abstract!Ask
<1>4. ASSUME NEW t \in Threads,
             stage[t] = "asking", \A u \in Threads : stage[u] # "calling", issued < MaxCalls,
             stage' = [stage EXCEPT ![t] = "calling"],
             issued' = issued + 1, call' = [call EXCEPT ![t] = issued + 1],
             UNCHANGED <<result, done>>
      PROVE  Abstract!Issue(t)
  BY <1>1, <1>2, <1>4 DEF Abstract!Issue
<1>5. ASSUME NEW t \in Threads, NEW how \in {"ok", "failed"},
             stage[t] = "calling",
             how = "ok" => \E k \in 1..Len(done) : done[k] = call[t],
             stage' = [stage EXCEPT ![t] = "idle"], result' = [result EXCEPT ![t] = how],
             UNCHANGED <<call, issued, done>>
      PROVE  Abstract!Return(t, how)
  BY <1>1, <1>2, <1>5 DEF Abstract!Return
<1>6. ASSUME NEW i \in 1..issued,
             \A k \in 1..Len(done) : done[k] < i, done' = Append(done, i),
             UNCHANGED <<stage, call, result, issued>>
      PROVE  Abstract!Perform
  BY <1>1, <1>2, <1>6 DEF Abstract!Perform
<1> QED BY <1>3, <1>4, <1>5, <1>6 DEF Abstract!Next

(* Steps that RemoteCall does not see.                                     *)
LEMMA Unseen ==
  ASSUME \A t \in Threads : Stage(t)' = Stage(t), UNCHANGED <<call, result, issued, executed>>
  PROVE  UNCHANGED abstract
<1>1. stage' = stage BY DEF stage
<1>2. done' = done BY DEF done, LastExecuted, CallOf
<1> QED BY <1>1, <1>2 DEF abstract

(* Every step of a guest thread is a step of RemoteCall, or unseen.        *)
LEMMA GuestRefines ==
  ASSUME IInv, OrderInv, NEW t \in Threads, GuestStep(t)
  PROVE  Abstract!Next \/ UNCHANGED abstract
<1>0. TypeOK /\ LockInv /\ ReceiveInv /\ CommandsAreWhole BY DEF IInv
<1>1. UNCHANGED executed => done' = done BY DEF done, LastExecuted, CallOf
<1>2. \A u \in Threads : stage[u] = Stage(u) BY DEF stage
<1>3. CASE Enter(t)
  <2>1. stage[t] = "idle" /\ UNCHANGED <<call, issued, executed>>
        /\ result' = [result EXCEPT ![t] = "none"] /\ pc' = [pc EXCEPT ![t] = "lock"]
    BY <1>2, <1>3 DEF Enter, Stage
  <2>2. stage' = [stage EXCEPT ![t] = "asking"] BY <1>0, <2>1, StageMoves
  <2> QED BY <1>1, <2>1, <2>2, AbstractSteps
<1>4. CASE Lock(t)
  <2>1. \A u \in Threads : ~Holding(u) BY <1>0, <1>4, ThreadsAssumption DEF LockInv, Lock
  <2>2. \A u \in Threads : stage[u] # "calling"
    BY <1>0, <1>2, <2>1 DEF Holding, Stage, TypeOK
  <2>3. PICK to \in {"connect", "send"} : pc' = [pc EXCEPT ![t] = to] BY <1>4 DEF Lock
  <2>4. stage' = [stage EXCEPT ![t] = "calling"] BY <1>0, <2>3, StageMoves
  <2>5. /\ stage[t] = "asking" /\ issued < MaxCalls
        /\ issued' = issued + 1 /\ call' = [call EXCEPT ![t] = issued + 1]
        /\ UNCHANGED <<result, executed>>
    BY <1>2, <1>4 DEF Lock, Stage
  <2> QED BY <1>1, <2>2, <2>4, <2>5, AbstractSteps
<1>5. CASE Succeed(t)
  <2>1. pc[t] = "receive" /\ Len(heard[t]) = Replies[call[t]]
        /\ UNCHANGED <<call, issued, executed>>
        /\ result' = [result EXCEPT ![t] = "ok"] /\ pc' = [pc EXCEPT ![t] = "idle"]
    BY <1>5 DEF Succeed
  <2>2. stage[t] = "calling" BY <1>2, <2>1 DEF Stage
  <2>3. stage' = [stage EXCEPT ![t] = "idle"] BY <1>0, <2>1, StageMoves
  <2>4. \E k \in 1..Len(done) : done[k] = call[t]
    <3>1. Holding(t) BY <2>1 DEF Holding
    <3>2. call[t] = issued /\ Replies[issued] \in Nat \ {0} /\ issued \in Calls BY <1>0, <3>1, Holder
    <3>3. rpc_fd \in Calls BY <1>0, <2>1 DEF LockInv, TypeOK
    <3>4. Len(heard[t]) + Len(reply[rpc_fd]) > 0
      <4>1. Len(reply[rpc_fd]) \in Nat BY <1>0, <3>3, Streams
      <4> QED BY <2>1, <3>2, <4>1
    <3>5. Effect(issued) BY <1>0, <2>1, <3>4 DEF ReceiveInv, Awaiting
    <3>6. /\ LastExecuted \in 1..LastExecuted
          /\ executed[LastExecuted].command = RequestOf(issued)
      BY <1>0, <3>5, TailFacts DEF TypeOK, Effect, LastExecuted
    <3>7. CallOf(LastExecuted) = issued BY <3>2, <3>6, RequestFacts DEF CallOf
    <3>8. LastExecuted \in Nat BY <1>0 DEF TypeOK, LastExecuted
    <3>9. Len(done) = LastExecuted /\ done[LastExecuted] = issued BY <3>6, <3>7, <3>8 DEF done
    <3> QED BY <3>2, <3>6, <3>9
  <2> QED BY <1>1, <2>1, <2>2, <2>3, <2>4, AbstractSteps
<1>6. CASE Fail(t)
  <2>1. pc[t] \in {"connect", "send", "receive"} /\ UNCHANGED <<call, issued, executed>>
        /\ result' = [result EXCEPT ![t] = "failed"] /\ pc' = [pc EXCEPT ![t] = "idle"]
    BY <1>6 DEF Fail, CanFail
  <2>2. stage[t] = "calling" BY <1>2, <2>1 DEF Stage
  <2>3. stage' = [stage EXCEPT ![t] = "idle"] BY <1>0, <2>1, StageMoves
  <2> QED BY <1>1, <2>1, <2>2, <2>3, AbstractSteps
<1>7. CASE Connect(t) \/ Send(t) \/ Receive(t) \/ Reject(t) \/ ErrorTest(t) \/ ErrorTake(t) \/ ErrorClear(t)
  <2>1. UNCHANGED <<call, result, issued, executed>>
    BY <1>7 DEF Connect, Send, Receive, Reject, ErrorTest, ErrorTake, ErrorClear
  <2>2. \A u \in Threads : Stage(u)' = Stage(u)
    BY <1>0, <1>7 DEF Connect, Send, Receive, Reject, ErrorTest, ErrorTake, ErrorClear, Stage, TypeOK
  <2> QED BY <2>1, <2>2, Unseen
<1> QED BY <1>3, <1>4, <1>5, <1>6, <1>7 DEF GuestStep

(* The host is only seen to execute.                                       *)
LEMMA HostRefines ==
  ASSUME IInv, OrderInv, Serve \/ BridgeFails \/ HandlerFails
  PROVE  Abstract!Next \/ UNCHANGED abstract
<1>0. TypeOK BY DEF IInv
<1>1. UNCHANGED <<guest, issued>>
  BY DEF Serve, Accept, ReadPart, Execute, Answer, NextCommand, EndOfFile, BridgeFails, HandlerFails, Hangup
<1>2. UNCHANGED <<pc, call, result, issued>> BY <1>1 DEF guest
<1>3. \A u \in Threads : Stage(u)' = Stage(u) BY <1>2 DEF Stage
<1>4. CASE UNCHANGED executed BY <1>2, <1>3, <1>4, Unseen
<1>5. CASE Execute
  <2> DEFINE i == Head(command).call
             n == LastExecuted
  <2>1. i \in Calls /\ serving \in Calls BY <1>5, ExecuteFacts
  <2>2. command # <<>> BY <1>5 DEF Execute, Whole
  <2>3. i \in 1..issued
    <3>1. i <= issued BY <2>1, <2>2 DEF OrderInv, SpanInv, On
    <3> QED BY <1>0, <2>1, <3>1, BoundsAssumption DEF Calls, TypeOK
  <2>4. /\ n \in Nat /\ LastExecuted' = n + 1
        /\ \A k \in 1..n : executed'[k].command[1].call = CallOf(k)
        /\ executed'[n + 1].command[1].call = i
    BY <1>5, ExecutedNext
  <2>5. \A k \in 1..n : CallOf(k) < i BY <1>5, ExecuteIsNewest
  <2>6. Len(done) = n /\ \A k \in 1..n : done[k] = CallOf(k) BY <2>4 DEF done
  <2>7. done' = Append(done, i)
    <3>1. done' = [k \in 1..(n + 1) |-> executed'[k].command[1].call] BY <2>4 DEF done, CallOf
    <3>2. \A k \in 1..(n + 1) : executed'[k].command[1].call = IF k = n + 1 THEN i ELSE done[k]
      BY <2>4, <2>6
    <3>3. done' = [k \in 1..(n + 1) |-> IF k = n + 1 THEN i ELSE done[k]] BY <3>1, <3>2
    <3>4. done \in Seq(Calls)
      <4>1. \A k \in 1..n : CallOf(k) \in Calls BY DEF OrderInv, ContextInv
      <4> QED BY <2>4, <4>1 DEF done
    <3>5. Append(done, i) = [k \in 1..(n + 1) |-> IF k = n + 1 THEN i ELSE done[k]]
      BY <2>1, <2>4, <2>6, <3>4
    <3> QED BY <3>3, <3>5
  <2>8. stage' = stage BY <1>3 DEF stage
  <2> QED BY <1>2, <2>3, <2>5, <2>6, <2>7, <2>8, AbstractSteps
<1> QED
  BY <1>4, <1>5
  DEF Serve, Accept, ReadPart, Answer, NextCommand, EndOfFile, BridgeFails, HandlerFails, Hangup

(* The detailed RPC implements the remote call, its liveness aside: calls  *)
(* one at a time, executed in order and at most once, and none succeeds    *)
(* that was not executed.                                                  *)
THEOREM Refinement == Spec => Abstract!Safe
<1>1. Init => Abstract!Init
  <2> SUFFICES ASSUME Init PROVE Abstract!Init OBVIOUS
  <2>1. \A t \in Threads : Stage(t) = "idle" BY DEF Init, Stage
  <2>2. executed = <<>> /\ Len(executed) = 0 BY DEF Init
  <2>3. [k \in 1..Len(executed) |-> executed[k].command[1].call] = <<>> BY <2>2
  <2> QED BY <2>1, <2>3 DEF Init, Abstract!Init
<1>2. IInv /\ OrderInv /\ [Next]_vars => [Abstract!Next]_(Abstract!vars)
  <2> SUFFICES ASSUME IInv, OrderInv, [Next]_vars PROVE Abstract!Next \/ UNCHANGED abstract
    BY AbstractVars
  <2>1. ASSUME NEW t \in Threads, GuestStep(t) PROVE Abstract!Next \/ UNCHANGED abstract
    BY <2>1, GuestRefines
  <2>2. CASE Serve \/ BridgeFails \/ HandlerFails BY <2>2, HostRefines
  <2>3. CASE UNCHANGED vars
    <3>1. UNCHANGED <<pc, call, result, issued, executed>> BY <2>3 DEF vars, guest
    <3> QED BY <3>1, Unseen DEF Stage
  <2> QED BY <2>1, <2>2, <2>3 DEF Next, Quiescent
<1> QED BY <1>1, <1>2, Invariant, Order, PTL DEF Spec, Abstract!Safe

-----------------------------------------------------------------------------
(* The error flag.  Only the one thread that calls glGetError clears it,   *)
(* so what that thread has tested is still true when it copies the flag.   *)
OneGetter == \A t, u \in Getters : t = u

ErrorInv ==
  /\ FailureIsReported
  /\ \A t \in Threads : pc[t] = "take" => t \in Getters /\ rpc_error = TRUE
  /\ \A t \in Threads : pc[t] = "clear" => t \in Getters /\ taken[t] = TRUE

(* The steps that leave glGetError alone. *)
LEMMA ErrorKept ==
  ASSUME ErrorInv, UNCHANGED taken,
         \A u \in Threads : pc'[u] \in {"take", "clear"} => pc'[u] = pc[u],
         \A u \in Threads : pc[u] \in {"take", "clear"} => pc'[u] = pc[u],
         \/ UNCHANGED <<rpc_error, owed>>
         \/ rpc_error' = TRUE
  PROVE  ErrorInv'
<1>1. FailureIsReported'
  <2>1. CASE rpc_error' = TRUE BY <2>1 DEF FailureIsReported
  <2>2. CASE UNCHANGED <<rpc_error, owed>>
    BY <2>2, ThreadsAssumption DEF ErrorInv, FailureIsReported
  <2> QED BY <2>1, <2>2
<1>2. rpc_error = TRUE => rpc_error' = TRUE OBVIOUS
<1> QED BY <1>1, <1>2 DEF ErrorInv

LEMMA ErrorStep ==
  ASSUME OneGetter, TypeOK, ErrorInv, [Next]_vars
  PROVE  ErrorInv'
<1>0. /\ pc \in [Threads -> {"idle", "lock", "connect", "send", "receive", "take", "clear"}]
      /\ taken \in [Threads -> BOOLEAN]
  BY DEF TypeOK
<1>1. ASSUME NEW t \in Threads, GuestStep(t) PROVE ErrorInv'
  <2>1. CASE Enter(t) BY <1>0, <2>1, ErrorKept DEF Enter
  <2>2. CASE Lock(t) BY <1>0, <2>2, ErrorKept DEF Lock
  <2>3. CASE Connect(t) BY <1>0, <2>3, ErrorKept DEF Connect
  <2>4. CASE Send(t) BY <1>0, <2>4, ErrorKept DEF Send
  <2>5. CASE Receive(t) BY <1>0, <2>5, ErrorKept DEF Receive
  <2>6. CASE Succeed(t) BY <1>0, <2>6, ErrorKept DEF Succeed
  <2>7. CASE Fail(t) BY <1>0, <2>7, ErrorKept DEF Fail, CanFail
  <2>8. CASE Reject(t) BY <1>0, <2>8, ErrorKept DEF Reject
  <2>9. CASE ErrorTest(t)
    <3>1. /\ t \in Getters /\ rpc_error /\ UNCHANGED <<rpc_error, taken, owed>>
          /\ pc[t] = "idle" /\ pc' = [pc EXCEPT ![t] = "take"]
      BY <2>9 DEF ErrorTest
    <3>2. rpc_error = TRUE BY <3>1 DEF TypeOK
    <3> QED BY <1>0, <3>1, <3>2 DEF ErrorInv, FailureIsReported
  <2>10. CASE ErrorTake(t)
    <3>1. /\ taken' = [taken EXCEPT ![t] = rpc_error] /\ UNCHANGED <<rpc_error, owed>>
          /\ pc[t] = "take" /\ pc' = [pc EXCEPT ![t] = "clear"]
      BY <2>10 DEF ErrorTake
    <3>2. t \in Getters /\ rpc_error = TRUE BY <3>1 DEF ErrorInv
    <3> QED BY <1>0, <3>1, <3>2 DEF ErrorInv, FailureIsReported
  <2>11. CASE ErrorClear(t)
    <3>1. /\ owed' = (owed /\ ~taken[t]) /\ taken' = [taken EXCEPT ![t] = FALSE]
          /\ pc[t] = "clear" /\ pc' = [pc EXCEPT ![t] = "idle"]
      BY <2>11 DEF ErrorClear
    <3>2. t \in Getters /\ taken[t] = TRUE BY <3>1 DEF ErrorInv
    <3>3. ~owed' BY <3>1, <3>2
    <3>4. \A u \in Threads : pc[u] \in {"take", "clear"} => u = t
      BY <3>2 DEF ErrorInv, OneGetter
    <3>5. \A u \in Threads : pc'[u] \notin {"take", "clear"} BY <1>0, <3>1, <3>4
    <3> QED BY <3>3, <3>5 DEF ErrorInv, FailureIsReported
  <2> QED
    BY <1>1, <2>1, <2>2, <2>3, <2>4, <2>5, <2>6, <2>7, <2>8, <2>9, <2>10, <2>11
    DEF GuestStep
<1>2. ASSUME UNCHANGED <<pc, rpc_error, taken, owed>> PROVE ErrorInv'
  BY <1>2, ErrorKept
<1>3. CASE Serve \/ BridgeFails \/ HandlerFails
  <2>1. UNCHANGED <<pc, rpc_error, taken, owed>>
    BY <1>3 DEF Serve, Accept, ReadPart, Execute, Answer, NextCommand, EndOfFile, BridgeFails,
                HandlerFails, Hangup, guest
  <2> QED BY <1>2, <2>1
<1>4. CASE UNCHANGED vars
  <2>1. UNCHANGED <<pc, rpc_error, taken, owed>> BY <1>4 DEF vars, guest
  <2> QED BY <1>2, <2>1
<1> QED BY <1>1, <1>3, <1>4 DEF Next, Quiescent

(* If one thread calls glGetError, no failure of a call is forgotten       *)
(* before it has returned an error, though it reads and clears the flag    *)
(* outside rpc_lock (libGLESv2_bridge.c, glGetError).                      *)
THEOREM FailureReport == ASSUME OneGetter PROVE Spec => []FailureIsReported
<1>1. Init => ErrorInv BY DEF Init, ErrorInv, FailureIsReported
<1>2. TypeOK /\ ErrorInv /\ [Next]_vars => ErrorInv' BY ErrorStep
<1>3. ErrorInv => FailureIsReported BY DEF ErrorInv
<1> QED BY <1>1, <1>2, <1>3, TypeCorrect, PTL DEF Spec
=============================================================================
