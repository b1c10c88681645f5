---------------------------- MODULE GlRpcProofs ----------------------------
(***************************************************************************)
(* What holds of the graphics RPC for any number of threads, calls, queued *)
(* connections and parts, under any interleaving and any failure: IInv of  *)
(* GlRpcInv is an invariant, and what the callers rely on follows from it. *)
(*                                                                         *)
(*   1. facts about sequences, the constants and the connection in use     *)
(*   2. the steps of the guest threads                                     *)
(*   3. the steps of the host                                              *)
(*   4. the theorems                                                       *)
(*                                                                         *)
(* Parts 2 and 3 have one lemma per action, and before it one per conjunct *)
(* that needs more than its definitions.                                   *)
(***************************************************************************)
EXTENDS GlRpcInv, TLAPS

-----------------------------------------------------------------------------
(* 1. Facts.                                                               *)

(* Requests and replies have at least one part.                            *)
LEMMA PartsNat == \A i \in Calls : Parts[i] \in Nat \ {0} /\ Replies[i] \in Nat \ {0}
BY PartsAssumption DEF Calls

(* Connections are named by positive numbers; Closed is none of them.      *)
LEMMA CallsNat == Calls \subseteq Nat /\ Closed \notin Calls /\ Closed = 0
BY BoundsAssumption DEF Calls, Closed

(* A sequence with an element added.                                       *)
LEMMA AppendFacts ==
  ASSUME NEW S, NEW s \in Seq(S), NEW e \in S
  PROVE  /\ Append(s, e) \in Seq(S)
         /\ Len(Append(s, e)) = Len(s) + 1 /\ Len(s) \in Nat
         /\ \A k \in 1..Len(s) : Append(s, e)[k] = s[k]
         /\ Append(s, e)[Len(s) + 1] = e
         /\ \A k \in 1..Len(Append(s, e)) : k \in 1..Len(s) \/ k = Len(s) + 1
         /\ Append(s, e) # <<>>
<1>1. /\ Append(s, e) \in Seq(S) /\ Len(Append(s, e)) = Len(s) + 1 /\ Len(s) \in Nat
      /\ \A k \in 1..Len(s) : Append(s, e)[k] = s[k]
      /\ Append(s, e)[Len(s) + 1] = e
  OBVIOUS
<1>2. \A k \in 1..Len(Append(s, e)) : k \in 1..Len(s) \/ k = Len(s) + 1 BY <1>1
<1>3. Append(s, e) # <<>> BY <1>1
<1> QED BY <1>1, <1>2, <1>3

(* A sequence that is not empty, and the rest of it.                       *)
LEMMA TailFacts ==
  ASSUME NEW S, NEW s \in Seq(S), s # <<>>
  PROVE  /\ Head(s) = s[1] /\ Head(s) \in S
         /\ Len(s) \in Nat \ {0} /\ 1 \in 1..Len(s)
         /\ Tail(s) \in Seq(S) /\ Len(Tail(s)) = Len(s) - 1
         /\ \A k \in 1..Len(Tail(s)) : Tail(s)[k] = s[k + 1] /\ k + 1 \in 1..Len(s)
OBVIOUS

(* Only the empty sequence has length zero.                                *)
LEMMA EmptyFacts ==
  ASSUME NEW S, NEW s \in Seq(S)
  PROVE  /\ Len(s) \in Nat
         /\ s = <<>> <=> Len(s) = 0
OBVIOUS

(* What moves from one stream to another leaves their sum alone.           *)
LEMMA ShiftSum ==
  ASSUME NEW a \in Nat, NEW b \in Nat \ {0}
  PROVE  (a + 1) + (b - 1) = a + b /\ a + b \in Nat \ {0}
OBVIOUS

(* What is on the streams to and from the host. *)
LEMMA Streams ==
  ASSUME TypeOK, NEW c \in Calls
  PROVE  /\ request[c] \in Seq(Part) /\ reply[c] \in Seq(Part)
         /\ Len(request[c]) \in Nat /\ Len(reply[c]) \in Nat
         /\ request[c] # <<>> => Head(request[c]) \in Part /\ Tail(request[c]) \in Seq(Part)
         /\ reply[c] # <<>> => Head(reply[c]) \in Part /\ Tail(reply[c]) \in Seq(Part)
<1>1. request[c] \in Seq(Part) /\ reply[c] \in Seq(Part) BY DEF TypeOK
<1> QED BY <1>1

(* The holder of the lock runs the latest call, alone. *)
LEMMA Holder ==
  ASSUME TypeOK, LockInv, NEW t \in Threads, Holding(t)
  PROVE  /\ lock = t /\ lock # NoThread
         /\ issued \in Calls /\ call[t] = issued
         /\ Parts[issued] \in Nat \ {0} /\ Replies[issued] \in Nat \ {0}
         /\ \A u \in Threads : Holding(u) => u = t
<1>1. lock = t /\ issued > 0 /\ call[t] = issued BY DEF LockInv
<1>2. issued \in Calls BY <1>1, BoundsAssumption DEF TypeOK, Calls
<1>3. lock # NoThread BY <1>1, ThreadsAssumption
<1>4. \A u \in Threads : Holding(u) => u = t BY <1>1 DEF LockInv
<1> QED BY <1>1, <1>2, <1>3, <1>4, PartsNat

(* The connection being served has not been closed; when the one in use    *)
(* has, the host has nothing newer to serve.                               *)
LEMMA Open ==
  ASSUME TypeOK, NameInv, HostInv
  PROVE  /\ serving # Closed => serving \in Calls /\ serving \notin shut
         /\ (serving # Closed /\ rpc_fd # Closed) => rpc_fd \notin shut
<1>1. serving # Closed => serving \in Calls BY DEF TypeOK
<1>2. serving # Closed => \A c \in shut : c < serving BY DEF NameInv
<1>5. Closed = 0 /\ (serving # Closed => serving \in Nat) /\ (rpc_fd # Closed => rpc_fd \in Nat)
  BY CallsNat DEF TypeOK
<1>3. serving # Closed => serving \notin shut
  <2>1. ASSUME serving # Closed, serving \in shut PROVE FALSE
    <3>1. serving < serving BY <1>2, <2>1
    <3> QED BY <1>5, <2>1, <3>1
  <2> QED BY <2>1
<1>4. ASSUME serving # Closed, rpc_fd # Closed PROVE rpc_fd \notin shut
  <2>1. serving <= rpc_fd BY <1>1, <1>4 DEF NameInv, Used
  <2>2. ASSUME rpc_fd \in shut PROVE FALSE
    <3>1. rpc_fd < serving BY <1>2, <1>4, <2>2
    <3> QED BY <1>4, <1>5, <2>1, <3>1
  <2> QED BY <2>2
<1> QED BY <1>1, <1>3, <1>4

(* Reading the next part of a reply: h has been read, r is still to come. *)
LEMMA MoveOne ==
  ASSUME NEW i, NEW h \in Seq(Part), NEW r \in Seq(Part), r # <<>>,
         \A k \in 1..Len(h) : h[k] = PartOf(i, k),
         \A k \in 1..Len(r) : r[k] = PartOf(i, Len(h) + k)
  PROVE  /\ Len(Append(h, Head(r))) + Len(Tail(r)) = Len(h) + Len(r)
         /\ Len(h) + Len(r) \in Nat \ {0}
         /\ \A k \in 1..Len(Append(h, Head(r))) : Append(h, Head(r))[k] = PartOf(i, k)
         /\ \A k \in 1..Len(Tail(r)) : Tail(r)[k] = PartOf(i, Len(Append(h, Head(r))) + k)
<1>1. /\ Head(r) = r[1] /\ Head(r) \in Part /\ 1 \in 1..Len(r) /\ Len(r) \in Nat \ {0}
      /\ Len(Tail(r)) = Len(r) - 1
      /\ \A k \in 1..Len(Tail(r)) : Tail(r)[k] = r[k + 1] /\ k + 1 \in 1..Len(r)
  BY TailFacts
<1>2. Len(h) \in Nat /\ Len(Append(h, Head(r))) = Len(h) + 1 BY <1>1, AppendFacts
<1>3. \A k \in 1..Len(Append(h, Head(r))) : Append(h, Head(r))[k] = PartOf(i, k)
  BY <1>1, <1>2, AppendFacts
<1>4. ASSUME NEW k \in 1..Len(Tail(r))
      PROVE  Tail(r)[k] = PartOf(i, Len(Append(h, Head(r))) + k)
  <2>1. Len(h) + (k + 1) = Len(h) + 1 + k BY <1>1, <1>2
  <2>2. Tail(r)[k] = PartOf(i, Len(h) + (k + 1)) BY <1>1
  <2> QED BY <1>2, <2>1, <2>2
<1>5. Len(Append(h, Head(r))) + Len(Tail(r)) = Len(h) + Len(r) /\ Len(h) + Len(r) \in Nat \ {0}
  BY <1>1, <1>2
<1> QED BY <1>3, <1>4, <1>5

-----------------------------------------------------------------------------
(* 2. The steps of the guest threads.                                      *)

(* A step that is not of the RPC leaves the calls in progress as they are. *)
LEMMA Aside ==
  ASSUME IInv,
         UNCHANGED <<rpc_fd, sent, heard, request, reply, host, issued, executed>>,
         \A u \in Threads : pc'[u] \in {"send", "receive"} => pc'[u] = pc[u]
  PROVE  SendInv' /\ ReceiveInv'
<1>0. SendInv /\ ReceiveInv BY DEF IInv
<1>1. UNCHANGED <<serving, phase, command, told, shut>> BY DEF host
<1>2. SendInv' BY <1>0, <1>1 DEF SendInv, Line, Begun
<1>3. \A u \in Threads : Awaiting(u) => Awaiting(u)'
  BY <1>1 DEF Awaiting, Line, Begun, Effect, Answering, Answered
<1>4. ReceiveInv' BY <1>0, <1>3 DEF ReceiveInv
<1> QED BY <1>2, <1>4

(* Enter is not part of a call in progress.                                *)
LEMMA EnterAside == ASSUME IInv, NEW t \in Threads, Enter(t) PROVE SendInv' /\ ReceiveInv'
<1>0. TypeOK BY DEF IInv
<1>1. \A u \in Threads : pc'[u] \in {"send", "receive"} => pc'[u] = pc[u]
  BY <1>0 DEF Enter, TypeOK
<1>2. UNCHANGED <<rpc_fd, sent, heard, request, reply, host, issued, executed>> BY DEF Enter
<1> QED BY <1>1, <1>2, Aside

(* Enter preserves the invariant.                                          *)
LEMMA EnterStep == ASSUME IInv, NEW t \in Threads, Enter(t) PROVE IInv'
<1>0. /\ TypeOK /\ LockInv /\ NameInv /\ HostInv /\ CommandInv /\ StreamInv
      /\ FreeInv /\ SendInv /\ ReceiveInv
      /\ CommandsAreWhole /\ ReplyMatchesRequest
  BY DEF IInv
<1>1. TypeOK' BY <1>0 DEF TypeOK, Enter, host
<1>2. LockInv' BY <1>0, CallsNat DEF LockInv, TypeOK, Holding, Enter, host
<1>3. NameInv' BY <1>0 DEF NameInv, Used, Enter, host
<1>4. HostInv' BY <1>0 DEF HostInv, Enter, host
<1>5. CommandInv' BY <1>0 DEF CommandInv, Enter, host
<1>6. StreamInv' BY <1>0 DEF StreamInv, Begun, Enter, host
<1>7. FreeInv' BY <1>0 DEF FreeInv, Line, Begun, Holding, Enter, host
<1>8. SendInv' BY EnterAside
<1>9. ReceiveInv' BY EnterAside
<1>10. CommandsAreWhole' BY <1>0 DEF CommandsAreWhole, Enter, host
<1>11. ReplyMatchesRequest' BY <1>0 DEF ReplyMatchesRequest, Enter, host
<1> QED BY <1>1, <1>2, <1>3, <1>4, <1>5, <1>6, <1>7, <1>8, <1>9, <1>10, <1>11 DEF IInv

(* Lock preserves TypeOK.                                                  *)
LEMMA LockTypeOK == ASSUME IInv, NEW t \in Threads, Lock(t) PROVE TypeOK'
<1>0. TypeOK BY DEF IInv
<1>1. issued' \in Calls /\ issued' \in 0..MaxCalls BY <1>0, BoundsAssumption DEF TypeOK, Lock, Calls
<1>2. call' \in [Threads -> Calls \cup {0}] BY <1>0, <1>1 DEF TypeOK, Lock
<1>3. sent' \in [Threads -> Nat] BY <1>0 DEF TypeOK, Lock
<1>4. heard' \in [Threads -> Seq(Part)] BY <1>0 DEF TypeOK, Lock
<1> QED BY <1>0, <1>1, <1>2, <1>3, <1>4 DEF TypeOK, Lock, host

(* The connection was clean: a new call starts with an empty line.         *)
LEMMA LockSendInv == ASSUME IInv, NEW t \in Threads, Lock(t) PROVE SendInv'
<1>0. TypeOK /\ LockInv /\ FreeInv /\ StreamInv /\ HostInv BY DEF IInv
<1>1. issued' \in Calls BY <1>0, BoundsAssumption DEF TypeOK, Lock, Calls
<1>2. Parts[issued'] \in Nat \ {0} BY <1>1, PartsNat
<1>3. \A u \in Threads : ~Holding(u) BY <1>0, ThreadsAssumption DEF LockInv, Lock
<1>9. ASSUME NEW u \in Threads, pc'[u] = "send" PROVE u = t /\ rpc_fd # Closed
  BY <1>0, <1>3, <1>9 DEF Lock, TypeOK, Holding
<1>10. sent'[t] = 0 /\ heard'[t] = <<>> BY <1>0 DEF Lock, TypeOK
<1>4. SUFFICES ASSUME rpc_fd # Closed PROVE Line(issued, 0)'
  BY <1>2, <1>9, <1>10 DEF SendInv, Line
<1>5. Line(issued, 0) BY <1>0, <1>4 DEF FreeInv, Lock
<1>6. rpc_fd \in Calls BY <1>0, <1>4 DEF TypeOK
<1>7. rpc_fd \notin shut => request[rpc_fd] = <<>> /\ Begun(rpc_fd) = 0
  BY <1>5, <1>6, <1>0, Streams DEF Line, Begun, TypeOK
<1>8. Line(issued, 0)' BY <1>5, <1>7 DEF Line, Lock, Begun, host
<1> QED BY <1>8

(* Lock preserves ReplyMatchesRequest.                                     *)
LEMMA LockReplyMatchesRequest ==
  ASSUME IInv, NEW t \in Threads, Lock(t) PROVE ReplyMatchesRequest'
<1>0. TypeOK /\ LockInv /\ ReplyMatchesRequest BY DEF IInv
<1>1. result[t] = "none" BY <1>0 DEF LockInv, Lock
<1> QED BY <1>0, <1>1 DEF ReplyMatchesRequest, Lock, TypeOK, ReplyOf

(* Lock preserves the invariant.                                           *)
LEMMA LockStep == ASSUME IInv, NEW t \in Threads, Lock(t) PROVE IInv'
<1>0. /\ TypeOK /\ LockInv /\ NameInv /\ HostInv /\ CommandInv /\ StreamInv
      /\ FreeInv /\ SendInv /\ ReceiveInv
      /\ CommandsAreWhole /\ ReplyMatchesRequest
  BY DEF IInv
<1>1. TypeOK' BY LockTypeOK
<1>2. LockInv'
  BY <1>0, CallsNat, ThreadsAssumption DEF LockInv, TypeOK, Holding, Lock, host
<1>3. NameInv' BY <1>0, CallsNat DEF NameInv, TypeOK, Used, Lock, host
<1>4. HostInv' BY <1>0 DEF HostInv, Lock, host
<1>5. CommandInv' BY <1>0 DEF CommandInv, Lock, host
<1>6. StreamInv' BY <1>0 DEF StreamInv, Begun, Lock, host
<1>7. FreeInv'
  BY <1>0, CallsNat, ThreadsAssumption
  DEF FreeInv, TypeOK, LockInv, Holding, Line, Begun, Lock, host
<1>8. SendInv' BY LockSendInv
<1>9. ReceiveInv'
  BY <1>0, CallsNat, ThreadsAssumption
  DEF ReceiveInv, Awaiting, TypeOK, LockInv, Holding, Line, Begun, Effect, Answering, Answered,
      Whole, Lock, host
<1>10. CommandsAreWhole' BY <1>0 DEF CommandsAreWhole, Lock, host
<1>11. ReplyMatchesRequest' BY LockReplyMatchesRequest
<1> QED BY <1>1, <1>2, <1>3, <1>4, <1>5, <1>6, <1>7, <1>8, <1>9, <1>10, <1>11 DEF IInv

(* Connecting only names the connection and queues it.                     *)
LEMMA ConnectTypeOK == ASSUME IInv, NEW t \in Threads, Connect(t) PROVE TypeOK'
<1>0. TypeOK /\ LockInv BY DEF IInv
<1>1. call[t] \in Calls
  <2>1. Holding(t) BY DEF Connect, Holding
  <2> QED BY <1>0, <2>1, Holder
<1>2. backlog' \in Seq(Calls) BY <1>0, <1>1, AppendFacts DEF TypeOK, Connect
<1>3. pc' \in [Threads -> {"idle", "lock", "connect", "send", "receive", "take", "clear"}]
  BY <1>0 DEF TypeOK, Connect
<1> QED BY <1>0, <1>1, <1>2, <1>3 DEF TypeOK, Connect

(* The new connection is named after the latest call: it is newer than all *)
(* the host knows.                                                         *)
LEMMA ConnectNameInv == ASSUME IInv, NEW t \in Threads, Connect(t) PROVE NameInv'
<1>0. TypeOK /\ LockInv /\ NameInv BY DEF IInv
<1>1. Holding(t) BY DEF Connect, Holding
<1>2. issued \in Calls /\ call[t] = issued /\ \A u \in Threads : Holding(u) => u = t BY <1>0, <1>1, Holder
<1>3. rpc_fd = Closed /\ rpc_fd' = issued BY <1>0, <1>2 DEF LockInv, Connect
<1>4. \A c \in Calls : Used(c) => c < issued BY <1>0 DEF NameInv, Connect
<1>11. backlog' = Append(backlog, issued) /\ backlog \in Seq(Calls) BY <1>0, <1>2 DEF Connect, TypeOK
<1>12. \A k \in 1..Len(backlog') : (k \in 1..Len(backlog) /\ backlog'[k] = backlog[k]) \/ (k = Len(backlog) + 1 /\ backlog'[k] = issued)
  BY <1>2, <1>11, AppendFacts
<1>5. \A c \in Calls : Used(c)' => Used(c) \/ c = issued
  BY <1>3, <1>12 DEF Used, Connect
<1>6. \A u \in Threads : pc'[u] # "connect" BY <1>0, <1>2 DEF Connect, TypeOK, Holding
<1>7. \A c \in Calls : Used(c)' => c <= issued /\ c <= rpc_fd'
  BY <1>2, <1>3, <1>4, <1>5, CallsNat
<1>8. \A k \in 1..Len(backlog) : backlog[k] < issued
  <2>1. \A k \in 1..Len(backlog) : backlog[k] \in Calls BY <1>11
  <2>2. \A k \in 1..Len(backlog) : Used(backlog[k]) BY DEF Used
  <2> QED BY <1>4, <2>1, <2>2
<1>9. (serving # Closed => serving < issued) /\ \A c \in shut : c < issued
  BY <1>0, <1>4 DEF Used, TypeOK
<1>10. serving < issued BY <1>9, <1>2, CallsNat
<1>16. \A k \in 1..Len(backlog) : backlog[k] \in Calls BY <1>11
<1>17. Len(backlog) \in Nat BY <1>11, EmptyFacts
<1>18. \A k \in 1..Len(backlog) : backlog[k] \in Nat BY <1>16, CallsNat
<1>13. \A k, l \in 1..Len(backlog') : k < l => backlog'[k] < backlog'[l]
  BY <1>0, <1>8, <1>11, <1>12, <1>17, <1>18 DEF NameInv
<1>14. \A k \in 1..Len(backlog') : serving' < backlog'[k] /\ \A c \in shut' : c < backlog'[k]
  BY <1>0, <1>9, <1>10, <1>12 DEF NameInv, Connect
<1>15. serving' # Closed => \A c \in shut' : c < serving' BY <1>0 DEF NameInv, Connect
<1> QED BY <1>6, <1>7, <1>13, <1>14, <1>15 DEF NameInv, Connect

(* A name that has not been used has nothing on its streams.               *)
LEMMA ConnectSendInv == ASSUME IInv, NEW t \in Threads, Connect(t) PROVE SendInv'
<1>0. TypeOK /\ LockInv /\ NameInv BY DEF IInv
<1>1. Holding(t) BY DEF Connect, Holding
<1>2. issued \in Calls /\ call[t] = issued /\ Parts[issued] \in Nat \ {0} /\ \A u \in Threads : Holding(u) => u = t BY <1>0, <1>1, Holder
<1>3. ~Used(issued) BY <1>0, <1>2, CallsNat DEF NameInv, Connect
<1>4. rpc_fd' = issued /\ issued' = issued /\ request' = request /\ reply' = reply /\ serving' = serving /\ shut' = shut /\ phase' = phase /\ command' = command
  BY <1>2 DEF Connect
<1>5. reply[issued] = <<>> /\ request[issued] = <<>> /\ serving # issued BY <1>3 DEF Used
<1>6. Line(issued, 0)' BY <1>2, <1>4, <1>5 DEF Line, Begun
<1>7. sent'[t] = 0 /\ heard'[t] = <<>> BY <1>0 DEF Connect, LockInv
<1>8. ASSUME NEW u \in Threads, pc'[u] = "send" PROVE u = t
  BY <1>0, <1>2, <1>8 DEF Connect, TypeOK, Holding
<1> QED BY <1>2, <1>4, <1>6, <1>7, <1>8 DEF SendInv, Line

(* Connect preserves the invariant.                                        *)
LEMMA ConnectStep == ASSUME IInv, NEW t \in Threads, Connect(t) PROVE IInv'
<1>0. /\ TypeOK /\ LockInv /\ NameInv /\ HostInv /\ CommandInv /\ StreamInv
      /\ FreeInv /\ SendInv /\ ReceiveInv
      /\ CommandsAreWhole /\ ReplyMatchesRequest
  BY DEF IInv
<1>1. TypeOK' BY ConnectTypeOK
<1>2. LockInv' BY <1>0, CallsNat DEF LockInv, TypeOK, Holding, Connect, host
<1>3. NameInv' BY ConnectNameInv
<1>4. HostInv' BY <1>0 DEF HostInv, Connect, host
<1>5. CommandInv' BY <1>0 DEF CommandInv, Connect, host
<1>6. StreamInv' BY <1>0 DEF StreamInv, Begun, Connect, host
<1>7. FreeInv'
  BY <1>0, CallsNat, ThreadsAssumption
  DEF FreeInv, TypeOK, LockInv, Holding, Line, Begun, Connect, host
<1>8. SendInv' BY ConnectSendInv
<1>9. ReceiveInv'
  BY <1>0, CallsNat, ThreadsAssumption
  DEF ReceiveInv, Awaiting, TypeOK, LockInv, Holding, Line, Begun, Effect, Answering, Answered,
      Whole, Connect, host
<1>10. CommandsAreWhole' BY <1>0 DEF CommandsAreWhole, Connect, host
<1>11. ReplyMatchesRequest' BY <1>0 DEF ReplyMatchesRequest, Connect, host
<1> QED BY <1>1, <1>2, <1>3, <1>4, <1>5, <1>6, <1>7, <1>8, <1>9, <1>10, <1>11 DEF IInv

(* What sending one part does, and what it leaves alone.                   *)
LEMMA SendFacts ==
  ASSUME IInv, NEW t \in Threads, Send(t)
  PROVE  /\ issued \in Calls /\ rpc_fd \in Calls
         /\ sent[t] \in Nat /\ sent[t] < Parts[issued] /\ Parts[issued] \in Nat
         /\ heard[t] = <<>>
         /\ Line(issued, sent[t])
         /\ sent'[t] = sent[t] + 1
         /\ UNCHANGED <<issued, rpc_fd, reply, heard, shut, serving, phase, command, told, executed>>
         /\ rpc_fd \in shut => request' = request
         /\ rpc_fd \notin shut =>
              /\ request'[rpc_fd] = Append(request[rpc_fd], PartOf(issued, sent[t] + 1))
              /\ \A d \in Calls \ {rpc_fd} : request'[d] = request[d]
         /\ PartOf(issued, sent[t] + 1) \in Part
         /\ pc'[t] = IF sent[t] + 1 = Parts[issued] THEN "receive" ELSE "send"
         /\ \A u \in Threads : pc'[u] \in {"send", "receive"} => u = t
<1>0. TypeOK /\ LockInv /\ SendInv BY DEF IInv
<1>1. Holding(t) BY DEF Send, Holding
<1>2. /\ issued \in Calls /\ call[t] = issued /\ Parts[issued] \in Nat
      /\ \A u \in Threads : Holding(u) => u = t
  BY <1>0, <1>1, Holder
<1>3. rpc_fd \in Calls BY <1>0 DEF LockInv, TypeOK, Send
<1>4. sent[t] \in Nat /\ sent[t] < Parts[issued] /\ heard[t] = <<>> /\ Line(issued, sent[t])
  BY <1>0 DEF SendInv, Send, TypeOK
<1>5. PartOf(issued, sent[t] + 1) \in Part BY <1>2, <1>4 DEF PartOf, Part
<1>6. UNCHANGED <<issued, rpc_fd, reply, heard, shut, serving, phase, command, told, executed>>
  BY DEF Send, host
<1>7. /\ rpc_fd \in shut => request' = request
      /\ rpc_fd \notin shut =>
           /\ request'[rpc_fd] = Append(request[rpc_fd], PartOf(issued, sent[t] + 1))
           /\ \A d \in Calls \ {rpc_fd} : request'[d] = request[d]
  BY <1>0, <1>2, <1>3 DEF Send, TypeOK
<1>8. /\ sent'[t] = sent[t] + 1
      /\ pc'[t] = IF sent[t] + 1 = Parts[issued] THEN "receive" ELSE "send"
  BY <1>0, <1>2 DEF Send, TypeOK
<1>9. \A u \in Threads : pc'[u] \in {"send", "receive"} => u = t
  BY <1>2 DEF Send, Holding
<1> QED BY <1>2, <1>3, <1>4, <1>5, <1>6, <1>7, <1>8, <1>9

(* Send preserves TypeOK.                                                  *)
LEMMA SendTypeOK == ASSUME IInv, NEW t \in Threads, Send(t) PROVE TypeOK'
<1>0. TypeOK BY DEF IInv
<1>1. rpc_fd \in Calls /\ PartOf(issued, sent[t] + 1) \in Part BY SendFacts
<1>2. call[t] = issued
  <2>1. LockInv BY DEF IInv
  <2> QED BY <2>1 DEF LockInv, Send, Holding
<1>3. request[rpc_fd] \in Seq(Part) BY <1>0, <1>1 DEF TypeOK
<1>4. Append(request[rpc_fd], PartOf(issued, sent[t] + 1)) \in Seq(Part) BY <1>1, <1>3, AppendFacts
<1>5. request' \in [Calls -> Seq(Part)] BY <1>0, <1>2, <1>4 DEF TypeOK, Send
<1>6. sent' \in [Threads -> Nat] BY <1>0 DEF TypeOK, Send
<1>7. pc' \in [Threads -> {"idle", "lock", "connect", "send", "receive", "take", "clear"}]
  BY <1>0 DEF TypeOK, Send
<1> QED BY <1>0, <1>5, <1>6, <1>7 DEF TypeOK, Send, host

(* One more part of the call in hand. *)
LEMMA SendLine ==
  ASSUME IInv, NEW t \in Threads, Send(t)
  PROVE  /\ reply'[rpc_fd'] = <<>>
         /\ Begun(rpc_fd)' = Begun(rpc_fd)
         /\ rpc_fd' \notin shut' =>
              /\ Begun(rpc_fd)' + Len(request'[rpc_fd']) = sent[t] + 1
              /\ request'[rpc_fd'][1].call = issued
              /\ Begun(rpc_fd)' # 0 => Head(command').call = issued
              /\ (serving' = rpc_fd' /\ phase' = "reply") => told' = Replies[Head(command').call]
<1>0. TypeOK BY DEF IInv
<1>1. Line(issued, sent[t]) BY SendFacts
<1>2. request[rpc_fd] \in Seq(Part) /\ PartOf(issued, sent[t] + 1) \in Part
  BY <1>0, SendFacts DEF TypeOK
<1>3. Begun(rpc_fd)' = Begun(rpc_fd) BY SendFacts DEF Begun
<1>4. Begun(rpc_fd) \in Nat BY <1>0 DEF Begun, TypeOK
<1>5. ASSUME rpc_fd \notin shut
      PROVE  /\ Begun(rpc_fd) + Len(request'[rpc_fd]) = sent[t] + 1
             /\ request'[rpc_fd][1].call = issued
  <2>1. request'[rpc_fd] = Append(request[rpc_fd], PartOf(issued, sent[t] + 1)) BY <1>5, SendFacts
  <2>2. /\ Len(request'[rpc_fd]) = Len(request[rpc_fd]) + 1 /\ Len(request[rpc_fd]) \in Nat
        /\ \A k \in 1..Len(request[rpc_fd]) : request'[rpc_fd][k] = request[rpc_fd][k]
        /\ request'[rpc_fd][Len(request[rpc_fd]) + 1] = PartOf(issued, sent[t] + 1)
    BY <1>2, <2>1, AppendFacts
  <2>3. Begun(rpc_fd) + Len(request[rpc_fd]) = sent[t] BY <1>1, <1>5 DEF Line
  <2>4. Begun(rpc_fd) + Len(request'[rpc_fd]) = sent[t] + 1 BY <1>4, <2>2, <2>3
  <2>5. CASE request[rpc_fd] = <<>>
    <3>1. Len(request[rpc_fd]) = 0 BY <2>5
    <3> QED BY <2>2, <2>4, <3>1 DEF PartOf
  <2>6. CASE request[rpc_fd] # <<>>
    <3>1. 1 \in 1..Len(request[rpc_fd]) BY <1>2, <2>6, TailFacts
    <3>2. request[rpc_fd][1].call = issued BY <1>1, <1>5, <2>6 DEF Line
    <3> QED BY <2>2, <2>4, <3>1, <3>2
  <2> QED BY <2>5, <2>6
<1>6. UNCHANGED <<issued, rpc_fd, reply, shut, serving, phase, command, told>> BY SendFacts
<1> QED BY <1>1, <1>3, <1>5, <1>6 DEF Line

(* The part sent continues the stream it is appended to.                   *)
LEMMA SendStreamInv == ASSUME IInv, NEW t \in Threads, Send(t) PROVE StreamInv'
<1>0. TypeOK /\ StreamInv BY DEF IInv
<1>1. UNCHANGED <<issued, rpc_fd, shut, serving, phase, command>> BY SendFacts
<1>2. \A d \in Calls : Begun(d)' = Begun(d) /\ Begun(d) \in Nat BY <1>0, <1>1 DEF Begun, TypeOK
<1>3. CASE rpc_fd \in shut BY <1>0, <1>1, <1>2, <1>3, SendFacts DEF StreamInv
<1>4. CASE rpc_fd \notin shut
  <2>1. ASSUME NEW d \in Calls \ {rpc_fd}, NEW k \in 1..Len(request'[d])
        PROVE  /\ request'[d][k] = PartOf(request'[d][1].call, Begun(d)' + k)
               /\ Begun(d)' + Len(request'[d]) <= Parts[request'[d][1].call]
               /\ Begun(d)' # 0 => request'[d][1].call = Head(command').call
    BY <1>0, <1>1, <1>2, <1>4, SendFacts DEF StreamInv
  <2>2. ASSUME NEW k \in 1..Len(request'[rpc_fd])
        PROVE  /\ request'[rpc_fd][k] = PartOf(request'[rpc_fd][1].call, Begun(rpc_fd)' + k)
               /\ Begun(rpc_fd)' + Len(request'[rpc_fd]) <= Parts[request'[rpc_fd][1].call]
               /\ Begun(rpc_fd)' # 0 => request'[rpc_fd][1].call = Head(command').call
    <3>1. /\ Begun(rpc_fd) + Len(request'[rpc_fd]) = sent[t] + 1
          /\ request'[rpc_fd][1].call = issued
          /\ Begun(rpc_fd) # 0 => Head(command').call = issued
      BY <1>1, <1>2, <1>4, SendLine, SendFacts
    <3>2. request[rpc_fd] \in Seq(Part) /\ PartOf(issued, sent[t] + 1) \in Part
      BY <1>0, SendFacts DEF TypeOK
    <3>3. request'[rpc_fd] = Append(request[rpc_fd], PartOf(issued, sent[t] + 1)) BY <1>4, SendFacts
    <3>4. sent[t] \in Nat /\ sent[t] < Parts[issued] /\ Parts[issued] \in Nat BY SendFacts
    <3>5. CASE k \in 1..Len(request[rpc_fd])
      <4>1. request'[rpc_fd][k] = request[rpc_fd][k] BY <3>2, <3>3, <3>5, AppendFacts
      <4>2. request[rpc_fd][k] = PartOf(request[rpc_fd][1].call, Begun(rpc_fd) + k)
        BY <1>0, <3>5, SendFacts DEF StreamInv
      <4>3. 1 \in 1..Len(request[rpc_fd]) BY <3>2, <3>5, EmptyFacts
      <4>4. request'[rpc_fd][1] = request[rpc_fd][1] BY <3>2, <3>3, <4>3, AppendFacts
      <4> QED BY <1>2, <3>1, <3>4, <4>1, <4>2, <4>4, SendFacts
    <3>6. CASE k = Len(request[rpc_fd]) + 1
      <4>1. request'[rpc_fd][k] = PartOf(issued, sent[t] + 1) BY <3>2, <3>3, <3>6, AppendFacts
      <4>2. Len(request'[rpc_fd]) = k BY <3>2, <3>3, <3>6, AppendFacts
      <4>3. Begun(rpc_fd) + k = sent[t] + 1 BY <3>1, <4>2
      <4> QED BY <1>2, <3>1, <3>4, <4>1, <4>3, SendFacts
    <3> QED BY <3>2, <3>3, <3>5, <3>6, AppendFacts
  <2> QED BY <1>1, <2>1, <2>2 DEF StreamInv
<1> QED BY <1>3, <1>4

(* Send preserves SendInv.                                                 *)
LEMMA SendSendInv == ASSUME IInv, NEW t \in Threads, Send(t) PROVE SendInv'
<1>1. ASSUME NEW u \in Threads, pc'[u] = "send"
      PROVE  u = t /\ sent[t] + 1 < Parts[issued]
  <2>1. u = t BY <1>1, SendFacts
  <2>2. sent[t] + 1 # Parts[issued] BY <1>1, <2>1, SendFacts
  <2> QED BY <2>1, <2>2, SendFacts
<1>2. heard'[t] = <<>> /\ sent'[t] = sent[t] + 1 /\ issued' = issued BY SendFacts
<1> QED BY <1>1, <1>2, SendLine DEF SendInv, Line, Begun

(* The call whose last part has been sent waits for its whole reply.       *)
LEMMA SendReceiveInv == ASSUME IInv, NEW t \in Threads, Send(t) PROVE ReceiveInv'
<1>1. ASSUME NEW u \in Threads, pc'[u] = "receive"
      PROVE  u = t /\ sent[t] + 1 = Parts[issued]
  <2>1. u = t BY <1>1, SendFacts
  <2> QED BY <1>1, <2>1, SendFacts
<1>2. heard'[t] = <<>> /\ issued' = issued /\ reply'[rpc_fd'] = <<>> BY SendFacts, SendLine
<1>3. Len(heard'[t]) = 0 /\ Len(reply'[rpc_fd']) = 0 BY <1>2
<1>4. Replies[issued'] \in Nat \ {0} BY <1>2, SendFacts, PartsNat
<1>5. ASSUME sent[t] + 1 = Parts[issued] PROVE Line(issued, Parts[issued])'
  BY <1>2, <1>5, SendLine DEF Line, Begun
<1> QED BY <1>1, <1>2, <1>3, <1>4, <1>5 DEF ReceiveInv, Awaiting

(* Send preserves the invariant.                                           *)
LEMMA SendStep == ASSUME IInv, NEW t \in Threads, Send(t) PROVE IInv'
<1>0. /\ TypeOK /\ LockInv /\ NameInv /\ HostInv /\ CommandInv /\ StreamInv
      /\ FreeInv /\ SendInv /\ ReceiveInv
      /\ CommandsAreWhole /\ ReplyMatchesRequest
  BY DEF IInv
<1>1. TypeOK' BY SendTypeOK
<1>2. LockInv' BY <1>0 DEF LockInv, Holding, Send, host
<1>3. NameInv' BY <1>0 DEF NameInv, Used, Send, host
<1>4. HostInv' BY <1>0 DEF HostInv, Send, host
<1>5. CommandInv' BY <1>0 DEF CommandInv, Send, host
<1>6. StreamInv' BY SendStreamInv
<1>7. FreeInv'
  BY <1>0, CallsNat, ThreadsAssumption
  DEF FreeInv, TypeOK, LockInv, Holding, Line, Begun, Send, host
<1>8. SendInv' BY SendSendInv
<1>9. ReceiveInv' BY SendReceiveInv
<1>10. CommandsAreWhole' BY <1>0 DEF CommandsAreWhole, Send, host
<1>11. ReplyMatchesRequest' BY <1>0 DEF ReplyMatchesRequest, Send, host
<1> QED BY <1>1, <1>2, <1>3, <1>4, <1>5, <1>6, <1>7, <1>8, <1>9, <1>10, <1>11 DEF IInv

(* The part read moves from the stream to what has been heard.             *)
LEMMA ReceiveTypeOK == ASSUME IInv, NEW t \in Threads, Receive(t) PROVE TypeOK'
<1>0. TypeOK /\ LockInv BY DEF IInv
<1>1. rpc_fd \in Calls BY <1>0 DEF LockInv, TypeOK, Receive
<1>2. reply[rpc_fd] \in Seq(Part) /\ reply[rpc_fd] # <<>> /\ heard[t] \in Seq(Part)
  BY <1>0, <1>1 DEF TypeOK, Receive
<1>3. Head(reply[rpc_fd]) \in Part /\ Tail(reply[rpc_fd]) \in Seq(Part) BY <1>2, TailFacts
<1>4. Append(heard[t], Head(reply[rpc_fd])) \in Seq(Part) BY <1>2, <1>3, AppendFacts
<1>5. heard' \in [Threads -> Seq(Part)] BY <1>0, <1>4 DEF TypeOK, Receive
<1>6. reply' \in [Calls -> Seq(Part)] BY <1>0, <1>3 DEF TypeOK, Receive
<1> QED BY <1>0, <1>5, <1>6 DEF TypeOK, Receive, host

(* The part read is the next one of the reply to the latest call.          *)
LEMMA ReceiveReceiveInv == ASSUME IInv, NEW t \in Threads, Receive(t) PROVE ReceiveInv'
<1>0. TypeOK /\ LockInv /\ ReceiveInv BY DEF IInv
<1>1. Holding(t) BY DEF Receive, Holding
<1>2. \A u \in Threads : Holding(u) => u = t BY <1>0, <1>1, Holder
<1>3. rpc_fd \in Calls BY <1>0 DEF LockInv, TypeOK, Receive
<1>4. reply[rpc_fd] \in Seq(Part) /\ heard[t] \in Seq(Part) /\ reply[rpc_fd] # <<>>
  BY <1>0, <1>3 DEF TypeOK, Receive
<1>5. reply'[rpc_fd] = Tail(reply[rpc_fd]) /\ heard'[t] = Append(heard[t], Head(reply[rpc_fd]))
  BY <1>0, <1>3 DEF TypeOK, Receive
<1>6. PICK n : n = Len(heard[t]) + Len(reply[rpc_fd]) OBVIOUS
<1>7. /\ n <= Replies[issued]
      /\ \A k \in 1..Len(heard[t]) : heard[t][k] = PartOf(issued, k)
      /\ \A k \in 1..Len(reply[rpc_fd]) : reply[rpc_fd][k] = PartOf(issued, Len(heard[t]) + k)
      /\ n > 0 => Effect(issued)
      /\ n = 0 \/ Answering(issued, n) \/ Answered(issued, n) \/ rpc_fd \in shut
  BY <1>0, <1>6 DEF ReceiveInv, Awaiting, Receive
<1>8. /\ Len(heard'[t]) + Len(reply'[rpc_fd]) = n
      /\ n \in Nat \ {0}
      /\ \A k \in 1..Len(heard'[t]) : heard'[t][k] = PartOf(issued, k)
      /\ \A k \in 1..Len(reply'[rpc_fd]) : reply'[rpc_fd][k] = PartOf(issued, Len(heard'[t]) + k)
  <2>1. \A k \in 1..Len(heard[t]) : heard[t][k] = PartOf(issued, k) BY <1>7
  <2>2. \A k \in 1..Len(reply[rpc_fd]) : reply[rpc_fd][k] = PartOf(issued, Len(heard[t]) + k) BY <1>7
  <2> DEFINE h == heard[t]
             r == reply[rpc_fd]
  <2>3. h \in Seq(Part) /\ r \in Seq(Part) /\ r # <<>>
        /\ (\A k \in 1..Len(h) : h[k] = PartOf(issued, k))
        /\ \A k \in 1..Len(r) : r[k] = PartOf(issued, Len(h) + k)
    BY <1>4, <2>1, <2>2
  <2>4. heard'[t] = Append(h, Head(r)) /\ reply'[rpc_fd] = Tail(r) /\ n = Len(h) + Len(r)
    BY <1>5, <1>6
  <2> HIDE DEF h, r
  <2> QED BY <2>3, <2>4, MoveOne
<1>9. UNCHANGED <<rpc_fd, issued, executed, request, serving, phase, command, told, shut>>
  BY DEF Receive, host
<1>10. Effect(issued) /\ (Answering(issued, n) \/ Answered(issued, n) \/ rpc_fd \in shut)
  BY <1>7, <1>8
<1>11. \A u \in Threads : pc'[u] = "receive" => u = t BY <1>2 DEF Receive, Holding
<1> QED BY <1>7, <1>8, <1>9, <1>10, <1>11 DEF ReceiveInv, Awaiting, Effect, Answering, Answered

(* Receive preserves ReplyMatchesRequest.                                  *)
LEMMA ReceiveReplyMatchesRequest == ASSUME IInv, NEW t \in Threads, Receive(t) PROVE ReplyMatchesRequest'
<1>0. TypeOK /\ LockInv /\ ReplyMatchesRequest BY DEF IInv
<1>1. result[t] = "none" BY <1>0 DEF LockInv, Receive
<1> QED BY <1>0, <1>1 DEF ReplyMatchesRequest, Receive, TypeOK, ReplyOf

(* Receive preserves the invariant.                                        *)
LEMMA ReceiveStep == ASSUME IInv, NEW t \in Threads, Receive(t) PROVE IInv'
<1>0. /\ TypeOK /\ LockInv /\ NameInv /\ HostInv /\ CommandInv /\ StreamInv
      /\ FreeInv /\ SendInv /\ ReceiveInv
      /\ CommandsAreWhole /\ ReplyMatchesRequest
  BY DEF IInv
<1>1. TypeOK' BY ReceiveTypeOK
<1>2. LockInv' BY <1>0 DEF LockInv, Holding, Receive, host
<1>3. NameInv' BY <1>0 DEF NameInv, Used, Receive, host
<1>4. HostInv' BY <1>0 DEF HostInv, Receive, host
<1>5. CommandInv' BY <1>0 DEF CommandInv, Receive, host
<1>6. StreamInv' BY <1>0 DEF StreamInv, Begun, Receive, host
<1>7. FreeInv' BY <1>0 DEF FreeInv, Line, Begun, Holding, Receive, host
<1>8. SendInv' BY <1>0 DEF SendInv, Line, Begun, Holding, Receive, host
<1>9. ReceiveInv' BY ReceiveReceiveInv
<1>10. CommandsAreWhole' BY <1>0 DEF CommandsAreWhole, Receive, host
<1>11. ReplyMatchesRequest' BY ReceiveReplyMatchesRequest
<1> QED BY <1>1, <1>2, <1>3, <1>4, <1>5, <1>6, <1>7, <1>8, <1>9, <1>10, <1>11 DEF IInv

(* A call that has read its whole reply leaves a clean connection.         *)
LEMMA SucceedFreeInv == ASSUME IInv, NEW t \in Threads, Succeed(t) PROVE FreeInv'
<1>0. TypeOK /\ LockInv /\ ReceiveInv BY DEF IInv
<1>1. Holding(t) BY DEF Succeed, Holding
<1>2. issued \in Calls /\ call[t] = issued /\ Replies[issued] \in Nat \ {0} BY <1>0, <1>1, Holder
<1>3. rpc_fd \in Calls BY <1>0 DEF LockInv, TypeOK, Succeed
<1>4. reply[rpc_fd] \in Seq(Part) /\ heard[t] \in Seq(Part) BY <1>0, <1>3 DEF TypeOK
<1> DEFINE n == Len(heard[t]) + Len(reply[rpc_fd])
<1>5. /\ n <= Replies[issued]
      /\ \/ n = 0
         \/ Answering(issued, n)
         \/ Answered(issued, n)
         \/ rpc_fd \in shut
  BY <1>0 DEF ReceiveInv, Awaiting, Succeed
<1>6. Len(heard[t]) = Replies[issued] BY <1>2 DEF Succeed
<1>7. n = Replies[issued] /\ Len(reply[rpc_fd]) = 0 BY <1>2, <1>4, <1>5, <1>6, EmptyFacts
<1>8. reply[rpc_fd] = <<>> BY <1>4, <1>7, EmptyFacts
<1>9. Answering(issued, n) \/ Answered(issued, n) \/ rpc_fd \in shut BY <1>2, <1>5, <1>7
<1>10. request[rpc_fd] \in Seq(Part) BY <1>0, <1>3 DEF TypeOK
<1>11. Line(issued, 0)
  <2>1. CASE Answering(issued, n) BY <2>1, <1>7, <1>8, <1>2 DEF Line, Answering, Begun
  <2>2. CASE Answered(issued, n) BY <2>2, <1>8 DEF Line, Answered, Begun
  <2>3. CASE rpc_fd \in shut BY <2>3, <1>8 DEF Line
  <2> QED BY <1>9, <2>1, <2>2, <2>3
<1> QED BY <1>11 DEF FreeInv, Succeed, Line, Begun, host

(* Succeed preserves the invariant.                                        *)
LEMMA SucceedStep == ASSUME IInv, NEW t \in Threads, Succeed(t) PROVE IInv'
<1>0. /\ TypeOK /\ LockInv /\ NameInv /\ HostInv /\ CommandInv /\ StreamInv
      /\ FreeInv /\ SendInv /\ ReceiveInv
      /\ CommandsAreWhole /\ ReplyMatchesRequest
  BY DEF IInv
<1>1. TypeOK' BY <1>0 DEF TypeOK, Succeed, host
<1>2. LockInv'
  BY <1>0, CallsNat, ThreadsAssumption DEF LockInv, TypeOK, Holding, Succeed, host
<1>3. NameInv' BY <1>0 DEF NameInv, Used, Succeed, host
<1>4. HostInv' BY <1>0 DEF HostInv, Succeed, host
<1>5. CommandInv' BY <1>0 DEF CommandInv, Succeed, host
<1>6. StreamInv' BY <1>0 DEF StreamInv, Begun, Succeed, host
<1>7. FreeInv' BY SucceedFreeInv
<1>8. SendInv' BY <1>0, CallsNat DEF SendInv, TypeOK, Line, Begun, Holding, Succeed, host
<1>9. ReceiveInv'
  BY <1>0, CallsNat, ThreadsAssumption
  DEF ReceiveInv, Awaiting, TypeOK, LockInv, Holding, Line, Begun, Effect, Answering, Answered,
      Whole, Succeed, host
<1>10. CommandsAreWhole' BY <1>0 DEF CommandsAreWhole, Succeed, host
<1>11. ReplyMatchesRequest'
  BY <1>0, PartsNat, CallsNat, ThreadsAssumption, BoundsAssumption
  DEF ReplyMatchesRequest, TypeOK, LockInv, ReceiveInv, Awaiting, Holding, ReplyOf, Succeed,
      host
<1> QED BY <1>1, <1>2, <1>3, <1>4, <1>5, <1>6, <1>7, <1>8, <1>9, <1>10, <1>11 DEF IInv

(* After a failure nobody holds the lock.                                  *)
LEMMA FailLockInv == ASSUME IInv, NEW t \in Threads, Fail(t) PROVE LockInv'
<1>0. TypeOK /\ LockInv BY DEF IInv
<1>1. Holding(t) BY DEF Fail, CanFail, Holding
<1>2. \A u \in Threads : Holding(u) => u = t BY <1>0, <1>1, Holder
<1>3. \A u \in Threads : ~Holding(u)'
  <2>1. \A u \in Threads : pc'[u] = IF u = t THEN "idle" ELSE pc[u] BY <1>0 DEF Fail, TypeOK
  <2> QED BY <1>2, <2>1 DEF Holding
<1>4. \A u \in Threads : pc'[u] = "lock" => result'[u] = "none"
  BY <1>0 DEF Fail, TypeOK, LockInv
<1>5. \A u \in Threads : lock' # u BY ThreadsAssumption DEF Fail
<1> QED BY <1>3, <1>4, <1>5 DEF LockInv, Holding

(* After a failure nobody is sending.                                      *)
LEMMA FailSendInv == ASSUME IInv, NEW t \in Threads, Fail(t) PROVE SendInv'
<1>1. LockInv' BY FailLockInv
<1>2. rpc_fd' = Closed BY DEF Fail
<1>3. \A u \in Threads : pc'[u] # "send" BY <1>1, <1>2 DEF LockInv
<1> QED BY <1>3 DEF SendInv

(* After a failure nobody is waiting for a reply.                          *)
LEMMA FailReceiveInv == ASSUME IInv, NEW t \in Threads, Fail(t) PROVE ReceiveInv'
<1>1. LockInv' BY FailLockInv
<1>2. rpc_fd' = Closed BY DEF Fail
<1>3. \A u \in Threads : pc'[u] # "receive" BY <1>1, <1>2 DEF LockInv
<1> QED BY <1>3 DEF ReceiveInv, Awaiting

(* Fail preserves the invariant.                                           *)
LEMMA FailStep == ASSUME IInv, NEW t \in Threads, Fail(t) PROVE IInv'
<1>0. /\ TypeOK /\ LockInv /\ NameInv /\ HostInv /\ CommandInv /\ StreamInv
      /\ FreeInv /\ SendInv /\ ReceiveInv
      /\ CommandsAreWhole /\ ReplyMatchesRequest
  BY DEF IInv
<1>1. TypeOK' BY <1>0 DEF TypeOK, Fail, host
<1>2. LockInv' BY FailLockInv
<1>3. NameInv' BY <1>0, CallsNat DEF NameInv, TypeOK, Used, Fail, host
<1>4. HostInv' BY <1>0 DEF HostInv, Fail, host
<1>5. CommandInv' BY <1>0 DEF CommandInv, Fail, host
<1>6. StreamInv' BY <1>0 DEF StreamInv, Begun, Fail, host
<1>7. FreeInv' BY <1>0 DEF FreeInv, Fail, host
<1>8. SendInv' BY FailSendInv
<1>9. ReceiveInv' BY FailReceiveInv
<1>10. CommandsAreWhole' BY <1>0 DEF CommandsAreWhole, Fail, host
<1>11. ReplyMatchesRequest' BY <1>0 DEF ReplyMatchesRequest, Fail, host
<1> QED BY <1>1, <1>2, <1>3, <1>4, <1>5, <1>6, <1>7, <1>8, <1>9, <1>10, <1>11 DEF IInv

(* Reject is not part of a call in progress.                               *)
LEMMA RejectAside == ASSUME IInv, NEW t \in Threads, Reject(t) PROVE SendInv' /\ ReceiveInv'
<1>0. TypeOK BY DEF IInv
<1>1. \A u \in Threads : pc'[u] \in {"send", "receive"} => pc'[u] = pc[u]
  BY <1>0 DEF Reject, TypeOK
<1>2. UNCHANGED <<rpc_fd, sent, heard, request, reply, host, issued, executed>> BY DEF Reject
<1> QED BY <1>1, <1>2, Aside

(* Reject preserves the invariant.                                         *)
LEMMA RejectStep == ASSUME IInv, NEW t \in Threads, Reject(t) PROVE IInv'
<1>0. /\ TypeOK /\ LockInv /\ NameInv /\ HostInv /\ CommandInv /\ StreamInv
      /\ FreeInv /\ SendInv /\ ReceiveInv
      /\ CommandsAreWhole /\ ReplyMatchesRequest
  BY DEF IInv
<1>1. TypeOK' BY <1>0 DEF TypeOK, Reject, host
<1>2. LockInv' BY <1>0 DEF LockInv, Holding, Reject, host
<1>3. NameInv' BY <1>0 DEF NameInv, Used, Reject, host
<1>4. HostInv' BY <1>0 DEF HostInv, Reject, host
<1>5. CommandInv' BY <1>0 DEF CommandInv, Reject, host
<1>6. StreamInv' BY <1>0 DEF StreamInv, Begun, Reject, host
<1>7. FreeInv' BY <1>0 DEF FreeInv, Line, Begun, Holding, Reject, host
<1>8. SendInv' BY RejectAside
<1>9. ReceiveInv' BY RejectAside
<1>10. CommandsAreWhole' BY <1>0 DEF CommandsAreWhole, Reject, host
<1>11. ReplyMatchesRequest' BY <1>0 DEF ReplyMatchesRequest, Reject, host
<1> QED BY <1>1, <1>2, <1>3, <1>4, <1>5, <1>6, <1>7, <1>8, <1>9, <1>10, <1>11 DEF IInv

(* ErrorTest is not part of a call in progress.                            *)
LEMMA ErrorTestAside == ASSUME IInv, NEW t \in Threads, ErrorTest(t) PROVE SendInv' /\ ReceiveInv'
<1>0. TypeOK BY DEF IInv
<1>1. \A u \in Threads : pc'[u] \in {"send", "receive"} => pc'[u] = pc[u]
  BY <1>0 DEF ErrorTest, TypeOK
<1>2. UNCHANGED <<rpc_fd, sent, heard, request, reply, host, issued, executed>> BY DEF ErrorTest
<1> QED BY <1>1, <1>2, Aside

(* ErrorTest preserves the invariant.                                      *)
LEMMA ErrorTestStep == ASSUME IInv, NEW t \in Threads, ErrorTest(t) PROVE IInv'
<1>0. /\ TypeOK /\ LockInv /\ NameInv /\ HostInv /\ CommandInv /\ StreamInv
      /\ FreeInv /\ SendInv /\ ReceiveInv
      /\ CommandsAreWhole /\ ReplyMatchesRequest
  BY DEF IInv
<1>1. TypeOK' BY <1>0 DEF TypeOK, ErrorTest, host
<1>2. LockInv' BY <1>0 DEF LockInv, Holding, ErrorTest, host
<1>3. NameInv' BY <1>0 DEF NameInv, Used, ErrorTest, host
<1>4. HostInv' BY <1>0 DEF HostInv, ErrorTest, host
<1>5. CommandInv' BY <1>0 DEF CommandInv, ErrorTest, host
<1>6. StreamInv' BY <1>0 DEF StreamInv, Begun, ErrorTest, host
<1>7. FreeInv' BY <1>0 DEF FreeInv, Line, Begun, Holding, ErrorTest, host
<1>8. SendInv' BY ErrorTestAside
<1>9. ReceiveInv' BY ErrorTestAside
<1>10. CommandsAreWhole' BY <1>0 DEF CommandsAreWhole, ErrorTest, host
<1>11. ReplyMatchesRequest' BY <1>0 DEF ReplyMatchesRequest, ErrorTest, host
<1> QED BY <1>1, <1>2, <1>3, <1>4, <1>5, <1>6, <1>7, <1>8, <1>9, <1>10, <1>11 DEF IInv

(* ErrorTake is not part of a call in progress.                            *)
LEMMA ErrorTakeAside == ASSUME IInv, NEW t \in Threads, ErrorTake(t) PROVE SendInv' /\ ReceiveInv'
<1>0. TypeOK BY DEF IInv
<1>1. \A u \in Threads : pc'[u] \in {"send", "receive"} => pc'[u] = pc[u]
  BY <1>0 DEF ErrorTake, TypeOK
<1>2. UNCHANGED <<rpc_fd, sent, heard, request, reply, host, issued, executed>> BY DEF ErrorTake
<1> QED BY <1>1, <1>2, Aside

(* ErrorTake preserves the invariant.                                      *)
LEMMA ErrorTakeStep == ASSUME IInv, NEW t \in Threads, ErrorTake(t) PROVE IInv'
<1>0. /\ TypeOK /\ LockInv /\ NameInv /\ HostInv /\ CommandInv /\ StreamInv
      /\ FreeInv /\ SendInv /\ ReceiveInv
      /\ CommandsAreWhole /\ ReplyMatchesRequest
  BY DEF IInv
<1>1. TypeOK' BY <1>0 DEF TypeOK, ErrorTake, host
<1>2. LockInv' BY <1>0 DEF LockInv, Holding, ErrorTake, host
<1>3. NameInv' BY <1>0 DEF NameInv, Used, ErrorTake, host
<1>4. HostInv' BY <1>0 DEF HostInv, ErrorTake, host
<1>5. CommandInv' BY <1>0 DEF CommandInv, ErrorTake, host
<1>6. StreamInv' BY <1>0 DEF StreamInv, Begun, ErrorTake, host
<1>7. FreeInv' BY <1>0 DEF FreeInv, Line, Begun, Holding, ErrorTake, host
<1>8. SendInv' BY ErrorTakeAside
<1>9. ReceiveInv' BY ErrorTakeAside
<1>10. CommandsAreWhole' BY <1>0 DEF CommandsAreWhole, ErrorTake, host
<1>11. ReplyMatchesRequest' BY <1>0 DEF ReplyMatchesRequest, ErrorTake, host
<1> QED BY <1>1, <1>2, <1>3, <1>4, <1>5, <1>6, <1>7, <1>8, <1>9, <1>10, <1>11 DEF IInv

(* ErrorClear is not part of a call in progress.                           *)
LEMMA ErrorClearAside == ASSUME IInv, NEW t \in Threads, ErrorClear(t) PROVE SendInv' /\ ReceiveInv'
<1>0. TypeOK BY DEF IInv
<1>1. \A u \in Threads : pc'[u] \in {"send", "receive"} => pc'[u] = pc[u]
  BY <1>0 DEF ErrorClear, TypeOK
<1>2. UNCHANGED <<rpc_fd, sent, heard, request, reply, host, issued, executed>> BY DEF ErrorClear
<1> QED BY <1>1, <1>2, Aside

(* ErrorClear preserves the invariant.                                     *)
LEMMA ErrorClearStep == ASSUME IInv, NEW t \in Threads, ErrorClear(t) PROVE IInv'
<1>0. /\ TypeOK /\ LockInv /\ NameInv /\ HostInv /\ CommandInv /\ StreamInv
      /\ FreeInv /\ SendInv /\ ReceiveInv
      /\ CommandsAreWhole /\ ReplyMatchesRequest
  BY DEF IInv
<1>1. TypeOK' BY <1>0 DEF TypeOK, ErrorClear, host
<1>2. LockInv' BY <1>0 DEF LockInv, Holding, ErrorClear, host
<1>3. NameInv' BY <1>0 DEF NameInv, Used, ErrorClear, host
<1>4. HostInv' BY <1>0 DEF HostInv, ErrorClear, host
<1>5. CommandInv' BY <1>0 DEF CommandInv, ErrorClear, host
<1>6. StreamInv' BY <1>0 DEF StreamInv, Begun, ErrorClear, host
<1>7. FreeInv' BY <1>0 DEF FreeInv, Line, Begun, Holding, ErrorClear, host
<1>8. SendInv' BY ErrorClearAside
<1>9. ReceiveInv' BY ErrorClearAside
<1>10. CommandsAreWhole' BY <1>0 DEF CommandsAreWhole, ErrorClear, host
<1>11. ReplyMatchesRequest' BY <1>0 DEF ReplyMatchesRequest, ErrorClear, host
<1> QED BY <1>1, <1>2, <1>3, <1>4, <1>5, <1>6, <1>7, <1>8, <1>9, <1>10, <1>11 DEF IInv

-----------------------------------------------------------------------------
(* 3. The steps of the host.                                               *)

(* The connection accepted leaves the queue.                               *)
LEMMA AcceptTypeOK == ASSUME IInv, Accept PROVE TypeOK'
<1>0. TypeOK BY DEF IInv
<1>1. backlog \in Seq(Calls) /\ backlog # <<>> BY <1>0 DEF TypeOK, Accept
<1>2. Head(backlog) \in Calls /\ Tail(backlog) \in Seq(Calls) BY <1>1, TailFacts
<1>3. serving' \in Calls /\ backlog' \in Seq(Calls) /\ phase' = "read" BY <1>2 DEF Accept
<1>4. UNCHANGED <<guest, request, reply, command, told, shut, issued, executed, owed>>
  BY DEF Accept
<1> QED BY <1>0, <1>3, <1>4 DEF TypeOK, guest

(* A connection that is not served has the same line when it is accepted.  *)
LEMMA AcceptLine ==
  ASSUME IInv, Accept, rpc_fd \in Calls, NEW n, Line(issued, n)
  PROVE  Line(issued, n)'
<1>0. TypeOK /\ HostInv BY DEF IInv
<1>1. UNCHANGED <<rpc_fd, issued, reply, request, command, told, shut>> BY DEF Accept, guest
<1>2. command = <<>> /\ phase' = "read" BY <1>0 DEF HostInv, Accept
<1>3. Begun(rpc_fd) = 0 /\ Begun(rpc_fd)' = 0 BY <1>1, <1>2 DEF Begun, Accept
<1> QED BY <1>1, <1>2, <1>3 DEF Line

(* A call waiting for its reply still waits.                               *)
LEMMA AcceptReceiveInv == ASSUME IInv, Accept PROVE ReceiveInv'
<1>0. TypeOK /\ LockInv /\ ReceiveInv BY DEF IInv
<1>1. UNCHANGED <<pc, heard, reply, rpc_fd, issued, executed, shut>> /\ phase = "accept"
  BY DEF Accept, guest
<1>2. ASSUME NEW t \in Threads, pc[t] = "receive", Awaiting(t) PROVE Awaiting(t)'
  <2>1. rpc_fd \in Calls BY <1>0, <1>2 DEF LockInv, TypeOK
  <2>2. PICK n : n = Parts[issued] OBVIOUS
  <2>3. Line(issued, n) => Line(issued, n)' BY <2>1, AcceptLine
  <2>4. Line(issued, Parts[issued]) => Line(issued, Parts[issued])' BY <1>1, <2>2, <2>3
  <2>5. ~Answering(issued, Len(heard[t]) + Len(reply[rpc_fd]))
        /\ ~Answered(issued, Len(heard[t]) + Len(reply[rpc_fd]))
    BY <1>1 DEF Answering, Answered
  <2> QED BY <1>1, <1>2, <2>4, <2>5 DEF Awaiting, Effect
<1> QED BY <1>0, <1>1, <1>2 DEF ReceiveInv, Awaiting

(* The connection in use stays in the queue, or is the one accepted.       *)
LEMMA AcceptHostInv == ASSUME IInv, Accept PROVE HostInv'
<1>0. TypeOK /\ HostInv BY DEF IInv
<1>1. backlog \in Seq(Calls) /\ backlog # <<>> BY <1>0 DEF TypeOK, Accept
<1>2. serving' = backlog[1] /\ serving' \in Calls /\ backlog' = Tail(backlog) BY <1>1, TailFacts DEF Accept
<1>3. \A k \in 1..Len(backlog) : k = 1 \/ (k - 1 \in 1..Len(backlog') /\ backlog'[k - 1] = backlog[k])
  BY <1>1, <1>2, TailFacts
<1>4. serving = Closed /\ command = <<>> /\ told = 0 BY <1>0 DEF HostInv, Accept
<1>5. rpc_fd # Closed => rpc_fd \in shut \/ rpc_fd = serving' \/ \E k \in 1..Len(backlog') : backlog'[k] = rpc_fd
  BY <1>0, <1>2, <1>3, <1>4 DEF HostInv
<1> QED BY <1>0, <1>2, <1>4, <1>5, CallsNat DEF HostInv, Accept, guest

(* Accept preserves the invariant.                                         *)
LEMMA AcceptStep == ASSUME IInv, Accept PROVE IInv'
<1>0. /\ TypeOK /\ LockInv /\ NameInv /\ HostInv /\ CommandInv /\ StreamInv
      /\ FreeInv /\ SendInv /\ ReceiveInv
      /\ CommandsAreWhole /\ ReplyMatchesRequest
  BY DEF IInv
<1>1. TypeOK' BY AcceptTypeOK
<1>2. LockInv' BY <1>0 DEF LockInv, Holding, Accept, guest
<1>3. NameInv' BY <1>0, SMTT(20) DEF NameInv, Used, Accept, guest
<1>4. HostInv' BY AcceptHostInv
<1>5. CommandInv' BY <1>0 DEF CommandInv, Accept, guest
<1>6. StreamInv'
  BY <1>0, CallsNat, PartsNat DEF StreamInv, TypeOK, HostInv, Begun, Accept, guest
<1>7. FreeInv'
  BY <1>0, CallsNat, PartsNat, SMTT(20)
  DEF FreeInv, TypeOK, HostInv, Line, Begun, Holding, Accept, guest
<1>8. SendInv'
  BY <1>0, CallsNat, PartsNat, SMTT(20)
  DEF SendInv, TypeOK, HostInv, Line, Begun, Holding, Accept, guest
<1>9. ReceiveInv' BY AcceptReceiveInv
<1>10. CommandsAreWhole' BY <1>0 DEF CommandsAreWhole, Accept, guest
<1>11. ReplyMatchesRequest' BY <1>0 DEF ReplyMatchesRequest, Accept, guest
<1> QED BY <1>1, <1>2, <1>3, <1>4, <1>5, <1>6, <1>7, <1>8, <1>9, <1>10, <1>11 DEF IInv

(* Every connection that waits is closed.                                  *)
LEMMA BridgeFailsTypeOK == ASSUME IInv, BridgeFails PROVE TypeOK'
<1>0. TypeOK BY DEF IInv
<1>1. \A k \in 1..Len(backlog) : backlog[k] \in Calls BY <1>0 DEF TypeOK
<1>2. shut' \subseteq Calls BY <1>0, <1>1 DEF TypeOK, BridgeFails
<1>3. <<>> \in Seq(Part) /\ <<>> \in Seq(Calls) OBVIOUS
<1>4. request' \in [Calls -> Seq(Part)] /\ backlog' \in Seq(Calls) /\ phase' = "dead"
  BY <1>3 DEF BridgeFails
<1>5. UNCHANGED <<guest, reply, serving, command, told, issued, executed, owed>>
  BY DEF BridgeFails
<1> QED BY <1>0, <1>2, <1>4, <1>5 DEF TypeOK, guest

(* When the server dies every connection is closed.                        *)
LEMMA BridgeFailsReceiveInv == ASSUME IInv, BridgeFails PROVE ReceiveInv'
<1>0. TypeOK /\ HostInv /\ LockInv /\ ReceiveInv BY DEF IInv
<1>1. UNCHANGED <<pc, heard, reply, rpc_fd, issued, executed>> BY DEF BridgeFails, guest
<1>2. serving = Closed BY <1>0 DEF HostInv, BridgeFails
<1>3. rpc_fd # Closed => rpc_fd \in shut' BY <1>0, <1>2 DEF HostInv, BridgeFails
<1>4. \A u \in Threads : pc[u] = "receive" => rpc_fd \in shut' BY <1>0, <1>3 DEF LockInv
<1> QED BY <1>0, <1>1, <1>4 DEF ReceiveInv, Awaiting, Effect

(* BridgeFails preserves the invariant.                                    *)
LEMMA BridgeFailsStep == ASSUME IInv, BridgeFails PROVE IInv'
<1>0. /\ TypeOK /\ LockInv /\ NameInv /\ HostInv /\ CommandInv /\ StreamInv
      /\ FreeInv /\ SendInv /\ ReceiveInv
      /\ CommandsAreWhole /\ ReplyMatchesRequest
  BY DEF IInv
<1>1. TypeOK' BY BridgeFailsTypeOK
<1>2. LockInv' BY <1>0 DEF LockInv, Holding, BridgeFails, guest
<1>3. NameInv'
  BY <1>0, CallsNat, PartsNat DEF NameInv, TypeOK, HostInv, Used, BridgeFails, guest
<1>4. HostInv' BY <1>0, CallsNat DEF HostInv, TypeOK, Whole, Used, BridgeFails, guest
<1>5. CommandInv' BY <1>0 DEF CommandInv, BridgeFails, guest
<1>6. StreamInv' BY <1>0 DEF StreamInv, BridgeFails, guest
<1>7. FreeInv'
  BY <1>0, CallsNat DEF FreeInv, TypeOK, Line, Begun, Holding, BridgeFails, guest
<1>8. SendInv'
  BY <1>0, PartsNat, CallsNat, ThreadsAssumption, BoundsAssumption
  DEF SendInv, TypeOK, LockInv, HostInv, NameInv, CommandInv, StreamInv, FreeInv,
      ReceiveInv, Awaiting, Line, Begun, Holding, BridgeFails, guest
<1>9. ReceiveInv' BY BridgeFailsReceiveInv
<1>10. CommandsAreWhole' BY <1>0 DEF CommandsAreWhole, BridgeFails, guest
<1>11. ReplyMatchesRequest' BY <1>0 DEF ReplyMatchesRequest, BridgeFails, guest
<1> QED BY <1>1, <1>2, <1>3, <1>4, <1>5, <1>6, <1>7, <1>8, <1>9, <1>10, <1>11 DEF IInv

(* What reading one part does, and what it leaves alone.                   *)
LEMMA ReadFacts ==
  ASSUME IInv, ReadPart
  PROVE  /\ serving \in Calls /\ serving \notin shut /\ phase = "read"
         /\ command \in Seq(Part) /\ request[serving] \in Seq(Part) /\ request[serving] # <<>>
         /\ Head(request[serving]) \in Part
         /\ command' = Append(command, Head(request[serving]))
         /\ request'[serving] = Tail(request[serving])
         /\ \A d \in Calls \ {serving} : request'[d] = request[d]
         /\ UNCHANGED <<pc, lock, rpc_fd, sent, heard, issued, reply, serving, phase, told, shut, executed>>
         /\ Begun(serving) = Len(command) /\ Begun(serving)' = Len(command) + 1
         /\ Len(command) \in Nat
         /\ \A d \in Calls \ {serving} : Begun(d) = 0 /\ Begun(d)' = 0
<1>0. TypeOK /\ HostInv /\ NameInv BY DEF IInv
<1>1. serving \in Calls /\ phase = "read" /\ serving \notin shut
  BY <1>0, Open DEF HostInv, ReadPart
<1>2. command \in Seq(Part) /\ request[serving] \in Seq(Part) /\ request[serving] # <<>>
  BY <1>0, <1>1 DEF TypeOK, ReadPart
<1>3. Head(request[serving]) \in Part BY <1>2, TailFacts
<1>4. /\ command' = Append(command, Head(request[serving]))
      /\ request'[serving] = Tail(request[serving])
      /\ \A d \in Calls \ {serving} : request'[d] = request[d]
  BY <1>0, <1>1 DEF ReadPart, TypeOK
<1>5. UNCHANGED <<pc, lock, rpc_fd, sent, heard, issued, reply, serving, phase, told, shut, executed>>
  BY DEF ReadPart, guest
<1>6. Len(command) \in Nat /\ Len(command') = Len(command) + 1 BY <1>2, <1>3, <1>4, AppendFacts
<1>7. Begun(serving) = Len(command) /\ Begun(serving)' = Len(command) + 1
  BY <1>1, <1>5, <1>6 DEF Begun
<1>8. \A d \in Calls \ {serving} : Begun(d) = 0 /\ Begun(d)' = 0 BY <1>5 DEF Begun
<1> QED BY <1>1, <1>2, <1>3, <1>4, <1>5, <1>6, <1>7, <1>8

(* The part read continues the command, or begins one. *)
LEMMA ReadCommand ==
  ASSUME IInv, ReadPart
  PROVE  LET i == request[serving][1].call
         IN  /\ Head(request[serving]) = PartOf(i, Len(command) + 1)
             /\ Len(command) + Len(request[serving]) <= Parts[i]
             /\ Head(command').call = i
             /\ \A k \in 1..Len(command') : command'[k] = PartOf(i, k)
<1> DEFINE i == request[serving][1].call
<1>0. CommandInv /\ StreamInv BY DEF IInv
<1>1. /\ serving \in Calls /\ command \in Seq(Part)
      /\ request[serving] \in Seq(Part) /\ request[serving] # <<>>
      /\ Head(request[serving]) \in Part
      /\ command' = Append(command, Head(request[serving]))
      /\ Begun(serving) = Len(command)
  BY ReadFacts
<1>2. Head(request[serving]) = request[serving][1] /\ 1 \in 1..Len(request[serving]) BY <1>1, TailFacts
<1>3. /\ request[serving][1] = PartOf(i, Len(command) + 1)
      /\ Len(command) + Len(request[serving]) <= Parts[i]
      /\ Len(command) # 0 => i = Head(command).call
  BY <1>0, <1>1, <1>2 DEF StreamInv
<1>4. \A k \in 1..Len(command) : command[k] = PartOf(i, k)
  BY <1>0, <1>1, <1>3, EmptyFacts DEF CommandInv
<1>5. \A k \in 1..Len(command') : command'[k] = PartOf(i, k)
  BY <1>1, <1>2, <1>3, <1>4, AppendFacts
<1>6. command' # <<>> /\ command' \in Seq(Part) BY <1>1, AppendFacts
<1>7. Head(command') = command'[1] /\ 1 \in 1..Len(command') BY <1>6, TailFacts
<1>8. Head(command').call = i
  <2>1. Head(command') = PartOf(i, 1) BY <1>5, <1>7
  <2> QED BY <2>1 DEF PartOf
<1> QED BY <1>2, <1>3, <1>5, <1>8

(* The part read goes from the stream to the command.                      *)
LEMMA ReadPartTypeOK == ASSUME IInv, ReadPart PROVE TypeOK'
<1>0. TypeOK BY DEF IInv
<1>1. /\ serving \in Calls /\ command \in Seq(Part) /\ request[serving] \in Seq(Part)
      /\ request[serving] # <<>> /\ Head(request[serving]) \in Part
  BY ReadFacts
<1>2. command' \in Seq(Part) BY <1>1, AppendFacts DEF ReadPart
<1>3. Tail(request[serving]) \in Seq(Part) BY <1>1, TailFacts
<1>4. request' \in [Calls -> Seq(Part)] BY <1>0, <1>3 DEF TypeOK, ReadPart
<1> QED BY <1>0, <1>2, <1>4 DEF TypeOK, ReadPart, guest

(* The command read so far is a prefix of one request.                     *)
LEMMA ReadPartCommandInv == ASSUME IInv, ReadPart PROVE CommandInv'
<1> DEFINE i == request[serving][1].call
<1>1. /\ Len(command) + Len(request[serving]) <= Parts[i]
      /\ Head(command').call = i
      /\ \A k \in 1..Len(command') : command'[k] = PartOf(i, k)
  BY ReadCommand
<1>2. Len(request[serving]) \in Nat \ {0} /\ Len(command) \in Nat BY ReadFacts, TailFacts
<1>3. Len(command') = Len(command) + 1 BY ReadFacts, AppendFacts
<1>4. \A k \in 1..Len(command') : i \in Calls
  <2>1. Head(request[serving]) \in Part /\ Head(request[serving]) = PartOf(i, Len(command) + 1)
    BY ReadFacts, ReadCommand
  <2> QED BY <2>1 DEF Part, PartOf
<1>5. \A k \in 1..Len(command') : Len(command') <= Parts[i] BY <1>1, <1>2, <1>3, <1>4, PartsNat
<1> QED BY <1>1, <1>5 DEF CommandInv

(* The rest of the stream continues it.                                    *)
LEMMA ReadPartStreamInv == ASSUME IInv, ReadPart PROVE StreamInv'
<1>0. StreamInv BY DEF IInv
<1>1. ASSUME NEW d \in Calls \ {serving}, NEW k \in 1..Len(request'[d])
      PROVE  /\ request'[d][k] = PartOf(request'[d][1].call, Begun(d)' + k)
             /\ Begun(d)' + Len(request'[d]) <= Parts[request'[d][1].call]
             /\ Begun(d)' = 0
  BY <1>0, ReadFacts DEF StreamInv
<1>2. ASSUME NEW k \in 1..Len(request'[serving])
      PROVE  /\ request'[serving][k] = PartOf(request'[serving][1].call, Begun(serving)' + k)
             /\ Begun(serving)' + Len(request'[serving]) <= Parts[request'[serving][1].call]
             /\ request'[serving][1].call = Head(command').call
  <2> DEFINE i == request[serving][1].call
  <2>1. /\ Len(request[serving]) \in Nat \ {0}
        /\ Len(request'[serving]) = Len(request[serving]) - 1
        /\ \A l \in 1..Len(request'[serving]) :
             request'[serving][l] = request[serving][l + 1] /\ l + 1 \in 1..Len(request[serving])
    <3>1. /\ request[serving] \in Seq(Part) /\ request[serving] # <<>>
          /\ request'[serving] = Tail(request[serving])
      BY ReadFacts
    <3> QED BY <3>1, TailFacts
  <2>2. Begun(serving) = Len(command) /\ Begun(serving)' = Len(command) + 1 /\ Len(command) \in Nat
    BY ReadFacts
  <2>3. \A l \in 1..Len(request[serving]) : request[serving][l] = PartOf(i, Len(command) + l)
    BY <1>0, <2>2, ReadFacts DEF StreamInv
  <2>4. \A l \in 1..Len(request'[serving]) : request'[serving][l] = PartOf(i, Len(command) + (l + 1))
    BY <2>1, <2>3
  <2>5. 1 \in 1..Len(request'[serving]) BY <2>1
  <2>6. request'[serving][1].call = i
    <3>1. request'[serving][1] = PartOf(i, Len(command) + (1 + 1)) BY <2>4, <2>5
    <3> QED BY <3>1 DEF PartOf
  <2>7. Len(command) + (k + 1) = (Len(command) + 1) + k BY <2>1, <2>2
  <2>8. /\ Len(command) + Len(request[serving]) <= Parts[i]
        /\ Head(command').call = i
    BY ReadCommand
  <2>9. (Len(command) + 1) + Len(request'[serving]) = Len(command) + Len(request[serving])
    BY <2>1, <2>2, ShiftSum
  <2> QED BY <2>2, <2>4, <2>6, <2>7, <2>8, <2>9
<1>3. \A d \in Calls : d = serving \/ d \in Calls \ {serving} OBVIOUS
<1> QED BY <1>1, <1>2, <1>3, ReadFacts DEF StreamInv

(* Reading moves a part from the stream to the command and nothing else. *)
LEMMA ReadLine ==
  ASSUME IInv, ReadPart, rpc_fd \in Calls, NEW n, Line(issued, n)
  PROVE  /\ Line(issued, n)'
         /\ rpc_fd = serving => n \in Nat \ {0}
<1>1. /\ UNCHANGED <<rpc_fd, issued, reply, serving, phase, told, shut>>
      /\ phase = "read" /\ serving \in Calls /\ serving \notin shut
  BY ReadFacts
<1>2. CASE rpc_fd # serving
  <2>1. request'[rpc_fd] = request[rpc_fd] /\ Begun(rpc_fd) = 0 /\ Begun(rpc_fd)' = 0
    BY <1>2, ReadFacts
  <2> QED BY <1>1, <1>2, <2>1 DEF Line
<1>3. CASE rpc_fd = serving
  <2>1. /\ Len(request[rpc_fd]) \in Nat \ {0}
        /\ Len(request'[rpc_fd]) = Len(request[rpc_fd]) - 1
        /\ Begun(rpc_fd) = Len(command) /\ Begun(rpc_fd)' = Len(command) + 1 /\ Len(command) \in Nat
    BY <1>3, ReadFacts, TailFacts
  <2>2. Begun(rpc_fd) + Len(request[rpc_fd]) = n BY <1>1, <1>3 DEF Line
  <2>3. Begun(rpc_fd)' + Len(request'[rpc_fd]) = n /\ n \in Nat \ {0} BY <2>1, <2>2, ShiftSum
  <2>4. request[rpc_fd][1].call = issued BY <1>1, <1>3, ReadFacts DEF Line
  <2>5. Head(command').call = issued BY <1>3, <2>4, ReadCommand
  <2>6. request'[rpc_fd] # <<>> => request'[rpc_fd][1].call = issued
    <3>1. ASSUME request'[rpc_fd] # <<>> PROVE 1 \in 1..Len(request'[rpc_fd])
      <4>1. request'[rpc_fd] \in Seq(Part)
        <5>1. TypeOK' BY ReadPartTypeOK
        <5> QED BY <1>1, <5>1 DEF TypeOK
      <4> QED BY <3>1, <4>1, TailFacts
    <3>2. Begun(rpc_fd)' # 0 BY <2>1
    <3>3. StreamInv' BY ReadPartStreamInv
    <3> QED BY <1>1, <1>3, <2>5, <3>1, <3>2, <3>3 DEF StreamInv
  <2>7. reply'[rpc_fd'] = <<>> BY <1>1 DEF Line
  <2> QED BY <1>1, <1>3, <2>3, <2>5, <2>6, <2>7 DEF Line
<1> QED BY <1>2, <1>3

(* ReadPart preserves FreeInv.                                             *)
LEMMA ReadPartFreeInv == ASSUME IInv, ReadPart PROVE FreeInv'
<1>0. TypeOK /\ FreeInv BY DEF IInv
<1>1. UNCHANGED <<lock, rpc_fd>> BY ReadFacts
<1>2. rpc_fd # Closed => rpc_fd \in Calls BY <1>0 DEF TypeOK
<1> QED BY <1>0, <1>1, <1>2, ReadLine DEF FreeInv

(* ReadPart preserves SendInv.                                             *)
LEMMA ReadPartSendInv == ASSUME IInv, ReadPart PROVE SendInv'
<1>0. TypeOK /\ LockInv /\ SendInv BY DEF IInv
<1>1. UNCHANGED <<pc, sent, heard, issued, rpc_fd>> BY ReadFacts
<1>2. ASSUME NEW t \in Threads, pc[t] = "send"
      PROVE  Line(issued, sent[t])'
  <2>1. rpc_fd \in Calls /\ Line(issued, sent[t]) BY <1>0, <1>2 DEF TypeOK, LockInv, SendInv
  <2>2. \A n : Line(issued, n) => Line(issued, n)' BY <2>1, ReadLine
  <2> QED BY <1>1, <2>1, <2>2 DEF Line
<1> QED BY <1>0, <1>1, <1>2 DEF SendInv

(* ReadPart preserves ReceiveInv.                                          *)
LEMMA ReadPartReceiveInv == ASSUME IInv, ReadPart PROVE ReceiveInv'
<1>0. TypeOK /\ LockInv /\ NameInv /\ HostInv /\ ReceiveInv BY DEF IInv
<1>1. /\ UNCHANGED <<pc, heard, issued, rpc_fd, reply, executed, serving, phase, told, shut>>
      /\ phase = "read" /\ request[serving] # <<>>
  BY ReadFacts
<1>2. ASSUME NEW t \in Threads, pc[t] = "receive"
      PROVE  LET n == Len(heard[t]) + Len(reply[rpc_fd])
             IN  (n = 0 /\ Line(issued, Parts[issued])') \/ rpc_fd \in shut
  <2>1. rpc_fd \in Calls BY <1>0, <1>2 DEF TypeOK, LockInv
  <2>2. Line(issued, Parts[issued]) => Line(issued, Parts[issued])'
    <3>1. \A n : Line(issued, n) => Line(issued, n)' BY <2>1, ReadLine
    <3> QED BY <1>1, <3>1 DEF Line
  <2> QED BY <1>0, <1>1, <1>2, <2>2 DEF ReceiveInv, Awaiting, Answering, Answered
<1> QED BY <1>0, <1>1, <1>2 DEF ReceiveInv, Awaiting, Effect

(* ReadPart preserves the invariant.                                       *)
LEMMA ReadPartStep == ASSUME IInv, ReadPart PROVE IInv'
<1>0. /\ TypeOK /\ LockInv /\ NameInv /\ HostInv /\ CommandInv /\ StreamInv
      /\ FreeInv /\ SendInv /\ ReceiveInv
      /\ CommandsAreWhole /\ ReplyMatchesRequest
  BY DEF IInv
<1>1. TypeOK' BY ReadPartTypeOK
<1>2. LockInv' BY <1>0 DEF LockInv, Holding, ReadPart, guest
<1>3. NameInv' BY <1>0 DEF NameInv, Used, ReadPart, guest
<1>4. HostInv' BY <1>0 DEF HostInv, ReadPart, guest
<1>5. CommandInv' BY ReadPartCommandInv
<1>6. StreamInv' BY ReadPartStreamInv
<1>7. FreeInv' BY ReadPartFreeInv
<1>8. SendInv' BY ReadPartSendInv
<1>9. ReceiveInv' BY ReadPartReceiveInv
<1>10. CommandsAreWhole' BY <1>0 DEF CommandsAreWhole, ReadPart, guest
<1>11. ReplyMatchesRequest' BY <1>0 DEF ReplyMatchesRequest, ReadPart, guest
<1> QED BY <1>1, <1>2, <1>3, <1>4, <1>5, <1>6, <1>7, <1>8, <1>9, <1>10, <1>11 DEF IInv

(* The history grows by a command and its context.                         *)
LEMMA ExecuteTypeOK == ASSUME IInv, Execute PROVE TypeOK'
<1>0. TypeOK /\ HostInv BY DEF IInv
<1>1. serving \in Calls /\ command \in Seq(Part) BY <1>0 DEF TypeOK, HostInv, Execute
<1>2. [command |-> command, context |-> serving] \in [command : Seq(Part), context : Calls]
  BY <1>1
<1>3. executed \in Seq([command : Seq(Part), context : Calls]) BY <1>0 DEF TypeOK
<1>4. executed' \in Seq([command : Seq(Part), context : Calls])
  BY <1>2, <1>3, AppendFacts DEF Execute
<1>5. phase' = "reply" /\ UNCHANGED <<guest, request, reply, backlog, serving, command,
                                      told, shut, issued, owed>>
  BY DEF Execute
<1> QED BY <1>0, <1>4, <1>5 DEF TypeOK, guest

(* A whole command is executed: nothing of the next one has been sent yet. *)
LEMMA ExecuteFacts ==
  ASSUME IInv, Execute
  PROVE  LET i == Head(command).call
         IN  /\ serving \in Calls /\ serving \notin shut /\ phase = "read" /\ phase' = "reply"
             /\ i \in Calls /\ Len(command) = Parts[i] /\ Len(command) \in Nat \ {0}
             /\ told = 0
             /\ UNCHANGED <<pc, lock, rpc_fd, sent, heard, issued, request, reply, serving, command,
                            told, shut>>
             /\ executed' = Append(executed, [command |-> RequestOf(i), context |-> serving])
             /\ Begun(serving) = Len(command)
             /\ \A d \in Calls \ {serving} : Begun(d) = 0
             /\ \A d \in Calls : Begun(d)' = 0
             /\ request[serving] = <<>>
<1> DEFINE i == Head(command).call
<1>0. TypeOK /\ HostInv /\ NameInv /\ CommandInv /\ StreamInv BY DEF IInv
<1>1. serving \in Calls /\ phase = "read" /\ serving \notin shut /\ phase' = "reply" /\ told = 0
  BY <1>0, Open DEF HostInv, Execute
<1>2. command \in Seq(Part) /\ command # <<>> /\ Len(command) = Parts[i]
  BY <1>0 DEF TypeOK, Execute, Whole
<1>3. Head(command) \in Part /\ Len(command) \in Nat \ {0} BY <1>2, TailFacts
<1>4. i \in Calls BY <1>3 DEF Part
<1>5. command = RequestOf(i)
  <2>1. \A k \in 1..Len(command) : command[k] = PartOf(i, k) BY <1>0 DEF CommandInv
  <2>2. command = [k \in 1..Len(command) |-> command[k]] BY <1>2
  <2> QED BY <1>2, <2>1, <2>2 DEF RequestOf
<1>6. UNCHANGED <<pc, lock, rpc_fd, sent, heard, issued, request, reply, serving, command, told, shut>>
  BY DEF Execute, guest
<1>7. executed' = Append(executed, [command |-> RequestOf(i), context |-> serving])
  BY <1>5 DEF Execute
<1>8. Begun(serving) = Len(command) /\ \A d \in Calls \ {serving} : Begun(d) = 0
  BY <1>1 DEF Begun
<1>9. \A d \in Calls : Begun(d)' = 0 BY <1>1 DEF Begun
<1>10. request[serving] = <<>>
  <2>1. request[serving] \in Seq(Part) BY <1>0, <1>1 DEF TypeOK
  <2>2. ASSUME request[serving] # <<>> PROVE FALSE
    <3>1. 1 \in 1..Len(request[serving]) /\ Len(request[serving]) \in Nat \ {0}
      BY <2>1, <2>2, TailFacts
    <3>2. Len(command) + Len(request[serving]) <= Parts[i]
      BY <1>0, <1>1, <1>3, <1>8, <3>1 DEF StreamInv
    <3> QED BY <1>2, <1>3, <3>1, <3>2
  <2> QED BY <2>2
<1> QED BY <1>1, <1>2, <1>3, <1>4, <1>6, <1>7, <1>8, <1>9, <1>10

(* The reply of a whole command is about to be sent.                       *)
LEMMA ExecuteHostInv == ASSUME IInv, Execute PROVE HostInv'
<1>0. TypeOK /\ HostInv BY DEF IInv
<1>1. /\ serving \in Calls /\ phase' = "reply" /\ told' = 0
      /\ Head(command).call \in Calls
      /\ UNCHANGED <<rpc_fd, request, serving, command, shut>>
  BY ExecuteFacts
<1>2. Whole(command)' BY <1>1 DEF Execute, Whole
<1>3. 0 <= Replies[Head(command).call] BY <1>1, PartsNat
<1>4. UNCHANGED backlog BY DEF Execute
<1> QED BY <1>0, <1>1, <1>2, <1>3, <1>4, CallsNat DEF HostInv

(* Execute preserves StreamInv.                                            *)
LEMMA ExecuteStreamInv == ASSUME IInv, Execute PROVE StreamInv'
<1>0. TypeOK /\ StreamInv BY DEF IInv
<1>1. /\ UNCHANGED <<request, command>> /\ request[serving] = <<>> /\ serving \in Calls
      /\ \A d \in Calls \ {serving} : Begun(d) = 0
      /\ \A d \in Calls : Begun(d)' = 0
  BY ExecuteFacts
<1>2. ASSUME NEW d \in Calls, NEW k \in 1..Len(request[d])
      PROVE  /\ request[d][k] = PartOf(request[d][1].call, Begun(d)' + k)
             /\ Begun(d)' + Len(request[d]) <= Parts[request[d][1].call]
  <2>1. d # serving BY <1>1, <1>2
  <2>2. Begun(d) = 0 /\ Begun(d)' = 0 BY <1>1, <2>1
  <2> QED BY <1>0, <2>2 DEF StreamInv
<1> QED BY <1>1, <1>2 DEF StreamInv

(* What is executed on the connection in use is the request on its line.   *)
LEMMA ExecuteLine ==
  ASSUME IInv, Execute, rpc_fd \in Calls, NEW n, Line(issued, n)
  PROVE  \/ serving # rpc_fd /\ Line(issued, n)'
         \/ /\ serving = rpc_fd
            /\ Head(command).call = issued
            /\ n = Parts[issued] /\ n \in Nat \ {0}
            /\ Effect(issued)'
<1>1. /\ serving \in Calls /\ serving \notin shut
      /\ UNCHANGED <<rpc_fd, issued, request, reply, serving, command, told, shut>>
      /\ \A d \in Calls : Begun(d)' = 0
      /\ \A d \in Calls \ {serving} : Begun(d) = 0
  BY ExecuteFacts
<1>2. CASE serving # rpc_fd BY <1>1, <1>2 DEF Line
<1>3. CASE serving = rpc_fd
  <2>1. /\ Begun(rpc_fd) = Len(command) /\ Len(command) \in Nat \ {0}
        /\ request[rpc_fd] = <<>>
        /\ Len(command) = Parts[Head(command).call]
    BY <1>3, ExecuteFacts
  <2>2. Begun(rpc_fd) + Len(request[rpc_fd]) = n /\ Head(command).call = issued
    BY <1>1, <1>3, <2>1 DEF Line
  <2>3. Len(request[rpc_fd]) = 0 BY <2>1
  <2>4. n = Parts[issued] /\ n \in Nat \ {0} BY <2>1, <2>2, <2>3
  <2>5. Effect(issued)'
    <3>1. executed' = Append(executed, [command |-> RequestOf(issued), context |-> rpc_fd])
      BY <1>3, <2>2, ExecuteFacts
    <3>2. executed \in Seq([command : Seq(Part), context : Calls])
          /\ executed' \in Seq([command : Seq(Part), context : Calls])
      BY ExecuteTypeOK DEF IInv, TypeOK
    <3>3. Len(executed') = Len(executed) + 1 /\ Len(executed) \in Nat
          /\ executed'[Len(executed) + 1] = [command |-> RequestOf(issued), context |-> rpc_fd]
      BY <3>1, <3>2
    <3>4. executed' # <<>> BY <3>3
    <3> QED BY <1>1, <3>3, <3>4 DEF Effect, RequestOf
  <2> QED BY <1>3, <2>2, <2>4, <2>5
<1> QED BY <1>2, <1>3

(* Execute preserves FreeInv.                                              *)
LEMMA ExecuteFreeInv == ASSUME IInv, Execute PROVE FreeInv'
<1>0. TypeOK /\ FreeInv BY DEF IInv
<1>1. UNCHANGED <<lock, rpc_fd, issued>> BY ExecuteFacts
<1>2. ASSUME lock = NoThread, rpc_fd # Closed PROVE Line(issued, 0)'
  <2>1. rpc_fd \in Calls /\ Line(issued, 0) BY <1>0, <1>2 DEF TypeOK, FreeInv
  <2> QED BY <2>1, ExecuteLine
<1> QED BY <1>1, <1>2 DEF FreeInv

(* Execute preserves SendInv.                                              *)
LEMMA ExecuteSendInv == ASSUME IInv, Execute PROVE SendInv'
<1>0. TypeOK /\ LockInv /\ SendInv BY DEF IInv
<1>1. UNCHANGED <<pc, sent, heard, issued, rpc_fd>> BY ExecuteFacts
<1>2. ASSUME NEW t \in Threads, pc[t] = "send"
      PROVE  Line(issued, sent[t])'
  <2>1. /\ rpc_fd \in Calls /\ Line(issued, sent[t])
        /\ sent[t] < Parts[issued] /\ sent[t] \in Nat
    BY <1>0, <1>2 DEF TypeOK, LockInv, SendInv
  <2>2. PICK n : n = sent[t] OBVIOUS
  <2>3. Line(issued, n) BY <2>1, <2>2
  <2>4. Line(issued, n)' \/ n = Parts[issued]
    <3>1. rpc_fd \in Calls BY <2>1
    <3> QED BY <2>3, <3>1, ExecuteLine, Zenon
  <2>5. n # Parts[issued] BY <2>1, <2>2
  <2> QED BY <1>1, <2>2, <2>4, <2>5
<1> QED BY <1>0, <1>1, <1>2 DEF SendInv

(* Execute preserves ReceiveInv.                                           *)
LEMMA ExecuteReceiveInv == ASSUME IInv, Execute PROVE ReceiveInv'
<1>0. TypeOK /\ LockInv /\ NameInv /\ HostInv /\ ReceiveInv BY DEF IInv
<1>1. /\ UNCHANGED <<pc, heard, issued, rpc_fd, reply, request, command, serving, told, shut>>
      /\ phase = "read" /\ phase' = "reply" /\ told = 0 /\ serving \in Calls /\ request[serving] = <<>>
      /\ Len(command) \in Nat \ {0}
  BY ExecuteFacts
<1>2. ASSUME NEW t \in Threads, pc[t] = "receive"
      PROVE  /\ Len(heard[t]) + Len(reply[rpc_fd]) = 0
             /\ \/ Line(issued, Parts[issued])'
                \/ Effect(issued)' /\ Answering(issued, 0)'
  <2>1. rpc_fd \in Calls BY <1>0, <1>2 DEF TypeOK, LockInv
  <2>2. rpc_fd \notin shut BY <1>0, <1>1, <2>1, CallsNat, Open
  <2>3. ~ (phase = "read" /\ command = <<>>) BY <1>1
  <2>4. Len(heard[t]) + Len(reply[rpc_fd]) = 0 /\ Line(issued, Parts[issued])
    BY <1>0, <1>1, <1>2, <2>2, <2>3 DEF ReceiveInv, Awaiting, Answering, Answered
  <2>5. PICK n : n = Parts[issued] OBVIOUS
  <2>6. \/ Line(issued, n)'
        \/ serving = rpc_fd /\ Head(command).call = issued /\ Effect(issued)'
    BY <2>1, <2>4, <2>5, ExecuteLine
  <2>7. CASE Line(issued, n)' BY <1>1, <2>4, <2>5, <2>7
  <2>8. CASE serving = rpc_fd /\ Head(command).call = issued /\ Effect(issued)'
    <3>1. Answering(issued, 0)' BY <1>1, <2>8 DEF Answering
    <3> QED BY <2>4, <2>8, <3>1
  <2> QED BY <2>6, <2>7, <2>8
<1>3. ASSUME NEW t \in Threads, pc'[t] = "receive"
      PROVE  LET n == Len(heard[t]) + Len(reply[rpc_fd])
             IN  /\ n <= Replies[issued]
                 /\ \A k \in 1..Len(heard[t]) : heard[t][k] = PartOf(issued, k)
                 /\ \A k \in 1..Len(reply[rpc_fd]) :
                      reply[rpc_fd][k] = PartOf(issued, Len(heard[t]) + k)
  BY <1>0, <1>1, <1>3 DEF ReceiveInv, Awaiting
<1>4. ASSUME NEW t \in Threads, pc'[t] = "receive"
      PROVE  /\ Len(heard'[t]) + Len(reply'[rpc_fd']) = 0
             /\ \/ Line(issued, Parts[issued])'
                \/ Effect(issued)' /\ Answering(issued, Len(heard[t]) + Len(reply[rpc_fd]))'
  <2>1. Len(heard'[t]) + Len(reply'[rpc_fd']) = 0 BY <1>1, <1>2, <1>4
  <2> QED BY <1>1, <1>2, <1>4, <2>1 DEF Answering
<1>5. SUFFICES ASSUME NEW t \in Threads, pc'[t] = "receive"
      PROVE  LET n == Len(heard'[t]) + Len(reply'[rpc_fd'])
             IN  /\ n <= Replies[issued']
                 /\ \A k \in 1..Len(heard'[t]) : heard'[t][k] = PartOf(issued', k)
                 /\ \A k \in 1..Len(reply'[rpc_fd']) :
                      reply'[rpc_fd'][k] = PartOf(issued', Len(heard'[t]) + k)
                 /\ n > 0 => Effect(issued)'
                 /\ \/ n = 0 /\ Line(issued, Parts[issued])'
                    \/ Effect(issued)' /\ Answering(issued, Len(heard[t]) + Len(reply[rpc_fd]))'
  BY DEF ReceiveInv, Awaiting
<1>6. UNCHANGED <<heard, issued, reply, rpc_fd>> BY <1>1
<1>7. /\ \A k \in 1..Len(heard'[t]) : heard'[t][k] = PartOf(issued', k)
      /\ \A k \in 1..Len(reply'[rpc_fd']) :
           reply'[rpc_fd'][k] = PartOf(issued', Len(heard'[t]) + k)
      /\ Len(heard'[t]) + Len(reply'[rpc_fd']) <= Replies[issued']
  BY <1>3, <1>5, <1>6
<1>8. /\ Len(heard'[t]) + Len(reply'[rpc_fd']) = 0
      /\ \/ Line(issued, Parts[issued])'
         \/ Effect(issued)' /\ Answering(issued, Len(heard[t]) + Len(reply[rpc_fd]))'
  BY <1>4, <1>5
<1>9. ~ (Len(heard'[t]) + Len(reply'[rpc_fd']) > 0)
  <2>1. Len(heard'[t]) + Len(reply'[rpc_fd']) = 0 BY <1>8
  <2>2. ~ (0 > 0) OBVIOUS
  <2> QED BY <2>1, <2>2
<1> QED BY <1>7, <1>8, <1>9, Zenon

(* What is executed is the whole request of one call.                      *)
LEMMA ExecuteCommandsAreWhole == ASSUME IInv, Execute PROVE CommandsAreWhole'
<1> DEFINE i == Head(command).call
           e == [command |-> RequestOf(i), context |-> serving]
<1>0. TypeOK /\ CommandsAreWhole BY DEF IInv
<1>1. executed' = Append(executed, e) /\ i \in Calls BY ExecuteFacts
<1>2. executed \in Seq([command : Seq(Part), context : Calls])
      /\ executed' \in Seq([command : Seq(Part), context : Calls])
  BY <1>0, ExecuteTypeOK DEF TypeOK
<1>3. Len(executed') = Len(executed) + 1 /\ Len(executed) \in Nat
      /\ executed'[Len(executed) + 1] = e
      /\ \A k \in 1..Len(executed) : executed'[k] = executed[k]
  BY <1>1, <1>2
<1>4. e.command = RequestOf(e.command[1].call)
  <2>1. 1 \in 1..Parts[i] BY <1>1, PartsNat
  <2>2. RequestOf(i)[1].call = i BY <2>1 DEF RequestOf, PartOf
  <2> QED BY <2>2
<1> HIDE DEF e
<1>5. ASSUME NEW k \in 1..Len(executed')
      PROVE  executed'[k].command = RequestOf(executed'[k].command[1].call)
  <2>1. CASE k \in 1..Len(executed) BY <1>0, <1>3, <2>1 DEF CommandsAreWhole
  <2>2. CASE k = Len(executed) + 1 BY <1>3, <1>4, <2>2
  <2> QED BY <1>3, <2>1, <2>2
<1> QED BY <1>5 DEF CommandsAreWhole, RequestOf

(* Execute preserves the invariant.                                        *)
LEMMA ExecuteStep == ASSUME IInv, Execute PROVE IInv'
<1>0. /\ TypeOK /\ LockInv /\ NameInv /\ HostInv /\ CommandInv /\ StreamInv
      /\ FreeInv /\ SendInv /\ ReceiveInv
      /\ CommandsAreWhole /\ ReplyMatchesRequest
  BY DEF IInv
<1>1. TypeOK' BY ExecuteTypeOK
<1>2. LockInv' BY <1>0 DEF LockInv, Holding, Execute, guest
<1>3. NameInv' BY <1>0 DEF NameInv, Used, Execute, guest
<1>4. HostInv' BY ExecuteHostInv
<1>5. CommandInv' BY <1>0 DEF CommandInv, Execute, guest
<1>6. StreamInv' BY ExecuteStreamInv
<1>7. FreeInv' BY ExecuteFreeInv
<1>8. SendInv' BY ExecuteSendInv
<1>9. ReceiveInv' BY ExecuteReceiveInv
<1>10. CommandsAreWhole' BY ExecuteCommandsAreWhole
<1>11. ReplyMatchesRequest' BY <1>0 DEF ReplyMatchesRequest, Execute, guest
<1> QED BY <1>1, <1>2, <1>3, <1>4, <1>5, <1>6, <1>7, <1>8, <1>9, <1>10, <1>11 DEF IInv

(* The host sends one more part of the reply to the command it executed.   *)
LEMMA AnswerFacts ==
  ASSUME IInv, Answer
  PROVE  LET i == Head(command).call
         IN  /\ serving \in Calls /\ serving \notin shut /\ phase = "reply"
             /\ i \in Calls /\ PartOf(i, told + 1) \in Part
             /\ told \in Nat /\ told < Replies[i] /\ told' = told + 1 /\ Replies[i] \in Nat
             /\ UNCHANGED <<pc, lock, rpc_fd, sent, heard, issued, request, backlog, serving, phase,
                            command, shut, executed>>
             /\ serving # rpc_fd => reply' = reply
             /\ serving = rpc_fd => reply'[rpc_fd] = Append(reply[rpc_fd], PartOf(i, told + 1))
<1> DEFINE i == Head(command).call
<1>0. TypeOK /\ HostInv /\ NameInv BY DEF IInv
<1>1. phase = "reply" /\ serving \in Calls /\ serving \notin shut
  BY <1>0, Open DEF HostInv, Answer
<1>2. command \in Seq(Part) /\ command # <<>> BY <1>0, <1>1 DEF TypeOK, HostInv, Whole
<1>3. Head(command) \in Part BY <1>2, TailFacts
<1>4. i \in Calls BY <1>3 DEF Part
<1>5. told \in Nat /\ told < Replies[i] /\ told' = told + 1 BY <1>0 DEF TypeOK, Answer
<1>6. PartOf(i, told + 1) \in Part BY <1>4, <1>5 DEF Part, PartOf
<1>7. UNCHANGED <<pc, lock, rpc_fd, sent, heard, issued, request, backlog, serving, phase,
                  command, shut, executed>>
  BY DEF Answer, guest
<1>8. serving # rpc_fd => reply' = reply BY DEF Answer
<1>9. serving = rpc_fd => reply'[rpc_fd] = Append(reply[rpc_fd], PartOf(i, told + 1))
  BY <1>0, <1>1 DEF Answer, TypeOK
<1>10. Replies[i] \in Nat BY <1>4, PartsNat
<1> QED BY <1>1, <1>4, <1>5, <1>6, <1>7, <1>8, <1>9, <1>10

(* Answer preserves TypeOK.                                                *)
LEMMA AnswerTypeOK == ASSUME IInv, Answer PROVE TypeOK'
<1>0. TypeOK BY DEF IInv
<1>1. /\ serving \in Calls /\ PartOf(Head(command).call, told + 1) \in Part
      /\ told' \in Nat
  BY AnswerFacts
<1>2. reply[serving] \in Seq(Part) BY <1>0, <1>1 DEF TypeOK
<1>3. Append(reply[serving], PartOf(Head(command).call, told + 1)) \in Seq(Part)
  BY <1>1, <1>2, AppendFacts
<1>4. reply' \in [Calls -> Seq(Part)] BY <1>0, <1>3 DEF Answer, TypeOK
<1> QED BY <1>0, <1>1, <1>4 DEF Answer, TypeOK, guest

(* Answer preserves HostInv.                                               *)
LEMMA AnswerHostInv == ASSUME IInv, Answer PROVE HostInv'
<1>0. TypeOK /\ HostInv BY DEF IInv
<1>1. /\ told \in Nat /\ told < Replies[Head(command).call] /\ told' = told + 1
      /\ Replies[Head(command).call] \in Nat /\ phase = "reply"
      /\ UNCHANGED <<rpc_fd, request, backlog, serving, phase, command, shut>>
  BY AnswerFacts
<1>2. told' <= Replies[Head(command').call] BY <1>1
<1>3. Whole(command)' BY <1>0, <1>1 DEF HostInv, Whole
<1> QED BY <1>0, <1>1, <1>2, <1>3 DEF HostInv

(* While a request is being sent nothing is answered on its connection.    *)
LEMMA AnswerLine ==
  ASSUME IInv, Answer, rpc_fd \in Calls, NEW n, Line(issued, n)
  PROVE  serving # rpc_fd /\ Line(issued, n)'
<1>1. /\ serving \in Calls /\ serving \notin shut /\ phase = "reply"
      /\ told \in Nat /\ told < Replies[Head(command).call] /\ Replies[Head(command).call] \in Nat
      /\ UNCHANGED <<rpc_fd, issued, request, serving, phase, command, shut>>
      /\ serving # rpc_fd => reply' = reply
  BY AnswerFacts
<1>2. serving # rpc_fd BY <1>1 DEF Line
<1> QED BY <1>1, <1>2 DEF Line, Begun

(* Answer preserves SendInv.                                               *)
LEMMA AnswerSendInv == ASSUME IInv, Answer PROVE SendInv'
<1>0. TypeOK /\ LockInv /\ SendInv BY DEF IInv
<1>1. UNCHANGED <<pc, sent, heard, issued, rpc_fd>> BY AnswerFacts
<1>2. ASSUME NEW t \in Threads, pc[t] = "send"
      PROVE  Line(issued, sent[t])'
  <2>1. rpc_fd \in Calls /\ Line(issued, sent[t]) BY <1>0, <1>2 DEF TypeOK, LockInv, SendInv
  <2>2. PICK n : n = sent[t] OBVIOUS
  <2>3. Line(issued, n)' BY <2>1, <2>2, AnswerLine
  <2> QED BY <1>1, <2>2, <2>3
<1> QED BY <1>0, <1>1, <1>2 DEF SendInv

(* Answer preserves ReceiveInv.                                            *)
LEMMA AnswerReceiveInv == ASSUME IInv, Answer PROVE ReceiveInv'
<1>0. TypeOK /\ LockInv /\ NameInv /\ HostInv /\ ReceiveInv BY DEF IInv
<1>1. /\ UNCHANGED <<pc, heard, issued, rpc_fd, request, command, serving, phase, shut, executed>>
      /\ serving \in Calls /\ phase = "reply" /\ told \in Nat /\ told' = told + 1
      /\ told < Replies[Head(command).call] /\ Replies[Head(command).call] \in Nat
  BY AnswerFacts
<1>2. SUFFICES ASSUME NEW t \in Threads, pc[t] = "receive"
      PROVE  LET n == Len(heard[t]) + Len(reply'[rpc_fd])
             IN  /\ n <= Replies[issued]
                 /\ \A k \in 1..Len(heard[t]) : heard[t][k] = PartOf(issued, k)
                 /\ \A k \in 1..Len(reply'[rpc_fd]) :
                      reply'[rpc_fd][k] = PartOf(issued, Len(heard[t]) + k)
                 /\ n > 0 => Effect(issued)
                 /\ \/ n = 0 /\ Line(issued, Parts[issued])'
                    \/ /\ Effect(issued)
                       /\ Answering(issued, Len(heard[t]) + Len(reply[rpc_fd]))'
                    \/ rpc_fd \in shut
  BY <1>1 DEF ReceiveInv, Awaiting, Effect
<1> DEFINE n == Len(heard[t]) + Len(reply[rpc_fd])
<1>3. /\ n <= Replies[issued]
      /\ \A k \in 1..Len(heard[t]) : heard[t][k] = PartOf(issued, k)
      /\ \A k \in 1..Len(reply[rpc_fd]) : reply[rpc_fd][k] = PartOf(issued, Len(heard[t]) + k)
      /\ n > 0 => Effect(issued)
      /\ \/ n = 0 /\ Line(issued, Parts[issued])
         \/ Effect(issued) /\ Answering(issued, n)
         \/ Answered(issued, n)
         \/ rpc_fd \in shut
  BY <1>0, <1>2 DEF ReceiveInv, Awaiting
<1>4. rpc_fd \in Calls BY <1>0, <1>2 DEF TypeOK, LockInv
<1>5. rpc_fd \notin shut BY <1>0, <1>1, <1>4, CallsNat, Open
<1>6. CASE n = 0 /\ Line(issued, Parts[issued])
  <2>1. PICK m : m = Parts[issued] OBVIOUS
  <2>2. serving # rpc_fd /\ Line(issued, m)' BY <1>4, <1>6, <2>1, AnswerLine
  <2>3. Line(issued, Parts[issued])' BY <1>1, <2>1, <2>2
  <2>4. reply' = reply BY <2>2, AnswerFacts
  <2> QED BY <1>3, <1>6, <2>3, <2>4
<1>7. CASE Effect(issued) /\ Answering(issued, n)
  <2>1. /\ serving = rpc_fd /\ Head(command).call = issued
        /\ request[rpc_fd] = <<>> /\ n = told
    BY <1>7 DEF Answering
  <2>2. /\ reply'[rpc_fd] = Append(reply[rpc_fd], PartOf(issued, told + 1))
        /\ PartOf(issued, told + 1) \in Part
    BY <2>1, AnswerFacts
  <2>3. reply[rpc_fd] \in Seq(Part) /\ heard[t] \in Seq(Part) BY <1>0, <1>4 DEF TypeOK
  <2>4. /\ Len(reply'[rpc_fd]) = Len(reply[rpc_fd]) + 1
        /\ \A k \in 1..Len(reply[rpc_fd]) : reply'[rpc_fd][k] = reply[rpc_fd][k]
        /\ reply'[rpc_fd][Len(reply[rpc_fd]) + 1] = PartOf(issued, told + 1)
        /\ \A k \in 1..Len(reply'[rpc_fd]) : k \in 1..Len(reply[rpc_fd]) \/ k = Len(reply[rpc_fd]) + 1
    BY <2>2, <2>3, AppendFacts
  <2>5. Len(reply[rpc_fd]) \in Nat /\ Len(heard[t]) \in Nat BY <2>3
  <2>6. Len(heard[t]) + Len(reply[rpc_fd]) = told BY <2>1
  <2>7. Len(heard[t]) + (Len(reply[rpc_fd]) + 1) = told + 1
    <3>1. \A a, b \in Nat : a + (b + 1) = (a + b) + 1 OBVIOUS
    <3>2. Len(heard[t]) + (Len(reply[rpc_fd]) + 1) = (Len(heard[t]) + Len(reply[rpc_fd])) + 1
      BY <2>5, <3>1
    <3> QED BY <2>6, <3>2
  <2>8. \A k \in 1..Len(reply'[rpc_fd]) : reply'[rpc_fd][k] = PartOf(issued, Len(heard[t]) + k)
    BY <1>3, <2>4, <2>7
  <2>10. told + 1 <= Replies[issued] BY <1>1, <2>1
  <2>11. Len(heard[t]) + Len(reply'[rpc_fd]) = told + 1 BY <2>4, <2>7
  <2>12. Answering(issued, Len(heard[t]) + Len(reply[rpc_fd]))'
    BY <1>1, <2>1, <2>11 DEF Answering
  <2> QED BY <1>3, <1>7, <2>8, <2>10, <2>11, <2>12
<1>8. CASE Answered(issued, n) BY <1>1, <1>8 DEF Answered
<1> QED BY <1>3, <1>5, <1>6, <1>7, <1>8

(* Answer preserves the invariant.                                         *)
LEMMA AnswerStep == ASSUME IInv, Answer PROVE IInv'
<1>0. /\ TypeOK /\ LockInv /\ NameInv /\ HostInv /\ CommandInv /\ StreamInv
      /\ FreeInv /\ SendInv /\ ReceiveInv
      /\ CommandsAreWhole /\ ReplyMatchesRequest
  BY DEF IInv
<1>1. TypeOK' BY AnswerTypeOK
<1>2. LockInv' BY <1>0 DEF LockInv, Holding, Answer, guest
<1>3. NameInv' BY <1>0 DEF NameInv, Used, Answer, guest
<1>4. HostInv' BY AnswerHostInv
<1>5. CommandInv' BY <1>0 DEF CommandInv, Answer, guest
<1>6. StreamInv' BY <1>0 DEF StreamInv, Begun, Answer, guest
<1>7. FreeInv'
  BY <1>0, PartsNat, CallsNat, ThreadsAssumption, BoundsAssumption
  DEF FreeInv, TypeOK, LockInv, HostInv, NameInv, CommandInv, StreamInv, SendInv,
      ReceiveInv, Awaiting, Line, Begun, Holding, Answer, guest
<1>8. SendInv' BY AnswerSendInv
<1>9. ReceiveInv' BY AnswerReceiveInv
<1>10. CommandsAreWhole' BY <1>0 DEF CommandsAreWhole, Answer, guest
<1>11. ReplyMatchesRequest' BY <1>0 DEF ReplyMatchesRequest, Answer, guest
<1> QED BY <1>1, <1>2, <1>3, <1>4, <1>5, <1>6, <1>7, <1>8, <1>9, <1>10, <1>11 DEF IInv

(* NextCommand preserves the invariant.                                    *)
LEMMA NextCommandStep == ASSUME IInv, NextCommand PROVE IInv'
<1>0. /\ TypeOK /\ LockInv /\ NameInv /\ HostInv /\ CommandInv /\ StreamInv
      /\ FreeInv /\ SendInv /\ ReceiveInv
      /\ CommandsAreWhole /\ ReplyMatchesRequest
  BY DEF IInv
<1>1. TypeOK' BY <1>0 DEF TypeOK, NextCommand, guest
<1>2. LockInv' BY <1>0 DEF LockInv, Holding, NextCommand, guest
<1>3. NameInv' BY <1>0 DEF NameInv, Used, NextCommand, guest
<1>4. HostInv' BY <1>0 DEF HostInv, NextCommand, guest
<1>5. CommandInv' BY <1>0 DEF CommandInv, NextCommand, guest
<1>6. StreamInv' BY <1>0 DEF StreamInv, Begun, NextCommand, guest
<1>7. FreeInv' BY <1>0 DEF FreeInv, Line, Begun, Holding, NextCommand, guest
<1>8. SendInv' BY <1>0 DEF SendInv, Line, Begun, Holding, NextCommand, guest
<1>9. ReceiveInv'
  BY <1>0
  DEF ReceiveInv, Awaiting, Line, Begun, Holding, Effect, Answering, Answered, Whole,
      NextCommand, guest
<1>10. CommandsAreWhole' BY <1>0 DEF CommandsAreWhole, NextCommand, guest
<1>11. ReplyMatchesRequest' BY <1>0 DEF ReplyMatchesRequest, NextCommand, guest
<1> QED BY <1>1, <1>2, <1>3, <1>4, <1>5, <1>6, <1>7, <1>8, <1>9, <1>10, <1>11 DEF IInv

(* The connection dropped is older than all that wait.                     *)
LEMMA HangupNameInv ==
  ASSUME IInv, phase \in {"read", "reply"}, Hangup PROVE NameInv'
<1>0. TypeOK /\ HostInv /\ NameInv BY DEF IInv
<1>1. serving \in Calls BY <1>0 DEF TypeOK, HostInv
<1>2. \A c \in Calls : request'[c] # <<>> => request[c] # <<>> BY <1>0, <1>1 DEF Hangup, TypeOK
<1>3. \A c \in Calls : Used(c)' => Used(c)
  BY <1>1, <1>2, CallsNat DEF Used, Hangup, guest
<1>4. \A c \in Calls : Used(c)' =>
       /\ c <= issued'
       /\ \A u \in Threads : pc'[u] = "connect" => c < issued'
       /\ rpc_fd' # Closed => c <= rpc_fd'
  BY <1>0, <1>3 DEF NameInv, Hangup, guest
<1>5. serving' = Closed /\ shut' = shut \cup {serving} /\ backlog' = backlog BY DEF Hangup
<1>6. \A k \in 1..Len(backlog) : backlog[k] \in Calls BY <1>0 DEF TypeOK
<1>7. \A k \in 1..Len(backlog) : Closed < backlog[k] BY <1>6, CallsNat, BoundsAssumption DEF Calls
<1> QED BY <1>0, <1>4, <1>5, <1>7 DEF NameInv

(* The host's variables are at rest again.                                 *)
LEMMA HangupTypeOK ==
  ASSUME IInv, phase \in {"read", "reply"}, Hangup PROVE TypeOK'
<1>0. TypeOK /\ HostInv BY DEF IInv
<1>1. serving \in Calls BY <1>0 DEF TypeOK, HostInv
<1>2. <<>> \in Seq(Part) OBVIOUS
<1>3. request' \in [Calls -> Seq(Part)] BY <1>0, <1>2 DEF TypeOK, Hangup
<1>4. /\ shut' \subseteq Calls /\ serving' = Closed /\ phase' = "accept"
      /\ command' \in Seq(Part) /\ told' \in Nat
  BY <1>0, <1>1, <1>2 DEF TypeOK, Hangup
<1>5. UNCHANGED <<guest, reply, backlog, issued, executed, owed>> BY DEF Hangup
<1> QED BY <1>0, <1>3, <1>4, <1>5 DEF TypeOK, guest

(* A call waiting for its reply on the connection dropped can only fail.   *)
LEMMA HangupReceiveInv ==
  ASSUME IInv, phase \in {"read", "reply"}, Hangup PROVE ReceiveInv'
<1>0. TypeOK /\ LockInv /\ HostInv /\ ReceiveInv BY DEF IInv
<1>1. /\ UNCHANGED <<pc, heard, reply, rpc_fd, issued, executed>>
      /\ shut' = shut \cup {serving} /\ phase' = "accept"
  BY DEF Hangup, guest
<1>2. serving \in Calls BY <1>0 DEF HostInv, TypeOK
<1>3. ASSUME NEW t \in Threads, pc[t] = "receive"
      PROVE  \/ Len(heard[t]) + Len(reply[rpc_fd]) = 0 /\ Line(issued, Parts[issued])'
             \/ rpc_fd \in shut'
  <2>1. rpc_fd \in Calls BY <1>0, <1>3 DEF LockInv, TypeOK
  <2>2. CASE serving = rpc_fd BY <1>1, <2>2
  <2>3. CASE serving # rpc_fd
    <3>1. request'[rpc_fd] = request[rpc_fd] BY <1>0, <1>2, <2>1, <2>3 DEF Hangup, TypeOK
    <3>2. \/ Len(heard[t]) + Len(reply[rpc_fd]) = 0 /\ Line(issued, Parts[issued])
          \/ rpc_fd \in shut
      BY <1>0, <1>3, <2>3 DEF ReceiveInv, Awaiting, Answering, Answered
    <3>3. Begun(rpc_fd) = 0 /\ Begun(rpc_fd)' = 0 BY <1>1, <2>3 DEF Begun
    <3>4. Line(issued, Parts[issued]) => Line(issued, Parts[issued])'
      BY <1>1, <2>3, <3>1, <3>3 DEF Line
    <3> QED BY <1>1, <3>2, <3>4
  <2> QED BY <2>2, <2>3
<1> QED BY <1>0, <1>1, <1>3 DEF ReceiveInv, Awaiting, Effect

(* Closing the connection served preserves the invariant.                  *)
LEMMA HangupStep == ASSUME IInv, phase \in {"read", "reply"}, Hangup PROVE IInv'
<1>0. /\ TypeOK /\ LockInv /\ NameInv /\ HostInv /\ CommandInv /\ StreamInv
      /\ FreeInv /\ SendInv /\ ReceiveInv
      /\ CommandsAreWhole /\ ReplyMatchesRequest
  BY DEF IInv
<1>1. TypeOK' BY HangupTypeOK
<1>2. LockInv' BY <1>0 DEF LockInv, Holding, guest, Hangup
<1>3. NameInv' BY HangupNameInv
<1>4. HostInv' BY <1>0, CallsNat DEF HostInv, TypeOK, Whole, Used, guest, Hangup
<1>5. CommandInv' BY <1>0 DEF CommandInv, guest, Hangup
<1>6. StreamInv' BY <1>0, CallsNat DEF StreamInv, TypeOK, Begun, guest, Hangup
<1>7. FreeInv' BY <1>0, CallsNat DEF FreeInv, TypeOK, Line, Begun, Holding, guest, Hangup
<1>8. SendInv'
  BY <1>0, CallsNat, ThreadsAssumption
  DEF SendInv, TypeOK, LockInv, Holding, Line, Begun, guest, Hangup
<1>9. ReceiveInv' BY HangupReceiveInv
<1>10. CommandsAreWhole' BY <1>0 DEF CommandsAreWhole, guest, Hangup
<1>11. ReplyMatchesRequest' BY <1>0 DEF ReplyMatchesRequest, guest, Hangup
<1> QED BY <1>1, <1>2, <1>3, <1>4, <1>5, <1>6, <1>7, <1>8, <1>9, <1>10, <1>11 DEF IInv

-----------------------------------------------------------------------------
(* 4. The invariant and what follows from it.                              *)

(* Nothing has been called and nothing is connected.                       *)
LEMMA InitTypeOK == ASSUME Init PROVE TypeOK
<1>1. <<>> \in Seq(Part) /\ <<>> \in Seq(Calls)
      /\ <<>> \in Seq([command : Seq(Part), context : Calls])
  OBVIOUS
<1>2. /\ pc \in [Threads -> {"idle", "lock", "connect", "send", "receive", "take", "clear"}]
      /\ call \in [Threads -> Calls \cup {0}] /\ sent \in [Threads -> Nat]
      /\ result \in [Threads -> {"none", "ok", "failed"}] /\ taken \in [Threads -> BOOLEAN]
  BY DEF Init
<1>3. heard \in [Threads -> Seq(Part)] BY <1>1 DEF Init
<1>4. request \in [Calls -> Seq(Part)] /\ reply \in [Calls -> Seq(Part)] BY <1>1 DEF Init
<1>5. /\ lock \in Threads \cup {NoThread} /\ rpc_fd \in Calls \cup {Closed}
      /\ rpc_error \in BOOLEAN /\ owed \in BOOLEAN
      /\ serving \in Calls \cup {Closed} /\ phase \in {"accept", "read", "reply", "dead"}
      /\ told \in Nat /\ shut \subseteq Calls
  BY DEF Init
<1>6. /\ backlog \in Seq(Calls) /\ command \in Seq(Part)
      /\ executed \in Seq([command : Seq(Part), context : Calls])
  BY <1>1 DEF Init
<1>7. issued \in 0..MaxCalls BY BoundsAssumption DEF Init
<1> QED BY <1>2, <1>3, <1>4, <1>5, <1>6, <1>7 DEF TypeOK

(* The invariant holds at the start.                                      *)
LEMMA InitIInv == ASSUME Init PROVE IInv
<1>1. TypeOK BY InitTypeOK
<1>2. \A t \in Threads : pc[t] = "idle" /\ result[t] = "none" BY DEF Init
<1>3. LockInv BY <1>2, ThreadsAssumption DEF LockInv, Holding, Init
<1>4. backlog = <<>> /\ Len(backlog) = 0 /\ executed = <<>> /\ Len(executed) = 0
      /\ command = <<>> /\ Len(command) = 0
  BY DEF Init
<1>5. \A c \in Calls : request[c] = <<>> /\ reply[c] = <<>> /\ Len(request[c]) = 0 BY DEF Init
<1>6. \A c \in Calls : ~Used(c) BY <1>4, <1>5, CallsNat DEF Used, Init
<1>7. NameInv BY <1>4, <1>6 DEF NameInv, Init
<1>8. HostInv BY <1>4 DEF HostInv, Init
<1>9. CommandInv /\ CommandsAreWhole BY <1>4 DEF CommandInv, CommandsAreWhole
<1>10. StreamInv BY <1>5 DEF StreamInv
<1>11. FreeInv /\ SendInv /\ ReceiveInv BY <1>2 DEF FreeInv, SendInv, ReceiveInv, Init
<1>12. ReplyMatchesRequest BY <1>2 DEF ReplyMatchesRequest
<1> QED BY <1>1, <1>3, <1>7, <1>8, <1>9, <1>10, <1>11, <1>12 DEF IInv

(* Whatever a guest thread does preserves the invariant.                   *)
LEMMA GuestStepIInv == ASSUME IInv, NEW t \in Threads, GuestStep(t) PROVE IInv'
<1>1. CASE Enter(t) BY <1>1, EnterStep
<1>2. CASE Lock(t) BY <1>2, LockStep
<1>3. CASE Connect(t) BY <1>3, ConnectStep
<1>4. CASE Send(t) BY <1>4, SendStep
<1>5. CASE Receive(t) BY <1>5, ReceiveStep
<1>6. CASE Succeed(t) BY <1>6, SucceedStep
<1>7. CASE Fail(t) BY <1>7, FailStep
<1>8. CASE ErrorTest(t) BY <1>8, ErrorTestStep
<1>9. CASE ErrorTake(t) BY <1>9, ErrorTakeStep
<1>10. CASE ErrorClear(t) BY <1>10, ErrorClearStep
<1>11. CASE Reject(t) BY <1>11, RejectStep
<1> QED
  BY <1>1, <1>2, <1>3, <1>4, <1>5, <1>6, <1>7, <1>8, <1>9, <1>10, <1>11 DEF GuestStep

(* Whatever the host does preserves the invariant.                         *)
LEMMA HostStepIInv == ASSUME IInv, Serve \/ BridgeFails \/ HandlerFails PROVE IInv'
<1>1. CASE Accept BY <1>1, AcceptStep
<1>2. CASE ReadPart BY <1>2, ReadPartStep
<1>3. CASE Execute BY <1>3, ExecuteStep
<1>4. CASE Answer BY <1>4, AnswerStep
<1>5. CASE NextCommand BY <1>5, NextCommandStep
<1>6. CASE EndOfFile BY <1>6, HangupStep DEF EndOfFile, GuestGone
<1>7. CASE BridgeFails BY <1>7, BridgeFailsStep
<1>8. CASE HandlerFails BY <1>8, HangupStep DEF HandlerFails
<1> QED BY <1>1, <1>2, <1>3, <1>4, <1>5, <1>6, <1>7, <1>8 DEF Serve

(* A step that changes nothing preserves the invariant.                    *)
LEMMA StutterIInv == ASSUME IInv, UNCHANGED vars PROVE IInv'
<1>0. /\ TypeOK /\ LockInv /\ NameInv /\ HostInv /\ CommandInv /\ StreamInv
      /\ FreeInv /\ SendInv /\ ReceiveInv
      /\ CommandsAreWhole /\ ReplyMatchesRequest
  BY DEF IInv
<1> USE DEF vars, guest, host
<1>1. TypeOK' BY <1>0 DEF TypeOK
<1>2. LockInv' /\ NameInv' BY <1>0 DEF LockInv, Holding, NameInv, Used
<1>3. HostInv' /\ CommandInv' BY <1>0 DEF HostInv, Whole, CommandInv
<1>4. StreamInv' BY <1>0 DEF StreamInv, Begun
<1>5. FreeInv' BY <1>0 DEF FreeInv, Line, Begun
<1>6. SendInv' /\ ReceiveInv'
  <2>1. UNCHANGED <<rpc_fd, sent, heard, request, reply, host, issued, executed, pc>>
    OBVIOUS
  <2> QED BY <2>1, Aside
<1>7. CommandsAreWhole' BY <1>0 DEF CommandsAreWhole
<1>8. ReplyMatchesRequest' BY <1>0 DEF ReplyMatchesRequest
<1> QED BY <1>1, <1>2, <1>3, <1>4, <1>5, <1>6, <1>7, <1>8 DEF IInv

(* IInv is inductive.                                                      *)
LEMMA NextIInv == ASSUME IInv, [Next]_vars PROVE IInv'
<1>1. CASE \E t \in Threads : GuestStep(t) BY <1>1, GuestStepIInv
<1>2. CASE Serve \/ BridgeFails \/ HandlerFails BY <1>2, HostStepIInv
<1>3. CASE Quiescent BY <1>3, StutterIInv DEF Quiescent
<1>4. CASE UNCHANGED vars BY <1>4, StutterIInv
<1> QED BY <1>1, <1>2, <1>3, <1>4 DEF Next

(* The inductive invariant holds in every reachable state.                 *)
THEOREM Invariant == Spec => []IInv
<1>1. Init => IInv BY InitIInv
<1>2. IInv /\ [Next]_vars => IInv' BY NextIInv
<1> QED BY <1>1, <1>2, PTL DEF Spec

(* Every variable keeps its type.                                          *)
THEOREM TypeCorrect == Spec => []TypeOK
<1>1. IInv => TypeOK BY DEF IInv
<1> QED BY <1>1, Invariant, PTL

(* A call that reports success has read the reply to its own request, also *)
(* after earlier calls timed out and whatever other threads called.        *)
THEOREM RepliesMatch == Spec => []ReplyMatchesRequest
<1>1. IInv => ReplyMatchesRequest BY DEF IInv
<1> QED BY <1>1, Invariant, PTL

(* The host only executes whole requests of one call each.                 *)
THEOREM WholeCommands == Spec => []CommandsAreWhole
<1>1. IInv => CommandsAreWhole BY DEF IInv
<1> QED BY <1>1, Invariant, PTL

(* What a caller reads was sent after the host executed its command, in    *)
(* the GL context of its connection, with no other command in between.     *)
THEOREM Answers == Spec => []AnswerAfterEffect
<1>1. IInv => AnswerAfterEffect
  <2>1. SUFFICES ASSUME IInv, NEW t \in Threads, pc[t] = "receive", heard[t] # <<>>
                 PROVE  /\ executed # <<>>
                        /\ executed[Len(executed)] = [command |-> RequestOf(call[t]),
                                                      context |-> rpc_fd]
    BY DEF AnswerAfterEffect
  <2>2. TypeOK /\ LockInv /\ ReceiveInv BY <2>1 DEF IInv
  <2>3. call[t] = issued /\ rpc_fd \in Calls BY <2>1, <2>2 DEF LockInv, Holding, TypeOK
  <2>4. Len(heard[t]) + Len(reply[rpc_fd]) > 0
    <3>1. heard[t] \in Seq(Part) /\ reply[rpc_fd] \in Seq(Part) BY <2>2, <2>3 DEF TypeOK
    <3>2. Len(heard[t]) \in Nat \ {0} /\ Len(reply[rpc_fd]) \in Nat BY <2>1, <3>1, TailFacts
    <3>3. \A a \in Nat \ {0}, b \in Nat : a + b > 0 OBVIOUS
    <3> QED BY <3>2, <3>3
  <2>5. Effect(issued) BY <2>1, <2>2, <2>4 DEF ReceiveInv, Awaiting
  <2> QED BY <2>3, <2>5 DEF Effect
<1> QED BY <1>1, Invariant, PTL

(* Between calls the connection carries no half request and no unread      *)
(* reply.                                                                  *)
THEOREM CleanLine == Spec => []FreeLineIsClean
<1>1. IInv => FreeLineIsClean
  <2>1. SUFFICES ASSUME IInv, lock = NoThread, rpc_fd # Closed
                 PROVE  /\ reply[rpc_fd] = <<>>
                        /\ request[rpc_fd] = <<>>
                        /\ serving = rpc_fd =>
                             (phase = "reply" => told = Replies[Head(command).call])
    BY DEF FreeLineIsClean
  <2>2. TypeOK /\ NameInv /\ HostInv /\ FreeInv BY <2>1 DEF IInv
  <2>3. Line(issued, 0) /\ rpc_fd \in Calls BY <2>1, <2>2 DEF FreeInv, TypeOK
  <2>4. CASE rpc_fd \in shut
    <3>1. request[rpc_fd] = <<>> BY <2>2, <2>4 DEF HostInv
    <3>2. serving # rpc_fd BY <2>1, <2>2, <2>4, Open
    <3> QED BY <2>3, <3>1, <3>2 DEF Line
  <2>5. CASE rpc_fd \notin shut
    <3>1. Begun(rpc_fd) + Len(request[rpc_fd]) = 0 BY <2>3, <2>5 DEF Line
    <3>2. Begun(rpc_fd) \in Nat /\ Len(request[rpc_fd]) \in Nat /\ request[rpc_fd] \in Seq(Part)
      BY <2>2, <2>3 DEF Begun, TypeOK
    <3>3. request[rpc_fd] = <<>> BY <3>1, <3>2, EmptyFacts
    <3> QED BY <2>3, <2>5, <3>3 DEF Line
  <2> QED BY <2>4, <2>5
<1> QED BY <1>1, Invariant, PTL
=============================================================================
