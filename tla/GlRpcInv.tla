----------------------------- MODULE GlRpcInv -----------------------------
(***************************************************************************)
(* The inductive invariant behind the safety of GlRpc.  ReplyMatchesRequest *)
(* and its kind are about what calls get; what makes them hold is about    *)
(* what is on each connection at any moment: only bytes of one call, in    *)
(* order, and on the connection in use only bytes of the call that holds   *)
(* the lock.                                                               *)
(***************************************************************************)
EXTENDS GlRpc

Holding(t) == pc[t] \in {"connect", "send", "receive"}

(* The lock: its holder is the thread inside rpc, which runs the latest call. *)
LockInv ==
  \A t \in Threads :
     /\ Holding(t) <=> lock = t
     /\ Holding(t) => issued > 0 /\ call[t] = issued
     /\ pc[t] = "connect" => rpc_fd = Closed /\ sent[t] = 0 /\ heard[t] = <<>>
     /\ pc[t] \in {"send", "receive"} => rpc_fd # Closed
     /\ pc[t] \in {"lock", "connect", "send", "receive"} => result[t] = "none"

(* Names of connections: the host meets them in ascending order, the one   *)
(* in use is the newest, and a call that is connecting has not used its    *)
(* own.                                                                    *)
Used(c) ==
  \/ c = rpc_fd \/ c = serving \/ c \in shut
  \/ \E k \in 1..Len(backlog) : backlog[k] = c
  \/ request[c] # <<>> \/ reply[c] # <<>>

NameInv ==
  /\ \A c \in Calls : Used(c) =>
       /\ c <= issued
       /\ \A t \in Threads : pc[t] = "connect" => c < issued
       /\ rpc_fd # Closed => c <= rpc_fd
  /\ \A k, l \in 1..Len(backlog) : k < l => backlog[k] < backlog[l]
  /\ \A k \in 1..Len(backlog) :
       /\ serving < backlog[k]
       /\ \A c \in shut : c < backlog[k]
  /\ serving # Closed => \A c \in shut : c < serving

(* The host: its variables are at rest when it serves nobody, and a reply  *)
(* is only given to a whole command.                                       *)
HostInv ==
  /\ phase \in {"read", "reply"} <=> serving # Closed
  /\ serving = Closed => command = <<>>
  /\ phase # "reply" => told = 0
  /\ phase = "reply" => Whole(command) /\ told <= Replies[Head(command).call]
  /\ \A c \in shut : request[c] = <<>>
  /\ rpc_fd # Closed =>
       rpc_fd \in shut \/ rpc_fd = serving \/ \E k \in 1..Len(backlog) : backlog[k] = rpc_fd

(* What is being read: parts 1, 2, ... of one call, no more than it has. *)
CommandInv ==
  \A k \in 1..Len(command) :
     /\ command[k] = PartOf(Head(command).call, k)
     /\ Len(command) <= Parts[Head(command).call]

(* Parts of the next command already read from connection c. *)
Begun(c) == IF serving = c /\ phase = "read" THEN Len(command) ELSE 0

(* Each stream to the host continues that command, or starts one. *)
StreamInv ==
  \A c \in Calls : \A k \in 1..Len(request[c]) :
     /\ request[c][k] = PartOf(request[c][1].call, Begun(c) + k)
     /\ Begun(c) + Len(request[c]) <= Parts[request[c][1].call]
     /\ Begun(c) # 0 => request[c][1].call = Head(command).call

(* On the connection in use there is nothing but the first n parts of the  *)
(* request of call i, none of it executed yet.                             *)
Line(i, n) ==
  /\ reply[rpc_fd] = <<>>
  /\ rpc_fd \notin shut =>
       /\ Begun(rpc_fd) + Len(request[rpc_fd]) = n
       /\ request[rpc_fd] # <<>> => request[rpc_fd][1].call = i
       /\ Begun(rpc_fd) # 0 => Head(command).call = i
       /\ (serving = rpc_fd /\ phase = "reply") => told = Replies[Head(command).call]

(* Nobody holds the lock: the connection is clean. *)
FreeInv == (lock = NoThread /\ rpc_fd # Closed) => Line(issued, 0)

SendInv ==
  \A t \in Threads : pc[t] = "send" =>
     /\ sent[t] < Parts[issued]
     /\ heard[t] = <<>>
     /\ Line(issued, sent[t])

(* The host has executed call i on the connection in use and is answering, *)
(* or has answered, or has closed the connection on the way.               *)
Effect(i) ==
  /\ executed # <<>>
  /\ executed[Len(executed)] = [command |-> RequestOf(i), context |-> rpc_fd]

Answering(i, n) ==
  /\ serving = rpc_fd /\ phase = "reply"
  /\ Head(command).call = i
  /\ request[rpc_fd] = <<>>
  /\ n = told

Answered(i, n) ==
  /\ serving = rpc_fd /\ phase = "read"
  /\ command = <<>>
  /\ request[rpc_fd] = <<>>
  /\ n = Replies[i]

Awaiting(t) ==
  LET n == Len(heard[t]) + Len(reply[rpc_fd])
  IN  /\ n <= Replies[issued]
      /\ \A k \in 1..Len(heard[t]) : heard[t][k] = PartOf(issued, k)
      /\ \A k \in 1..Len(reply[rpc_fd]) :
           reply[rpc_fd][k] = PartOf(issued, Len(heard[t]) + k)
      /\ n > 0 => Effect(issued)
      /\ \/ n = 0 /\ Line(issued, Parts[issued])
         \/ Effect(issued) /\ Answering(issued, n)
         \/ Answered(issued, n)
         \/ rpc_fd \in shut

ReceiveInv == \A t \in Threads : pc[t] = "receive" => Awaiting(t)

IInv ==
  /\ TypeOK /\ LockInv /\ NameInv /\ HostInv /\ CommandInv /\ StreamInv
  /\ FreeInv /\ SendInv /\ ReceiveInv
  /\ CommandsAreWhole /\ ReplyMatchesRequest

-----------------------------------------------------------------------------
(* The order of execution, on top of IInv.  Calls are numbered as they get *)
(* the lock, and connections after the call that opened them, so a call on *)
(* one connection is older than every connection after it.                 *)
CallOf(k) == executed[k].command[1].call
LastExecuted == Len(executed)

(* Commands were executed on the connection that is served, or before on   *)
(* those that are closed.                                                  *)
ContextInv ==
  /\ \A k \in 1..LastExecuted :
       /\ executed[k].context = serving \/ executed[k].context \in shut
       /\ CallOf(k) \in Calls
  /\ \A k, l \in 1..LastExecuted : k < l => executed[k].context <= executed[l].context

(* Call i is or was on connection c. *)
On(c, i) ==
  \/ request[c] # <<>> /\ request[c][1].call = i
  \/ serving = c /\ command # <<>> /\ Head(command).call = i
  \/ \E k \in 1..LastExecuted : executed[k].context = c /\ CallOf(k) = i

SpanInv ==
  \A c, i \in Calls : On(c, i) =>
     /\ i <= issued
     /\ \A t \in Threads : pc[t] = "connect" => i < issued
     /\ \A d \in Calls : Used(d) /\ c < d => i < d

(* The call whose turn it is in context c. *)
Expected(c) ==
  IF executed # <<>> /\ executed[LastExecuted].context = c THEN CallOf(LastExecuted) + 1 ELSE c

(* It is the next on the connection, or the one being read.                *)
HostTurn ==
  /\ \A c \in Calls : (request[c] # <<>> /\ Begun(c) = 0) => request[c][1].call = Expected(c)
  /\ (phase = "read" /\ command # <<>>) => Head(command).call = Expected(serving)

(* On the connection in use it is the call that has the lock, or, when     *)
(* that has been executed, the one that will have it.                      *)
GuestTurn ==
  (rpc_fd # Closed /\ rpc_fd \notin shut) =>
     /\ lock = NoThread => Expected(rpc_fd) = issued + 1
     /\ \A t \in Threads : pc[t] = "send" => Expected(rpc_fd) = issued
     /\ \A t \in Threads :
          (pc[t] = "receive" /\ ~Effect(issued)) => Expected(rpc_fd) = issued

OrderInv ==
  /\ ContextInv /\ SpanInv /\ HostTurn /\ GuestTurn
  /\ ExecutedInCallOrder /\ ContextIsUnbroken
=============================================================================
