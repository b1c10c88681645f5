------------------------------- MODULE GlRpc -------------------------------
(***************************************************************************)
(* The graphics RPC between the HMI process in the guest and the renderer  *)
(* on the host:                                                            *)
(*                                                                         *)
(*   guest   guest/shim/src/gl_rpc.h (rpc, transfer), gl_rpc_request.h     *)
(*           (send_request) and the entry points of libGLESv2_bridge.c     *)
(*   host    runtime/graphics/gl_server.py (serve, Bridge)                 *)
(*                                                                         *)
(* Any guest thread may make a GL call.  It takes rpc_lock, connects when  *)
(* there is no connection, sends the request, reads the reply and releases *)
(* the lock.  Every error closes the connection.  The host serves one      *)
(* connection at a time, from its accept queue, and gives each a fresh GL  *)
(* context.                                                                *)
(*                                                                         *)
(* A TCP stream is a sequence of parts.  A part is whatever one send or    *)
(* recv happens to move; the request of call i is cut into Parts[i] of     *)
(* them and its reply into Replies[i].  A part remembers the call whose    *)
(* bytes it holds and its place among them, which neither side can see:    *)
(* both sides act only on how many parts they still expect.  A connection  *)
(* is named after the call that opened it.                                 *)
(***************************************************************************)
EXTENDS Integers, Sequences, FiniteSets

CONSTANTS Threads,      \* threads of the HMI process that call GL
          Getters,      \* those of them that call glGetError
          NoThread,     \* rpc_lock is free
          MaxCalls,     \* bound on the calls of a behaviour
          Backlog,      \* connections the host's kernel queues for accept
          Parts,        \* Parts[i]: parts of the request of call i
          Replies       \* Replies[i]: parts of its reply

Calls == 1..MaxCalls
Closed == 0             \* rpc_fd, serving: no connection

ASSUME ThreadsAssumption == NoThread \notin Threads /\ Getters \subseteq Threads
ASSUME BoundsAssumption == MaxCalls \in Nat /\ Backlog \in Nat
ASSUME PartsAssumption ==
  /\ Parts \in [Calls -> Nat \ {0}]
  /\ Replies \in [Calls -> Nat \ {0}]

VARIABLES
  (* the guest process *)
  pc,           \* pc[t]: where thread t is
  lock,         \* holder of rpc_lock
  rpc_fd,       \* the open connection
  rpc_error,    \* the error flag glGetError reports
  call,         \* call[t]: the number of t's latest call
  sent,         \* sent[t]: request parts it has sent
  heard,        \* heard[t]: the reply parts it has read
  result,       \* result[t]: how it ended
  taken,        \* taken[t]: e in glGetError
  (* the two directions of each connection *)
  request, reply,
  (* the host *)
  backlog,      \* connections not accepted yet
  serving,      \* the connection being served
  phase,        \* "accept", "read", "reply", or "dead" when the server has ended
  command,      \* the parts of the current command read so far
  told,         \* parts of the current reply sent
  shut,         \* connections the host has closed
  (* history *)
  issued,       \* calls that have taken the lock
  executed,     \* the commands executed: their parts and the GL context
  owed          \* a call has failed since glGetError last returned an error

guest == <<pc, lock, rpc_fd, rpc_error, call, sent, heard, result, taken>>
host == <<backlog, serving, phase, command, told, shut>>
vars == <<guest, request, reply, host, issued, executed, owed>>

Part == [call : Calls, part : Nat]
PartOf(i, k) == [call |-> i, part |-> k]
RequestOf(i) == [k \in 1..Parts[i] |-> PartOf(i, k)]
ReplyOf(i) == [k \in 1..Replies[i] |-> PartOf(i, k)]

Init ==
  /\ pc = [t \in Threads |-> "idle"]
  /\ lock = NoThread
  /\ rpc_fd = Closed
  /\ rpc_error = FALSE
  /\ call = [t \in Threads |-> 0]
  /\ sent = [t \in Threads |-> 0]
  /\ heard = [t \in Threads |-> <<>>]
  /\ result = [t \in Threads |-> "none"]
  /\ taken = [t \in Threads |-> FALSE]
  /\ request = [c \in Calls |-> <<>>]
  /\ reply = [c \in Calls |-> <<>>]
  /\ backlog = <<>>
  /\ serving = Closed
  /\ phase = "accept"
  /\ command = <<>>
  /\ told = 0
  /\ shut = {}
  /\ issued = 0
  /\ executed = <<>>
  /\ owed = FALSE

-----------------------------------------------------------------------------
(* The guest. *)

(* A GL entry point marshals its arguments and waits for rpc_lock.  The    *)
(* bound leaves every thread that waits a call.                            *)
Enter(t) ==
  /\ pc[t] = "idle"
  /\ issued + Cardinality({u \in Threads : pc[u] = "lock"}) < MaxCalls
  /\ pc' = [pc EXCEPT ![t] = "lock"]
  /\ result' = [result EXCEPT ![t] = "none"]
  /\ UNCHANGED <<lock, rpc_fd, rpc_error, call, sent, heard, taken,
                 request, reply, host, issued, executed, owed>>

Lock(t) ==
  /\ pc[t] = "lock"
  /\ lock = NoThread
  /\ issued < MaxCalls
  /\ lock' = t
  /\ issued' = issued + 1
  /\ call' = [call EXCEPT ![t] = issued + 1]
  /\ sent' = [sent EXCEPT ![t] = 0]
  /\ heard' = [heard EXCEPT ![t] = <<>>]
  /\ pc' = [pc EXCEPT ![t] = IF rpc_fd = Closed THEN "connect" ELSE "send"]
  /\ UNCHANGED <<rpc_fd, rpc_error, result, taken, request, reply, host, executed, owed>>

(* connect succeeds as soon as the host's kernel has queued the connection. *)
Connect(t) ==
  /\ pc[t] = "connect"
  /\ phase # "dead"
  /\ Len(backlog) < Backlog
  /\ rpc_fd' = call[t]
  /\ backlog' = Append(backlog, call[t])
  /\ pc' = [pc EXCEPT ![t] = "send"]
  /\ UNCHANGED <<lock, rpc_error, call, sent, heard, result, taken, request, reply,
                 serving, phase, command, told, shut, issued, executed, owed>>

(* One part of send_request.  What is sent to a closed socket is lost. *)
Send(t) ==
  /\ pc[t] = "send"
  /\ request' = IF rpc_fd \in shut THEN request
                ELSE [request EXCEPT ![rpc_fd] = Append(@, PartOf(call[t], sent[t] + 1))]
  /\ sent' = [sent EXCEPT ![t] = @ + 1]
  /\ pc' = [pc EXCEPT ![t] = IF sent[t] + 1 = Parts[call[t]] THEN "receive" ELSE "send"]
  /\ UNCHANGED <<lock, rpc_fd, rpc_error, call, heard, result, taken, reply, host,
                 issued, executed, owed>>

(* The reply's header, extra bytes and outputs, as many as the call expects. *)
Receive(t) ==
  /\ pc[t] = "receive"
  /\ Len(heard[t]) < Replies[call[t]]
  /\ reply[rpc_fd] # <<>>
  /\ heard' = [heard EXCEPT ![t] = Append(@, Head(reply[rpc_fd]))]
  /\ reply' = [reply EXCEPT ![rpc_fd] = Tail(@)]
  /\ UNCHANGED <<pc, lock, rpc_fd, rpc_error, call, sent, result, taken, request, host,
                 issued, executed, owed>>

(* Mutant: the outputs that follow the reply's header are left unread. *)
SucceedEarly(t) ==
  /\ pc[t] = "receive"
  /\ heard[t] # <<>>
  /\ lock' = NoThread
  /\ pc' = [pc EXCEPT ![t] = "idle"]
  /\ result' = [result EXCEPT ![t] = "ok"]
  /\ UNCHANGED <<rpc_fd, rpc_error, call, sent, heard, taken, request, reply, host,
                 issued, executed, owed>>

Succeed(t) ==
  /\ pc[t] = "receive"
  /\ Len(heard[t]) = Replies[call[t]]
  /\ lock' = NoThread
  /\ pc' = [pc EXCEPT ![t] = "idle"]
  /\ result' = [result EXCEPT ![t] = "ok"]
  /\ UNCHANGED <<rpc_fd, rpc_error, call, sent, heard, taken, request, reply, host,
                 issued, executed, owed>>

(* A thread that is connecting, sending or reading can fail at any point:  *)
(* no MIB_GL_HOST, a refused connection, 20 s without progress, a reset or *)
(* end of file, an argument above 64 MiB, an output longer than its        *)
(* buffer.  The connection is closed with whatever it still held.          *)
CanFail(t) ==
  \/ pc[t] \in {"connect", "send"}
  \/ pc[t] = "receive" /\ Len(heard[t]) < Replies[call[t]]

(* Mutants: the socket stays open, or is closed and not marked so; the     *)
(* early exit forgets the unlock.                                          *)
FailUnlock(t, held, fd) ==
  /\ CanFail(t)
  /\ reply' = IF rpc_fd \in {Closed, fd} THEN reply ELSE [reply EXCEPT ![rpc_fd] = <<>>]
  /\ rpc_fd' = fd
  /\ rpc_error' = TRUE
  /\ owed' = TRUE
  /\ lock' = held
  /\ pc' = [pc EXCEPT ![t] = "idle"]
  /\ result' = [result EXCEPT ![t] = "failed"]
  /\ UNCHANGED <<call, sent, heard, taken, request, host, issued, executed>>
FailKeepsSocket(t) == FailUnlock(t, NoThread, rpc_fd)
FailBadDescriptor(t) == FailUnlock(t, NoThread, -1)
FailKeepsLock(t) == FailUnlock(t, lock, Closed)

Fail(t) ==
  /\ CanFail(t)
  /\ reply' = IF rpc_fd = Closed THEN reply ELSE [reply EXCEPT ![rpc_fd] = <<>>]
  /\ rpc_fd' = Closed
  /\ rpc_error' = TRUE
  /\ owed' = TRUE
  /\ lock' = NoThread
  /\ pc' = [pc EXCEPT ![t] = "idle"]
  /\ result' = [result EXCEPT ![t] = "failed"]
  /\ UNCHANGED <<call, sent, heard, taken, request, host, issued, executed>>

(* The cases in which the system call reports an error without any timeout. *)
Broken(t) ==
  \/ pc[t] = "connect" /\ phase = "dead"
  \/ pc[t] = "receive" /\ rpc_fd \in shut /\ reply[rpc_fd] = <<>>

(* An entry point that gives up before rpc (an unsupported call, a client  *)
(* array, no memory) raises the flag without the lock.                     *)
Reject(t) ==
  /\ pc[t] = "idle"
  /\ rpc_error' = TRUE
  /\ owed' = TRUE
  /\ UNCHANGED <<pc, lock, rpc_fd, call, sent, heard, result, taken,
                 request, reply, host, issued, executed>>

(* glGetError first looks at rpc_error, outside the lock, and asks the host *)
(* (as an ordinary call) only when it is clear: the test, the copy and the  *)
(* reset are three accesses.                                               *)
ErrorTest(t) ==
  /\ t \in Getters
  /\ pc[t] = "idle"
  /\ rpc_error
  /\ pc' = [pc EXCEPT ![t] = "take"]
  /\ UNCHANGED <<lock, rpc_fd, rpc_error, call, sent, heard, result, taken,
                 request, reply, host, issued, executed, owed>>

(* Mutant: cleared before it is copied. *)
ErrorTakeSwapped(t) ==
  /\ pc[t] = "take"
  /\ rpc_error' = FALSE
  /\ pc' = [pc EXCEPT ![t] = "clear"]
  /\ UNCHANGED <<lock, rpc_fd, call, sent, heard, result, taken,
                 request, reply, host, issued, executed, owed>>

ErrorTake(t) ==
  /\ pc[t] = "take"
  /\ taken' = [taken EXCEPT ![t] = rpc_error]
  /\ pc' = [pc EXCEPT ![t] = "clear"]
  /\ UNCHANGED <<lock, rpc_fd, rpc_error, call, sent, heard, result,
                 request, reply, host, issued, executed, owed>>

ErrorClear(t) ==
  /\ pc[t] = "clear"
  /\ rpc_error' = FALSE
  /\ owed' = (owed /\ ~taken[t])
  /\ taken' = [taken EXCEPT ![t] = FALSE]
  /\ pc' = [pc EXCEPT ![t] = "idle"]
  /\ UNCHANGED <<lock, rpc_fd, call, sent, heard, result, request, reply, host,
                 issued, executed>>

-----------------------------------------------------------------------------
(* The host. *)

(* Mutant: the newest connection first. *)
AcceptNewest ==
  /\ phase = "accept"
  /\ backlog # <<>>
  /\ serving' = backlog[Len(backlog)]
  /\ backlog' = SubSeq(backlog, 1, Len(backlog) - 1)
  /\ phase' = "read"
  /\ UNCHANGED <<guest, request, reply, command, told, shut, issued, executed, owed>>

(* serve accepts the oldest connection and makes a Bridge, a GL context. *)
Accept ==
  /\ phase = "accept"
  /\ backlog # <<>>
  /\ serving' = Head(backlog)
  /\ backlog' = Tail(backlog)
  /\ phase' = "read"
  /\ UNCHANGED <<guest, request, reply, command, told, shut, issued, executed, owed>>

(* Bridge() is outside the try: when it raises, the server process ends and *)
(* every connection with it.                                               *)
BridgeFails ==
  /\ phase = "accept"
  /\ backlog # <<>>
  /\ phase' = "dead"
  /\ shut' = shut \cup {backlog[i] : i \in 1..Len(backlog)}
  /\ backlog' = <<>>
  /\ request' = [c \in Calls |-> <<>>]
  /\ UNCHANGED <<guest, reply, serving, command, told, issued, executed, owed>>

(* The header of what has been read says how many parts the command has. *)
Whole(parts) == parts # <<>> /\ Len(parts) = Parts[Head(parts).call]

ReadPart ==
  /\ phase = "read"
  /\ ~Whole(command)
  /\ request[serving] # <<>>
  /\ command' = Append(command, Head(request[serving]))
  /\ request' = [request EXCEPT ![serving] = Tail(@)]
  /\ UNCHANGED <<guest, reply, backlog, serving, phase, told, shut, issued, executed, owed>>

Execute ==
  /\ phase = "read"
  /\ Whole(command)
  /\ executed' = Append(executed, [command |-> command, context |-> serving])
  /\ phase' = "reply"
  /\ UNCHANGED <<guest, request, reply, backlog, serving, command, told, shut, issued, owed>>

(* sendall: what is sent after the guest has closed is lost. *)
Answer ==
  /\ phase = "reply"
  /\ told < Replies[Head(command).call]
  /\ told' = told + 1
  /\ reply' = IF serving # rpc_fd THEN reply
              ELSE [reply EXCEPT ![serving] = Append(@, PartOf(Head(command).call, told + 1))]
  /\ UNCHANGED <<guest, request, backlog, serving, phase, command, shut, issued, executed, owed>>

NextCommand ==
  /\ phase = "reply"
  /\ told = Replies[Head(command).call]
  /\ phase' = "read"
  /\ command' = <<>>
  /\ told' = 0
  /\ UNCHANGED <<guest, request, reply, backlog, serving, shut, issued, executed, owed>>

(* Mutant: the parts read for an unfinished command are kept. *)
HangupKeepsItems ==
  /\ shut' = shut \cup {serving}
  /\ request' = [request EXCEPT ![serving] = <<>>]
  /\ serving' = Closed
  /\ phase' = "accept"
  /\ told' = 0
  /\ UNCHANGED <<guest, reply, backlog, command, issued, executed, owed>>

(* The handler ends: the connection is closed and its GL context destroyed. *)
Hangup ==
  /\ shut' = shut \cup {serving}
  /\ request' = [request EXCEPT ![serving] = <<>>]
  /\ serving' = Closed
  /\ phase' = "accept"
  /\ command' = <<>>
  /\ told' = 0
  /\ UNCHANGED <<guest, reply, backlog, issued, executed, owed>>

(* The guest has closed and all it sent has been read. *)
GuestGone == phase = "read" /\ ~Whole(command) /\ request[serving] = <<>> /\ serving # rpc_fd

(* Mutant: recv's empty result is not taken for the end. *)
EndOfFileIgnored == GuestGone /\ UNCHANGED vars

EndOfFile == GuestGone /\ Hangup

(* An exception: 120 s without the rest of a command or without room for a *)
(* reply, a command the Bridge rejects, a connection reset by the guest.    *)
HandlerFails ==
  /\ phase \in {"read", "reply"}
  /\ command # <<>> \/ serving # rpc_fd
  /\ Hangup

-----------------------------------------------------------------------------
(* The bound is reached and everybody waits for the next call. *)
Quiescent ==
  /\ issued = MaxCalls
  /\ \A t \in Threads : pc[t] = "idle"
  /\ UNCHANGED vars

GuestStep(t) ==
  \/ Enter(t) \/ Lock(t) \/ Connect(t) \/ Send(t) \/ Receive(t) \/ Succeed(t) \/ Fail(t)
  \/ Reject(t) \/ ErrorTest(t) \/ ErrorTake(t) \/ ErrorClear(t)

Serve == Accept \/ ReadPart \/ Execute \/ Answer \/ NextCommand \/ EndOfFile

Next ==
  \/ \E t \in Threads : GuestStep(t)
  \/ Serve
  \/ BridgeFails
  \/ HandlerFails
  \/ Quiescent

(* Both programs keep running.  No timeout is assumed to fire: a call ends *)
(* because bytes arrive or because the other side has closed.  QNX hands a *)
(* released mutex to the thread that has waited longest, hence SF on Lock. *)
Fairness ==
  /\ WF_vars(Serve)
  /\ \A t \in Threads :
       /\ SF_vars(Lock(t))
       /\ WF_vars(Connect(t) \/ Send(t) \/ Receive(t) \/ Succeed(t))
       /\ WF_vars(Broken(t) /\ Fail(t))

Spec == Init /\ [][Next]_vars
FairSpec == Spec /\ Fairness

-----------------------------------------------------------------------------
(* Properties. *)

TypeOK ==
  /\ pc \in [Threads -> {"idle", "lock", "connect", "send", "receive", "take", "clear"}]
  /\ lock \in Threads \cup {NoThread}
  /\ rpc_fd \in Calls \cup {Closed}
  /\ rpc_error \in BOOLEAN
  /\ call \in [Threads -> Calls \cup {0}]
  /\ sent \in [Threads -> Nat]
  /\ heard \in [Threads -> Seq(Part)]
  /\ result \in [Threads -> {"none", "ok", "failed"}]
  /\ taken \in [Threads -> BOOLEAN]
  /\ request \in [Calls -> Seq(Part)]
  /\ reply \in [Calls -> Seq(Part)]
  /\ backlog \in Seq(Calls)
  /\ serving \in Calls \cup {Closed}
  /\ phase \in {"accept", "read", "reply", "dead"}
  /\ command \in Seq(Part)
  /\ told \in Nat
  /\ shut \subseteq Calls
  /\ issued \in 0..MaxCalls
  /\ executed \in Seq([command : Seq(Part), context : Calls])
  /\ owed \in BOOLEAN

(* A call that reports success has read exactly the reply to its own       *)
(* request: never bytes of the answer to an earlier call that gave up, nor *)
(* of another thread's (rpc closes the socket on every error, gl_rpc.h:57).*)
ReplyMatchesRequest ==
  \A t \in Threads : result[t] = "ok" => heard[t] = ReplyOf(call[t])

(* While a thread reads its reply, what it reads is the answer to the last  *)
(* command the host executed, in the context of its own connection.        *)
AnswerAfterEffect ==
  \A t \in Threads :
     (pc[t] = "receive" /\ heard[t] # <<>>) =>
        /\ executed # <<>>
        /\ executed[Len(executed)] = [command |-> RequestOf(call[t]), context |-> rpc_fd]

(* Every command the host executes is the whole request of one call, also  *)
(* when the guest gave up half-way or two threads drew at once.            *)
CommandsAreWhole ==
  \A k \in 1..Len(executed) :
     executed[k].command = RequestOf(executed[k].command[1].call)

(* The host executes commands in the order in which the threads got the    *)
(* lock, and none twice - those of failed calls it only gets to later, and *)
(* those queued on abandoned connections, included.                        *)
ExecutedInCallOrder ==
  \A k, l \in 1..Len(executed) :
     k < l => executed[k].command[1].call < executed[l].command[1].call

(* A GL context is never missing a command in the middle: the commands     *)
(* executed in it are those of consecutive calls from the one that opened  *)
(* the connection (a lost command ends the context, gl_server.py:158).     *)
ContextIsUnbroken ==
  \A k \in 1..Len(executed) :
     LET i == executed[k].command[1].call
         c == executed[k].context
     IN  i = c \/ (k > 1 /\ executed[k - 1].context = c
                          /\ executed[k - 1].command[1].call = i - 1)

(* Between calls nothing is left on the connection: no half request, no    *)
(* unread reply.  The next call may use it as if it were new.              *)
FreeLineIsClean ==
  (lock = NoThread /\ rpc_fd # Closed) =>
     /\ reply[rpc_fd] = <<>>
     /\ request[rpc_fd] = <<>>
     /\ serving = rpc_fd => (phase = "reply" => told = Replies[Head(command).call])

(* A failed call is not forgotten: until glGetError returns an error, the  *)
(* flag is up or a glGetError that saw it is about to return it.  (It takes *)
(* a single thread that calls glGetError: two can lose an error.)          *)
FailureIsReported ==
  owed => (rpc_error \/ \E t \in Getters : pc[t] = "clear" /\ taken[t])

(* Every GL call returns, even if no timeout ever fires: guest and host    *)
(* never wait for each other, and a call on a connection the host has      *)
(* dropped, or in the queue of a server that died, ends with an error.     *)
CallsReturn == \A t \in Threads : pc[t] = "lock" ~> pc[t] = "idle"

(* A connection the guest has given up, and its GL context, do not keep    *)
(* the only server from the next connection.                               *)
AbandonedContextEnds ==
  \A c \in Calls : (serving = c /\ rpc_fd # c) ~> (serving # c \/ phase = "dead")

(* The detailed RPC implements the abstract remote call. *)
Stage(t) ==
  CASE pc[t] \in {"idle", "take", "clear"} -> "idle"
    [] pc[t] = "lock" -> "asking"
    [] OTHER -> "calling"

Abstract == INSTANCE RemoteCall WITH
  stage <- [t \in Threads |-> Stage(t)],
  done <- [k \in 1..Len(executed) |-> executed[k].command[1].call]

ImplementsRemoteCall == Abstract!Spec
=============================================================================
