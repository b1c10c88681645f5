----------------------------- MODULE InputHub -----------------------------
(***************************************************************************)
(* The way of a control from the host into the HMI's input service:        *)
(* scripts/mib_input.py (class Hub) between the viewer's HTTP threads that *)
(* submit events and the thread guest/dsi/input.h starts in the guest,     *)
(* which connects, reads packets and hands them to the DSI dispatcher.     *)
(*                                                                         *)
(* The HTTP threads, the handler thread of each guest connection and the   *)
(* guest's input thread share hub.connected and hub.queue.  Only the test  *)
(* and set of connected at the start of a session is under hub.lock.       *)
(*                                                                         *)
(* Events are numbered in the order the queue took them; a button makes    *)
(* two packets, press and release, any other control one.  Validation of   *)
(* an event happens before anything here and changes nothing.              *)
(***************************************************************************)
EXTENDS Integers, Sequences, SequencesExt

CONSTANTS Submitters,   \* HTTP threads in submit
          Inputs,       \* input threads of the guest (start_input may run twice)
          Slots,        \* TCP connections at a time
          NoSlot,       \* an input thread without a connection
          QueueBound,   \* maxsize of the queue, 128 in the code
          MaxEvents,    \* bound on the events accepted
          Buttons       \* numbers of the events that are buttons

ASSUME SlotsAssumption == NoSlot \notin Slots
ASSUME BoundsAssumption == QueueBound \in Nat \ {0} /\ MaxEvents \in Nat

VARIABLES
  submit,       \* submit[s]: "idle", or "checked": connected was seen true
  connected,    \* hub.connected
  queue,        \* hub.queue, of event numbers
  accepted,     \* events queued so far
  sent,         \* hub.sent
  handler,      \* handler[c]: where the thread of connection c is
  packets,      \* packets[c]: those of the event it is sending
  wire,         \* wire[c]: packets on their way to the guest
  gone,         \* connections the guest has dropped
  fd,           \* fd[g]: the connection of input thread g
  delivered,    \* delivered[g]: packets g has handed to the DSI dispatcher
  broken        \* history: a connection has been lost
hub == <<connected, queue, accepted, sent>>
vars == <<submit, hub, handler, packets, wire, gone, fd, delivered, broken>>

Events == 1..MaxEvents
Packet == [event : Events, part : {"press", "release", "single"}]
(* Mutant: the release first. *)
PacketsSwapped(e) ==
  IF e \in Buttons
  THEN <<[event |-> e, part |-> "release"], [event |-> e, part |-> "press"]>>
  ELSE <<[event |-> e, part |-> "single"]>>

PacketsOf(e) ==
  IF e \in Buttons
  THEN <<[event |-> e, part |-> "press"], [event |-> e, part |-> "release"]>>
  ELSE <<[event |-> e, part |-> "single"]>>

Init ==
  /\ submit = [s \in Submitters |-> "idle"]
  /\ connected = FALSE
  /\ queue = <<>>
  /\ accepted = 0
  /\ sent = 0
  /\ handler = [c \in Slots |-> "none"]
  /\ packets = [c \in Slots |-> <<>>]
  /\ wire = [c \in Slots |-> <<>>]
  /\ gone = {}
  /\ fd = [g \in Inputs |-> NoSlot]
  /\ delivered = [g \in Inputs |-> <<>>]
  /\ broken = FALSE

-----------------------------------------------------------------------------
(* submit: the test of connected and put_nowait are two steps.  A caller   *)
(* that finds connected false, or the queue full, gets a ConnectionError.  *)
Check(s) ==
  /\ submit[s] = "idle"
  /\ connected
  /\ submit' = [submit EXCEPT ![s] = "checked"]
  /\ UNCHANGED <<hub, handler, packets, wire, gone, fd, delivered, broken>>

(* Mutant: one event more than the queue holds. *)
PutBeyond(s) ==
  /\ submit[s] = "checked"
  /\ accepted < MaxEvents
  /\ Len(queue) <= QueueBound
  /\ queue' = Append(queue, accepted + 1)
  /\ accepted' = accepted + 1
  /\ submit' = [submit EXCEPT ![s] = "idle"]
  /\ UNCHANGED <<connected, sent, handler, packets, wire, gone, fd, delivered, broken>>

Put(s) ==
  /\ submit[s] = "checked"
  /\ accepted < MaxEvents
  /\ Len(queue) < QueueBound
  /\ queue' = Append(queue, accepted + 1)
  /\ accepted' = accepted + 1
  /\ submit' = [submit EXCEPT ![s] = "idle"]
  /\ UNCHANGED <<connected, sent, handler, packets, wire, gone, fd, delivered, broken>>

Full(s) ==
  /\ submit[s] = "checked"
  /\ Len(queue) = QueueBound
  /\ submit' = [submit EXCEPT ![s] = "idle"]
  /\ UNCHANGED <<hub, handler, packets, wire, gone, fd, delivered, broken>>

-----------------------------------------------------------------------------
(* Guest.handle, one thread per connection. *)

(* The handler returns and the server closes the socket; the guest still   *)
(* reads what is in flight, then end of file.                              *)
Finished(c) == IF c \in gone THEN "none" ELSE "ended"

(* Mutant: the session does not look whether another is running. *)
BeginAnyway(c) ==
  /\ handler[c] = "new"
  /\ handler' = [handler EXCEPT ![c] = "serving"]
  /\ connected' = TRUE
  /\ UNCHANGED <<submit, queue, accepted, sent, packets, wire, gone, fd, delivered, broken>>

Begin(c) ==
  /\ handler[c] = "new"
  /\ ~connected
  /\ handler' = [handler EXCEPT ![c] = "serving"]
  /\ connected' = TRUE
  /\ UNCHANGED <<submit, queue, accepted, sent, packets, wire, gone, fd, delivered, broken>>

(* Mutant: a refused connection goes through the finally clause. *)
RefuseFinally(c) ==
  /\ handler[c] = "new"
  /\ connected
  /\ handler' = [handler EXCEPT ![c] = "draining"]
  /\ UNCHANGED <<submit, hub, packets, wire, gone, fd, delivered, broken>>

Refuse(c) ==
  /\ handler[c] = "new"
  /\ connected
  /\ handler' = [handler EXCEPT ![c] = Finished(c)]
  /\ gone' = gone \ {c}
  /\ UNCHANGED <<submit, hub, packets, wire, fd, delivered, broken>>

(* Mutant: takes the newest event. *)
TakeLast(c) ==
  /\ handler[c] = "serving" /\ packets[c] = <<>>
  /\ queue # <<>>
  /\ packets' = [packets EXCEPT ![c] = PacketsOf(Last(queue))]
  /\ queue' = Front(queue)
  /\ UNCHANGED <<submit, connected, accepted, sent, handler, wire, gone, fd, delivered, broken>>

Take(c) ==
  /\ handler[c] = "serving" /\ packets[c] = <<>>
  /\ queue # <<>>
  /\ packets' = [packets EXCEPT ![c] = PacketsOf(Head(queue))]
  /\ queue' = Tail(queue)
  /\ UNCHANGED <<submit, connected, accepted, sent, handler, wire, gone, fd, delivered, broken>>

(* get(timeout=1) gave up.  The probe for end of file comes after it. *)
Empty(c) ==
  /\ handler[c] = "serving" /\ packets[c] = <<>>
  /\ queue = <<>>
  /\ handler' = [handler EXCEPT ![c] = "probe"]
  /\ UNCHANGED <<submit, hub, packets, wire, gone, fd, delivered, broken>>

(* Mutant: end of file is not looked for. *)
ProbeNothing(c) ==
  /\ handler[c] = "probe"
  /\ handler' = [handler EXCEPT ![c] = "serving"]
  /\ UNCHANGED <<submit, hub, packets, wire, gone, fd, delivered, broken>>

Probe(c) ==
  /\ handler[c] = "probe"
  /\ handler' = [handler EXCEPT ![c] = IF c \in gone THEN "leaving" ELSE "serving"]
  /\ UNCHANGED <<submit, hub, packets, wire, gone, fd, delivered, broken>>

(* sendall to a connection the guest has dropped may still succeed. *)
Send(c) ==
  /\ handler[c] = "serving" /\ packets[c] # <<>>
  /\ wire' = IF c \in gone THEN wire ELSE [wire EXCEPT ![c] = Append(@, Head(packets[c]))]
  /\ sent' = sent + 1
  /\ packets' = [packets EXCEPT ![c] = Tail(@)]
  /\ UNCHANGED <<submit, connected, queue, accepted, handler, gone, fd, delivered, broken>>

(* An OSError: a reset, or 3 s without room.  The rest of the event is lost. *)
SendFails(c) ==
  /\ handler[c] = "serving" /\ packets[c] # <<>>
  /\ handler' = [handler EXCEPT ![c] = "leaving"]
  /\ packets' = [packets EXCEPT ![c] = <<>>]
  /\ broken' = TRUE
  /\ UNCHANGED <<submit, hub, wire, gone, fd, delivered>>

(* Mutant: connected is not cleared. *)
DisconnectSilently(c) ==
  /\ handler[c] = "leaving"
  /\ handler' = [handler EXCEPT ![c] = "draining"]
  /\ UNCHANGED <<submit, hub, packets, wire, gone, fd, delivered, broken>>

(* The finally clause: connected is cleared, then the queue emptied, one   *)
(* event at a time and without the lock.                                   *)
Disconnect(c) ==
  /\ handler[c] = "leaving"
  /\ connected' = FALSE
  /\ handler' = [handler EXCEPT ![c] = "draining"]
  /\ UNCHANGED <<submit, queue, accepted, sent, packets, wire, gone, fd, delivered, broken>>

Drain(c) ==
  /\ handler[c] = "draining"
  /\ queue # <<>>
  /\ queue' = Tail(queue)
  /\ UNCHANGED <<submit, connected, accepted, sent, handler, packets, wire, gone, fd,
                 delivered, broken>>

End(c) ==
  /\ handler[c] = "draining"
  /\ queue = <<>>
  /\ handler' = [handler EXCEPT ![c] = Finished(c)]
  /\ gone' = gone \ {c}
  /\ UNCHANGED <<submit, hub, packets, wire, fd, delivered, broken>>

-----------------------------------------------------------------------------
(* The guest: input_main. *)

Connect(g) ==
  /\ fd[g] = NoSlot
  /\ \E c \in Slots :
       /\ handler[c] = "none"
       /\ handler' = [handler EXCEPT ![c] = "new"]
       /\ fd' = [fd EXCEPT ![g] = c]
  /\ UNCHANGED <<submit, hub, packets, wire, gone, delivered, broken>>

Deliver(g) ==
  /\ fd[g] # NoSlot
  /\ wire[fd[g]] # <<>>
  /\ delivered' = [delivered EXCEPT ![g] = Append(@, Head(wire[fd[g]]))]
  /\ wire' = [wire EXCEPT ![fd[g]] = Tail(@)]
  /\ UNCHANGED <<submit, hub, handler, packets, gone, fd, broken>>

(* Mutant: a thread whose connection ends does not connect again. *)
StopAtEnd(g) == FALSE

EndOfFile(g) ==
  /\ fd[g] # NoSlot
  /\ wire[fd[g]] = <<>>
  /\ handler[fd[g]] = "ended"
  /\ handler' = [handler EXCEPT ![fd[g]] = "none"]
  /\ fd' = [fd EXCEPT ![g] = NoSlot]
  /\ UNCHANGED <<submit, hub, packets, wire, gone, delivered, broken>>

(* The guest's end goes away with what was in flight: a reset, or the HMI  *)
(* process starting anew.                                                  *)
Drop(g) ==
  /\ fd[g] # NoSlot
  /\ fd' = [fd EXCEPT ![g] = NoSlot]
  /\ wire' = [wire EXCEPT ![fd[g]] = <<>>]
  /\ IF handler[fd[g]] = "ended"
     THEN handler' = [handler EXCEPT ![fd[g]] = "none"] /\ UNCHANGED gone
     ELSE gone' = gone \cup {fd[g]} /\ UNCHANGED handler
  /\ broken' = TRUE
  /\ UNCHANGED <<submit, hub, packets, delivered>>

-----------------------------------------------------------------------------
Session(c) ==
  \/ Begin(c) \/ Refuse(c) \/ Take(c) \/ Empty(c) \/ Probe(c) \/ Send(c)
  \/ Disconnect(c) \/ Drain(c) \/ End(c)

Input(g) == Connect(g) \/ Deliver(g) \/ EndOfFile(g)

Next ==
  \/ \E s \in Submitters : Check(s) \/ Put(s) \/ Full(s)
  \/ \E c \in Slots : Session(c) \/ SendFails(c)
  \/ \E g \in Inputs : Input(g) \/ Drop(g)

(* Handler and input threads keep running; nothing has to fail or time out *)
(* except the one second of get, on which the probe depends.               *)
Fairness ==
  /\ \A c \in Slots : WF_vars(Session(c))
  /\ \A g \in Inputs : WF_vars(Input(g))

Spec == Init /\ [][Next]_vars
FairSpec == Spec /\ Fairness

-----------------------------------------------------------------------------
(* Properties. *)

TypeOK ==
  /\ submit \in [Submitters -> {"idle", "checked"}]
  /\ connected \in BOOLEAN
  /\ queue \in Seq(Events) /\ Len(queue) <= QueueBound
  /\ accepted \in 0..MaxEvents
  /\ sent \in Nat
  /\ handler \in [Slots -> {"none", "new", "serving", "probe", "leaving", "draining", "ended"}]
  /\ packets \in [Slots -> Seq(Packet)]
  /\ wire \in [Slots -> Seq(Packet)]
  /\ gone \subseteq Slots
  /\ fd \in [Inputs -> Slots \cup {NoSlot}]
  /\ delivered \in [Inputs -> Seq(Packet)]
  /\ broken \in BOOLEAN

InSession(c) == handler[c] \in {"serving", "probe", "leaving"}

(* One connection at a time feeds from the queue, and connected tells      *)
(* whether there is one: a second guest connection is turned away, and the *)
(* end of a turned-away or finished one never clears another's flag.       *)
OneSession ==
  /\ connected <=> \E c \in Slots : InSession(c)
  /\ \A c, d \in Slots : InSession(c) /\ InSession(d) => c = d

(* Number of a packet in the order of acceptance. *)
Place(p) == 2 * p.event + (IF p.part = "release" THEN 1 ELSE 0)

(* An input thread hands on controls in the order in which the hub accepted *)
(* them, none twice, over any number of lost connections.  (Two threads     *)
(* may deliver the ends of two sessions in either order.)                  *)
DeliveredInOrder ==
  \A g \in Inputs : \A k, l \in 1..Len(delivered[g]) :
     k < l => Place(delivered[g][k]) < Place(delivered[g][l])

(* A button's release arrives only directly after its press; a connection  *)
(* lost between them can keep the release, never the press, from the HMI.  *)
ReleaseFollowsPress ==
  \A g \in Inputs : \A k \in 1..Len(delivered[g]) :
     delivered[g][k].part = "release" =>
        k > 1 /\ delivered[g][k - 1] = [event |-> delivered[g][k].event, part |-> "press"]

(* As long as no connection is lost, every accepted control is exactly once *)
(* and in its place between the queue and the HMI, however many            *)
(* connections are turned away meanwhile: one input thread and one         *)
(* connection have the packets of all that left the queue, in order, and   *)
(* the queue has the rest (mib_input.py, Guest.handle).                    *)
NothingLost ==
  ~broken /\ accepted > 0 =>
     \E g \in Inputs, c \in Slots :
        LET line == delivered[g] \o wire[c] \o packets[c]
            taken == accepted - Len(queue)
        IN  /\ \A h \in Inputs \ {g} : delivered[h] = <<>>
            /\ \A d \in Slots \ {c} : wire[d] = <<>> /\ packets[d] = <<>>
            /\ ToSet(line) = UNION {ToSet(PacketsOf(e)) : e \in 1..taken}
            /\ \A k, l \in DOMAIN line : k < l => Place(line[k]) < Place(line[l])
            /\ \A k \in DOMAIN queue : queue[k] = taken + k

(* A disconnected hub holds no input: what a viewer sent to the last       *)
(* session is not played into the next one (tests/test_input_validation.py, *)
(* test_disconnected_does_not_queue).                                      *)
DisconnectedQueueIsEmpty ==
  (~connected /\ \A c \in Slots : handler[c] # "draining") => queue = <<>>

(* No control stays in the queue: a session sends it or its end drops it.  *)
QueueMoves == \A e \in Events : (\E k \in 1..Len(queue) : queue[k] = e)
                                  ~> ~(\E k \in 1..Len(queue) : queue[k] = e)

(* The guest gets its session back after every loss, also when it comes    *)
(* before the hub has noticed the end of the last one and is turned away.  *)
Reconnects == ~connected ~> connected
SessionEnds == \A c \in Slots : c \in gone ~> c \notin gone
=============================================================================
