---------------------------- MODULE TouchPanel ----------------------------
(***************************************************************************)
(* The inputs of the native QEMU window: input_event and input_sync of the *)
(* mib-display device (runtime/qemu-display/mib-display.c) turn mouse and  *)
(* keys into lines of JSON, which a thread of the renderer                 *)
(* (QemuDisplay.inputs, runtime/graphics/qemu_display.py) posts to the     *)
(* viewer.  There is one thread for each connection; when the renderer     *)
(* closes a connection (see FrameLink) the next has a thread of its own,   *)
(* which may run beside the old one.  A thread waits a second for the      *)
(* answer to a POST; the viewer handles each POST in a thread of its own,  *)
(* so that one that was given up may be handled after later ones.          *)
(*                                                                         *)
(* Every mouse event carries the pointer's place, ahead of the button      *)
(* (cocoa-input.patch), so the place is a parameter of the actions.  A     *)
(* zone is the screen, a control drawn beside it, or the panel around.     *)
(***************************************************************************)
EXTENDS Integers, Sequences, FiniteSets

CONSTANTS Controls,     \* the hardware buttons drawn around the screen
          MaxConns,     \* bound on the connections
          MaxEvents,    \* bound on the presses and lines
          MaxLate       \* bound on the POSTs given up that may still be handled

Conns == 1..MaxConns
Closed == 0
Zones == Controls \cup {"screen", "panel"}
Nothing == "nothing"    \* no control

ASSUME ControlsAssumption == Controls \cap {"screen", "panel", "nothing"} = {}
ASSUME BoundsAssumption == MaxConns \in Nat /\ MaxEvents \in Nat /\ MaxLate \in Nat

VARIABLES
  (* the connections *)
  conns,        \* connections opened so far
  closed,       \* connections the renderer has closed
  lines,        \* lines[c]: lines on their way to the renderer
  (* the device *)
  chr,          \* the connection QEMU serves
  pressed,      \* the control the button went down on
  touching, moved,
  (* the threads, and what the viewer has got *)
  reader,       \* reader[c]: "none", "reading", or "ended"
  requests,     \* POSTs that the viewer has still to handle
  posted,       \* those it has handled, in that order
  (* history *)
  given_up,     \* lines whose POST was given up and may still be handled
  said          \* the presses and the lines, lost ones included

link == <<conns, closed, chr>>
pointer == <<pressed, touching, moved>>
posts == <<requests, posted, given_up>>
vars == <<link, lines, pointer, reader, posts, said>>

Event == [kind : {"press", "down", "move", "up", "release", "button", "knob"}, on : Zones \cup {Nothing}]
Line == [number : 1..MaxEvents, whole : BOOLEAN]
(* number: that of the first of the lines cut short it may be made of. *)
Posts == [from : Conns, number : 1..MaxEvents, whole : BOOLEAN]

Init ==
  /\ conns = 0 /\ closed = {} /\ lines = [c \in Conns |-> <<>>]
  /\ chr = Closed /\ pressed = Nothing /\ touching = FALSE /\ moved = FALSE
  /\ reader = [c \in Conns |-> "none"]
  /\ requests = {} /\ posted = <<>> /\ given_up = {}
  /\ said = <<>>

-----------------------------------------------------------------------------
(* The connection. *)

Open ==
  /\ conns < MaxConns
  /\ 1..conns \subseteq closed
  /\ conns' = conns + 1
  /\ reader' = [reader EXCEPT ![conns + 1] = "reading"]
  /\ UNCHANGED <<closed, lines, chr, pointer, posts, said>>

(* QEMU takes the next connection when it is done with the last. *)
Accept ==
  /\ chr = Closed
  /\ conns \in Conns \ closed
  /\ chr' = conns
  /\ UNCHANGED <<conns, closed, lines, pointer, reader, posts, said>>

(* A frame timed out. *)
Close ==
  /\ conns \in Conns \ closed
  /\ closed' = closed \cup {conns}
  /\ UNCHANGED <<conns, lines, chr, pointer, reader, posts, said>>

Hangup ==
  /\ chr \in closed
  /\ chr' = Closed
  /\ UNCHANGED <<conns, closed, lines, pointer, reader, posts, said>>

-----------------------------------------------------------------------------
(* The device.  The window takes no mouse events while it has not grabbed  *)
(* the mouse, so that a press or a release may never come.                 *)

Hit(zone) == IF zone \in Controls THEN zone ELSE Nothing

(* qemu_chr_fe_write, its result ignored: without a connection the line is *)
(* lost, a full socket takes a part of it or nothing.                      *)
Write(kind, on) ==
  /\ Len(said) < MaxEvents
  /\ said' = Append(said, [kind |-> kind, on |-> on])
  /\ \/ UNCHANGED lines
     \/ /\ chr \in Conns \ closed
        /\ \E whole \in BOOLEAN :
             lines' = [lines EXCEPT ![chr] = Append(@, [number |-> Len(said'), whole |-> whole])]

NoLine == UNCHANGED <<lines, said>>

(* Motion and the sync that follows it.  far: more than three pixels from  *)
(* the point of the press.                                                 *)
Motion(far) ==
  /\ moved' = (moved \/ (touching /\ far))
  /\ IF touching /\ moved' THEN Write("move", "screen") ELSE NoLine
  /\ UNCHANGED <<link, pressed, touching, reader, posts>>

(* Mutant: a press on the screen does not forget the last control. *)
PressKeeps(zone) ==
  /\ pressed' = IF zone = "screen" THEN pressed ELSE Hit(zone)
  /\ touching' = (zone = "screen")
  /\ moved' = FALSE
  /\ Write(IF zone = "screen" THEN "down" ELSE "press", zone)
  /\ UNCHANGED <<link, reader, posts>>

Press(zone) ==
  /\ pressed' = Hit(zone)
  /\ touching' = (zone = "screen")
  /\ moved' = FALSE
  /\ IF zone = "screen" THEN Write("down", zone)
     ELSE said' = Append(said, [kind |-> "press", on |-> zone]) /\ UNCHANGED lines
  /\ Len(said) < MaxEvents
  /\ UNCHANGED <<link, reader, posts>>

(* Mutant: the control is not forgotten, nor where the touch was. *)
ReleaseKeeps(zone, far) ==
  /\ IF touching THEN Write(IF moved \/ far THEN "release" ELSE "up", "screen")
     ELSE IF pressed # Nothing /\ pressed = Hit(zone) THEN Write("button", pressed)
     ELSE NoLine
  /\ moved' = (moved \/ (touching /\ far))
  /\ touching' = FALSE
  /\ UNCHANGED <<link, pressed, reader, posts>>

(* Mutant: motion that came with the button is not seen. *)
ReleaseAsTap(zone, far) ==
  /\ IF touching THEN Write("up", "screen")
     ELSE IF pressed # Nothing /\ pressed = Hit(zone) THEN Write("button", pressed)
     ELSE NoLine
  /\ moved' = (moved \/ (touching /\ far))
  /\ touching' = FALSE
  /\ pressed' = Nothing
  /\ UNCHANGED <<link, reader, posts>>

Release(zone, far) ==
  /\ IF touching THEN Write(IF moved \/ far THEN "release" ELSE "up", "screen")
     ELSE IF pressed # Nothing /\ pressed = Hit(zone) THEN Write("button", pressed)
     ELSE NoLine
  /\ moved' = (moved \/ (touching /\ far))
  /\ touching' = FALSE
  /\ pressed' = Nothing
  /\ UNCHANGED <<link, reader, posts>>

(* F1 to F8, or the wheel.  (While a touch moves, the sync after the event *)
(* repeats the move: a Motion.)                                            *)
Knob ==
  /\ Write("knob", Nothing)
  /\ UNCHANGED <<link, pointer, reader, posts>>

-----------------------------------------------------------------------------
(* QemuDisplay.inputs, one thread for each connection. *)

(* The POST of thread c that is not answered yet. *)
Waiting(c) == {r \in requests : r.from = c /\ r.number \notin given_up}

(* A line ends at the next newline: one cut short and those after it, up   *)
(* to the next whole one, make one line.                                   *)
Take(c, n) ==
  /\ reader[c] = "reading" /\ Waiting(c) = {}
  /\ n \in 1..Len(lines[c])
  /\ lines[c][n].whole
  /\ \A k \in 1..(n - 1) : ~lines[c][k].whole
  /\ lines' = [lines EXCEPT ![c] = SubSeq(@, n + 1, Len(@))]
  /\ UNCHANGED <<link, pointer, reader, posted, given_up, said>>

(* Lines cut short and joined are no JSON: json.loads raises. *)
IsJSON(r) == r.whole

Post(c) ==
  \E n \in 1..MaxEvents :
     /\ Take(c, n)
     /\ LET r == [from |-> c, number |-> lines[c][1].number, whole |-> n = 1]
        IN  requests' = IF IsJSON(r) THEN requests \cup {r} ELSE requests

(* The viewer takes the POSTs in any order, and answers. *)
Handle(r) ==
  /\ r \in requests
  /\ requests' = requests \ {r}
  /\ posted' = Append(posted, r)
  /\ UNCHANGED <<link, lines, pointer, reader, given_up, said>>

(* Mutant: the line is posted once more. *)
GiveUpRetries(c) ==
  \E r \in Waiting(c) :
     /\ given_up' = given_up \cup {r.number}
     /\ lines' = [lines EXCEPT ![c] = <<[number |-> r.number, whole |-> r.whole]>> \o @]
     /\ UNCHANGED <<link, pointer, reader, requests, posted, said>>

(* Refused, lost, or not answered within a second: the viewer may still    *)
(* have it to handle.  It is not sent again.                               *)
GiveUp(c) ==
  \E r \in Waiting(c) :
     /\ \/ requests' = requests \ {r} /\ UNCHANGED given_up
        \/ /\ Cardinality(given_up) < MaxLate
           /\ given_up' = given_up \cup {r.number} /\ UNCHANGED requests
     /\ UNCHANGED <<link, lines, pointer, reader, posted, said>>

(* recv on a closed socket: what was not yet read is lost, the lines read  *)
(* before are still posted.  Or 8192 bytes without a newline: lines cut    *)
(* short, which are not counted here.                                      *)
Stop(c) ==
  /\ reader[c] = "reading" /\ Waiting(c) = {}
  /\ \/ c \in closed
     \/ lines[c] # <<>> /\ \A k \in 1..Len(lines[c]) : ~lines[c][k].whole
  /\ reader' = [reader EXCEPT ![c] = "ended"]
  /\ lines' = [lines EXCEPT ![c] = <<>>]
  /\ UNCHANGED <<link, pointer, posts, said>>

-----------------------------------------------------------------------------
Next ==
  \/ Open \/ Accept \/ Close \/ Hangup
  \/ \E far \in BOOLEAN : Motion(far)
  \/ \E z \in Zones : Press(z)
  \/ \E z \in Zones, far \in BOOLEAN : Release(z, far)
  \/ Knob
  \/ \E c \in Conns : Post(c) \/ GiveUp(c) \/ Stop(c)
  \/ \E r \in requests : Handle(r)

Spec == Init /\ [][Next]_vars

-----------------------------------------------------------------------------
(* Properties. *)

TypeOK ==
  /\ conns \in 0..MaxConns /\ closed \subseteq 1..conns
  /\ lines \in [Conns -> Seq(Line)]
  /\ chr \in 0..conns
  /\ pressed \in Controls \cup {Nothing}
  /\ touching \in BOOLEAN /\ moved \in BOOLEAN /\ (touching => pressed = Nothing)
  /\ reader \in [Conns -> {"none", "reading", "ended"}]
  /\ requests \subseteq Posts /\ posted \in Seq(Posts)
  /\ given_up \subseteq 1..MaxEvents
  /\ said \in Seq(Event)

(* Of the events of these kinds, the last before the k-th was the j-th.    *)
Before(s, k, kinds, j) ==
  /\ j \in 1..(k - 1)
  /\ s[j].kind \in kinds
  /\ \A i \in (j + 1)..(k - 1) : s[i].kind \notin kinds

Gestures == {"press", "down", "move", "up", "release"}
Clicks == {"press", "down", "button"}

(* The device says motion, or the end of a touch, only of a touch it has   *)
(* said to begin, and a tap only when the finger has not moved since: the  *)
(* HMI takes it for a touch on a button or for a swipe by what is said.    *)
(* Lost lines count: what arrives of a gesture may lack any of its parts.  *)
TouchesAreGestures ==
  \A k \in 1..Len(said) :
     /\ said[k].kind \in {"move", "release"} =>
          \E j \in 1..Len(said) : Before(said, k, Gestures, j) /\ said[j].kind \in {"down", "move"}
     /\ said[k].kind = "up" =>
          \E j \in 1..Len(said) : Before(said, k, Gestures, j) /\ said[j].kind = "down"

(* The device says a hardware button once for each press, of the control   *)
(* that the press was on, however presses and releases are lost between.   *)
ButtonsArePresses ==
  \A k \in 1..Len(said) :
     said[k].kind = "button" =>
        \E j \in 1..Len(said) :
           Before(said, k, Clicks, j) /\ said[j] = [kind |-> "press", on |-> said[k].on]

(* The viewer gets each line once at most, and only lines that came whole: *)
(* one cut short is neither posted nor taken for another.  Those of one    *)
(* connection come in the order the device wrote them, but for a POST that *)
(* was given up, which may come late; across a replaced connection nothing *)
(* is kept.                                                                *)
PostedInOrder ==
  /\ \A k \in 1..Len(posted) : posted[k].whole
  /\ \A k, l \in 1..Len(posted) : posted[k].number = posted[l].number => k = l
  /\ \A k, l \in 1..Len(posted) :
        k < l /\ posted[k].from = posted[l].from =>
           posted[k].number < posted[l].number \/ posted[l].number \in given_up
=============================================================================
