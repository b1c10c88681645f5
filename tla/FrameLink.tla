----------------------------- MODULE FrameLink -----------------------------
(***************************************************************************)
(* The pictures of the native QEMU window: QemuDisplay.send                *)
(* (runtime/graphics/qemu_display.py) at one end of a socket, the          *)
(* mib-display device (runtime/qemu-display/mib-display.c) at the other.   *)
(*                                                                         *)
(* The renderer closes the connection when a part of a frame is not taken  *)
(* within half a second, and opens another for the next frame.  QEMU's     *)
(* socket chardev serves one connection at a time and takes the next when  *)
(* it has seen the end of the last.                                        *)
(*                                                                         *)
(* A frame is four units, two of header and two of pixels; a unit carries  *)
(* the number of its frame, which the device cannot see.                   *)
(*                                                                         *)
(* Until the first frame a timer animates a loading screen, drawn over     *)
(* whatever is in the pixels.                                              *)
(***************************************************************************)
EXTENDS Integers, Sequences, SequencesExt

CONSTANTS MaxFrames,    \* bound on the frames of a behaviour
          MaxConns,     \* bound on the connections
          Dots          \* of the loading animation, 12 in the code

Frames == 1..MaxFrames
Conns == 1..MaxConns
Closed == 0

ASSUME BoundsAssumption == MaxFrames \in Nat /\ MaxConns \in Nat /\ Dots \in Nat \ {0}

VARIABLES
  (* QemuDisplay *)
  sock,         \* the connection in use
  conns,        \* connections opened so far
  frames,       \* frames sent so far, or given up
  out,          \* units of the current frame not yet written
  (* the connections *)
  stream,       \* stream[c]: units on their way to the device
  closed,       \* connections the renderer has closed
  (* the device *)
  chr,          \* the connection QEMU serves
  received,     \* units of the current frame
  header, pixels,
  has_frame, spinner_phase,
  window,       \* what was painted last
  (* history *)
  shown         \* the pictures painted without the loading screen

sender == <<sock, conns, frames, out, closed>>
display == <<has_frame, spinner_phase, window, shown>>
vars == <<sender, stream, chr, received, header, pixels, display>>

Unit == [frame : Frames, part : 1..4]
UnitsOf(f) == [k \in 1..4 |-> [frame |-> f, part |-> k]]
Picture(f) == SubSeq(UnitsOf(f), 3, 4)
Black == [frame |-> 0, part |-> 0]      \* pixels never written

Init ==
  /\ sock = Closed /\ conns = 0 /\ frames = 0 /\ out = <<>>
  /\ stream = [c \in Conns |-> <<>>] /\ closed = {}
  /\ chr = Closed /\ received = 0 /\ header = <<>> /\ pixels = <<Black, Black>>
  /\ has_frame = FALSE /\ spinner_phase = 0
  /\ window = [pixels |-> <<Black, Black>>, loading |-> TRUE, phase |-> 0]
  /\ shown = <<>>

-----------------------------------------------------------------------------
(* QemuDisplay.send. *)

(* A swap of the guest: the frame goes to the connection, or to a new one, *)
(* or is given up when that cannot be opened.                              *)
Send ==
  /\ out = <<>>
  /\ frames < MaxFrames
  /\ frames' = frames + 1
  /\ \/ sock # Closed /\ out' = UnitsOf(frames + 1) /\ UNCHANGED <<sock, conns>>
     \/ /\ sock = Closed
        /\ conns < MaxConns
        /\ conns' = conns + 1
        /\ sock' = conns + 1
        /\ out' = UnitsOf(frames + 1)
     \/ sock = Closed /\ UNCHANGED <<sock, conns, out>>
  /\ UNCHANGED <<stream, closed, chr, received, header, pixels, display>>

Write ==
  /\ out # <<>>
  /\ stream' = [stream EXCEPT ![sock] = Append(@, Head(out))]
  /\ out' = Tail(out)
  /\ UNCHANGED <<sock, conns, frames, closed, chr, received, header, pixels, display>>

(* Mutant: the rest of the frame is given up, the connection kept. *)
TimeoutKeepsSocket ==
  /\ out # <<>>
  /\ out' = <<>>
  /\ UNCHANGED <<sock, conns, frames, closed, stream, chr, received, header, pixels, display>>

(* sendall fails: the connection is closed. *)
Timeout ==
  /\ out # <<>>
  /\ out' = <<>>
  /\ closed' = closed \cup {sock}
  /\ sock' = Closed
  /\ UNCHANGED <<conns, frames, stream, chr, received, header, pixels, display>>

-----------------------------------------------------------------------------
(* The device. *)

(* The connections wait in the order they were opened. *)
Accept ==
  /\ chr = Closed
  /\ \E c \in 1..conns :
       /\ \A d \in 1..(c - 1) : d \in closed /\ stream[d] = <<>>
       /\ c \notin closed \/ stream[c] # <<>>
       /\ chr' = c
  /\ UNCHANGED <<sender, stream, received, header, pixels, display>>

(* paint: the pixels as they are now. *)
Paint == window' = [pixels |-> pixels', loading |-> ~has_frame', phase |-> spinner_phase']

(* loading_tick; the timer is deleted, or finds has_frame set. *)
Tick ==
  /\ ~has_frame
  /\ spinner_phase' = (spinner_phase + 1) % Dots
  /\ UNCHANGED <<sender, stream, chr, received, header, pixels, has_frame, shown>>
  /\ Paint

GoodHeader(h) == h[1].part = 1 /\ h[2].part = 2

ReadHeader ==
  /\ received < 2
  /\ header' = Append(IF received = 0 THEN <<>> ELSE header, Head(stream[chr]))
  /\ received' = IF received = 1 /\ ~GoodHeader(header') THEN 0 ELSE received + 1
  /\ UNCHANGED <<pixels, display>>

(* The pixels are overwritten in place and painted when they are complete. *)
Overwrite == pixels' = [pixels EXCEPT ![received - 1] = Head(stream[chr])]

ShowFrame ==
  /\ has_frame' = TRUE
  /\ Paint
  /\ shown' = Append(shown, pixels')

(* Mutant: the count is not taken back at the end of a frame. *)
ReadPixelsOn ==
  /\ received >= 2
  /\ Overwrite
  /\ UNCHANGED <<header, spinner_phase>>
  /\ received' = received + 1
  /\ IF received = 3 THEN ShowFrame ELSE UNCHANGED <<has_frame, window, shown>>

ReadPixels ==
  /\ received >= 2
  /\ Overwrite
  /\ UNCHANGED <<header, spinner_phase>>
  /\ IF received = 3
     THEN received' = 0 /\ ShowFrame
     ELSE received' = received + 1 /\ UNCHANGED <<has_frame, window, shown>>

(* read_frame, a unit at a time: can_read asks for no more than the rest   *)
(* of the header or of the frame.                                          *)
Read ==
  /\ chr # Closed
  /\ stream[chr] # <<>>
  /\ ReadHeader \/ ReadPixels
  /\ stream' = [stream EXCEPT ![chr] = Tail(@)]
  /\ UNCHANGED <<sender, chr>>

(* Mutant: the end of a connection does not end the frame. *)
HangupKeepsFrame ==
  /\ chr \in closed
  /\ stream' = [stream EXCEPT ![chr] = <<>>]
  /\ chr' = Closed
  /\ UNCHANGED <<sender, received, header, pixels, display>>

(* CHR_EVENT_CLOSED, with or without what was still in the socket. *)
Hangup ==
  /\ chr \in closed
  /\ stream' = [stream EXCEPT ![chr] = <<>>]
  /\ chr' = Closed
  /\ received' = 0
  /\ UNCHANGED <<sender, header, pixels, display>>

-----------------------------------------------------------------------------
Next == Send \/ Write \/ Timeout \/ Accept \/ Read \/ Hangup \/ Tick

(* QEMU's main loop comes back to its sockets, and sendall ends, written   *)
(* or timed out.                                                           *)
Fairness == WF_vars(Accept) /\ WF_vars(Read) /\ WF_vars(Hangup) /\ WF_vars(Write \/ Timeout)
Spec == Init /\ [][Next]_vars /\ Fairness

-----------------------------------------------------------------------------
(* Properties. *)

TypeOK ==
  /\ sock \in Conns \cup {Closed} /\ conns \in 0..MaxConns /\ frames \in 0..MaxFrames
  /\ out \in Seq(Unit)
  /\ stream \in [Conns -> Seq(Unit)] /\ closed \subseteq Conns
  /\ chr \in Conns \cup {Closed}
  /\ received \in 0..3
  /\ header \in Seq(Unit) /\ Len(header) <= 2
  /\ pixels \in [1..2 -> Unit \cup {Black}]
  /\ has_frame \in BOOLEAN /\ spinner_phase \in 0..(Dots - 1)
  /\ window \in [pixels : [1..2 -> Unit \cup {Black}], loading : BOOLEAN, phase : 0..(Dots - 1)]
  /\ shown \in Seq([1..2 -> Unit])

(* Every picture the window shows once it has a frame is one frame of the  *)
(* renderer, whole, and newer than the one before: a connection given up   *)
(* inside a header or inside the pixels leaves nothing in the device       *)
(* (mib-display.c:113), and what has arrived of the next frame is not      *)
(* seen.  Until the first frame there is the loading screen, which does    *)
(* not come back (:92, :108); behind its dots the timer may paint a part   *)
(* of that frame, and nothing is promised of that.                         *)
FramesAreWhole ==
  /\ \A k \in 1..Len(shown) : \E f \in Frames : shown[k] = Picture(f)
  /\ \A k, l \in 1..Len(shown) : k < l => shown[k][1].frame < shown[l][1].frame
  /\ IF shown = <<>> THEN window.loading ELSE ~window.loading /\ window.pixels = Last(shown)

(* A frame that was written to its end is shown, unless a later one gives  *)
(* up the connection: the device never waits for bytes that the renderer   *)
(* does not owe it, whatever happened on the connections before.           *)
WrittenFrameIsShown ==
  \A f \in Frames, c \in Conns :
     (frames = f /\ sock = c /\ out = <<>>)
        ~> (sock # c \/ \E k \in 1..Len(shown) : shown[k] = Picture(f))
=============================================================================
