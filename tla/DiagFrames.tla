----------------------------- MODULE DiagFrames -----------------------------
(***************************************************************************)
(* Diagnostic frames: a QNX program such as guest/shim/src/display_probe.c *)
(* paints into buffers of the Screen stub (libscreen_stub.c) and posts     *)
(* them; frame_transport.h sends each over a connection of its own to      *)
(* scripts/mib_display_receiver.py, where a thread per connection shows it *)
(* and saves it, and a restarted receiver shows what was saved.            *)
(*                                                                         *)
(* A geometry is a size, a stride and a format.  A buffer that the stub    *)
(* makes has the geometry that its window had at the time, and pixels for  *)
(* it; the program may make one itself and give any buffer other           *)
(* properties and other memory.  Windows stand for pixmaps too, which get  *)
(* their buffers the same way.  A frame is sent in Pieces: the header and  *)
(* parts of the picture.  Its pixels are those at the call: the program    *)
(* waits for screen_post_window.                                           *)
(***************************************************************************)
EXTENDS Integers, Sequences, FiniteSets, SequencesExt

CONSTANTS Windows,
          Pieces,                         \* of a frame, the header included
          MaxBuffers, MaxPosts,           \* bounds on the guest, which ends with its last post
          MaxOwn,                         \* bound on the buffers it makes or changes itself
          MaxFaults                       \* bound on kills and failed writes

ASSUME DfAssumption == Pieces \in Nat \ {0, 1} /\ {MaxBuffers, MaxPosts, MaxOwn, MaxFaults} \subseteq Nat

Geometries == {"full", "small",           \* 800x480, and another size, as RGBA
               "refused"}                 \* none, above 1920x1080, another stride or format
None == "none"                            \* no memory
Own == "own"                              \* memory for the program to answer for

Connections == 1..MaxPosts
Nobody == 0
Nothing == [kind |-> "nothing"]           \* b'', or no file
Torn == [kind |-> "torn"]                 \* the signature, and not all that follows
Frame(c) == [kind |-> "whole", post |-> c]

VARIABLES
  (* libscreen_stub.c *)
  window,       \* window[w]: its geometry (size and format properties)
  buffers,      \* buffers[w]: the buffers of w
  buffer,       \* the buffers made so far
  (* frame_transport.h and the program *)
  posted,       \* posted[c]: the header on connection c tells what the pixels are
  sending,      \* the connection that frame_publish is sending on
  sent, closed, \* pieces sent on c; the guest has closed c
  ended,        \* a post failed: display_probe ends
  (* mib_display_receiver.py *)
  handler, got, \* the thread of connection c, and the pieces it has read
  lock, frame, frames, saved,
  png, status,  \* reports/qnx-display.png and -status.json; 0: not readable
  up, faults,
  cut           \* history: the last publication was not written completely
screen == <<window, buffers, buffer>>
sender == <<posted, sending, sent, closed, ended>>
shown == <<frame, frames, saved>>
files == <<png, status>>
dfvars == <<screen, sender, handler, got, lock, shown, files, up, faults, cut>>

DfInit ==
  /\ window = [w \in Windows |-> "full"]
  /\ buffers = [w \in Windows |-> <<>>] /\ buffer = <<>>
  /\ posted = <<>> /\ sending = Nobody /\ ended = FALSE
  /\ sent = [c \in Connections |-> 0] /\ closed = [c \in Connections |-> FALSE]
  /\ handler = [c \in Connections |-> "none"] /\ got = [c \in Connections |-> 0]
  /\ lock = Nobody /\ frame = Nothing /\ frames = 0 /\ saved = FALSE
  /\ png = Nothing /\ status = 0 /\ up = TRUE /\ faults = 0 /\ cut = FALSE

(* What a buffer's properties say, and what its memory was made for.  Once *)
(* the program has set either, they are its own affair.                    *)
Buffer == [header : Geometries, pixels : Geometries \cup {None, Own}]

-----------------------------------------------------------------------------
(* The Screen stub. *)
Running == ~ended /\ sending = Nobody /\ Len(posted) < MaxPosts
receiver == <<handler, got, lock, shown, files, up, faults, cut>>

(* screen_set_window_property_iv: set_iv. *)
SetWindow(w, g) ==
  /\ Running
  /\ window' = [window EXCEPT ![w] = g]
  /\ UNCHANGED <<buffers, buffer, sender, receiver>>

(* ensure_buffers: the buffers that are missing take the properties of w   *)
(* as they are now; those above count are forgotten.                       *)
EnsureBuffers(w, count) ==
  LET missing == count - Len(buffers[w]) IN
  IF missing <= 0
  THEN buffers' = [buffers EXCEPT ![w] = SubSeq(@, 1, count)] /\ UNCHANGED buffer
  ELSE /\ Len(buffer) + missing <= MaxBuffers
       /\ buffers' = [buffers EXCEPT ![w] = @ \o [i \in 1..missing |-> Len(buffer) + i]]
       /\ buffer' = buffer \o [i \in 1..missing |->
                       [header |-> window[w], pixels |-> window[w]]]

(* screen_create_window_buffers, and all that calls ensure_buffers so. *)
CreateBuffers(w, count) ==
  /\ Running
  /\ EnsureBuffers(w, count)
  /\ UNCHANGED <<window, sender, receiver>>

(* screen_get_window_property_pv for the buffers: get_pv makes two of a    *)
(* window that has none.                                                   *)
GetBuffers(w) ==
  /\ Running
  /\ buffers[w] = <<>>
  /\ EnsureBuffers(w, 2)
  /\ UNCHANGED <<window, sender, receiver>>

(* screen_share_window_buffers. *)
Share(w, v) ==
  /\ Running
  /\ buffers[v] # <<>>
  /\ buffers' = [buffers EXCEPT ![w] = buffers[v]]
  /\ UNCHANGED <<window, buffer, sender, receiver>>

(* The bound on the buffers that are the program's own affair. *)
MayOwn(b) ==
  Cardinality({b} \cup {x \in DOMAIN buffer : buffer[x].pixels \in {None, Own}}) <= MaxOwn

(* screen_create_buffer: no property is set, and there is no memory. *)
CreateBuffer ==
  /\ Running
  /\ Len(buffer) < MaxBuffers /\ MayOwn(Len(buffer) + 1)
  /\ buffer' = Append(buffer, [header |-> "refused", pixels |-> None])
  /\ UNCHANGED <<window, buffers, sender, receiver>>

(* screen_set_buffer_property_iv. *)
SetBuffer(b, g) ==
  /\ Running /\ MayOwn(b)
  /\ buffer' = [buffer EXCEPT ![b] =
                  [header |-> g, pixels |-> IF @.pixels = None THEN None ELSE Own]]
  /\ UNCHANGED <<window, buffers, sender, receiver>>

(* screen_set_buffer_property_pv of the pointer. *)
SetPointer(b, memory) ==
  /\ Running /\ MayOwn(b)
  /\ buffer' = [buffer EXCEPT ![b].pixels = memory]
  /\ UNCHANGED <<window, buffers, sender, receiver>>

-----------------------------------------------------------------------------
(* screen_post_window. *)

(* Mutant: the header takes the geometry of the window. *)
GeometryOfWindow(w, b) == window[w]

(* The geometry that goes into the header. *)
Geometry(w, b) == buffer[b].header

(* frame_publish refuses what the receiver would not take. *)
Sendable(g, b) == g # "refused" /\ buffer[b].pixels # None

(* A failed post, and the end of the program's loop. *)
PostFails == ended' = TRUE

(* Any buffer, not only one of the window's. *)
Post(w, b) ==
  /\ Running
  /\ LET g == Geometry(w, b)
         c == Len(posted) + 1
     IN  IF Sendable(g, b) /\ up
         THEN /\ posted' = Append(posted, buffer[b].pixels \in {g, Own})
              /\ sending' = c
              /\ handler' = [handler EXCEPT ![c] = "read"]
              /\ UNCHANGED <<sent, closed, ended>>
         ELSE PostFails /\ UNCHANGED <<posted, sending, sent, closed, handler>>
  /\ UNCHANGED <<screen, got, lock, shown, files, up, faults, cut>>

(* frame_send_all. *)
Send ==
  /\ sending # Nobody
  /\ sent[sending] < Pieces
  /\ sent' = [sent EXCEPT ![sending] = @ + 1]
  /\ UNCHANGED <<screen, posted, sending, closed, ended, receiver>>

(* The end of frame_publish: everything is sent, or, after two seconds     *)
(* without progress, when the receiver has closed or the memory is not     *)
(* there, a send has failed.                                               *)
FinishPost ==
  /\ sending # Nobody
  /\ closed' = [closed EXCEPT ![sending] = TRUE]
  /\ IF sent[sending] = Pieces THEN UNCHANGED ended ELSE PostFails
  /\ sending' = Nobody
  /\ UNCHANGED <<screen, posted, sent, receiver>>

-----------------------------------------------------------------------------
(* Frames.handle: exact reads the header, which the sender has checked,    *)
(* and the picture.                                                        *)
Receive(c) ==
  /\ handler[c] = "read"
  /\ got[c] < sent[c]
  /\ got' = [got EXCEPT ![c] = @ + 1]
  /\ handler' = [handler EXCEPT ![c] = IF got'[c] = Pieces THEN "have" ELSE "read"]
  /\ UNCHANGED <<screen, sender, lock, shown, files, up, faults, cut>>

(* The connection ends too early, or nothing comes for five seconds. *)
Reject(c) ==
  /\ handler[c] = "read"
  /\ got[c] = sent[c]
  /\ handler' = [handler EXCEPT ![c] = "done"]
  /\ UNCHANGED <<screen, sender, got, lock, shown, files, up, faults, cut>>

(* What the bytes that c has read show. *)
Received(c) == IF got[c] = Pieces THEN Frame(c) ELSE Torn

(* Mutant: the lock is not waited for. *)
ShowAtOnce(c) ==
  /\ handler[c] = "have"
  /\ lock' = c
  /\ frame' = Received(c) /\ frames' = frames + 1 /\ saved' = FALSE
  /\ cut' = TRUE
  /\ handler' = [handler EXCEPT ![c] = "png"]
  /\ UNCHANGED <<screen, sender, got, files, up, faults>>

(* Under the lock: the frame first, then the two files. *)
Show(c) ==
  /\ handler[c] = "have"
  /\ lock = Nobody
  /\ lock' = c
  /\ frame' = Received(c) /\ frames' = frames + 1 /\ saved' = FALSE
  /\ cut' = TRUE
  /\ handler' = [handler EXCEPT ![c] = "png"]
  /\ UNCHANGED <<screen, sender, got, files, up, faults>>

WritePng(c) ==
  /\ handler[c] = "png"
  /\ png' = Received(c)
  /\ handler' = [handler EXCEPT ![c] = "status"]
  /\ UNCHANGED <<screen, sender, got, lock, shown, status, up, faults, cut>>

WriteStatus(c) ==
  /\ handler[c] = "status"
  /\ status' = frames
  /\ lock' = Nobody /\ cut' = FALSE
  /\ handler' = [handler EXCEPT ![c] = "done"]
  /\ UNCHANGED <<screen, sender, got, shown, png, up, faults>>

(* What is left of a file whose writing stops. *)
StoppedWriting(c) ==
  /\ png' \in IF handler[c] = "png" THEN {png, Nothing, Torn} ELSE {png}
  /\ status' \in IF handler[c] = "status" THEN {status, 0} ELSE {status}

(* A file cannot be written: OSError, and the thread ends. *)
WriteFails(c) ==
  /\ handler[c] \in {"png", "status"}
  /\ faults < MaxFaults /\ faults' = faults + 1
  /\ StoppedWriting(c)
  /\ lock' = Nobody
  /\ handler' = [handler EXCEPT ![c] = "done"]
  /\ UNCHANGED <<screen, sender, got, shown, up, cut>>

(* The receiver is stopped, and its threads with it. *)
Kill ==
  /\ up /\ faults < MaxFaults /\ faults' = faults + 1
  /\ up' = FALSE
  /\ IF lock = Nobody THEN UNCHANGED files ELSE StoppedWriting(lock)
  /\ handler' = [c \in Connections |-> IF handler[c] = "none" THEN "none" ELSE "done"]
  /\ lock' = Nobody
  /\ frame' = Nothing /\ frames' = 0 /\ saved' = FALSE
  /\ UNCHANGED <<screen, sender, got, cut>>

(* restore_frame takes whatever begins like an image. *)
Restart ==
  /\ ~up /\ up' = TRUE
  /\ frame' = png
  /\ IF png = Nothing THEN UNCHANGED <<frames, saved>>
     ELSE frames' = (IF status = 0 THEN 1 ELSE status) /\ saved' = TRUE
  /\ UNCHANGED <<screen, sender, handler, got, lock, files, faults, cut>>

-----------------------------------------------------------------------------
DfNext ==
  \/ \E w \in Windows :
       \/ \E g \in Geometries : SetWindow(w, g)
       \/ \E n \in 1..2 : CreateBuffers(w, n)
       \/ GetBuffers(w)
       \/ \E v \in Windows \ {w} : Share(w, v)
       \/ \E b \in DOMAIN buffer : Post(w, b)
  \/ CreateBuffer
  \/ \E b \in DOMAIN buffer :
       \/ \E g \in Geometries : SetBuffer(b, g)
       \/ \E memory \in {None, Own} : SetPointer(b, memory)
  \/ Send \/ FinishPost
  \/ \E c \in Connections :
       Receive(c) \/ Reject(c) \/ Show(c) \/ WritePng(c) \/ WriteStatus(c) \/ WriteFails(c)
  \/ Kill \/ Restart

DfSpec == DfInit /\ [][DfNext]_dfvars

-----------------------------------------------------------------------------
(* Properties. *)

DfTypeOK ==
  /\ window \in [Windows -> Geometries]
  /\ buffers \in [Windows -> Seq(1..MaxBuffers)]
  /\ buffer \in Seq(Buffer)
  /\ sending \in 0..MaxPosts /\ lock \in 0..MaxPosts
  /\ sent \in [Connections -> 0..Pieces] /\ got \in [Connections -> 0..Pieces]
  /\ handler \in [Connections -> {"none", "read", "have", "png", "status", "done"}]
  /\ frames \in 0..MaxPosts /\ status \in 0..MaxPosts

(* The viewer never shows, nor saves, a picture that was sent in part, or  *)
(* one read with another geometry than that of the pixels, unless the      *)
(* program itself had set the buffer's properties or its memory: every     *)
(* image is a complete frame that the program posted, whatever became of   *)
(* its window since the buffer was made (mib_display_receiver.py:36,       *)
(* libscreen_stub.c:176).  The exception is an image saved by a receiver   *)
(* that was killed, or whose disk failed, during write_bytes: it stays     *)
(* until the next frame is published, and a restart shows it.              *)
ShownWasPosted ==
  \A image \in {frame, png} :
     \/ image = Nothing
     \/ image = Torn /\ cut /\ faults > 0
     \/ \E k \in DOMAIN posted : image = Frame(k) /\ posted[k]

(* While no thread publishes, the saved image and count are those that are *)
(* shown, whatever threads published before, one after another or after a  *)
(* restart, and so a restart shows the last frame again.  A publication    *)
(* that a kill or a failed write interrupted may differ, the next one puts *)
(* it right (mib_display_receiver.py:55-58).                               *)
SavedIsShown ==
  (up /\ lock = Nobody /\ ~cut) => frame = png /\ frames = status
=============================================================================
