# TLA+ models of vw-firmware-mac

The repository runs the HMI of a SEAT infotainment unit under QEMU on a Mac. The
firmware's own programs run unchanged in the guest; what this repository adds is
the plumbing around them: a graphics RPC that carries the guest's OpenGL ES calls to
the Mac's GPU, a window and a web viewer that show the pictures, a way for touches,
keys and knobs back into the guest, and the programs that start and stop it all.
The plumbing is where the concurrency and the failures are, and it is what these
modules model. Paths below are relative to the repository (in `PROJECT.json` they
carry the prefix `src/`).

## The system

    guest (QNX under QEMU)                    host (macOS)
    ----------------------                    ------------
    HMI threads -> libGLESv2_bridge.c,        gl_server.py  -> mac_renderer.py (GPU)
                   gl_rpc.h     == 8768 ==>     |
                                                | frames, UNIX socket
    QEMU: mib-display.c  <==== qemu_display.py -+
      window, mouse, keys ===> qemu_display.py --POST--> mib_display_receiver.py
                                                             | hub.submit
    DSI dispatcher <- input.h <== 8769 == mib_input.py (Hub) +

    run_mib.py (supervisor) -> viewer, renderer, probe_qemu.py (launcher) -> QEMU
    stop_mib.py, from another shell

| Component | State | Operations | Hard behaviour |
|---|---|---|---|
| GL RPC shim: `guest/shim/src/gl_rpc.h`, `gl_rpc_request.h`, `libGLESv2_bridge.c` | one socket `rpc_fd`, `rpc_lock`, `rpc_error`; `array_buffer` and `element_buffer`, remembered from the last `glBindBuffer` | every GL entry point: connect, send, read the reply; `glGetError` | any thread may call; any send or read may time out in the middle; the next call must not read the rest of the last reply; `rpc_error` is read outside the lock; what is remembered may not be bound any more |
| EGL stub: `libEGL_stub.c` | the current context, one for the process | make current, query, swap | two contexts share the host's one |
| Screen stub and frame transport: `libscreen_stub.c`, `frame_transport.h`, with the program `display_probe.c` | windows, buffers, their properties | set windows and buffers, create, get and share buffers, post | a buffer has the geometry of its making until it is set itself; a frame is given up half-way |
| GL server: `runtime/graphics/gl_server.py` | one connection, its GL context, the command being read | accept, read, execute, reply, end of the handler | the guest may be gone at any byte; a context lives as long as its connection; `Bridge()` may raise |
| Input hub: `scripts/mib_input.py` with `guest/dsi/input.h` | `connected`, a bounded queue, a count, one thread per guest connection; the guest's input thread | `submit`, session begin, send, probe, finally; connect, deliver | `submit` is not under the lock; two guest connections; a connection lost between press and release |
| DSI proxy: `guest/dsi/trace.c` | enabled services, `input_started` | `send`: answer here, or forward; start of the input thread | one of several answers fails or throws |
| QEMU display: `runtime/qemu-display/mib-display.c` with `runtime/graphics/qemu_display.py` | bytes of a frame received, loading animation, pointer state; the renderer's socket, a thread per connection | frame in, timer; press, motion, release, key out; reconnect; POST | a frame given up half-way; mouse events lost by the window; lines lost or cut short; a POST given up and handled later |
| Viewer: `scripts/mib_display_receiver.py` | the diagnostic frame in memory, two files of it, counters; a thread per connection | receive, show, save, restore; `/input` | threads publish one after another; a kill or a full disk between or during the writes |
| Supervisor: `scripts/run_mib.py` | session lock, list of children, ignored signals | lock, launch, watch, cleanup | a signal at any statement; QEMU ignoring SIGTERM; process groups that outlive their leader |
| Launcher: `scripts/probe_qemu.py` | QEMU's process | start, watch, give up, terminate, kill | killed before or after it has started QEMU |
| Stop command: `scripts/stop_mib.py`, `mib_processes.py` | a list of processes | list, SIGTERM, wait, SIGKILL, check | processes start and end while it works |
| Console tools, map card, image preparation, generators, inspection | files | one sequential run each | rollback after a failed step |

What makes each correct: an RPC returns the answer to its own call, the host sees
whole commands in order and every error is reported; a GL call means in the host what
it meant in the program; a DSI request is answered or forwarded, not both and not
neither; a picture shown or saved is a complete one; a control reaches the HMI once,
in order, a release after its press, and is not played into a later session; the
window shows whole frames; a session that ends leaves nothing running, two never
overlap; the stop command reports success only when nothing is left.

## Modules

`GlRpc` - the graphics RPC, guest and host in one module because their interaction is
the subject. Guest threads: `Enter` and `Lock` are the entry of a GL function and
`pthread_mutex_lock`; `Connect`, `Send`, `Receive`, `Succeed`, `Fail` are `rpc` and
`transfer`; `Reject` is an entry point that gives up before any call; `ErrorTest`, `ErrorTake`, `ErrorClear` are the three accesses of
`glGetError`. Host: `Accept` .. `Hangup` are the statements of `serve` where another
process can come between. A message is cut into parts, as many as `Parts` and
`Replies` say; a part carries its call and place, which neither side looks at, so that
properties can tell whose bytes are whose. Both sides act only on counts, as the code
does. A reset, a timeout, an oversized argument and a rejected command are all `Fail`
or `HandlerFails`: they differ in when they happen, not in what they do.

`RemoteCall` - what the RPC promises: calls one at a time, run in order, each at most
once, a success only after the call was run, every call returns. `GlRpc` implements it
(`ImplementsRemoteCall`, with the mapping at the end of `GlRpc`).

`GlRpcInv` states two inductive invariants; `GlRpcProofs` proves the first and
`GlRpcOrder` the second (below).
`MCGlRpc` gives the constants of the run.

`GlBindings` - what the guest believes of its GL context beside what the host's context
holds; a remote call is one step, done or lost with its connection. `Bind` and `Delete`
are `glBindBuffer` and `glDeleteBuffers`; `Pointer` and `Draw` the two entry points whose
message depends on the remembered bindings (the built library reads `element_buffer` once
in a draw, the build uses -O1); `Set`, `Query`, `Gen` and `Swap` stand for the rest.
`MakeCurrent` and `GetCurrent` are `libEGL_stub.c`, which
keeps one current context for the process and tells the host nothing. `want` is what the
program asked for, in each of its contexts. Items that a failed call or a deletion has
changed behind the program's back are `disturbed` until they are set again.
`DiagFrames` - `SetWindow` .. `SetPointer` are the Screen stub: settings of a window reach the
buffers made later, `SetBuffer` and `SetPointer` change a buffer that is there, `CreateBuffer`
makes one without properties or memory. A buffer is what its properties say (`header`) beside what its
memory was made for (`pixels`); what the program sets itself is `Own`, for it to answer for.
Windows stand for pixmaps, which get buffers the same way. `Post`, `Send`, `FinishPost` are `screen_post_window` down to `frame_send_all`, `Receive` .. `WriteFails` a thread of
the viewer with its statements under `frame_lock` apart, `Kill` and `Restart` the viewer's end and
`restore_frame`. A file is absent, torn or the frame of a post. `MCGuest` runs one of the
two, since a program in the guest uses either libGLESv2 or the Screen stub's posts. `GuestProofs`
has the proofs of both.

`DsiProxy` - `Call` to `Return` are one call of `send` in a Java thread: the choice of
service, the answers the request gets, each a `Deliver` that succeeds, fails or throws or a
`Skip` of an attribute that is not simulated, then `Swallow` or `Forward`. `StartInput` is
`start_input`. Proofs: `DsiProxyProofs`.

`InputHub` - `Check`, `Put`, `Full` are `submit`, its test and its `put_nowait` apart;
`Begin` .. `End` are `Guest.handle` of one connection, the statements of the finally
clause apart; `Connect`, `Deliver`, `EndOfFile`, `Drop` are `input_main`. Two input threads are allowed because `start_input`
tests and sets its flag without a lock. An event is its number; a button makes a press
and a release packet. Proofs: `InputHubProofs`.

`Session` - the supervisor statement by statement wherever a signal handler can run, the
launcher, QEMU and the process groups. `Signal` raises KeyboardInterrupt where the
Python program is; a process can die by itself (`Crash`) or of SIGTERM (`Obey`). `Denied` is a
`killpg` that meets a group of zombies and ends the cleanup with an exception. The
file checks, the lock of another program and the port probe are one `Refuse`.

`StopMib` - extends `Session`: stop_mib.py as one more process beside it, its signals
being those of `Session`. Proofs of both: `SessionProofs`.

`FrameLink` - `QemuDisplay.send` and the device's `can_read`, `read_frame` and
`chr_event`. A frame is four units; `Timeout` can strike at each. `Tick` is the timer of
the loading screen and `Paint` what is drawn, loading screen or pixels. Proofs:
`FrameLinkProofs`.

`TouchPanel` - the device's `input_event` and `input_sync` and the threads of
`QemuDisplay.inputs`. The pointer's place is a zone, because the code asks only which
control or whether the screen is under it, and `far` says that it has left the three
pixels around the press. `Post` is a line taken from the stream and sent (one that `json.loads` does not
take is passed over), `Handle` a thread of the viewer's HTTP server, `GiveUp` the end of the second that
`urlopen` waits, after which the request may be lost or may still be handled, behind later ones.
`MCTouchPanel` adds the symmetry of the run. Proofs: `TouchPanelProofs`.

## Runs

| Run | Instance | Shows |
|---|---|---|
| `gl_rpc` | 2 threads, one of which calls `glGetError`; 4 calls; requests and replies of 1 and 2 parts in turn; 2 queued connections | a call gets its own answer and nothing else; whole commands, in call order, in one context as long as nothing failed; nothing left on the line between calls; no error lost; the inductive invariant; every call returns without any timeout firing, an abandoned context ends; `GlRpc` implements `RemoteCall` with its fairness |
| `guest_libraries` | 2 threads, 2 contexts, 2 buffers, 1 lost connection; 2 windows, a frame of 2 pieces, 2 buffers, one of which the program may make or set itself, 2 posts, 1 kill or failed write; symmetric in threads, contexts, buffers, windows | guest, host and program agree on every undisturbed binding, and no call means another thing in the host; only complete posted frames are shown and saved, with the geometry of their pixels unless the program set it, and what is saved is what is shown |
| `dsi_proxy` | 2 Java threads; attributes 1, 4 (not simulated) and 6, up to 2 in a request; store events 0, 1000, 1001, 1023 and 1024 (unknown); 2 input threads | a request is answered, forwarded once or ends in an exception; one failed answer does not keep the others from being tried |
| `input_hub` | 2 HTTP threads, 2 input threads, 2 connections, queue of 2, 3 events, event 2 a button | one session, order, no duplicates, release after press, nothing lost unless a connection is; nothing stays queued, the guest gets its session back |
| `session_safety` | 2 supervisors | a finished cleanup leaves nothing of a recorded service; sessions do not overlap |
| `session_liveness` | 1 supervisor | cleanup ends; QEMU's end ends the session |
| `stop_mib` | 1 supervisor and the stop command | success means gone; failure is never reported |
| `frame_link` | 4 frames, 3 connections, a loading animation of 2 dots | whole frames, ever newer, the loading screen until the first and never again; what is written is shown |
| `touch_panel` | 2 controls, symmetric, 2 connections, 4 presses and lines, 1 POST given up and handled later | what the device says of a gesture keeps its shape, a button once for each press; the viewer gets whole lines only, each once, in order but for the one given up |
| `input_hub_stale`, `session_launch_gap`, `session_interrupted` | the same modules | each finds the disagreement described under *Findings* |

Why the bounds are enough. In `GlRpc` a fault needs a call that leaves something
behind, one that meets it, and one more on the new connection: three calls, of which
both parities of message length occur; the fourth lets two connections queue. Two threads make every
race of the lock and of `rpc_error`, a third would only wait. In `InputHub` a queue of
two is full, partly full and empty; the third event is the one that is refused or that
comes after a loss. `Session` is finite by itself: three services and QEMU. A frame
of four units can be cut inside the header, at its end and inside the pixels; two cut
connections and a good one follow each other in four frames. Four events are a press, a
move, a release and something in between or after; one late POST comes behind one or two others. In `GlBindings` one loss and one deletion
already reach every way a binding can be behind; two buffers tell the wrong one from none. In
`DiagFrames` two posts are two threads of the viewer beside each other; one fault hits either of
them. An attribute list of two has a delivery before and one after the one that fails, and 1023
is the last of the store's aliases (`Response`), 1024 the first beyond.

The bounds that are constants of the modules, `MaxCalls`, `MaxEvents`, `MaxFrames`,
`MaxConns`, `MaxLate`, `MaxLosses`, `MaxBuffers`, `MaxOwn`, `MaxPosts`, `MaxFaults` and `MaxInputs`, only end a
behaviour; `MaxAttributes` is 16 in the code, `Dots` 12, `QueueBound` 128, and `Pieces` and the units of
a frame stand for its bytes. The modules that stop at a bound say `Quiescent` or are run
without the deadlock check (`Session`, `StopMib`, `FrameLink`, `TouchPanel`, `MCGuest`,
`DsiProxy`, whose programs really end or stay silent). `GlRpc` and `InputHub` are checked for deadlock.

Every property of a passing run has a mutant: an operator next to the one it replaces,
marked *Mutant* in the modules, with a plausible mistake in that piece of code, which the
property must find.

## Fairness

* `GlRpc`: weak fairness of the host's steps and of a thread's steps inside `rpc`; both
  are running programs with data or an error to act on. A step fails under fairness only
  where the system call reports it (`Broken`); no timeout has to fire. Strong fairness of
  `Lock`: the guest's mutex goes to the thread that has waited longest.
* `InputHub`: each handler thread and each input thread keeps running. `Empty` and
  `Probe` are the one second of `queue.get` and the check for end of file after it.
* `Session`: supervisor and launcher run; the clock reaches the 8 s (`Expire`, strong
  because the loop looks at the processes between two looks at the clock); viewer,
  renderer and launcher have no handler for SIGTERM or end on it. QEMU has no fairness
  for SIGTERM: it may take any time.
* `FrameLink`: QEMU's main loop returns to its sockets; `sendall` ends, by writing or by its
  half-second timeout.

## What is proved

Every safety property that a passing run checks is also a theorem: TLAPS proves it for every value
of the constants, under the assumptions the modules name and TLC evaluates. They are that `NoThread`
is no thread, `NoSlot` no slot, `NoOne` no supervisor, no buffer and no context is called `Default` or
`NoContext`; that bounds are naturals, every message has at least one part, the queue holds at least
one event, a loading animation has a dot, a diagnostic frame at least two pieces, a header and pixels;
that attributes and store events are numbers; that no control is called as one of the other zones. The
theorems speak of the specifications without fairness: `Spec`, and `GlSpec`, `DfSpec`, `StopSpec`.

Each proof has the same shape: an inductive invariant, here with what it adds to the property and
why that is needed; one lemma for each action, one step for each conjunct it can disturb; and the
theorem `Spec => []Invariant`, from which the properties follow.

**The graphics RPC**, for any set of threads, any number of calls and queued connections and any
cutting of the messages. `GlRpcProofs`: `Invariant` (`[]IInv`), `TypeCorrect`, `RepliesMatch`
(`[]ReplyMatchesRequest`, the main result), `Answers`, `WholeCommands`, `CleanLine`.
`GlRpcOrder`: `InCallOrder`, `UnbrokenContext`, `FailureReport`, and `Refinement`:
`Spec => Abstract!Safe`, every step is a step of `RemoteCall` or none.

`ReplyMatchesRequest` says something of the moment a call succeeds; by then it is too
late to know why the bytes were right. `IInv` says what is on the connections at every
moment: each stream to the host holds consecutive parts of one call, continuing the command
the host is in the middle of (`StreamInv`, `CommandInv`); the connection in use is the newest, and
has been closed by the host, is being served or waits in the backlog (`NameInv`, `HostInv`); while
nobody holds the lock it is empty in both directions (`FreeInv`), while the holder sends it holds
the parts sent so far (`SendInv`), and while it reads, what has been read and what is in flight are
the first parts of its own reply (`ReceiveInv`). Only closing on every error makes
`FreeInv` survive `Fail`; that is line 57 of `gl_rpc.h`. The module has four parts: lemmas about
sequences and about what the invariant says of one connection, the guest's steps, the host's
steps, the theorems.

Order needs more than that: a connection given up long ago may still hold commands, which the
host executes before it comes to the next. `OrderInv` says which calls each connection can still
carry: those from the one that opened it to the one before the next connection (`SpanInv`), the
next of them being the one the host expects there (`HostTurn`, `GuestTurn`). So `Execute` always appends
the newest call, which is also the step of `RemoteCall`. `FailureReport` assumes what
the run assumes, one thread that calls `glGetError`; its invariant is that what this thread has
tested is still true when it copies the flag.

**Bindings** (`GuestProofs`), for any threads, contexts, buffers and losses: `Beliefs`
(`[]BeliefsAgree`) and `Meaning` (`[]MeaningKept`). `GlInv` adds that a
context in use is one that was made current (`CurrentInv`), that nothing is set before one was
(`UnusedInv`), that with one context EGL's idea of it is right for a thread that has it
(`StubInv`), and that until a loss the program's names are names in the host (`HeldInv`).

**Diagnostic frames** (`GuestProofs`), for any windows, buffers, posts, pieces and faults:
`FramesAreWhole` (`[]ShownWasPosted`), `SavedAsShown` (`[]SavedIsShown`). `DiagInv` says of each
buffer that its properties tell what its memory was made for, unless the program has set one of the two
itself (`FitInv`), of which a post makes its header and pixels. It looks at the
threads of the viewer: one that has got as far as publishing has all the pieces of its own frame,
and holds the lock; there is at most one; it has shown its frame and then saves it, the image before the count
(`ThreadInv`). While no write is cut, what is saved is what is shown (`SavedInv`), also across a
restart; a count is never higher than the number of threads that have published (`CountInv`), which is why
the counters stay within their type.

**Frames** (`FrameLinkProofs`), for any number of frames and connections and any number of dots: `FlTypeCorrect`,
`WholeFrames`. Each unit has a place in the order of sending. `FlInv` says that all that is under
way is in that order and newer than what was shown (`OrderInv`), that a connection has no gaps
and begins exactly where the device is (`GapInv`), that what will be written continues what was
(`SeamInv`), and that the device is in the middle of one frame (`DeviceInv`).

**Controls** (`InputHubProofs`), for any threads, connections, queue and controls:
`HubTypeCorrect`, `SingleSession`, `DeliveryOrder`, `ReleaseAfterPress`, `Kept`. `HubInv` follows a control:
what an input thread has delivered is before what is on its connection, that before what the
handler is sending, that before the queue (`OrderInv`, `QueueInv`), and a release is always
directly behind its press, across these seams too (`PressInv`). `SlotInv` keeps the
connections apart that the guest has dropped, which is where order would be lost.

`Kept` (`[]NothingLost`) says that as long as no connection is lost each control is queued or on its way or
delivered, with all its packets and in its place. Order is known from `HubInv`; `KeptInv` adds that
the queue is the end of what was accepted, without gaps (`NumberInv`), that all packets are parts
of their events (`GenuineInv`), and that an unbroken session, once begun, never ends and has every
packet of what was taken from the queue (`LineInv`). Two input threads matter here: only the
one whose connection has the session ever delivers.

**Sessions** (`SessionProofs`), for any number of supervisors: `SessionTypeCorrect`,
`CompleteCleanup`, `NoOverlap`. `SessInv` says that the lock is held from its acquisition to the
supervisor's end (`LockInv`); how far a launch has come, and that nothing runs before it
(`LaunchInv`, `ForkInv`); that of a group the cleanup has dealt with only the leader's zombie can be left
(`CleanInv`), whoever dies meanwhile; and that a zombie has a parent that has not ended (`ZombieInv`),
so that the supervisor's end leaves none. The excepted cases, an interrupted launch and a cleanup
cut short, are those of the findings below.

**The stop command** (`SessionProofs`), beside them: `StopComplete`, `StopSuccess`. `StopInv` adds
what is on the list (`ListInv`: whoever lists QEMU lists its launcher) and that after SIGKILL all that can be
left is QEMU's zombie, whose launcher is still to be killed (`KillInv`). It keeps
`SessInv` as well: the signals of the stop command are signals that a session can get anyway.

**The panel** (`TouchPanelProofs`), for any controls, connections and numbers of events:
`PanelTypeCorrect`, `GesturesAreWhole`, `ButtonsOnce`, `PostsInOrder`. `PanelInv` says what the
device's three variables mean in terms of what it last told the HMI (`PointerInv`), that a line is on one
connection or in one POST and nowhere twice, and that a POST is of an earlier line than those still on its
connection (`LinesInv`); and that of the POSTs of one connection at most the last is not given up
and not handled, and those handled are in order but for those given up (`PostsInv`).

**The DSI proxy** (`DsiProxyProofs`), for any threads, attributes and store events: `RequestEnds`,
`AttributesTried`. `ProxyInv` says that the attempts so far and what is left are together what was asked,
and that `handled` is not zero exactly if something was delivered.

**TLC only**: all liveness, and the fairness of `RemoteCall` in `ImplementsRemoteCall`, which are out
of the prover's reach; and the properties of the three runs that find them violated.

## Findings

1. `input_hub_stale`. A test says that a disconnected hub queues nothing
   (`tests/test_input_validation.py:29-32`). `submit` looks at `connected` and queues without the
   lock; a session that ends in between has emptied the queue already. The control waits
   for the next session.
2. `session_launch_gap`. `run_mib.py:99` reports everything stopped. A signal between `Popen` and
   `children.append` (:48) leaves the new service out of the list, and running.
3. `session_interrupted`. `run_mib.py:74` says that a repeated Ctrl-C must not interrupt the
   cleanup. It can, between the entry of the finally clause and the `signal.signal` calls of
   :75-76.

`CleanupIsComplete` and `SessionsDoNotOverlap` are stated so that these two cases are
excluded, and say so.

Met while modelling, without a run of their own:

* `guest/dsi/trace.c:1` says "All calls are forwarded unchanged."; with `power_on` and `empty_store`
  enabled it answers some itself, as `DsiProxy` shows.
* `libEGL_stub.c:153` keeps one current context for the process, and the host has one context for
  all of the guest's. With two contexts `MeaningKept` does not hold, and is not claimed (`Shared`).
* `gen_gl_stubs.py` emits an `eglSwapBuffers` that only returns; the one in `libEGL_stub.c`
  calls `mib_gl_swap`.
* After one delivery that throws, the input thread (`input.h:24`) has an exception pending for good.
* Of two diagnostic frames the one whose thread gets the lock last stays, which need not be the
  newer (`mib_display_receiver.py:55`).
* A POST that gets no answer within a second (`qemu_display.py:34`) may be handled by its thread of the
  viewer after those of the next lines: a touch may reach the hub as its end before its begin.
  `PostedInOrder` says so (`given_up`).
* `restore_frame` says "Show the last diagnostic frame after a receiver restart", but takes any file that
  begins with a PNG's signature: one cut by a kill during `write_bytes` (`mib_display_receiver.py:57`) is shown
  after the restart.
* `run_mib.py:79-80` and `:93-94` expect `killpg` to fail with ProcessLookupError only. If a group has come down
  to zombies when it is signalled, as when a service dies after the last look at it, a PermissionError ends the
  cleanup there, and the groups not yet signalled keep running (`Denied`); the properties of `Session`
  except a cleanup that was cut short.
* A mouse release that the window loses (`mib-display.c:146`) is never made up for.
* The card builder looks at its target (`prepare_map_card.py:56`) before it renames onto it (:73).

## Assumptions about the world outside

* TCP and UNIX sockets keep order; what was sent before a close may or may not be read.
* A pid does not pass to another program between two adjacent system calls, nor during one listing
  of processes (`StopMib`); the cleanup's 8 s end within stop_mib's 15 s; SIGKILL takes effect.
* `killpg` on a group of zombies fails with EPERM, as macOS has it, which Python makes a PermissionError
  (`Denied`); on a group that is no more, with ESRCH.
* QEMU's socket chardev serves one connection at a time.
* What a GL command does to a GL context is, for `GlRpc`, its place in the history of commands
  executed there; for `GlBindings`, its effect on buffers, their bindings and one setting that stands for all.
* A program keeps EGL's rules: a context is current in one thread at most, GL is called with a
  context, and a thread releases only its own.
* A pid is not reused between stop_mib's look at the birth time and its kill (`stop_mib.py:14`).

## Not modelled

`PROJECT.json` lists every component with its reason. Outside for good:

* `mac_renderer.py`: calls into the GPU's library, whose effects are not in this repository.
* `libGLESv2_stub.c`: generated entry points that log and return constants; a running system has the
  bridge in its place.
* Generators, build, image preparation, inspection: sequential transformations of files, with
  nothing beside them.
* Of the Screen and EGL stubs: tables of constant answers, and groups, devices and events, of which
  nothing leaves the library.
* Console tools: clients of the launcher's console socket; they keep no state.
* `prepare_map_card.py`: one sequential run that builds beside its target and renames.
* How the display draws the panel; the words of HTTP, JSON and logs.

## Plan

What could still be added, in order:

1. Composition of `TouchPanel` and `InputHub`: a press on the window until its delivery. Each is
   checked against any behaviour of the other today.
2. `Console`: the launcher's console socket and its clients.
3. `MapCard`: the card builder with a failure at every step.
4. Pure operators against a reference: `hit`, the validation of requests, the batching of
   `send_request`.

Proofs: all safety properties of the runs are theorems. What could follow is refinement of abstract
specifications as `RemoteCall` is one for `GlRpc`: a lossy bounded queue for `InputHub`, a display of
ever newer pictures for `FrameLink`.
