------------------------------ MODULE Session ------------------------------
(***************************************************************************)
(* A session of the emulator: scripts/run_mib.py starts the viewer, the    *)
(* renderer and the launcher (scripts/probe_qemu.py), which starts QEMU,   *)
(* watches them, and on any end - a signal, a service that died - stops    *)
(* everything it started before it releases the session lock.              *)
(*                                                                         *)
(* Each service leads a process group of its own (start_new_session); QEMU *)
(* is in the launcher's.  A process that has ended stays a zombie until    *)
(* its parent reaps it, or init when the parent has ended.  The services   *)
(* and the launcher die of SIGTERM at once; QEMU shuts down when it        *)
(* pleases.  SIGKILL ends a process immediately.  No signal can be sent to *)
(* a group of which only zombies are left: the supervisor, which expects   *)
(* no such answer, ends with PermissionError.                              *)
(***************************************************************************)
EXTENDS Integers, Sequences, FiniteSets

CONSTANTS Supervisors,  \* runs of run_mib.py
          NoOne         \* the session lock is free

ASSUME NoOneAssumption == NoOne \notin Supervisors

VARIABLES
  lock,         \* holder of reports/mib-session.lock
  pc,           \* pc[s]: where run s is
  children,     \* children[s]: how many of Services it has recorded
  ignored,      \* ignored[s]: how many of the three signals it ignores
  remaining,    \* remaining[s]: groups the cleanup has still to deal with
  groups,       \* groups[s]: those found alive by the last ps
  proc,         \* proc[s][p]: state of process p of session s
  sigterm,      \* sigterm[s]: processes with a SIGTERM on its way
  giving_up     \* giving_up[s]: the launcher is in its finally clause
vars == <<lock, pc, children, ignored, remaining, groups, proc, sigterm, giving_up>>

(* The services in the order of launch, and the process groups they lead. *)
Services == <<"viewer", "renderer", "launcher">>
Groups == {"viewer", "renderer", "launcher"}
Procs == Groups \cup {"qemu"}
Members(g) == IF g = "launcher" THEN {"launcher", "qemu"} ELSE {g}
Children(s) == {Services[i] : i \in 1..children[s]}

Ended == {"already", "refused", "crashed", "stopped"}
Trying == {"launch", "forked", "settle", "monitor"}

Running(s, p) == proc[s][p] = "running"
Present(s, p) == proc[s][p] \in {"running", "zombie"}

Init ==
  /\ lock = NoOne
  /\ pc = [s \in Supervisors |-> "idle"]
  /\ children = [s \in Supervisors |-> 0]
  /\ ignored = [s \in Supervisors |-> 0]
  /\ remaining = [s \in Supervisors |-> {}]
  /\ groups = [s \in Supervisors |-> {}]
  /\ proc = [s \in Supervisors |-> [p \in Procs |-> "none"]]
  /\ sigterm = [s \in Supervisors |-> {}]
  /\ giving_up = [s \in Supervisors |-> FALSE]

Goto(s, place) == pc' = [pc EXCEPT ![s] = place]
processes == <<proc, sigterm, giving_up>>
cleanup == <<ignored, remaining, groups>>

-----------------------------------------------------------------------------
(* The end of processes. *)

Orphan(s, p) ==
  IF p = "qemu" THEN ~Running(s, "launcher") ELSE pc[s] \in Ended

(* Processes P of session s end; init reaps those whose parent ends too. *)
Exit(s, P) ==
  proc' = [proc EXCEPT ![s] = [p \in Procs |->
    CASE Running(s, p) /\ p \in P ->
           IF Orphan(s, p) \/ (p = "qemu" /\ "launcher" \in P) THEN "gone" ELSE "zombie"
      [] @[p] = "zombie" /\ p = "qemu" /\ "launcher" \in P -> "gone"
      [] OTHER -> @[p]]]

(* Run s reaps those of its children P that have ended. *)
Poll(s, P) ==
  proc' = [proc EXCEPT ![s] = [p \in Procs |->
    IF p \in P /\ @[p] = "zombie" THEN "gone" ELSE @[p]]]

(* Run s itself ends, and with it its hold on the lock. *)
Leave(s, how) ==
  /\ Goto(s, how)
  /\ lock' = IF lock = s THEN NoOne ELSE lock
  /\ Poll(s, Groups)
  /\ UNCHANGED <<children, cleanup, sigterm, giving_up>>

-----------------------------------------------------------------------------
(* run_mib.py: start and watch. *)

Lock(s) ==
  /\ pc[s] = "idle"
  /\ IF lock = NoOne THEN lock' = s /\ Goto(s, "check") ELSE UNCHANGED lock /\ Goto(s, "already")
  /\ UNCHANGED <<children, cleanup, processes>>

(* A file is missing or a port is in use. *)
Refuse(s) == pc[s] = "check" /\ Leave(s, "refused")

Arm(s) ==
  /\ pc[s] = "check"
  /\ Goto(s, "launch")
  /\ UNCHANGED <<lock, children, cleanup, processes>>

(* launch: Popen, and only then children.append. *)
Fork(s) ==
  /\ pc[s] = "launch"
  /\ proc' = [proc EXCEPT ![s][Services[children[s] + 1]] = "running"]
  /\ Goto(s, "forked")
  /\ UNCHANGED <<lock, children, cleanup, sigterm, giving_up>>

LaunchFails(s) ==
  /\ pc[s] = "launch"
  /\ Goto(s, "finally")
  /\ UNCHANGED <<lock, children, cleanup, processes>>

(* Mutant: recorded by launch and again by its caller. *)
RecordTwice(s) ==
  /\ pc[s] = "forked"
  /\ children' = [children EXCEPT ![s] = @ + 2]
  /\ Goto(s, IF children[s] = 0 THEN "launch" ELSE "monitor")
  /\ UNCHANGED <<lock, cleanup, processes>>

Record(s) ==
  /\ pc[s] = "forked"
  /\ children' = [children EXCEPT ![s] = @ + 1]
  /\ Goto(s, CASE children[s] = 0 -> "launch"
               [] children[s] = 1 -> "settle"
               [] OTHER -> "monitor")
  /\ UNCHANGED <<lock, cleanup, processes>>

(* The first two services have lived for a second: on to the launcher. *)
Settle(s) ==
  /\ pc[s] = "settle"
  /\ \A p \in Children(s) : Running(s, p)
  /\ Goto(s, "launch")
  /\ UNCHANGED <<lock, children, cleanup, processes>>

(* Mutant: a service that ended cleanly is not taken for a failure. *)
NoticeNothing(s) == FALSE

(* poll finds the first service that has ended: RuntimeError. *)
Notice(s) ==
  /\ pc[s] \in {"settle", "monitor"}
  /\ \E i \in 1..children[s] :
       /\ ~Running(s, Services[i])
       /\ \A j \in 1..(i - 1) : Running(s, Services[j])
       /\ Poll(s, {Services[i]})
  /\ Goto(s, "finally")
  /\ UNCHANGED <<lock, children, cleanup, sigterm, giving_up>>

(* SIGINT, SIGTERM or SIGHUP, in the order in which the cleanup ignores    *)
(* them.  Outside the try it ends the program, inside it interrupts; in    *)
(* the finally clause those not yet ignored abort the cleanup.             *)
Heard(s, k) == pc[s] \in Trying \cup {"check"} \/ (pc[s] = "finally" /\ k > ignored[s])

Signal(s, k) ==
  /\ Heard(s, k)
  /\ IF pc[s] \in Trying
     THEN Goto(s, "caught") /\ UNCHANGED <<lock, children, cleanup, processes>>
     ELSE Leave(s, IF pc[s] = "check" THEN "refused" ELSE "crashed")

(* The except clause; another signal in it leads to the same place. *)
Caught(s) ==
  /\ pc[s] = "caught"
  /\ Goto(s, "finally")
  /\ UNCHANGED <<lock, children, cleanup, processes>>

-----------------------------------------------------------------------------
(* run_mib.py: the finally clause. *)

Ignore(s) ==
  /\ pc[s] = "finally"
  /\ ignored' = [ignored EXCEPT ![s] = @ + 1]
  /\ remaining' = [remaining EXCEPT ![s] = Children(s)]
  /\ IF ignored[s] = 2 THEN Goto(s, "terminate") ELSE UNCHANGED pc
  /\ UNCHANGED <<lock, children, groups, processes>>

(* Nobody in group g but zombies. *)
Unkillable(s, g) ==
  /\ \E p \in Members(g) : Present(s, p)
  /\ \A p \in Members(g) : ~Running(s, p)

(* The next group to get a SIGTERM: the launcher's first. *)
NextGroup(s, i) == remaining[s] = {Services[j] : j \in 1..i}

(* killpg says EPERM, which ends the program in its finally clause. *)
Denied(s) ==
  /\ \/ pc[s] = "terminate" /\ \E i \in 1..children[s] :
                                 NextGroup(s, i) /\ Unkillable(s, Services[i])
     \/ pc[s] = "kill" /\ \E g \in remaining[s] : Unkillable(s, g)
  /\ Leave(s, "crashed")

(* killpg(SIGTERM); a group that is no more is passed over. *)
Terminate(s) ==
  /\ pc[s] = "terminate"
  /\ \E i \in 1..children[s] :
       /\ NextGroup(s, i)
       /\ ~Unkillable(s, Services[i])
       /\ sigterm' = [sigterm EXCEPT ![s] =
                        @ \cup {p \in Members(Services[i]) : Running(s, p)}]
       /\ remaining' = [remaining EXCEPT ![s] = @ \ {Services[i]}]
  /\ UNCHANGED <<lock, pc, children, ignored, groups, proc, giving_up>>

(* Mutant: the lock is released as soon as the services have been told. *)
TerminatedUnlocks(s) ==
  /\ pc[s] = "terminate"
  /\ remaining[s] = {}
  /\ remaining' = [remaining EXCEPT ![s] = Children(s)]
  /\ Goto(s, "wait")
  /\ lock' = NoOne
  /\ UNCHANGED <<children, ignored, groups, processes>>

Terminated(s) ==
  /\ pc[s] = "terminate"
  /\ remaining[s] = {}
  /\ remaining' = [remaining EXCEPT ![s] = Children(s)]
  /\ Goto(s, "wait")
  /\ UNCHANGED <<lock, children, ignored, groups, processes>>

(* Mutant: only the leader of a group is looked for. *)
LookForLeaders(s) ==
  /\ pc[s] = "wait"
  /\ remaining[s] # {}
  /\ groups' = [groups EXCEPT ![s] = {g \in Groups : Present(s, g)}]
  /\ Goto(s, "poll")
  /\ UNCHANGED <<lock, children, ignored, remaining, processes>>

(* ps: the groups that still have a process, or a zombie. *)
Look(s) ==
  /\ pc[s] = "wait"
  /\ remaining[s] # {}
  /\ groups' = [groups EXCEPT ![s] = {g \in Groups : \E p \in Members(g) : Present(s, p)}]
  /\ Goto(s, "poll")
  /\ UNCHANGED <<lock, children, ignored, remaining, processes>>

(* Leaders that have ended are reaped after that ps: their group is looked *)
(* for once more.                                                          *)
Reap(s) ==
  /\ pc[s] = "poll"
  /\ Poll(s, remaining[s])
  /\ remaining' = [remaining EXCEPT ![s] = @ \cap groups[s]]
  /\ groups' = [groups EXCEPT ![s] = {}]
  /\ Goto(s, "wait")
  /\ UNCHANGED <<lock, children, ignored, sigterm, giving_up>>

(* Mutant: no deadline. *)
ExpireNever(s) == FALSE

(* Eight seconds are over. *)
Expire(s) ==
  /\ pc[s] = "wait"
  /\ remaining[s] # {}
  /\ Goto(s, "kill")
  /\ UNCHANGED <<lock, children, cleanup, processes>>

Kill(s) ==
  /\ pc[s] = "kill"
  /\ \E g \in remaining[s] :
       /\ ~Unkillable(s, g)
       /\ Exit(s, Members(g))
       /\ remaining' = [remaining EXCEPT ![s] = @ \ {g}]
  /\ UNCHANGED <<lock, pc, children, ignored, groups, sigterm, giving_up>>

(* p.wait() for every recorded child. *)
Collect(s) ==
  /\ pc[s] \in {"wait", "kill"}
  /\ remaining[s] = {}
  /\ \A p \in Children(s) : ~Running(s, p)
  /\ Poll(s, Children(s))
  /\ Goto(s, "unlock")
  /\ UNCHANGED <<lock, children, cleanup, sigterm, giving_up>>

Unlock(s) == pc[s] = "unlock" /\ Leave(s, "stopped")

-----------------------------------------------------------------------------
(* probe_qemu.py, and the other processes. *)

Spawn(s) ==
  /\ Running(s, "launcher")
  /\ proc[s]["qemu"] = "none"
  /\ proc' = [proc EXCEPT ![s]["qemu"] = "running"]
  /\ UNCHANGED <<lock, pc, children, cleanup, sigterm, giving_up>>

(* A prompt or a command marker that did not come in time. *)
GiveUp(s) ==
  /\ Running(s, "launcher") /\ Running(s, "qemu")
  /\ ~giving_up[s]
  /\ giving_up' = [giving_up EXCEPT ![s] = TRUE]
  /\ sigterm' = [sigterm EXCEPT ![s] = @ \cup {"qemu"}]
  /\ UNCHANGED <<lock, pc, children, cleanup, proc>>

GiveUpKill(s) ==
  /\ Running(s, "launcher") /\ Running(s, "qemu")
  /\ giving_up[s]
  /\ Exit(s, {"qemu"})
  /\ UNCHANGED <<lock, pc, children, cleanup, sigterm, giving_up>>

(* QEMU has ended (or the launcher failed before it): the launcher ends. *)
LauncherEnds(s) ==
  /\ Running(s, "launcher")
  /\ ~Running(s, "qemu")
  /\ Exit(s, {"launcher"})
  /\ UNCHANGED <<lock, pc, children, cleanup, sigterm, giving_up>>

(* A service fails, QEMU's window is closed. *)
Crash(s, p) ==
  /\ p # "launcher"
  /\ Running(s, p)
  /\ Exit(s, {p})
  /\ UNCHANGED <<lock, pc, children, cleanup, sigterm, giving_up>>

Obey(s, p) ==
  /\ p \in sigterm[s]
  /\ Running(s, p)
  /\ Exit(s, {p})
  /\ UNCHANGED <<lock, pc, children, cleanup, sigterm, giving_up>>

-----------------------------------------------------------------------------
Run(s) ==
  \/ Arm(s) \/ Fork(s) \/ Record(s) \/ Settle(s) \/ Notice(s) \/ Caught(s)
  \/ Ignore(s) \/ Terminate(s) \/ Terminated(s) \/ Look(s) \/ Reap(s) \/ Expire(s)
  \/ Kill(s) \/ Denied(s) \/ Collect(s) \/ Unlock(s)

Launcher(s) == GiveUpKill(s) \/ LauncherEnds(s)

Next ==
  \E s \in Supervisors :
     \/ Lock(s) \/ Refuse(s) \/ LaunchFails(s) \/ Run(s)
     \/ \E k \in 1..3 : Signal(s, k)
     \/ Spawn(s) \/ GiveUp(s) \/ Launcher(s)
     \/ \E p \in Procs : Crash(s, p) \/ Obey(s, p)

(* The supervisor and the launcher keep running, the clock reaches the     *)
(* deadline, and programs without a handler die of SIGTERM.  QEMU need not. *)
Fairness ==
  \A s \in Supervisors :
     /\ WF_vars(Run(s)) /\ SF_vars(Expire(s))
     /\ WF_vars(Launcher(s))
     /\ \A p \in Groups : WF_vars(Obey(s, p))

Spec == Init /\ [][Next]_vars
FairSpec == Spec /\ Fairness

-----------------------------------------------------------------------------
(* Properties. *)

TypeOK ==
  /\ lock \in Supervisors \cup {NoOne}
  /\ pc \in [Supervisors -> Ended \cup Trying \cup
              {"idle", "check", "caught", "finally", "terminate", "wait", "poll", "kill", "unlock"}]
  /\ children \in [Supervisors -> 0..3]
  /\ ignored \in [Supervisors -> 0..3]
  /\ remaining \in [Supervisors -> SUBSET Groups]
  /\ groups \in [Supervisors -> SUBSET Groups]
  /\ proc \in [Supervisors -> [Procs -> {"none", "running", "zombie", "gone"}]]
  /\ sigterm \in [Supervisors -> SUBSET Procs]
  /\ giving_up \in [Supervisors -> BOOLEAN]

(* A cleanup that has come to its end leaves nothing of any recorded       *)
(* service, its descendants included: the launcher may have died before    *)
(* QEMU, or started it after the SIGTERM to the group (run_mib.py:78).     *)
CleanupIsComplete ==
  \A s \in Supervisors : pc[s] \in {"unlock", "stopped"} =>
     \A g \in Children(s), p \in Procs : p \in Members(g) => ~Present(s, p)

(* Services of two sessions never run side by side, unless a cleanup was   *)
(* cut short (by a signal, or by a killpg that is denied) or a launch      *)
(* interrupted: the lock is held until the last of them is gone.           *)
Leaked(s) == Procs \ UNION {Members(g) : g \in Children(s)}
SessionsDoNotOverlap ==
  \A s, u \in Supervisors :
     (s # u /\ pc[s] \notin Ended /\ pc[u] # "crashed") =>
        \A p \in Procs : Running(u, p) /\ lock = s => p \in Leaked(u)

(* "MIB stopped, including QEMU and display services." (run_mib.py:99):    *)
(* whatever the session started is gone when it ends that way.             *)
StoppedIncludesEverything ==
  \A s \in Supervisors : pc[s] = "stopped" => \A p \in Procs : ~Running(s, p)

(* "Repeated Ctrl-C must not interrupt cleanup and leave QEMU running."    *)
(* (run_mib.py:74, README.md).  A cleanup that ends before the signals are *)
(* ignored was ended by one.                                               *)
CleanupIsNotInterrupted ==
  \A s \in Supervisors : pc[s] = "crashed" /\ ignored[s] < 3 => ~Running(s, "qemu")

(* Once entered, the cleanup ends, however long QEMU ignores SIGTERM. *)
CleanupEnds == \A s \in Supervisors : pc[s] = "finally" ~> pc[s] \in Ended

(* The end of QEMU, by itself or because the launcher gave up, ends the    *)
(* session: launcher and supervisor notice one after the other.            *)
QemuEndsSession ==
  \A s \in Supervisors : proc[s]["qemu"] \in {"zombie", "gone"} ~> pc[s] \in Ended
=============================================================================
