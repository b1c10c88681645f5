------------------------------ MODULE StopMib ------------------------------
(***************************************************************************)
(* scripts/stop_mib.py beside a running Session: it lists the processes of *)
(* the project (mib_processes.owned_processes), the supervisor among them, *)
(* sends each a SIGTERM, waits up to 15 s for all to go and sends SIGKILL  *)
(* to those that have not.  A process is known by its pid and the time of  *)
(* its birth, so that what follows never touches a program that got the    *)
(* pid of an ended process.                                                *)
(*                                                                         *)
(* Two assumptions on time: a pid does not change hands between the look   *)
(* at its birth time and the signal, nor while the list is made; and the   *)
(* cleanup of a supervisor, which takes 8 s, ends within the 15 s.         *)
(***************************************************************************)
EXTENDS Session

VARIABLES
  stop,         \* where stop_mib is
  targets,      \* the processes on its list
  todo          \* those still to be signalled in this round
stopping == <<stop, targets, todo>>

(* Names of processes: a run of run_mib.py, or a process of its session. *)
Names == Supervisors \X (Procs \cup {"supervisor"})

(* birth(pid) is still the stamp of the list. *)
Same(id) ==
  IF id[2] = "supervisor" THEN pc[id[1]] \notin Ended \cup {"idle"}
  ELSE Present(id[1], id[2])

StopInit ==
  /\ Init
  /\ stop = "idle"
  /\ targets = {} /\ todo = {}

-----------------------------------------------------------------------------
(* A zombie has no command line any more: it is not listed. *)
List ==
  /\ stop = "idle"
  /\ targets' = {id \in Names : Same(id) /\ (id[2] # "supervisor" => Running(id[1], id[2]))}
  /\ todo' = targets'
  /\ stop' = IF targets' = {} THEN "done" ELSE "term"
  /\ UNCHANGED vars

(* SIGTERM is the second of the signals a supervisor handles. *)
Deliver(id) ==
  LET s == id[1]
  IN  CASE id[2] = "supervisor" -> IF Heard(s, 2) THEN Signal(s, 2) ELSE UNCHANGED vars
        [] OTHER -> /\ sigterm' = [sigterm EXCEPT ![s] =
                                    IF Running(s, id[2]) THEN @ \cup {id[2]} ELSE @]
                    /\ UNCHANGED <<lock, pc, children, cleanup, proc, giving_up>>

Term(id) ==
  /\ stop = "term"
  /\ id \in todo
  /\ IF Same(id) THEN Deliver(id) ELSE UNCHANGED vars
  /\ todo' = todo \ {id}
  /\ UNCHANGED <<stop, targets>>

(* Mutant: success is reported as soon as all have been signalled. *)
WaitNot ==
  /\ stop = "term"
  /\ todo = {}
  /\ stop' = "done"
  /\ UNCHANGED <<vars, targets, todo>>

Wait ==
  /\ stop = "term"
  /\ todo = {}
  /\ stop' = "wait"
  /\ UNCHANGED <<vars, targets, todo>>

AllGone ==
  /\ stop = "wait"
  /\ \A id \in targets : ~Same(id)
  /\ stop' = "done"
  /\ UNCHANGED <<vars, targets, todo>>

(* Mutant: fifteen seconds that do not outlast the cleanup. *)
TimeoutEarly ==
  /\ stop = "wait"
  /\ todo' = {id \in targets : Same(id)}
  /\ todo' # {}
  /\ stop' = "kill"
  /\ UNCHANGED <<vars, targets>>

(* Fifteen seconds are over. *)
Timeout ==
  /\ stop = "wait"
  /\ \A s \in Supervisors : ~Same(<<s, "supervisor">>)
  /\ todo' = {id \in targets : Same(id)}
  /\ todo' # {}
  /\ stop' = "kill"
  /\ UNCHANGED <<vars, targets>>

(* No supervisor is left to get a SIGKILL. *)
Kill9(id) ==
  /\ stop = "kill"
  /\ id \in todo
  /\ IF Same(id) THEN Exit(id[1], {id[2]}) ELSE UNCHANGED proc
  /\ todo' = todo \ {id}
  /\ UNCHANGED <<lock, pc, children, cleanup, sigterm, giving_up, stop, targets>>

Verify ==
  /\ stop = "kill"
  /\ todo = {}
  /\ stop' = IF \E id \in targets : Same(id) THEN "failed" ELSE "done"
  /\ UNCHANGED <<vars, targets, todo>>

StopMib ==
  \/ List \/ Wait \/ AllGone \/ Timeout \/ Verify
  \/ \E id \in Names : Term(id) \/ Kill9(id)

StopNext ==
  \/ Next /\ UNCHANGED stopping
  \/ StopMib

StopSpec == StopInit /\ [][StopNext]_<<vars, stopping>>

-----------------------------------------------------------------------------
(* Properties. *)

(* When stop_mib reports success, the processes it listed are gone, and so *)
(* are those that a supervisor on the list, or its launcher, started while *)
(* stop_mib was at work - unless a signal cut that supervisor's launch or  *)
(* cleanup short.                                                          *)
StopIsComplete ==
  stop = "done" =>
     /\ \A id \in targets : ~Same(id)
     /\ \A s \in Supervisors : (<<s, "supervisor">> \in targets /\ pc[s] # "crashed") =>
           \A g \in Children(s), p \in Procs : p \in Members(g) => ~Present(s, p)

(* It never has to report that processes could not be stopped: what the    *)
(* SIGKILLs leave is no zombie that still has a parent.                    *)
StopSucceeds == stop # "failed"
=============================================================================
