---------------------------- MODULE SessionProofs ----------------------------
(***************************************************************************)
(* A session that stops leaves nothing of what it recorded, two sessions   *)
(* never run side by side, and stop_mib tells the truth, for any number of *)
(* supervisors.  SessInv is the invariant of Session; StopInv that of the  *)
(* stop command beside it.                                                 *)
(***************************************************************************)
EXTENDS StopMib, TLAPS

States == {"none", "running", "zombie", "gone"}
Places == Ended \cup Trying \cup
          {"idle", "check", "caught", "finally", "terminate", "wait", "poll", "kill", "unlock"}
Untouched == {"idle", "check", "already", "refused"}

(* The lock is held from its acquisition until the supervisor ends.        *)
LockInv ==
  \A s \in Supervisors : pc[s] \notin Ended \cup {"idle"} <=> lock = s

(* How far the launch of run s has come, and its cleanup with the signals. *)
LaunchInv(s) ==
  /\ pc[s] \in Untouched => children[s] = 0
  /\ pc[s] \in {"launch", "forked"} => children[s] <= 2
  /\ pc[s] = "settle" => children[s] = 2
  /\ pc[s] \in Untouched \cup Trying \cup {"caught"} => ignored[s] = 0
  /\ pc[s] = "finally" => ignored[s] <= 2

(* No service runs before its launch, and QEMU not before the launcher.    *)
Launched(s) == IF pc[s] = "forked" THEN children[s] + 1 ELSE children[s]
ForkInv(s) ==
  /\ pc[s] \in Untouched => \A p \in Procs : proc[s][p] = "none"
  /\ pc[s] \in Trying => \A i \in 1..3 : i > Launched(s) => proc[s][Services[i]] = "none"
  /\ proc[s]["launcher"] = "none" => proc[s]["qemu"] = "none"

(* Of a group the cleanup has dealt with, at most the zombie of its leader *)
(* is left; of one that ps did not find, nothing; at the end nothing.      *)
Absent(s, g) == \A p \in Members(g) : ~Present(s, p)
CleanInv(s) ==
  /\ pc[s] \in {"wait", "poll", "kill"} =>
       \A g \in Children(s) \ remaining[s] :
          ~Running(s, g) /\ \A p \in Members(g) \ {g} : ~Present(s, p)
  /\ pc[s] = "poll" => \A g \in Children(s) \ groups[s] : Absent(s, g)
  /\ pc[s] \in {"unlock", "stopped"} => \A g \in Children(s) : Absent(s, g)

(* A zombie has a parent that has not ended.                               *)
ZombieInv(s) ==
  /\ \A g \in Groups : proc[s][g] = "zombie" => pc[s] \notin Ended
  /\ proc[s]["qemu"] = "zombie" => Running(s, "launcher")

RunInv(s) == LaunchInv(s) /\ ForkInv(s) /\ CleanInv(s) /\ ZombieInv(s)

SessInv == TypeOK /\ LockInv /\ \A s \in Supervisors : RunInv(s)

(* What is on the list was running when it was made.                       *)
ListInv ==
  /\ stop \in {"idle", "term", "wait", "kill", "done", "failed"}
  /\ targets \subseteq Names /\ todo \subseteq targets
  /\ stop = "idle" => targets = {}
  /\ \A id \in targets :
       IF id[2] = "supervisor" THEN pc[id[1]] # "idle"
       ELSE pc[id[1]] # "idle" /\ proc[id[1]][id[2]] # "none"
  /\ \A s \in Supervisors :
       <<s, "qemu">> \in targets /\ Running(s, "launcher") => <<s, "launcher">> \in targets

(* SIGKILL leaves at most a zombie of QEMU, whose launcher is still to be  *)
(* killed.                                                                 *)
Reapable(id) ==
  /\ id[2] = "qemu" /\ Running(id[1], "launcher")
  /\ <<id[1], "launcher">> \in todo /\ ~Running(id[1], "qemu")
KillInv ==
  stop = "kill" =>
     \A id \in targets :
        /\ pc[id[1]] \in Ended
        /\ id \notin todo => ~Same(id) \/ Reapable(id)
        /\ id[2] = "supervisor" => id \notin todo

StopInv ==
  /\ SessInv /\ ListInv /\ KillInv /\ StopSucceeds
  /\ stop = "done" => \A id \in targets : ~Same(id)

-----------------------------------------------------------------------------
(* The services and the groups they lead.                                  *)
LEMMA ServiceFacts ==
  /\ \A i \in 1..3 : Services[i] \in Groups
  /\ \A i, j \in 1..3 : Services[i] = Services[j] => i = j
  /\ Services[1] = "viewer" /\ Services[2] = "renderer" /\ Services[3] = "launcher"
  /\ Groups \subseteq Procs /\ "launcher" \in Groups /\ "qemu" \in Procs /\ "qemu" \notin Groups
  /\ \A p \in Procs : p \in Groups \/ p = "qemu"
  /\ \A g \in Groups : g \in Members(g) /\ Members(g) \subseteq Procs
  /\ \A g \in Groups : \A p \in Members(g) \ {g} : g = "launcher" /\ p = "qemu"
  /\ "qemu" \in Members("launcher")
BY DEF Services, Groups, Procs, Members

LEMMA ChildrenFacts ==
  ASSUME TypeOK, NEW s \in Supervisors
  PROVE  /\ Children(s) \subseteq Groups
         /\ children[s] \in 0..3
<1>1. children[s] \in 0..3 BY DEF TypeOK
<1>2. \A i \in 1..children[s] : i \in 1..3 BY <1>1
<1>3. \A i \in 1..children[s] : Services[i] \in Groups BY <1>2, ServiceFacts
<1> QED BY <1>1, <1>3 DEF Children

(* The only run that changes is s.                                         *)
Only(s) ==
  \A u \in Supervisors \ {s} :
     /\ pc'[u] = pc[u] /\ children'[u] = children[u] /\ ignored'[u] = ignored[u]
     /\ remaining'[u] = remaining[u] /\ groups'[u] = groups[u] /\ proc'[u] = proc[u]

LEMMA OtherRuns ==
  ASSUME NEW s \in Supervisors, Only(s), NEW u \in Supervisors \ {s}, RunInv(u)
  PROVE  RunInv(u)'
<1>1. /\ pc'[u] = pc[u] /\ children'[u] = children[u] /\ ignored'[u] = ignored[u]
      /\ remaining'[u] = remaining[u] /\ groups'[u] = groups[u] /\ proc'[u] = proc[u]
  BY DEF Only
<1>2. LaunchInv(u)' BY <1>1 DEF RunInv, LaunchInv
<1>3. ForkInv(u)' BY <1>1 DEF RunInv, ForkInv, Launched
<1>4. Children(u)' = Children(u) BY <1>1 DEF Children
<1>5. CleanInv(u)' BY <1>1, <1>4 DEF RunInv, CleanInv, Absent, Running, Present
<1>6. ZombieInv(u)' BY <1>1 DEF RunInv, ZombieInv, Running
<1> QED BY <1>2, <1>3, <1>5, <1>6 DEF RunInv

(* Processes of s end or are reaped: none comes to life.                   *)
Fades(s) ==
  /\ proc' \in [Supervisors -> [Procs -> States]]
  /\ \A u \in Supervisors \ {s} : proc'[u] = proc[u]
  /\ \A p \in Procs :
       \/ proc'[s][p] = proc[s][p]
       \/ proc[s][p] = "running" /\ proc'[s][p] \in {"zombie", "gone"}
       \/ proc[s][p] = "zombie" /\ proc'[s][p] = "gone"
  /\ proc'[s]["qemu"] = "zombie" => proc'[s]["launcher"] = "running"

LEMMA ExitFades ==
  ASSUME TypeOK, NEW s \in Supervisors, ZombieInv(s), NEW P, Exit(s, P)
  PROVE  /\ Fades(s)
         /\ \A p \in P \cap Procs : proc'[s][p] # "running"
         /\ \A g \in Groups : /\ proc[s][g] = "zombie" <=> (proc[s][g] # "running" /\ proc'[s][g] = "zombie")
                              /\ pc[s] \in Ended /\ proc[s][g] = "running" => proc'[s][g] # "zombie"
         /\ "launcher" \in P /\ "qemu" \in P => proc'[s]["qemu"] \in {"none", "gone"}
         /\ "launcher" \in P => proc'[s]["qemu"] # "zombie"
<1> DEFINE new == [p \in Procs |->
                    CASE Running(s, p) /\ p \in P ->
                           IF Orphan(s, p) \/ (p = "qemu" /\ "launcher" \in P) THEN "gone" ELSE "zombie"
                      [] proc[s][p] = "zombie" /\ p = "qemu" /\ "launcher" \in P -> "gone"
                      [] OTHER -> proc[s][p]]
<1>1. proc' = [proc EXCEPT ![s] = new] BY DEF Exit
<1>2. proc \in [Supervisors -> [Procs -> States]] BY DEF TypeOK, States
<1>3. proc'[s] = new /\ \A u \in Supervisors \ {s} : proc'[u] = proc[u] BY <1>1, <1>2
<1>4. \A p \in Procs :
        /\ Running(s, p) /\ p \in P =>
             new[p] = IF Orphan(s, p) \/ (p = "qemu" /\ "launcher" \in P) THEN "gone" ELSE "zombie"
        /\ ~(Running(s, p) /\ p \in P) =>
             new[p] = IF proc[s][p] = "zombie" /\ p = "qemu" /\ "launcher" \in P THEN "gone"
                      ELSE proc[s][p]
  OBVIOUS
<1>5. new \in [Procs -> States] BY <1>2, <1>4 DEF States
<1> HIDE DEF new
<1>6. proc' \in [Supervisors -> [Procs -> States]] BY <1>1, <1>2, <1>5
<1>7. \A p \in Procs :
       \/ new[p] = proc[s][p]
       \/ proc[s][p] = "running" /\ new[p] \in {"zombie", "gone"}
       \/ proc[s][p] = "zombie" /\ new[p] = "gone"
  BY <1>4 DEF Running
<1>8. new["qemu"] = "zombie" => new["launcher"] = "running"
  BY <1>2, <1>4, ServiceFacts DEF Running, Orphan, ZombieInv
<1>9. Fades(s) BY <1>3, <1>6, <1>7, <1>8 DEF Fades
<1>10. \A p \in P \cap Procs : new[p] # "running" BY <1>2, <1>4 DEF Running
<1>11. \A g \in Groups :
         /\ proc[s][g] = "zombie" <=> (proc[s][g] # "running" /\ new[g] = "zombie")
         /\ pc[s] \in Ended /\ proc[s][g] = "running" => new[g] # "zombie"
  BY <1>2, <1>4, ServiceFacts DEF Running, Orphan
<1>12. /\ "launcher" \in P /\ "qemu" \in P => new["qemu"] \in {"none", "gone"}
       /\ "launcher" \in P => new["qemu"] # "zombie"
  BY <1>2, <1>4, ServiceFacts DEF Running, States
<1> QED BY <1>3, <1>9, <1>10, <1>11, <1>12

LEMMA PollFades ==
  ASSUME TypeOK, NEW s \in Supervisors, ZombieInv(s), NEW P, P \subseteq Groups, Poll(s, P)
  PROVE  /\ Fades(s)
         /\ \A p \in Procs : proc'[s][p] = IF p \in P /\ proc[s][p] = "zombie" THEN "gone" ELSE proc[s][p]
<1> DEFINE new == [p \in Procs |-> IF p \in P /\ proc[s][p] = "zombie" THEN "gone" ELSE proc[s][p]]
<1>1. proc' = [proc EXCEPT ![s] = new] BY DEF Poll
<1>2. proc \in [Supervisors -> [Procs -> States]] BY DEF TypeOK, States
<1>3. proc'[s] = new /\ \A u \in Supervisors \ {s} : proc'[u] = proc[u] BY <1>1, <1>2
<1>4. \A p \in Procs : new[p] = IF p \in P /\ proc[s][p] = "zombie" THEN "gone" ELSE proc[s][p]
  OBVIOUS
<1>5. new \in [Procs -> States] BY <1>2 DEF States
<1> HIDE DEF new
<1>6. proc' \in [Supervisors -> [Procs -> States]] BY <1>1, <1>2, <1>5
<1>7. new["qemu"] = "zombie" => new["launcher"] = "running"
  BY <1>4, ServiceFacts DEF ZombieInv, Running
<1> QED BY <1>3, <1>4, <1>6, <1>7 DEF Fades

-----------------------------------------------------------------------------
(* A run does not begin anew, and a process that has ended stays ended.    *)
Ages(s) ==
  /\ pc[s] # "idle" => pc'[s] # "idle"
  /\ pc[s] \in Ended => pc'[s] \in Ended
  /\ \A p \in Procs :
       \/ proc[s][p] = "none"
       \/ /\ proc'[s][p] # "none"
          /\ Running(s, p)' => Running(s, p)
          /\ Present(s, p)' => Present(s, p)

LEMMA StillAges ==
  ASSUME NEW s \in Supervisors, proc'[s] = proc[s],
         pc[s] # "idle" => pc'[s] # "idle", pc[s] \in Ended => pc'[s] \in Ended
  PROVE  Ages(s)
BY DEF Ages, Running, Present

(* What a step of run s has to keep for SessInv to hold after it.          *)
Kept(s) == TypeOK' /\ LockInv' /\ Only(s) /\ RunInv(s)' /\ Ages(s)

LEMMA KeptInv ==
  ASSUME SessInv, NEW s \in Supervisors, Kept(s)
  PROVE  SessInv'
BY OtherRuns DEF SessInv, Kept

LEMMA RunTypes ==
  ASSUME TypeOK, NEW s \in Supervisors
  PROVE  /\ pc[s] \in Places
         /\ children[s] \in 0..3 /\ ignored[s] \in 0..3
         /\ remaining[s] \subseteq Groups /\ groups[s] \subseteq Groups
         /\ \A p \in Procs : proc[s][p] \in States
BY DEF TypeOK, Places, States

(* The lock does not change hands when a run neither begins nor ends.      *)
LEMMA LockKept ==
  ASSUME LockInv, NEW s \in Supervisors, lock' = lock,
         \A u \in Supervisors \ {s} : pc'[u] = pc[u],
         pc[s] \notin Ended \cup {"idle"} <=> pc'[s] \notin Ended \cup {"idle"}
  PROVE  LockInv'
BY DEF LockInv

(* Steps that only move run s.                                             *)
Moves == {<<"check", "launch">>, <<"launch", "finally">>, <<"settle", "launch">>,
          <<"caught", "finally">>, <<"wait", "kill">>} \cup (Trying \X {"caught"})

LEMMA MoveStep ==
  ASSUME SessInv, NEW s \in Supervisors, NEW to, <<pc[s], to>> \in Moves, Goto(s, to),
         UNCHANGED <<lock, children, cleanup, processes>>
  PROVE  Kept(s)
<1> USE DEF cleanup, processes
<1>0. TypeOK /\ LockInv /\ RunInv(s) BY DEF SessInv
<1>1. to \in Trying \cup {"finally", "kill", "caught"} BY DEF Moves, Trying
<1>2. pc[s] \in Trying \cup {"check", "caught", "wait"} BY DEF Moves, Trying
<1>3. pc'[s] = to /\ \A u \in Supervisors \ {s} : pc'[u] = pc[u]
  BY <1>0 DEF Goto, TypeOK
<1>4. TypeOK' BY <1>0, <1>1 DEF TypeOK, Goto, Trying
<1>5. LockInv' BY <1>0, <1>1, <1>2, <1>3, LockKept DEF Ended, Trying
<1>6. Only(s) BY <1>3 DEF Only
<1>7. LaunchInv(s)'
  BY <1>0, <1>3 DEF RunInv, LaunchInv, Moves, Trying, Untouched, TypeOK
<1>8. ForkInv(s)'
  <2>1. \A i \in 1..3 : Services[i] \in Procs BY ServiceFacts
  <2>2. to \in Trying => to = "launch" BY <1>1, <1>2 DEF Moves, Trying
  <2>3. to = "launch" => pc[s] \in {"check", "settle"} BY DEF Moves, Trying
  <2>4. proc' = proc /\ children' = children OBVIOUS
  <2>5. to \notin Untouched /\ to # "forked" BY <1>1, <2>2 DEF Untouched, Trying
  <2>6. to \in Trying => \A i \in 1..3 : i > children[s] => proc[s][Services[i]] = "none"
    BY <1>0, <2>1, <2>2, <2>3 DEF RunInv, ForkInv, Launched, Trying, Untouched
  <2> QED BY <1>0, <1>3, <2>4, <2>5, <2>6 DEF RunInv, ForkInv, Launched
<1>9. CleanInv(s)'
  BY <1>0, <1>3 DEF RunInv, CleanInv, Moves, Trying, Absent, Present, Running, Children
<1>10. ZombieInv(s)'
  BY <1>0, <1>1, <1>3 DEF RunInv, ZombieInv, Running, Trying, Ended
<1>11. Ages(s) BY <1>1, <1>2, <1>3, StillAges DEF Trying, Ended
<1> QED BY <1>4, <1>5, <1>6, <1>7, <1>8, <1>9, <1>10, <1>11 DEF Kept, RunInv

LEMMA LockStep ==
  ASSUME NoOneAssumption, SessInv, NEW s \in Supervisors, Lock(s)
  PROVE  Kept(s)
<1> USE DEF cleanup, processes
<1>0. TypeOK /\ LockInv /\ RunInv(s) BY DEF SessInv
<1>1. /\ pc[s] = "idle" /\ pc'[s] \in {"check", "already"}
      /\ \A u \in Supervisors \ {s} : pc'[u] = pc[u]
  BY <1>0 DEF Lock, Goto, TypeOK
<1>2. TypeOK' BY <1>0 DEF TypeOK, Lock, Goto, Ended
<1>3. LockInv' BY <1>0, <1>1, NoOneAssumption DEF LockInv, Lock, Goto, Ended, TypeOK
<1>4. Only(s) BY <1>1 DEF Only, Lock
<1>5. LaunchInv(s)' BY <1>0, <1>1 DEF RunInv, LaunchInv, Lock, Trying, Untouched
<1>6. ForkInv(s)' BY <1>0, <1>1 DEF RunInv, ForkInv, Launched, Lock, Trying, Untouched
<1>7. CleanInv(s)' BY <1>1 DEF CleanInv
<1>8. ZombieInv(s)'
  <2>1. \A p \in Procs : proc'[s][p] = "none" BY <1>0, <1>1 DEF RunInv, ForkInv, Lock, Untouched
  <2> QED BY <2>1, ServiceFacts DEF ZombieInv
<1>9. Ages(s) BY <1>1, StillAges DEF Lock, Ended
<1> QED BY <1>2, <1>3, <1>4, <1>5, <1>6, <1>7, <1>8, <1>9 DEF Kept, RunInv

LEMMA RecordStep ==
  ASSUME SessInv, NEW s \in Supervisors, Record(s)
  PROVE  Kept(s)
<1> USE DEF cleanup, processes
<1>0. TypeOK /\ LockInv /\ RunInv(s) BY DEF SessInv
<1> DEFINE to == CASE children[s] = 0 -> "launch"
                   [] children[s] = 1 -> "settle"
                   [] OTHER -> "monitor"
<1>1. /\ pc[s] = "forked" /\ children[s] \in 0..2 /\ children[s] + 1 \in 0..3
      /\ pc' = [pc EXCEPT ![s] = to] /\ children' = [children EXCEPT ![s] = @ + 1]
      /\ UNCHANGED <<lock, ignored, remaining, groups, proc, sigterm, giving_up>>
  BY <1>0 DEF RunInv, LaunchInv, Record, Goto, TypeOK
<1>2. /\ children[s] = 0 => to = "launch"
      /\ children[s] = 1 => to = "settle"
      /\ children[s] = 2 => to = "monitor"
  OBVIOUS
<1> HIDE DEF to
<1>3. to \in {"launch", "settle", "monitor"} BY <1>1, <1>2
<1>4. /\ pc'[s] = to /\ children'[s] = children[s] + 1
      /\ \A u \in Supervisors \ {s} : pc'[u] = pc[u] /\ children'[u] = children[u]
  BY <1>0, <1>1 DEF TypeOK
<1>5. TypeOK' BY <1>0, <1>1, <1>3 DEF TypeOK, Trying
<1>6. LockInv' BY <1>0, <1>1, <1>3, <1>4, LockKept DEF Ended
<1>7. Only(s) BY <1>1, <1>4 DEF Only
<1>8. LaunchInv(s)'
  BY <1>0, <1>1, <1>2, <1>3, <1>4 DEF RunInv, LaunchInv, Trying, Untouched
<1>9. ForkInv(s)'
  BY <1>0, <1>1, <1>3, <1>4 DEF RunInv, ForkInv, Launched, Trying, Untouched
<1>10. CleanInv(s)' BY <1>3, <1>4 DEF CleanInv
<1>11. ZombieInv(s)' BY <1>0, <1>1, <1>3, <1>4 DEF RunInv, ZombieInv, Running, Ended
<1>12. Ages(s) BY <1>1, <1>3, <1>4, StillAges DEF Ended
<1> QED BY <1>5, <1>6, <1>7, <1>8, <1>9, <1>10, <1>11, <1>12 DEF Kept, RunInv

LEMMA IgnoreStep ==
  ASSUME SessInv, NEW s \in Supervisors, Ignore(s)
  PROVE  Kept(s)
<1> USE DEF cleanup, processes
<1>0. TypeOK /\ LockInv /\ RunInv(s) BY DEF SessInv
<1>1. /\ pc[s] = "finally" /\ ignored[s] \in 0..2
      /\ ignored' = [ignored EXCEPT ![s] = @ + 1]
      /\ remaining' = [remaining EXCEPT ![s] = Children(s)]
      /\ pc' = pc \/ (ignored[s] = 2 /\ pc' = [pc EXCEPT ![s] = "terminate"])
      /\ ignored[s] = 2 => pc' = [pc EXCEPT ![s] = "terminate"]
      /\ UNCHANGED <<lock, children, groups, proc, sigterm, giving_up>>
  BY <1>0 DEF RunInv, LaunchInv, Ignore, Goto, TypeOK
<1>2. /\ ignored'[s] = ignored[s] + 1
      /\ pc'[s] = IF ignored[s] = 2 THEN "terminate" ELSE "finally"
      /\ \A u \in Supervisors \ {s} :
           pc'[u] = pc[u] /\ ignored'[u] = ignored[u] /\ remaining'[u] = remaining[u]
  BY <1>0, <1>1 DEF TypeOK
<1>3. TypeOK' BY <1>0, <1>1, ChildrenFacts DEF TypeOK
<1>4. LockInv' BY <1>0, <1>1, <1>2, LockKept DEF Ended
<1>5. Only(s) BY <1>1, <1>2 DEF Only
<1>6. LaunchInv(s)' BY <1>1, <1>2 DEF LaunchInv, Trying, Untouched
<1>7. ForkInv(s)' BY <1>0, <1>1, <1>2 DEF RunInv, ForkInv, Trying, Untouched
<1>8. CleanInv(s)' BY <1>2 DEF CleanInv
<1>9. ZombieInv(s)' BY <1>0, <1>1, <1>2 DEF RunInv, ZombieInv, Running, Ended
<1>10. Ages(s) BY <1>1, <1>2, StillAges DEF Ended
<1> QED BY <1>3, <1>4, <1>5, <1>6, <1>7, <1>8, <1>9, <1>10 DEF Kept, RunInv

LEMMA TerminateStep ==
  ASSUME SessInv, NEW s \in Supervisors, Terminate(s) \/ Terminated(s)
  PROVE  Kept(s)
<1> USE DEF cleanup, processes
<1>0. TypeOK /\ LockInv /\ RunInv(s) BY DEF SessInv
<1>1. /\ pc[s] = "terminate"
      /\ pc' = pc \/ (pc' = [pc EXCEPT ![s] = "wait"] /\ remaining'[s] = Children(s))
      /\ remaining' \in [Supervisors -> SUBSET Groups]
      /\ \A u \in Supervisors \ {s} : remaining'[u] = remaining[u]
      /\ sigterm' \in [Supervisors -> SUBSET Procs]
      /\ UNCHANGED <<lock, children, ignored, groups, proc, giving_up>>
  <2>1. CASE Terminate(s)
    <3>1. PICK i \in 1..children[s] :
            /\ sigterm' = [sigterm EXCEPT ![s] =
                             @ \cup {p \in Members(Services[i]) : Running(s, p)}]
            /\ remaining' = [remaining EXCEPT ![s] = @ \ {Services[i]}]
      BY <2>1 DEF Terminate
    <3>2. i \in 1..3 /\ Services[i] \in Groups BY <1>0, ChildrenFacts, ServiceFacts
    <3>3. {p \in Members(Services[i]) : Running(s, p)} \subseteq Procs BY <3>2, ServiceFacts
    <3>4. sigterm' \in [Supervisors -> SUBSET Procs] BY <1>0, <3>1, <3>3 DEF TypeOK
    <3> QED BY <1>0, <2>1, <3>1, <3>4 DEF Terminate, TypeOK
  <2>2. CASE Terminated(s)
    BY <1>0, <2>2, ChildrenFacts DEF Terminated, Goto, TypeOK
  <2> QED BY <2>1, <2>2
<1>2. /\ pc'[s] \in {"terminate", "wait"}
      /\ pc'[s] = "wait" => remaining'[s] = Children(s)
      /\ \A u \in Supervisors \ {s} : pc'[u] = pc[u]
  BY <1>0, <1>1 DEF TypeOK
<1>3. TypeOK' BY <1>0, <1>1 DEF TypeOK
<1>4. LockInv' BY <1>0, <1>1, <1>2, LockKept DEF Ended
<1>5. Only(s) BY <1>1, <1>2 DEF Only
<1>6. LaunchInv(s)' BY <1>1, <1>2 DEF LaunchInv, Trying, Untouched
<1>7. ForkInv(s)' BY <1>0, <1>1, <1>2 DEF RunInv, ForkInv, Trying, Untouched
<1>8. CleanInv(s)' BY <1>1, <1>2 DEF CleanInv, Children
<1>9. ZombieInv(s)' BY <1>0, <1>1, <1>2 DEF RunInv, ZombieInv, Running, Ended
<1>10. Ages(s) BY <1>1, <1>2, StillAges DEF Ended
<1> QED BY <1>3, <1>4, <1>5, <1>6, <1>7, <1>8, <1>9, <1>10 DEF Kept, RunInv

LEMMA LookStep ==
  ASSUME SessInv, NEW s \in Supervisors, Look(s)
  PROVE  Kept(s)
<1> USE DEF cleanup, processes
<1>0. TypeOK /\ LockInv /\ RunInv(s) BY DEF SessInv
<1>1. /\ pc[s] = "wait" /\ pc'[s] = "poll"
      /\ groups'[s] = {g \in Groups : \E p \in Members(g) : Present(s, p)}
      /\ \A u \in Supervisors \ {s} : pc'[u] = pc[u] /\ groups'[u] = groups[u]
  BY <1>0 DEF Look, Goto, TypeOK
<1>2. UNCHANGED <<lock, children, ignored, remaining, proc>> BY DEF Look
<1>3. TypeOK' BY <1>0 DEF TypeOK, Look, Goto
<1>4. LockInv' BY <1>0, <1>1, <1>2, LockKept DEF Ended
<1>5. Only(s) BY <1>1, <1>2 DEF Only
<1>6. LaunchInv(s)' BY <1>1 DEF LaunchInv, Trying, Untouched
<1>7. ForkInv(s)' BY <1>0, <1>1, <1>2 DEF RunInv, ForkInv, Trying, Untouched
<1>8. CleanInv(s)'
  <2>1. \A g \in Children(s) \ groups'[s] : Absent(s, g) BY <1>0, <1>1, ChildrenFacts DEF Absent
  <2>2. Children(s)' = Children(s) BY <1>2 DEF Children
  <2> QED BY <1>0, <1>1, <1>2, <2>1, <2>2 DEF RunInv, CleanInv, Absent, Present, Running
<1>9. ZombieInv(s)' BY <1>0, <1>1, <1>2 DEF RunInv, ZombieInv, Running, Ended
<1>10. Ages(s) BY <1>1, <1>2, StillAges DEF Ended
<1> QED BY <1>3, <1>4, <1>5, <1>6, <1>7, <1>8, <1>9, <1>10 DEF Kept, RunInv

LEMMA GiveUpStep ==
  ASSUME SessInv, NEW s \in Supervisors, UNCHANGED <<lock, pc, children, cleanup, proc>>,
         sigterm' \in [Supervisors -> SUBSET Procs], giving_up' \in [Supervisors -> BOOLEAN]
  PROVE  Kept(s)
<1> USE DEF cleanup
<1>0. TypeOK /\ LockInv /\ RunInv(s) BY DEF SessInv
<1>1. TypeOK' BY <1>0 DEF TypeOK
<1>2. LockInv' BY <1>0 DEF LockInv
<1>3. LaunchInv(s)' /\ ForkInv(s)' BY <1>0 DEF RunInv, LaunchInv, ForkInv, Launched
<1>4. CleanInv(s)' /\ ZombieInv(s)'
  BY <1>0 DEF RunInv, CleanInv, ZombieInv, Absent, Present, Running, Children
<1>5. Ages(s) BY StillAges
<1> QED BY <1>1, <1>2, <1>3, <1>4, <1>5 DEF Kept, RunInv, Only

-----------------------------------------------------------------------------
(* Steps that start a process.                                             *)
LEMMA ForkStep ==
  ASSUME SessInv, NEW s \in Supervisors, Fork(s)
  PROVE  Kept(s)
<1> USE DEF cleanup
<1>0. TypeOK /\ LockInv /\ RunInv(s) BY DEF SessInv
<1> DEFINE c == children[s]  g == Services[c + 1]
<1>1. c \in 0..2 /\ c + 1 \in 1..3 /\ c + 1 > c /\ pc[s] = "launch"
  BY <1>0 DEF Fork, RunInv, LaunchInv, TypeOK
<1>2. g \in Groups /\ g \in Procs /\ g # "qemu" BY <1>1, ServiceFacts
<1>3. proc[s][g] = "none" BY <1>0, <1>1 DEF RunInv, ForkInv, Launched, Trying
<1>4. /\ pc'[s] = "forked" /\ \A u \in Supervisors \ {s} : pc'[u] = pc[u] /\ proc'[u] = proc[u]
      /\ proc'[s] = [proc[s] EXCEPT ![g] = "running"]
      /\ UNCHANGED <<lock, children, ignored, remaining, groups, sigterm, giving_up>>
  <2>1. /\ DOMAIN pc = Supervisors /\ pc = [u \in Supervisors |-> pc[u]]
        /\ DOMAIN proc = Supervisors /\ proc = [u \in Supervisors |-> proc[u]]
    BY <1>0 DEF TypeOK
  <2>2. pc'[s] = "forked" /\ \A u \in Supervisors \ {s} : pc'[u] = pc[u] BY <2>1 DEF Fork, Goto
  <2>3. proc'[s] = [proc[s] EXCEPT ![g] = "running"] /\ \A u \in Supervisors \ {s} : proc'[u] = proc[u]
    BY <2>1 DEF Fork
  <2> QED BY <2>2, <2>3 DEF Fork
<1>5. proc'[s][g] = "running" /\ \A p \in Procs \ {g} : proc'[s][p] = proc[s][p]
  BY <1>0, <1>2, <1>4 DEF TypeOK
<1>6. TypeOK'
  <2>1. proc' = [proc EXCEPT ![s] = [proc[s] EXCEPT ![g] = "running"]] BY <1>0 DEF Fork, TypeOK
  <2>2. [proc[s] EXCEPT ![g] = "running"] \in [Procs -> States] BY <1>0 DEF TypeOK, States
  <2>3. proc' \in [Supervisors -> [Procs -> States]] BY <1>0, <2>1, <2>2 DEF TypeOK, States
  <2> QED BY <1>0, <1>4, <2>3 DEF TypeOK, Fork, Goto, Trying, States
<1>7. LockInv' BY <1>0, <1>1, <1>4, LockKept DEF Ended
<1>8. Only(s) BY <1>4 DEF Only
<1>9. LaunchInv(s)' BY <1>0, <1>1, <1>4 DEF RunInv, LaunchInv, Trying, Untouched
<1>10. ForkInv(s)'
  <2>1. \A i \in 1..3 : i > c + 1 => proc'[s][Services[i]] = "none"
    <3> SUFFICES ASSUME NEW i \in 1..3, i > c + 1 PROVE proc'[s][Services[i]] = "none"
      OBVIOUS
    <3>1. Services[i] # g /\ Services[i] \in Procs BY <1>1, ServiceFacts
    <3>2. proc[s][Services[i]] = "none" BY <1>0, <1>1 DEF RunInv, ForkInv, Launched, Trying
    <3> QED BY <1>5, <3>1, <3>2
  <2>2. Launched(s)' = c + 1 BY <1>4 DEF Launched
  <2>3. proc'[s]["launcher"] = "none" => proc'[s]["qemu"] = "none"
    BY <1>0, <1>2, <1>3, <1>5, ServiceFacts DEF RunInv, ForkInv
  <2> QED BY <1>4, <2>1, <2>2, <2>3 DEF ForkInv, Untouched
<1>11. CleanInv(s)' BY <1>4 DEF CleanInv
<1>12. ZombieInv(s)'
  <2>1. proc'[s]["qemu"] = "zombie" => Running(s, "launcher") /\ "launcher" # g
    BY <1>0, <1>2, <1>3, <1>5, ServiceFacts DEF RunInv, ZombieInv, Running
  <2> QED BY <1>4, <1>5, <2>1, ServiceFacts DEF ZombieInv, Running, Ended
<1>13. Ages(s) BY <1>1, <1>2, <1>3, <1>4, <1>5 DEF Ages, Ended, Running, Present
<1> QED BY <1>6, <1>7, <1>8, <1>9, <1>10, <1>11, <1>12, <1>13 DEF Kept, RunInv

LEMMA SpawnStep ==
  ASSUME SessInv, NEW s \in Supervisors, Spawn(s)
  PROVE  Kept(s)
<1> USE DEF cleanup
<1>0. TypeOK /\ LockInv /\ RunInv(s) BY DEF SessInv
<1>1. /\ proc[s]["launcher"] = "running" /\ proc[s]["qemu"] = "none"
      /\ \A u \in Supervisors \ {s} : proc'[u] = proc[u]
      /\ proc'[s] = [proc[s] EXCEPT !["qemu"] = "running"]
      /\ UNCHANGED <<lock, pc, children, ignored, remaining, groups, sigterm, giving_up>>
  BY <1>0 DEF Spawn, Running, TypeOK
<1>2. proc'[s]["qemu"] = "running" /\ \A g \in Groups : proc'[s][g] = proc[s][g]
  BY <1>0, <1>1, ServiceFacts DEF TypeOK
<1>3. TypeOK'
  <2>1. proc' = [proc EXCEPT ![s] = [proc[s] EXCEPT !["qemu"] = "running"]]
    BY <1>0 DEF Spawn, TypeOK
  <2>2. [proc[s] EXCEPT !["qemu"] = "running"] \in [Procs -> States] BY <1>0 DEF TypeOK, States
  <2>3. proc' \in [Supervisors -> [Procs -> States]] BY <1>0, <2>1, <2>2 DEF TypeOK, States
  <2> QED BY <1>0, <1>1, <2>3 DEF TypeOK, States
<1>4. LockInv' BY <1>0, <1>1 DEF LockInv
<1>5. Only(s) BY <1>1 DEF Only
<1>6. LaunchInv(s)' BY <1>0, <1>1 DEF RunInv, LaunchInv
<1>7. ForkInv(s)'
  <2>1. pc[s] \notin Untouched BY <1>0, <1>1, ServiceFacts DEF RunInv, ForkInv
  <2> QED BY <1>0, <1>1, <1>2, <2>1, ServiceFacts DEF RunInv, ForkInv, Launched
<1>8. CleanInv(s)'
  <2>1. \A g \in Children(s) : Absent(s, g) => g # "launcher"
    BY <1>1, ServiceFacts DEF Absent, Present
  <2>2. \A g \in Groups \ {"launcher"} : "qemu" \notin Members(g) BY ServiceFacts
  <2>3. \A g \in Children(s) : Absent(s, g) => Absent(s, g)'
    <3> SUFFICES ASSUME NEW g \in Children(s), Absent(s, g), NEW p \in Members(g) PROVE ~Present(s, p)'
      BY DEF Absent
    <3>1. g \in Groups /\ p \in Groups BY <1>0, <2>1, <2>2, ChildrenFacts, ServiceFacts
    <3> QED BY <1>2, <3>1 DEF Absent, Present
  <2>4. Children(s)' = Children(s) BY <1>1 DEF Children
  <2>5. ASSUME NEW g \in Children(s), ~Running(s, g), \A p \in Members(g) \ {g} : ~Present(s, p)
        PROVE  ~Running(s, g)' /\ \A p \in Members(g) \ {g} : ~Present(s, p)'
    <3>1. g \in Groups /\ g # "launcher" BY <1>0, <1>1, <2>5, ChildrenFacts DEF Running
    <3>2. Members(g) \ {g} = {} BY <3>1, ServiceFacts
    <3> QED BY <1>2, <2>5, <3>1, <3>2 DEF Running
  <2> QED BY <1>0, <1>1, <2>3, <2>4, <2>5 DEF RunInv, CleanInv
<1>9. ZombieInv(s)'
  BY <1>0, <1>1, <1>2, ServiceFacts DEF RunInv, ZombieInv, Running
<1>10. Ages(s) BY <1>1, <1>2, ServiceFacts DEF Ages, Running, Present
<1> QED BY <1>3, <1>4, <1>5, <1>6, <1>7, <1>8, <1>9, <1>10 DEF Kept, RunInv

-----------------------------------------------------------------------------
(* Steps that end or reap processes.                                       *)
LEMMA FadesTypes ==
  ASSUME TypeOK, NEW s \in Supervisors, Fades(s)
  PROVE  \A p \in Procs :
            /\ proc[s][p] = "none" <=> proc'[s][p] = "none"
            /\ ~Present(s, p) => ~Present(s, p)'
            /\ ~Running(s, p) => ~Running(s, p)'
BY DEF TypeOK, Fades, Present, Running

LEMMA FadesAges ==
  ASSUME TypeOK, NEW s \in Supervisors, Fades(s),
         pc[s] # "idle" => pc'[s] # "idle", pc[s] \in Ended => pc'[s] \in Ended
  PROVE  Ages(s)
BY FadesTypes DEF Ages

(* What a step that ends processes and leaves run s where it is keeps.     *)
LEMMA FadesRun ==
  ASSUME TypeOK, NEW s \in Supervisors, RunInv(s), Fades(s),
         UNCHANGED <<pc, children, ignored>>
  PROVE  /\ LaunchInv(s)' /\ ForkInv(s)'
         /\ \A g \in Groups : Absent(s, g) => Absent(s, g)'
         /\ proc'[s]["qemu"] = "zombie" => Running(s, "launcher")'
<1>1. LaunchInv(s)' BY DEF RunInv, LaunchInv
<1>2. \A i \in 1..3 : Services[i] \in Procs BY ServiceFacts
<1>3. ForkInv(s)' BY <1>2, FadesTypes, ServiceFacts DEF RunInv, ForkInv, Launched
<1>4. \A g \in Groups : Absent(s, g) => Absent(s, g)' BY FadesTypes, ServiceFacts DEF Absent
<1>5. proc'[s]["qemu"] = "zombie" => Running(s, "launcher")' BY DEF Fades, Running
<1> QED BY <1>1, <1>3, <1>4, <1>5

(* A process ends by itself or is killed.                                  *)
LEMMA ExitStep ==
  ASSUME SessInv, NEW s \in Supervisors, NEW P, Exit(s, P),
         UNCHANGED <<lock, pc, children, cleanup, sigterm, giving_up>>
  PROVE  Kept(s)
<1> USE DEF cleanup
<1>0. TypeOK /\ LockInv /\ RunInv(s) BY DEF SessInv
<1>1. Fades(s) BY <1>0, ExitFades DEF RunInv
<1>2. TypeOK' BY <1>0, <1>1 DEF TypeOK, Fades, States
<1>3. LockInv' BY <1>0 DEF LockInv
<1>4. Only(s) BY <1>1 DEF Only, Fades
<1>5. /\ LaunchInv(s)' /\ ForkInv(s)'
      /\ \A g \in Groups : Absent(s, g) => Absent(s, g)'
      /\ proc'[s]["qemu"] = "zombie" => Running(s, "launcher")'
  BY <1>0, <1>1, FadesRun
<1>6. CleanInv(s)'
  <2>1. Children(s)' = Children(s) /\ Children(s) \subseteq Groups
    BY <1>0, ChildrenFacts DEF Children
  <2>2. \A g \in Groups : \A p \in Members(g) : ~Present(s, p) => ~Present(s, p)'
    BY <1>0, <1>1, FadesTypes, ServiceFacts
  <2>3. \A g \in Groups : ~Running(s, g) => ~Running(s, g)'
    BY <1>0, <1>1, FadesTypes, ServiceFacts
  <2> QED BY <1>0, <1>5, <2>1, <2>2, <2>3 DEF RunInv, CleanInv
<1>7. ZombieInv(s)'
  <2>1. \A g \in Groups : pc[s] \in Ended => proc'[s][g] # "zombie"
    BY <1>0, <1>1, ExitFades, ServiceFacts DEF RunInv, ZombieInv, Fades
  <2> QED BY <1>5, <2>1 DEF ZombieInv
<1>8. Ages(s) BY <1>0, <1>1, FadesAges
<1> QED BY <1>2, <1>3, <1>4, <1>5, <1>6, <1>7, <1>8 DEF Kept, RunInv

(* Notice, Reap and Collect poll children of the run and move on.          *)
LEMMA PollStep ==
  ASSUME SessInv, NEW s \in Supervisors, NEW P, P \subseteq Groups, Poll(s, P),
         NEW to \in Places \ (Ended \cup Trying \cup Untouched), Goto(s, to),
         pc[s] \notin Ended \cup {"idle"}, to # "caught",
         to = "finally" => ignored[s] <= 2,
         UNCHANGED <<lock, children, ignored, sigterm, giving_up>>,
         remaining' \in [Supervisors -> SUBSET Groups], groups' \in [Supervisors -> SUBSET Groups],
         \A u \in Supervisors \ {s} : remaining'[u] = remaining[u] /\ groups'[u] = groups[u],
         CleanInv(s)'
  PROVE  Kept(s)
<1>0. TypeOK /\ LockInv /\ RunInv(s) BY DEF SessInv
<1>1. Fades(s) BY <1>0, PollFades DEF RunInv
<1>2. pc'[s] = to /\ \A u \in Supervisors \ {s} : pc'[u] = pc[u] BY <1>0 DEF Goto, TypeOK
<1>3. TypeOK' BY <1>0, <1>1 DEF TypeOK, Fades, States, Goto, Places
<1>4. to \notin Ended \cup {"idle"} BY DEF Untouched
<1>5. LockInv' BY <1>0, <1>2, <1>4, LockKept
<1>6. Only(s) BY <1>1, <1>2 DEF Only, Fades
<1>7. LaunchInv(s)' BY <1>2 DEF LaunchInv, Trying, Untouched
<1>8. ForkInv(s)'
  BY <1>0, <1>1, <1>2, FadesTypes, ServiceFacts DEF RunInv, ForkInv
<1>9. ZombieInv(s)' BY <1>1, <1>2, <1>4 DEF ZombieInv, Fades, Running
<1>10. Ages(s) BY <1>0, <1>1, <1>2, <1>4, FadesAges
<1> QED BY <1>3, <1>5, <1>6, <1>7, <1>8, <1>9, <1>10 DEF Kept, RunInv

LEMMA NoticeStep ==
  ASSUME SessInv, NEW s \in Supervisors, Notice(s)
  PROVE  Kept(s)
<1> USE DEF cleanup
<1>0. TypeOK /\ LockInv /\ RunInv(s) BY DEF SessInv
<1>1. PICK i \in 1..children[s] : Poll(s, {Services[i]}) BY DEF Notice
<1>2. {Services[i]} \subseteq Groups BY <1>0, ChildrenFacts, ServiceFacts
<1>3. /\ pc[s] \in {"settle", "monitor"} /\ Goto(s, "finally")
      /\ UNCHANGED <<lock, children, ignored, remaining, groups, sigterm, giving_up>>
  BY DEF Notice
<1>4. pc'[s] = "finally" BY <1>0, <1>3 DEF Goto, TypeOK
<1>5. CleanInv(s)' BY <1>4 DEF CleanInv
<1>6. ignored[s] <= 2 BY <1>0, <1>3 DEF RunInv, LaunchInv, Trying, TypeOK
<1>7. "finally" \in Places \ (Ended \cup Trying \cup Untouched)
  BY DEF Places, Ended, Trying, Untouched
<1>8. pc[s] \notin Ended \cup {"idle"} BY <1>3 DEF Ended
<1>9. /\ remaining' \in [Supervisors -> SUBSET Groups] /\ groups' \in [Supervisors -> SUBSET Groups]
      /\ \A u \in Supervisors \ {s} : remaining'[u] = remaining[u] /\ groups'[u] = groups[u]
  BY <1>0, <1>3 DEF TypeOK
<1> QED BY <1>1, <1>2, <1>3, <1>5, <1>6, <1>7, <1>8, <1>9, PollStep

LEMMA ReapStep ==
  ASSUME SessInv, NEW s \in Supervisors, Reap(s)
  PROVE  Kept(s)
<1>0. TypeOK /\ LockInv /\ RunInv(s) BY DEF SessInv
<1>1. /\ Poll(s, remaining[s]) /\ remaining[s] \subseteq Groups
      /\ pc[s] = "poll" /\ Goto(s, "wait") /\ pc'[s] = "wait"
      /\ UNCHANGED <<lock, children, ignored, sigterm, giving_up>>
      /\ remaining'[s] = remaining[s] \cap groups[s]
      /\ remaining' \in [Supervisors -> SUBSET Groups] /\ groups' \in [Supervisors -> SUBSET Groups]
      /\ \A u \in Supervisors \ {s} : remaining'[u] = remaining[u] /\ groups'[u] = groups[u]
  BY <1>0 DEF Reap, Goto, TypeOK
<1>2. Fades(s) BY <1>0, <1>1, PollFades DEF RunInv
<1>3. CleanInv(s)'
  <2>1. SUFFICES ASSUME NEW g \in Children(s) \ (remaining[s] \cap groups[s])
                 PROVE  ~Running(s, g)' /\ \A p \in Members(g) \ {g} : ~Present(s, p)'
    BY <1>1 DEF CleanInv, Children
  <2>2. g \in Groups BY <1>0, ChildrenFacts
  <2>3. ~Running(s, g) /\ \A p \in Members(g) \ {g} : ~Present(s, p)
    <3>1. CASE g \notin remaining[s] BY <1>0, <1>1, <3>1 DEF RunInv, CleanInv
    <3>2. CASE g \notin groups[s]
      BY <1>0, <1>1, <2>2, <3>2, ServiceFacts DEF RunInv, CleanInv, Absent, Present, Running
    <3> QED BY <3>1, <3>2
  <2> QED BY <1>0, <1>2, <2>2, <2>3, FadesTypes, ServiceFacts
<1>4. "wait" \in Places \ (Ended \cup Trying \cup Untouched)
  BY DEF Places, Ended, Trying, Untouched
<1>5. pc[s] \notin Ended \cup {"idle"} BY <1>1 DEF Ended
<1> QED BY <1>1, <1>3, <1>4, <1>5, PollStep

LEMMA CollectStep ==
  ASSUME SessInv, NEW s \in Supervisors, Collect(s)
  PROVE  Kept(s)
<1> USE DEF cleanup
<1>0. TypeOK /\ LockInv /\ RunInv(s) BY DEF SessInv
<1>1. /\ Poll(s, Children(s)) /\ Children(s) \subseteq Groups
      /\ pc[s] \in {"wait", "kill"} /\ Goto(s, "unlock") /\ pc'[s] = "unlock"
      /\ remaining[s] = {} /\ \A p \in Children(s) : ~Running(s, p)
      /\ UNCHANGED <<lock, children, ignored, remaining, groups, sigterm, giving_up>>
  BY <1>0, ChildrenFacts DEF Collect, Goto, TypeOK
<1>2. \A p \in Procs : proc'[s][p] = IF p \in Children(s) /\ proc[s][p] = "zombie"
                                     THEN "gone" ELSE proc[s][p]
  BY <1>0, <1>1, PollFades DEF RunInv
<1>3. CleanInv(s)'
  <2>1. SUFFICES ASSUME NEW g \in Children(s), NEW p \in Members(g) PROVE ~Present(s, p)'
    BY <1>1 DEF CleanInv, Absent, Children
  <2>2. g \in Groups /\ p \in Procs BY <1>1, ServiceFacts
  <2>3. CASE p = g BY <1>1, <1>2, <2>2, <2>3 DEF Running, Present
  <2>4. CASE p # g
    <3>1. ~Present(s, p) BY <1>0, <1>1, <2>4 DEF RunInv, CleanInv
    <3> QED BY <1>2, <2>2, <3>1 DEF Present
  <2> QED BY <2>3, <2>4
<1>4. "unlock" \in Places \ (Ended \cup Trying \cup Untouched)
  BY DEF Places, Ended, Trying, Untouched
<1>5. pc[s] \notin Ended \cup {"idle"} BY <1>1 DEF Ended
<1>6. /\ remaining' \in [Supervisors -> SUBSET Groups] /\ groups' \in [Supervisors -> SUBSET Groups]
      /\ \A u \in Supervisors \ {s} : remaining'[u] = remaining[u] /\ groups'[u] = groups[u]
  BY <1>0, <1>1 DEF TypeOK
<1> QED BY <1>1, <1>3, <1>4, <1>5, <1>6, PollStep

(* The kill of a group leaves at most the zombie of its leader.            *)
LEMMA KillStep ==
  ASSUME SessInv, NEW s \in Supervisors, Kill(s)
  PROVE  Kept(s)
<1>0. TypeOK /\ LockInv /\ RunInv(s) BY DEF SessInv
<1>1. PICK k \in remaining[s] :
        Exit(s, Members(k)) /\ remaining' = [remaining EXCEPT ![s] = @ \ {k}]
  BY DEF Kill
<1>2. /\ pc[s] = "kill" /\ k \in Groups /\ remaining'[s] = remaining[s] \ {k}
      /\ \A u \in Supervisors \ {s} : remaining'[u] = remaining[u]
      /\ UNCHANGED <<lock, pc, children, ignored, groups, sigterm, giving_up>>
  BY <1>0, <1>1 DEF Kill, TypeOK
<1>3. Fades(s) BY <1>0, <1>1, ExitFades DEF RunInv
<1>4. TypeOK' BY <1>0, <1>1, <1>2, <1>3 DEF TypeOK, Fades, States
<1>5. LockInv' BY <1>0, <1>2 DEF LockInv
<1>6. Only(s) BY <1>2, <1>3 DEF Only, Fades
<1>7. /\ LaunchInv(s)' /\ ForkInv(s)'
      /\ proc'[s]["qemu"] = "zombie" => Running(s, "launcher")'
  BY <1>0, <1>2, <1>3, FadesRun
<1>8. CleanInv(s)'
  <2>1. SUFFICES ASSUME NEW g \in Children(s) \ (remaining[s] \ {k})
                 PROVE  ~Running(s, g)' /\ \A p \in Members(g) \ {g} : ~Present(s, p)'
    BY <1>2 DEF CleanInv, Children
  <2>2. g \in Groups BY <1>0, ChildrenFacts
  <2>3. CASE g \notin remaining[s]
    BY <1>0, <1>2, <1>3, <2>2, <2>3, FadesTypes, ServiceFacts DEF RunInv, CleanInv
  <2>4. CASE g = k
    <3>1. g \in Members(g) \cap Procs BY <2>2, ServiceFacts
    <3>2. ~Running(s, g)' BY <1>0, <1>1, <2>4, <3>1, ExitFades DEF RunInv, Running
    <3>3. ASSUME NEW p \in Members(g) \ {g} PROVE ~Present(s, p)'
      <4>1. g = "launcher" /\ p = "qemu" BY <2>2, ServiceFacts
      <4>2. proc'[s]["qemu"] \in {"none", "gone"}
        BY <1>0, <1>1, <2>4, <4>1, ExitFades, ServiceFacts DEF RunInv
      <4> QED BY <4>1, <4>2 DEF Present
    <3> QED BY <3>2, <3>3
  <2> QED BY <2>3, <2>4
<1>9. ZombieInv(s)' BY <1>2, <1>7 DEF ZombieInv, Ended
<1>10. Ages(s) BY <1>0, <1>2, <1>3, FadesAges
<1> QED BY <1>4, <1>5, <1>6, <1>7, <1>8, <1>9, <1>10 DEF Kept, RunInv

(* A run that ends reaps what has ended before it.                         *)
LEMMA LeaveStep ==
  ASSUME NoOneAssumption, SessInv, NEW s \in Supervisors, NEW how, Leave(s, how),
         \/ <<pc[s], how>> \in {<<"check", "refused">>, <<"unlock", "stopped">>}
         \/ pc[s] \in {"finally", "terminate", "kill"} /\ how = "crashed"
  PROVE  Kept(s)
<1> USE DEF cleanup
<1>0. TypeOK /\ LockInv /\ RunInv(s) BY DEF SessInv
<1>1. /\ how \in Ended /\ pc[s] \notin Ended \cup {"idle"} /\ pc'[s] = how
      /\ \A u \in Supervisors \ {s} : pc'[u] = pc[u]
      /\ Poll(s, Groups) /\ lock = s /\ lock' = NoOne
      /\ UNCHANGED <<children, ignored, remaining, groups, sigterm, giving_up>>
  BY <1>0 DEF Leave, Goto, TypeOK, LockInv, Ended
<1>2. /\ Fades(s)
      /\ \A p \in Procs : proc'[s][p] = IF p \in Groups /\ proc[s][p] = "zombie"
                                        THEN "gone" ELSE proc[s][p]
  BY <1>0, <1>1, PollFades DEF RunInv
<1>3. TypeOK' BY <1>0, <1>1, <1>2 DEF TypeOK, Fades, States, Leave, Goto
<1>4. LockInv' BY <1>0, <1>1, NoOneAssumption DEF LockInv
<1>5. Only(s) BY <1>1, <1>2 DEF Only, Fades
<1>6. LaunchInv(s)' BY <1>0, <1>1 DEF RunInv, LaunchInv, Trying, Untouched
<1>7. ForkInv(s)'
  BY <1>0, <1>1, <1>2, FadesTypes, ServiceFacts DEF RunInv, ForkInv, Untouched, Trying
<1>8. CleanInv(s)'
  <2>1. how = "stopped" => \A g \in Children(s) : Absent(s, g) BY <1>0 DEF RunInv, CleanInv
  <2>2. \A g \in Children(s) : Absent(s, g) => Absent(s, g)'
    BY <1>0, <1>2, FadesTypes, ChildrenFacts, ServiceFacts DEF Absent
  <2>3. Children(s)' = Children(s) BY <1>1 DEF Children
  <2> QED BY <1>1, <2>1, <2>2, <2>3 DEF CleanInv
<1>9. ZombieInv(s)' BY <1>2, ServiceFacts DEF ZombieInv, Fades, Running
<1>10. Ages(s) BY <1>0, <1>1, <1>2, FadesAges DEF Ended
<1> QED BY <1>3, <1>4, <1>5, <1>6, <1>7, <1>8, <1>9, <1>10 DEF Kept, RunInv

-----------------------------------------------------------------------------
(* Every step keeps the invariant.                                         *)
LEMMA NextKept ==
  ASSUME NoOneAssumption, SessInv, Next
  PROVE  \E s \in Supervisors : Kept(s)
<1>0. TypeOK BY DEF SessInv
<1>1. PICK s \in Supervisors :
     \/ Lock(s) \/ Refuse(s) \/ LaunchFails(s) \/ Run(s)
     \/ \E k \in 1..3 : Signal(s, k)
     \/ Spawn(s) \/ GiveUp(s) \/ Launcher(s)
     \/ \E p \in Procs : Crash(s, p) \/ Obey(s, p)
  BY DEF Next
<1>2. CASE Lock(s) BY <1>2, LockStep
<1>3. CASE Refuse(s) BY <1>3, LeaveStep DEF Refuse
<1>4. CASE LaunchFails(s) BY <1>4, MoveStep DEF LaunchFails, Moves
<1>5. CASE Run(s)
  <2>1. CASE Arm(s) BY <2>1, MoveStep DEF Arm, Moves
  <2>2. CASE Fork(s) BY <2>2, ForkStep
  <2>3. CASE Record(s) BY <2>3, RecordStep
  <2>4. CASE Settle(s) BY <2>4, MoveStep DEF Settle, Moves
  <2>5. CASE Notice(s) BY <2>5, NoticeStep
  <2>6. CASE Caught(s) BY <2>6, MoveStep DEF Caught, Moves
  <2>7. CASE Ignore(s) BY <2>7, IgnoreStep
  <2>8. CASE Terminate(s) \/ Terminated(s) BY <2>8, TerminateStep
  <2>9. CASE Look(s) BY <2>9, LookStep
  <2>10. CASE Reap(s) BY <2>10, ReapStep
  <2>11. CASE Expire(s) BY <2>11, MoveStep DEF Expire, Moves
  <2>12. CASE Kill(s) BY <2>12, KillStep
  <2>13. CASE Collect(s) BY <2>13, CollectStep
  <2>14. CASE Unlock(s) BY <2>14, LeaveStep DEF Unlock
  <2>15. CASE Denied(s) BY <2>15, LeaveStep DEF Denied
  <2> QED BY <1>5, <2>1, <2>2, <2>3, <2>4, <2>5, <2>6, <2>7, <2>8, <2>9, <2>10, <2>11, <2>12,
             <2>13, <2>14, <2>15 DEF Run
<1>6. ASSUME NEW k \in 1..3, Signal(s, k) PROVE Kept(s)
  <2>1. CASE pc[s] \in Trying BY <1>6, <2>1, MoveStep DEF Signal, Moves
  <2>2. CASE pc[s] \notin Trying BY <1>6, <2>2, LeaveStep DEF Signal, Heard
  <2> QED BY <2>1, <2>2
<1>7. CASE Spawn(s) BY <1>7, SpawnStep
<1>8. CASE GiveUp(s)
  BY <1>0, <1>8, ServiceFacts, GiveUpStep DEF GiveUp, TypeOK
<1>9. CASE Launcher(s)
  BY <1>9, ExitStep DEF Launcher, GiveUpKill, LauncherEnds
<1>10. ASSUME NEW p \in Procs, Crash(s, p) \/ Obey(s, p) PROVE Kept(s)
  BY <1>10, ExitStep DEF Crash, Obey
<1> QED BY <1>1, <1>2, <1>3, <1>4, <1>5, <1>6, <1>7, <1>8, <1>9, <1>10

LEMMA SessInit ==
  ASSUME NoOneAssumption, Init
  PROVE  SessInv
<1>1. TypeOK BY DEF Init, TypeOK
<1>2. LockInv BY NoOneAssumption DEF Init, LockInv
<1>3. ASSUME NEW s \in Supervisors PROVE RunInv(s)
  <2>1. pc[s] = "idle" /\ children[s] = 0 /\ ignored[s] = 0 /\ \A p \in Procs : proc[s][p] = "none"
    BY DEF Init
  <2> QED BY <2>1, ServiceFacts
        DEF RunInv, LaunchInv, ForkInv, CleanInv, ZombieInv, Trying, Untouched, Ended
<1> QED BY <1>1, <1>2, <1>3 DEF SessInv

LEMMA SessStutter ==
  ASSUME SessInv, UNCHANGED vars
  PROVE  SessInv'
<1> USE DEF vars
<1>1. TypeOK' /\ LockInv' BY DEF SessInv, TypeOK, LockInv
<1>2. ASSUME NEW s \in Supervisors PROVE RunInv(s)'
  <2>1. RunInv(s) BY DEF SessInv
  <2> QED BY <2>1 DEF RunInv, LaunchInv, ForkInv, Launched, CleanInv, ZombieInv, Children,
                      Absent, Present, Running
<1> QED BY <1>1, <1>2 DEF SessInv

(* The invariant of a session, for every number of supervisors.            *)
THEOREM SessionInvariant == Spec => []SessInv
<1>1. Init => SessInv BY NoOneAssumption, SessInit
<1>2. SessInv /\ [Next]_vars => SessInv' BY NoOneAssumption, NextKept, KeptInv, SessStutter
<1> QED BY <1>1, <1>2, PTL DEF Spec

(* The variables of run_mib.py and of its processes keep their types: no   *)
(* run records a fourth service or ignores a fourth signal.                *)
THEOREM SessionTypeCorrect == Spec => []TypeOK
<1>1. SessInv => TypeOK BY DEF SessInv
<1> QED BY <1>1, SessionInvariant, PTL

LEMMA CleanupDone ==
  ASSUME SessInv
  PROVE  CleanupIsComplete
BY DEF SessInv, RunInv, CleanInv, Absent, CleanupIsComplete

(* A cleanup that has come to its end leaves no process of any service it  *)
(* recorded, descendants included, whatever ended or appeared meanwhile.   *)
THEOREM CompleteCleanup == Spec => []CleanupIsComplete
<1>1. SessInv => CleanupIsComplete BY CleanupDone
<1> QED BY <1>1, SessionInvariant, PTL

(* The lock keeps the services of two runs apart, whatever the order of    *)
(* their starts, signals and ends.                                         *)
THEOREM NoOverlap == Spec => []SessionsDoNotOverlap
<1>1. SessInv => SessionsDoNotOverlap
  <2> SUFFICES ASSUME SessInv, NEW s \in Supervisors, NEW u \in Supervisors, s # u,
                      pc[u] # "crashed", NEW p \in Procs, Running(u, p), lock = s
               PROVE  p \in Leaked(u)
    BY DEF SessionsDoNotOverlap
  <2>1. LockInv /\ RunInv(u) BY DEF SessInv
  <2>2. pc[u] \in Ended \cup {"idle"} BY <2>1 DEF LockInv
  <2>3. pc[u] \notin Untouched BY <2>1 DEF RunInv, ForkInv, Running
  <2>4. pc[u] = "stopped" BY <2>2, <2>3 DEF Ended, Untouched
  <2>5. \A g \in Children(u) : p \notin Members(g)
    BY <2>1, <2>4 DEF RunInv, CleanInv, Absent, Present, Running
  <2> QED BY <2>5 DEF Leaked
<1> QED BY <1>1, SessionInvariant, PTL

-----------------------------------------------------------------------------
(* The stop command beside the session.                                    *)

(* Whatever the session does, its runs only age.                           *)
LEMMA KeptAges ==
  ASSUME NEW s \in Supervisors, Kept(s), NEW u \in Supervisors
  PROVE  Ages(u)
<1>1. CASE u = s BY <1>1 DEF Kept
<1>2. CASE u # s BY <1>2, StillAges DEF Kept, Only
<1> QED BY <1>1, <1>2

(* A listed process that has gone does not return, and the list stays      *)
(* closed: a launcher that appears later has no QEMU on it.                *)
LEMMA ListAges ==
  ASSUME SessInv, ListInv, SessInv', \A u \in Supervisors : Ages(u),
         targets' = targets, todo' \subseteq targets, stop' \in {"term", "wait", "kill", "done", "failed"}
  PROVE  /\ ListInv'
         /\ \A id \in targets : ~Same(id) => ~Same(id)'
<1>1. ASSUME NEW id \in targets
      PROVE  /\ IF id[2] = "supervisor" THEN pc'[id[1]] # "idle"
                ELSE pc'[id[1]] # "idle" /\ proc'[id[1]][id[2]] # "none"
             /\ ~Same(id) => ~Same(id)'
  <2>1. /\ id[1] \in Supervisors /\ id[2] \in Procs \cup {"supervisor"} /\ Ages(id[1])
        /\ IF id[2] = "supervisor" THEN pc[id[1]] # "idle"
           ELSE pc[id[1]] # "idle" /\ proc[id[1]][id[2]] # "none"
    BY <1>1 DEF ListInv, Names
  <2> QED BY <2>1 DEF Ages, Same
<1>2. ASSUME NEW s \in Supervisors, <<s, "qemu">> \in targets, Running(s, "launcher")'
      PROVE  <<s, "launcher">> \in targets
  <2>1. proc[s]["qemu"] # "none" BY <1>2 DEF ListInv
  <2>2. proc[s]["launcher"] # "none" BY <2>1 DEF SessInv, RunInv, ForkInv
  <2>3. Running(s, "launcher") BY <1>2, <2>2, ServiceFacts DEF Ages
  <2> QED BY <1>2, <2>3 DEF ListInv
<1> QED BY <1>1, <1>2 DEF ListInv

LEMMA StopSession ==
  ASSUME NoOneAssumption, StopInv, Next, UNCHANGED stopping
  PROVE  StopInv'
<1> USE DEF stopping
<1>0. SessInv /\ ListInv /\ KillInv BY DEF StopInv
<1>1. PICK s \in Supervisors : Kept(s) BY <1>0, NextKept
<1>2. SessInv' BY <1>0, <1>1, KeptInv
<1>3. \A u \in Supervisors : Ages(u) BY <1>1, KeptAges
<1>4. CASE stop = "idle"
  BY <1>0, <1>2, <1>4 DEF StopInv, ListInv, KillInv, StopSucceeds
<1>5. CASE stop # "idle"
  <2>1. /\ ListInv'
        /\ \A id \in targets : ~Same(id) => ~Same(id)'
    BY <1>0, <1>2, <1>3, <1>5, ListAges DEF ListInv
  <2>2. KillInv'
    <3> SUFFICES ASSUME stop = "kill", NEW id \in targets
                 PROVE  /\ pc'[id[1]] \in Ended
                        /\ id \notin todo => ~Same(id)' \/ Reapable(id)'
                        /\ id[2] = "supervisor" => id \notin todo
      BY DEF KillInv
    <3>1. id[1] \in Supervisors BY <1>0 DEF ListInv, Names
    <3>2. pc'[id[1]] \in Ended BY <1>0, <1>3, <3>1 DEF KillInv, Ages
    <3>3. ASSUME id \notin todo, Reapable(id) PROVE ~Same(id)' \/ Reapable(id)'
      <4>1. id[2] = "qemu" /\ <<id[1], "launcher">> \in todo /\ ~Running(id[1], "qemu")
        BY <3>3 DEF Reapable
      <4>2. proc[id[1]]["qemu"] # "none" BY <1>0, <4>1 DEF ListInv
      <4>3. ~Running(id[1], "qemu")' BY <1>3, <3>1, <4>1, <4>2, ServiceFacts DEF Ages
      <4>4. CASE Same(id)'
        <5>1. proc'[id[1]]["qemu"] = "zombie" BY <4>1, <4>3, <4>4 DEF Same, Present, Running
        <5>2. Running(id[1], "launcher")' BY <1>2, <3>1, <5>1 DEF SessInv, RunInv, ZombieInv
        <5> QED BY <4>1, <4>3, <5>2 DEF Reapable
      <4> QED BY <4>4
    <3> QED BY <1>0, <2>1, <3>2, <3>3 DEF KillInv
  <2> QED BY <1>2, <2>1, <2>2 DEF StopInv, StopSucceeds
<1> QED BY <1>4, <1>5

LEMMA StopList ==
  ASSUME StopInv, List
  PROVE  StopInv'
<1>0. SessInv /\ ListInv BY DEF StopInv
<1>1. SessInv' BY <1>0, SessStutter DEF List
<1>2. /\ targets' = {id \in Names : Same(id) /\ (id[2] # "supervisor" => Running(id[1], id[2]))}
      /\ todo' = targets' /\ stop' \in {"done", "term"}
      /\ stop' = "done" => targets' = {}
      /\ pc' = pc /\ proc' = proc
  BY DEF List, vars
<1>3. ASSUME NEW id \in targets' PROVE pc[id[1]] # "idle"
  <2>1. id[1] \in Supervisors /\ id[2] \in Procs \cup {"supervisor"} BY <1>2 DEF Names
  <2>2. CASE id[2] = "supervisor" BY <1>2, <2>2 DEF Same
  <2>3. CASE id[2] # "supervisor"
    BY <1>0, <1>2, <2>1, <2>3 DEF SessInv, RunInv, ForkInv, Untouched, Running
  <2> QED BY <2>2, <2>3
<1>4. ASSUME NEW s \in Supervisors, Running(s, "launcher") PROVE <<s, "launcher">> \in targets'
  BY <1>2, <1>4, ServiceFacts DEF Names, Same, Present, Running
<1>5. ListInv'
  <2>1. ASSUME NEW id \in targets', id[2] # "supervisor" PROVE proc[id[1]][id[2]] # "none"
    BY <1>2, <2>1 DEF Running
  <2>2. targets' \subseteq Names BY <1>2
  <2> QED BY <1>2, <1>3, <1>4, <2>1, <2>2 DEF ListInv, Running
<1> QED BY <1>1, <1>2, <1>5 DEF StopInv, KillInv, StopSucceeds

(* A SIGTERM changes the session as its own steps do.                      *)
LEMMA StopTerm ==
  ASSUME NoOneAssumption, StopInv, NEW id \in Names, Term(id)
  PROVE  StopInv'
<1>0. SessInv /\ ListInv BY DEF StopInv
<1> DEFINE s == id[1]
<1>1. s \in Supervisors /\ id[2] \in Procs \cup {"supervisor"} BY DEF Names
<1>2. SessInv' /\ \A u \in Supervisors : Ages(u)
  <2>1. CASE UNCHANGED vars
    <3>1. SessInv' BY <1>0, <2>1, SessStutter
    <3> QED BY <2>1, <3>1, StillAges DEF vars
  <2>2. CASE Signal(s, 2)
    <3>1. Next BY <1>1, <2>2 DEF Next
    <3> QED BY <1>0, <3>1, NextKept, KeptInv, KeptAges
  <2>3. CASE /\ id[2] # "supervisor"
             /\ sigterm' = [sigterm EXCEPT ![s] =
                             IF Running(s, id[2]) THEN @ \cup {id[2]} ELSE @]
             /\ UNCHANGED <<lock, pc, children, cleanup, proc, giving_up>>
    <3>1. TypeOK BY <1>0 DEF SessInv
    <3>2. sigterm' \in [Supervisors -> SUBSET Procs] BY <1>1, <2>3, <3>1 DEF TypeOK
    <3>3. giving_up' \in [Supervisors -> BOOLEAN] BY <2>3, <3>1 DEF TypeOK
    <3>4. Kept(s) BY <1>0, <1>1, <2>3, <3>2, <3>3, GiveUpStep
    <3> QED BY <1>0, <1>1, <3>4, KeptInv, KeptAges
  <2> QED BY <2>1, <2>2, <2>3 DEF Term, Deliver
<1>3. stop = "term" /\ stop' = "term" /\ targets' = targets /\ todo' \subseteq targets
  BY <1>0 DEF Term, ListInv
<1>4. ListInv' BY <1>0, <1>2, <1>3, ListAges
<1> QED BY <1>2, <1>3, <1>4 DEF StopInv, KillInv, StopSucceeds

(* The rest of its way to the SIGKILLs, and its verdict.                   *)
LEMMA StopMove ==
  ASSUME StopInv, Wait \/ AllGone \/ Timeout \/ Verify
  PROVE  StopInv'
<1> USE DEF vars
<1>0. SessInv /\ ListInv /\ KillInv BY DEF StopInv
<1>1. UNCHANGED vars /\ targets' = targets /\ stop # "idle" BY DEF Wait, AllGone, Timeout, Verify
<1>2. SessInv' BY <1>0, <1>1, SessStutter
<1>3. \A id : Same(id)' = Same(id) BY <1>1 DEF Same, Present
<1>4. \A u \in Supervisors : Ages(u) BY <1>1, StillAges
<1>5. CASE Wait \/ AllGone
  <2>1. todo' = todo /\ stop' \in {"wait", "done"} BY <1>5 DEF Wait, AllGone
  <2>2. stop' = "done" => \A id \in targets : ~Same(id) BY <1>5 DEF Wait, AllGone
  <2>3. ListInv' BY <1>0, <1>1, <1>2, <1>4, <2>1, ListAges DEF ListInv
  <2> QED BY <1>1, <1>2, <1>3, <2>1, <2>2, <2>3 DEF StopInv, KillInv, StopSucceeds
<1>6. CASE Timeout
  <2>1. stop' = "kill" /\ todo' = {id \in targets : Same(id)} BY <1>6 DEF Timeout
  <2>2. ListInv' BY <1>0, <1>1, <1>2, <1>4, <2>1, ListAges
  <2>3. ASSUME NEW id \in targets
        PROVE  /\ pc[id[1]] \in Ended
               /\ id[2] = "supervisor" => ~Same(id)
    <3>1. id[1] \in Supervisors BY <1>0 DEF ListInv, Names
    <3>2. ~Same(<<id[1], "supervisor">>) BY <1>6, <3>1 DEF Timeout
    <3>3. pc[id[1]] # "idle" BY <1>0 DEF ListInv
    <3> QED BY <3>2, <3>3 DEF Same
  <2>4. KillInv' BY <1>1, <1>3, <2>1, <2>3 DEF KillInv
  <2> QED BY <1>2, <2>1, <2>2, <2>4 DEF StopInv, StopSucceeds
<1>7. CASE Verify
  <2>1. \A id \in targets : ~Same(id)
    BY <1>0, <1>7 DEF Verify, KillInv, Reapable
  <2>2. stop' = "done" /\ todo' = todo BY <1>7, <2>1 DEF Verify
  <2>3. ListInv' BY <1>0, <1>1, <1>2, <1>4, <2>2, ListAges DEF ListInv
  <2> QED BY <1>1, <1>2, <1>3, <2>1, <2>2, <2>3 DEF StopInv, KillInv, StopSucceeds
<1> QED BY <1>5, <1>6, <1>7

(* The SIGKILL of a process whose supervisor has ended leaves it gone, or  *)
(* - QEMU only - a zombie of a launcher whose turn is still to come.       *)
LEMMA StopKill ==
  ASSUME StopInv, NEW id \in Names, Kill9(id)
  PROVE  StopInv'
<1>0. SessInv /\ ListInv /\ KillInv /\ TypeOK BY DEF StopInv, SessInv
<1> DEFINE s == id[1]  p == id[2]
<1>1. /\ s \in Supervisors /\ stop = "kill" /\ stop' = "kill" /\ id \in todo /\ id \in targets
      /\ todo' = todo \ {id} /\ targets' = targets /\ pc' = pc
  BY <1>0 DEF Names, Kill9, ListInv
<1>2. p \in Procs /\ pc[s] \in Ended BY <1>0, <1>1 DEF KillInv, Names
<1>3. SessInv' /\ \A u \in Supervisors : Ages(u)
  <2>1. CASE Same(id)
    <3>1. Kept(s) BY <1>0, <1>1, <2>1, ExitStep DEF Kill9
    <3> QED BY <1>0, <1>1, <3>1, KeptInv, KeptAges
  <2>2. CASE ~Same(id)
    <3>1. UNCHANGED vars BY <2>2 DEF Kill9, vars, cleanup
    <3>2. SessInv' BY <1>0, <3>1, SessStutter
    <3> QED BY <3>1, <3>2, StillAges DEF vars
  <2> QED BY <2>1, <2>2
<1>4. /\ ListInv'
      /\ \A x \in targets : ~Same(x) => ~Same(x)'
  BY <1>0, <1>1, <1>3, ListAges DEF ListInv
<1>5. ~Running(s, p)'
  <2>1. CASE Same(id)
    <3>1. Exit(s, {p}) /\ p \in {p} \cap Procs BY <1>2, <2>1 DEF Kill9
    <3>2. ZombieInv(s) BY <1>0, <1>1 DEF SessInv, RunInv
    <3>3. \A q \in {p} \cap Procs : proc'[s][q] # "running"
      BY <1>0, <1>1, <3>1, <3>2, ExitFades
    <3> QED BY <3>1, <3>3 DEF Running
  <2>2. CASE ~Same(id) BY <1>2, <2>2 DEF Kill9, Same, Present, Running, Procs, Groups
  <2> QED BY <2>1, <2>2
(* A listed QEMU that no longer runs is gone or reapable. *)
<1>6. ASSUME NEW x \in targets, x \notin todo', x[2] = "qemu", ~Running(x[1], "qemu")', Same(x)'
      PROVE  Reapable(x)'
  <2>1. x[1] \in Supervisors BY <1>0 DEF ListInv, Names
  <2>2. proc'[x[1]]["qemu"] = "zombie" BY <1>6 DEF Same, Present, Running
  <2>3. Running(x[1], "launcher")' BY <1>3, <2>1, <2>2 DEF SessInv, RunInv, ZombieInv
  <2>4. Running(x[1], "launcher")
    BY <1>0, <1>3, <1>6, <2>1, <2>3, ServiceFacts DEF Ages, ListInv, SessInv, RunInv, ForkInv
  <2>5. x = <<x[1], "qemu">> BY <1>0, <1>6 DEF ListInv, Names
  <2>6. <<x[1], "launcher">> \in targets BY <1>0, <2>1, <2>4, <2>5 DEF ListInv
  <2>7. <<x[1], "launcher">> \in todo
    BY <1>0, <1>1, <2>4, <2>6 DEF KillInv, Same, Reapable, Present, Running
  <2>8. <<x[1], "launcher">> # id BY <1>5, <2>3
  <2> QED BY <1>1, <1>6, <2>3, <2>7, <2>8 DEF Reapable
<1>7. ASSUME NEW x \in targets, x \notin todo', Same(x)' PROVE Reapable(x)'
  <2>1. CASE x = id
    <3>1. CASE p = "qemu" BY <1>5, <1>6, <1>7, <2>1, <3>1
    <3>2. CASE p # "qemu"
      <4>1. p \in Groups BY <1>2, <3>2, ServiceFacts
      <4>2. proc'[s][p] # "zombie" BY <1>1, <1>2, <1>3, <4>1 DEF SessInv, RunInv, ZombieInv
      <4> QED BY <1>2, <1>5, <1>7, <2>1, <4>2 DEF Same, Present, Running, Procs, Groups
    <3> QED BY <3>1, <3>2
  <2>2. CASE x # id
    <3>1. x \notin todo BY <1>1, <1>7, <2>2
    <3>2. Reapable(x) BY <1>0, <1>1, <1>4, <1>7, <3>1 DEF KillInv
    <3>3. x[2] = "qemu" /\ ~Running(x[1], "qemu") BY <3>2 DEF Reapable
    <3>4. ~Running(x[1], "qemu")'
      BY <1>0, <1>3, <3>3, ServiceFacts DEF Ages, ListInv, Names
    <3> QED BY <1>6, <1>7, <3>3, <3>4
  <2> QED BY <2>1, <2>2
<1>8. KillInv' BY <1>0, <1>1, <1>7 DEF KillInv
<1> QED BY <1>1, <1>3, <1>4, <1>8 DEF StopInv, StopSucceeds

(* The invariant of the stop command, for every number of supervisors.     *)
THEOREM StopInvariant == StopSpec => []StopInv
<1>1. StopInit => StopInv
  <2> SUFFICES ASSUME StopInit PROVE StopInv
    OBVIOUS
  <2>1. SessInv BY NoOneAssumption, SessInit DEF StopInit
  <2> QED BY <2>1 DEF StopInit, StopInv, ListInv, KillInv, StopSucceeds
<1>2. StopInv /\ [StopNext]_<<vars, stopping>> => StopInv'
  <2> SUFFICES ASSUME StopInv, [StopNext]_<<vars, stopping>> PROVE StopInv'
    OBVIOUS
  <2>1. CASE Next /\ UNCHANGED stopping BY <2>1, NoOneAssumption, StopSession
  <2>2. CASE StopMib
    BY <2>2, NoOneAssumption, StopList, StopTerm, StopMove, StopKill DEF StopMib
  <2>3. CASE UNCHANGED <<vars, stopping>>
    <3>1. SessInv' BY <2>3, SessStutter DEF StopInv
    <3>2. ListInv' /\ KillInv'
      BY <2>3 DEF StopInv, ListInv, KillInv, Reapable, Same, Present, Running, vars, stopping
    <3> QED BY <2>3, <3>1, <3>2 DEF StopInv, StopSucceeds, Same, Present, vars, stopping
  <2> QED BY <2>1, <2>2, <2>3 DEF StopNext
<1> QED BY <1>1, <1>2, PTL DEF StopSpec

(* When stop_mib reports success everything it listed is gone, and so is   *)
(* all that a listed supervisor recorded, unless a signal had cut it short. *)
THEOREM StopComplete == StopSpec => []StopIsComplete
<1>1. StopInv => StopIsComplete
  <2> SUFFICES ASSUME StopInv, stop = "done"
               PROVE  /\ \A id \in targets : ~Same(id)
                      /\ \A s \in Supervisors : (<<s, "supervisor">> \in targets /\ pc[s] # "crashed") =>
                            \A g \in Children(s), p \in Procs : p \in Members(g) => ~Present(s, p)
    BY DEF StopIsComplete
  <2>1. SessInv /\ ListInv /\ \A id \in targets : ~Same(id) BY DEF StopInv
  <2>2. ASSUME NEW s \in Supervisors, <<s, "supervisor">> \in targets, pc[s] # "crashed",
               NEW g \in Children(s), NEW p \in Members(g)
        PROVE  ~Present(s, p)
    <3>1. pc[s] \in Ended BY <2>1, <2>2 DEF ListInv, Same
    <3>2. RunInv(s) /\ TypeOK BY <2>1 DEF SessInv
    <3>3. CASE pc[s] = "stopped" BY <2>2, <3>2, <3>3 DEF RunInv, CleanInv, Absent
    <3>4. CASE pc[s] \in Untouched
      <4>1. children[s] = 0 BY <3>2, <3>4 DEF RunInv, LaunchInv
      <4> QED BY <2>2, <4>1 DEF Children
    <3> QED BY <2>2, <3>1, <3>3, <3>4 DEF Ended, Untouched
  <2> QED BY <2>1, <2>2
<1> QED BY <1>1, StopInvariant, PTL

(* stop_mib never has to report that processes could not be stopped.       *)
THEOREM StopSuccess == StopSpec => []StopSucceeds
<1>1. StopInv => StopSucceeds BY DEF StopInv
<1> QED BY <1>1, StopInvariant, PTL
=============================================================================
