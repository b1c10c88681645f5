---------------------------- MODULE RemoteCall ----------------------------
(***************************************************************************)
(* What the graphics RPC promises the threads of the guest program that    *)
(* call it (guest/shim/src/gl_rpc.h, rpc), with no connections, bytes or   *)
(* buffers in sight.  Calls are numbered in the order in which threads get *)
(* their turn; the far side runs a subsequence of them in that order, each *)
(* at most once; a call succeeds only when its own command has been run,   *)
(* may fail at any time - its command may still be run later - and every   *)
(* call returns.                                                           *)
(***************************************************************************)
EXTENDS Integers, Sequences

CONSTANTS Threads,      \* the guest threads
          MaxCalls      \* bound on the calls of a behaviour

VARIABLES stage,        \* stage[t]: "idle", "asking" for its turn, or "calling"
          call,         \* call[t]: number of t's latest call, 0 before the first
          result,       \* result[t]: how that call ended: "none", "ok", "failed"
          issued,       \* calls issued so far
          done          \* the numbers of the calls run, in the order they ran
vars == <<stage, call, result, issued, done>>

Init ==
  /\ stage = [t \in Threads |-> "idle"]
  /\ call = [t \in Threads |-> 0]
  /\ result = [t \in Threads |-> "none"]
  /\ issued = 0
  /\ done = <<>>

Ask(t) ==
  /\ stage[t] = "idle"
  /\ stage' = [stage EXCEPT ![t] = "asking"]
  /\ result' = [result EXCEPT ![t] = "none"]
  /\ UNCHANGED <<call, issued, done>>

(* One call at a time. *)
Issue(t) ==
  /\ stage[t] = "asking"
  /\ \A u \in Threads : stage[u] # "calling"
  /\ issued < MaxCalls
  /\ stage' = [stage EXCEPT ![t] = "calling"]
  /\ issued' = issued + 1
  /\ call' = [call EXCEPT ![t] = issued + 1]
  /\ UNCHANGED <<result, done>>

(* The far side runs an issued call that is later than all it has run. *)
Perform ==
  \E i \in 1..issued :
     /\ \A k \in 1..Len(done) : done[k] < i
     /\ done' = Append(done, i)
     /\ UNCHANGED <<stage, call, result, issued>>

Return(t, how) ==
  /\ stage[t] = "calling"
  /\ how = "ok" => \E k \in 1..Len(done) : done[k] = call[t]
  /\ stage' = [stage EXCEPT ![t] = "idle"]
  /\ result' = [result EXCEPT ![t] = how]
  /\ UNCHANGED <<call, issued, done>>

Next ==
  \/ \E t \in Threads : Ask(t) \/ Issue(t) \/ Return(t, "ok") \/ Return(t, "failed")
  \/ Perform

(* A turn goes to every thread that keeps asking, and every call returns. *)
Fairness ==
  \A t \in Threads :
     /\ SF_vars(Issue(t))
     /\ WF_vars(Return(t, "ok") \/ Return(t, "failed"))

Safe == Init /\ [][Next]_vars
Spec == Safe /\ Fairness
=============================================================================
