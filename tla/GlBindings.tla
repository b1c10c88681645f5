----------------------------- MODULE GlBindings -----------------------------
(***************************************************************************)
(* What the guest believes of its GL context, and what the host's context  *)
(* holds.  The bridge (guest/shim/src/libGLESv2_bridge.c) remembers the    *)
(* buffers bound last, because the form of glVertexAttribPointer and of    *)
(* glDrawElements depends on them; everything else is kept by the host     *)
(* alone, in one context per connection.  libEGL_stub.c hands out contexts *)
(* but tells the host nothing of them.                                     *)
(*                                                                         *)
(* A remote call is one step here (GlRpc has its parts).  One that fails   *)
(* ends the connection, and the next call meets an empty context.          *)
(* The program keeps the rules of EGL: a context is current in one thread  *)
(* at most, and a thread calls GL when it has one.                         *)
(***************************************************************************)
EXTENDS Integers

CONSTANTS Threads, Contexts, Buffers,
          MaxLosses     \* bound on the connections that fail

Targets == {"array", "element"}     \* GL_ARRAY_BUFFER, GL_ELEMENT_ARRAY_BUFFER
Items == Targets \cup {"plain"}     \* "plain": all that has no memory in the guest
Default == 0
Values == Buffers \cup {Default}
Settings == {Default, 1}            \* of "plain": 1 is any other setting
NoContext == 0

ASSUME GlAssumption ==
  /\ Default \notin Buffers
  /\ NoContext \notin Contexts
  /\ MaxLosses \in Nat

VARIABLES
  (* libEGL_stub.c, and what the program asked of it *)
  stub_cur_ctx, current,
  (* libGLESv2_bridge.c *)
  cache,        \* array_buffer and element_buffer
  (* the host: the context of the connection *)
  bound,        \* the value of each item
  live,         \* the names of its buffers
  (* the program *)
  held,         \* names it was given and has not deleted
  want,         \* want[c]: the items as context c should have them
  (* history *)
  used,         \* contexts that have been current
  losses,
  disturbed,    \* items lost, or whose buffer was deleted, and not set since
  misread       \* a call meant another thing in the host, without such a cause
egl == <<stub_cur_ctx, current, used>>
host == <<bound, live, losses, disturbed>>
program == <<held, want>>
glvars == <<egl, cache, host, program, misread>>

Fresh == [i \in Items |-> Default]

GlInit ==
  /\ stub_cur_ctx = NoContext /\ current = [t \in Threads |-> NoContext] /\ used = {}
  /\ cache = [x \in Targets |-> Default]
  /\ bound = Fresh /\ live = {} /\ losses = 0 /\ disturbed = {}
  /\ held = {} /\ want = [c \in Contexts |-> Fresh]
  /\ misread = FALSE

-----------------------------------------------------------------------------
HasContext(t) == current[t] # NoContext
My(t) == want[current[t]]

(* More than one context: the host has one for all of them. *)
Shared == \E c, d \in used : c # d

(* A call that depends on these items was carried out. *)
Judge(kept, items) ==
  misread' = (misread \/ (~kept /\ ~Shared /\ items \cap disturbed = {}))

(* rpc fails: what the program has set, mine, is gone. *)
Lose(mine) ==
  /\ losses < MaxLosses
  /\ losses' = losses + 1
  /\ bound' = Fresh /\ live' = {}
  /\ disturbed' = disturbed \cup {i \in Items : mine[i] # Default}

(* eglMakeCurrent, also to release the context. *)
MakeCurrent(t, c) ==
  /\ IF c = NoContext THEN HasContext(t) ELSE \A u \in Threads \ {t} : current[u] # c
  /\ stub_cur_ctx' = c
  /\ current' = [current EXCEPT ![t] = c]
  /\ used' = used \cup ({c} \ {NoContext})
  /\ UNCHANGED <<cache, host, program, misread>>

(* eglGetCurrentContext. *)
GetCurrent(t) ==
  /\ HasContext(t)
  /\ Judge(stub_cur_ctx = current[t], {})
  /\ UNCHANGED <<egl, cache, host, program>>

-----------------------------------------------------------------------------
(* Mutant: only one of the two targets is remembered. *)
RememberArray(x, b) == IF x = "array" THEN [cache EXCEPT ![x] = b] ELSE cache

(* The buffers the guest remembers after glBindBuffer. *)
Remember(x, b) == [cache EXCEPT ![x] = b]

(* glBindBuffer: whether or not the call succeeds, b is remembered.  A     *)
(* name that the context does not know becomes a buffer.                   *)
Bind(t, x, b) ==
  /\ HasContext(t)
  /\ b \in held \cup {Default}
  /\ cache' = Remember(x, b)
  /\ want' = [want EXCEPT ![current[t]][x] = b]
  /\ \/ /\ bound' = [bound EXCEPT ![x] = b]
        /\ live' = live \cup ({b} \ {Default})
        /\ disturbed' = disturbed \ {x}
        /\ UNCHANGED losses
     \/ Lose(want'[current[t]])
  /\ UNCHANGED <<egl, held, misread>>

(* glUniform*, glUseProgram, glVertexAttrib* and all other calls that set  *)
(* something in the context and leave no trace in the guest.               *)
Set(t, v) ==
  /\ HasContext(t)
  /\ want' = [want EXCEPT ![current[t]]["plain"] = v]
  /\ \/ /\ bound' = [bound EXCEPT !["plain"] = v]
        /\ disturbed' = disturbed \ {"plain"}
        /\ UNCHANGED <<live, losses>>
     \/ Lose(want'[current[t]])
  /\ UNCHANGED <<egl, cache, held, misread>>

(* glGetIntegerv and the other queries. *)
Query(t, i) ==
  /\ HasContext(t)
  /\ \/ Judge(bound[i] = My(t)[i], {i}) /\ UNCHANGED host
     \/ Lose(My(t)) /\ UNCHANGED misread
  /\ UNCHANGED <<egl, cache, program>>

(* eglSwapBuffers changes nothing here unless its call fails. *)
Swap(t) ==
  /\ HasContext(t)
  /\ Lose(My(t))
  /\ UNCHANGED <<egl, cache, program, misread>>

-----------------------------------------------------------------------------
(* glGenBuffers: a name that is free in the host's context. *)
Gen(t) ==
  /\ HasContext(t)
  /\ \/ \E b \in Buffers \ live :
          /\ live' = live \cup {b}
          /\ held' = held \cup {b}
          /\ misread' = (misread \/ (b \in held /\ losses = 0))
          /\ UNCHANGED <<bound, losses, disturbed>>
     \/ Lose(My(t)) /\ UNCHANGED <<held, misread>>
  /\ UNCHANGED <<egl, cache, want>>

(* What the deletion of b leaves of some items. *)
Without(items, b) == [i \in Items |-> IF i \in Targets /\ items[i] = b THEN Default ELSE items[i]]

(* glDeleteBuffers ends the buffer's bindings, but not the memory of them. *)
Delete(t, b) ==
  /\ HasContext(t)
  /\ b \in held
  /\ held' = held \ {b}
  /\ want' = [want EXCEPT ![current[t]] = Without(@, b)]
  /\ \/ /\ live' = live \ {b}
        /\ bound' = Without(bound, b)
        /\ disturbed' = disturbed \cup {x \in Targets : cache[x] = b}
        /\ UNCHANGED losses
     \/ Lose(My(t))
  /\ UNCHANGED <<egl, cache, misread>>

-----------------------------------------------------------------------------
(* glVertexAttribPointer with a pointer that is not null: into the bound   *)
(* buffer, or, without one, into the program's memory, which is refused.   *)
Pointer(t) ==
  /\ HasContext(t)
  /\ \/ /\ cache["array"] = Default
        /\ Judge(My(t)["array"] = Default, {"array"})
        /\ UNCHANGED host
     \/ /\ cache["array"] # Default
        /\ \/ Judge(bound["array"] = My(t)["array"] /\ bound["array"] # Default, {"array"}) /\ UNCHANGED host
           \/ Lose(My(t)) /\ UNCHANGED misread
  /\ UNCHANGED <<egl, cache, program>>

(* Mutant: the buffer of the vertices decides how indices are sent. *)
SendsOffsetByArray == cache["array"] # Default

(* How glDrawElements sends its last argument: as an offset, or as the     *)
(* indices themselves.                                                     *)
SendsOffset == cache["element"] # Default

Draw(t) ==
  /\ HasContext(t)
  /\ \/ /\ LET kept == /\ bound["element"] = My(t)["element"]
                       /\ bound["plain"] = My(t)["plain"]
                       /\ SendsOffset <=> My(t)["element"] # Default
           IN  Judge(kept, {"element", "plain"})
        /\ UNCHANGED host
     \/ Lose(My(t)) /\ UNCHANGED misread
  /\ UNCHANGED <<egl, cache, program>>

-----------------------------------------------------------------------------
GlNext ==
  \E t \in Threads :
     \/ \E c \in Contexts \cup {NoContext} : MakeCurrent(t, c)
     \/ GetCurrent(t)
     \/ \E x \in Targets, b \in Values : Bind(t, x, b)
     \/ \E v \in Settings : Set(t, v)
     \/ \E i \in Items : Query(t, i)
     \/ Swap(t) \/ Gen(t)
     \/ \E b \in Buffers : Delete(t, b)
     \/ Pointer(t) \/ Draw(t)

GlSpec == GlInit /\ [][GlNext]_glvars

-----------------------------------------------------------------------------
(* Properties. *)

GlTypeOK ==
  /\ stub_cur_ctx \in Contexts \cup {NoContext}
  /\ current \in [Threads -> Contexts \cup {NoContext}]
  /\ cache \in [Targets -> Values]
  /\ bound \in [Items -> Values \cup Settings] /\ live \subseteq Buffers
  /\ held \subseteq Buffers /\ want \in [Contexts -> [Items -> Values \cup Settings]]
  /\ used \subseteq Contexts /\ losses \in 0..MaxLosses
  /\ disturbed \subseteq Items /\ misread \in BOOLEAN

(* In a program with one EGL context, whichever threads it moves through,  *)
(* an item that was neither lost with a connection nor had its buffer      *)
(* deleted since it was set last is the same for the program, for the host *)
(* and for the memory of libGLESv2_bridge.c:49.                            *)
BeliefsAgree ==
  \A c \in used, i \in Items :
     (~Shared /\ i \notin disturbed) =>
        /\ i \in Targets => cache[i] = want[c][i]
        /\ bound[i] = want[c][i]

(* Every answer, drawing and vertex array is then what the program asked   *)
(* for: no offset is taken for a pointer, no index data for an offset, no  *)
(* call refused for want of a buffer that is bound (:243, :751).  The      *)
(* causes in disturbed, and a second context, are the only ones.           *)
MeaningKept == ~misread
=============================================================================
