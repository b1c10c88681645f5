---------------------------- MODULE GuestProofs ----------------------------
(***************************************************************************)
(* What holds of the programs in the guest that use the shim's libraries:  *)
(* of the HMI's GL bindings (GlBindings), for any threads, contexts and    *)
(* buffers and any number of lost connections; of diagnostic frames        *)
(* (DiagFrames), for any windows, posts and pieces and any number of kills *)
(* and failed writes.                                                      *)
(***************************************************************************)
EXTENDS GlBindings, DiagFrames, FiniteSets, FiniteSetTheorems, TLAPS

-----------------------------------------------------------------------------
(* GL bindings.                                                            *)

(* A thread's context has been used, and is current in no other thread.    *)
CurrentInv ==
  /\ \A t \in Threads : HasContext(t) => current[t] \in used
  /\ \A t, u \in Threads : t # u /\ HasContext(t) => current[t] # current[u]

(* Before the first context there is nothing. *)
UnusedInv ==
  used = {} =>
     /\ \A x \in Targets : cache[x] = Default
     /\ \A i \in Items : bound[i] = Default /\ \A c \in Contexts : want[c][i] = Default

(* With one context, libEGL's idea of it is right for a thread that has it. *)
StubInv == ~Shared => \A t \in Threads : HasContext(t) => stub_cur_ctx = current[t]

(* Until a connection is lost, the program's names are names in the host.  *)
HeldInv == losses = 0 => held \subseteq live

GlInv ==
  /\ GlTypeOK /\ CurrentInv /\ UnusedInv /\ StubInv /\ HeldInv
  /\ BeliefsAgree /\ MeaningKept

-----------------------------------------------------------------------------
(* The items are the two targets and plain, and all start as zero.         *)
LEMMA ItemFacts ==
  /\ "array" \in Targets /\ "element" \in Targets /\ Targets \subseteq Items
  /\ "plain" \in Items /\ "plain" \notin Targets
  /\ \A i \in Items : i \in Targets \/ i = "plain"
  /\ \A i \in Items : Fresh[i] = Default
  /\ Fresh \in [Items -> Values \cup Settings]
  /\ Default \in Values /\ Default \in Settings
  /\ "array" \in Items /\ "element" \in Items
BY DEF Items, Targets, Fresh, Values, Settings

(* The step of a thread that has a context, that changes nothing of the    *)
(* contexts.                                                               *)
LEMMA SameContext ==
  ASSUME GlInv, NEW t \in Threads, HasContext(t), UNCHANGED egl
  PROVE  /\ CurrentInv' /\ UnusedInv' /\ StubInv'
         /\ current[t] \in Contexts
         /\ current[t] \in used
         /\ ~Shared => \A c \in used : c = current[t]
         /\ Shared' = Shared /\ used' = used
<1>1. current[t] \in used BY DEF GlInv, CurrentInv
<1>2. current[t] \in Contexts BY <1>1 DEF GlInv, GlTypeOK
<1>3. CurrentInv' BY DEF GlInv, CurrentInv, egl, HasContext
<1>4. UnusedInv' BY <1>1 DEF UnusedInv, egl
<1>5. StubInv' BY DEF GlInv, StubInv, egl, HasContext, Shared
<1>6. ~Shared => \A c \in used : c = current[t] BY <1>1 DEF Shared
<1>7. Shared' = Shared /\ used' = used BY DEF Shared, egl
<1> QED BY <1>1, <1>2, <1>3, <1>4, <1>5, <1>6, <1>7

(* What the guest believes when a connection fails: it is right about      *)
(* everything that had not been set.                                       *)
LEMMA LoseFacts ==
  ASSUME GlInv, NEW mine \in [Items -> Values \cup Settings], Lose(mine)
  PROVE  /\ bound' \in [Items -> Values \cup Settings] /\ live' \subseteq Buffers
         /\ losses' \in 0..MaxLosses /\ disturbed' \subseteq Items
         /\ HeldInv'
         /\ \A i \in Items : bound'[i] = Default
         /\ \A i \in Items : i \notin disturbed' => i \notin disturbed /\ mine[i] = Default
<1>1. losses \in 0..MaxLosses /\ disturbed \subseteq Items BY DEF GlInv, GlTypeOK
<1>2. losses' \in 0..MaxLosses /\ losses' # 0 BY <1>1, GlAssumption DEF Lose
<1>3. HeldInv' BY <1>2 DEF HeldInv
<1>4. bound' = Fresh /\ live' = {} BY DEF Lose
<1>5. disturbed' = disturbed \cup {i \in Items : mine[i] # Default} BY DEF Lose
<1> QED BY <1>1, <1>2, <1>3, <1>4, <1>5, ItemFacts

(* A judgement that is made only when guest and host agree is a good one.  *)
LEMMA JudgeFacts ==
  ASSUME MeaningKept, NEW kept \in BOOLEAN, NEW items,
         Judge(kept, items), ~Shared /\ items \cap disturbed = {} => kept
  PROVE  MeaningKept' /\ misread' \in BOOLEAN
BY DEF Judge, MeaningKept

(* With one context, what is not disturbed is the same everywhere.         *)
LEMMA Agreement ==
  ASSUME GlInv, NEW t \in Threads, HasContext(t), ~Shared, NEW i \in Items, i \notin disturbed
  PROVE  bound[i] = My(t)[i] /\ (i \in Targets => cache[i] = My(t)[i])
<1>1. current[t] \in used BY DEF GlInv, CurrentInv
<1> QED BY <1>1 DEF GlInv, BeliefsAgree, My

(* What the program wants of a context has its type.                       *)
LEMMA WantFacts ==
  ASSUME GlInv, NEW t \in Threads, HasContext(t)
  PROVE  current[t] \in Contexts /\ My(t) \in [Items -> Values \cup Settings]
<1>1. current[t] \in used BY DEF GlInv, CurrentInv
<1> QED BY <1>1 DEF GlInv, GlTypeOK, My

-----------------------------------------------------------------------------
(* A connection that fails in a call that asks for nothing new.            *)
LEMMA LoseStep ==
  ASSUME GlInv, NEW t \in Threads, HasContext(t), Lose(My(t)), UNCHANGED <<egl, cache, program>>,
         misread' = misread
  PROVE  GlInv'
<1>1. CurrentInv' /\ UnusedInv' /\ StubInv' /\ Shared' = Shared /\ used' = used
      /\ (~Shared => \A c \in used : c = current[t])
  BY SameContext
<1>2. My(t) \in [Items -> Values \cup Settings] BY WantFacts
<1>3. /\ bound' \in [Items -> Values \cup Settings] /\ live' \subseteq Buffers
      /\ losses' \in 0..MaxLosses /\ disturbed' \subseteq Items
      /\ HeldInv'
      /\ \A i \in Items : bound'[i] = Default
      /\ \A i \in Items : i \notin disturbed' => i \notin disturbed /\ My(t)[i] = Default
  BY <1>2, LoseFacts
<1>4. GlTypeOK' BY <1>3 DEF GlInv, GlTypeOK, egl, program
<1>5. BeliefsAgree'
  <2> SUFFICES ASSUME NEW c \in used, NEW i \in Items, ~Shared, i \notin disturbed'
               PROVE  (i \in Targets => cache'[i] = want'[c][i]) /\ bound'[i] = want'[c][i]
    BY <1>1 DEF BeliefsAgree
  <2>1. c = current[t] /\ want' = want /\ cache' = cache BY <1>1 DEF program
  <2>2. i \notin disturbed /\ My(t)[i] = Default /\ bound'[i] = Default BY <1>3
  <2>3. i \in Targets => cache[i] = My(t)[i] BY <2>2, Agreement
  <2> QED BY <2>1, <2>2, <2>3 DEF My
<1>6. MeaningKept' BY DEF GlInv, MeaningKept
<1> QED BY <1>1, <1>3, <1>4, <1>5, <1>6 DEF GlInv

(* A call that only looks.                                                 *)
LEMMA LookStep ==
  ASSUME GlInv, NEW t \in Threads, HasContext(t), UNCHANGED <<egl, cache, host, program>>,
         NEW kept \in BOOLEAN, NEW items, Judge(kept, items),
         ~Shared /\ items \cap disturbed = {} => kept
  PROVE  GlInv'
<1>1. CurrentInv' /\ UnusedInv' /\ StubInv' /\ Shared' = Shared /\ used' = used BY SameContext
<1>2. MeaningKept' /\ misread' \in BOOLEAN BY JudgeFacts DEF GlInv
<1>3. GlTypeOK' BY <1>2 DEF GlInv, GlTypeOK, egl, host, program
<1>4. HeldInv' /\ BeliefsAgree' BY <1>1 DEF GlInv, HeldInv, BeliefsAgree, host, program
<1> QED BY <1>1, <1>2, <1>3, <1>4 DEF GlInv

-----------------------------------------------------------------------------
(* The calls that only look, or lose the connection. *)

LEMMA GetCurrentStep == ASSUME GlInv, NEW t \in Threads, GetCurrent(t) PROVE GlInv'
<1>1. ~Shared => stub_cur_ctx = current[t] BY DEF GlInv, StubInv, GetCurrent
<1> QED BY <1>1, LookStep DEF GetCurrent

LEMMA QueryStep == ASSUME GlInv, NEW t \in Threads, NEW i \in Items, Query(t, i) PROVE GlInv'
<1>1. CASE Judge(bound[i] = My(t)[i], {i}) /\ UNCHANGED host
  <2>1. ~Shared /\ {i} \cap disturbed = {} => bound[i] = My(t)[i] BY Agreement DEF Query
  <2> QED BY <1>1, <2>1, LookStep DEF Query
<1>2. CASE Lose(My(t)) /\ UNCHANGED misread BY <1>2, LoseStep DEF Query
<1> QED BY <1>1, <1>2 DEF Query

LEMMA SwapStep == ASSUME GlInv, NEW t \in Threads, Swap(t) PROVE GlInv'
BY LoseStep DEF Swap

LEMMA PointerStep == ASSUME GlInv, NEW t \in Threads, Pointer(t) PROVE GlInv'
<1> DEFINE known == ~Shared /\ {"array"} \cap disturbed = {}
<1>1. known => bound["array"] = My(t)["array"] /\ cache["array"] = My(t)["array"]
  BY Agreement, ItemFacts DEF Pointer
<1>2. CASE cache["array"] = Default /\ Judge(My(t)["array"] = Default, {"array"}) /\ UNCHANGED host
  BY <1>1, <1>2, LookStep DEF Pointer
<1>3. CASE /\ cache["array"] # Default
           /\ Judge(bound["array"] = My(t)["array"] /\ bound["array"] # Default, {"array"})
           /\ UNCHANGED host
  BY <1>1, <1>3, LookStep DEF Pointer
<1>4. CASE Lose(My(t)) /\ UNCHANGED misread BY <1>4, LoseStep DEF Pointer
<1> QED BY <1>2, <1>3, <1>4 DEF Pointer

LEMMA DrawStep == ASSUME GlInv, NEW t \in Threads, Draw(t) PROVE GlInv'
<1> DEFINE items == {"element", "plain"}
           kept == /\ bound["element"] = My(t)["element"]
                   /\ bound["plain"] = My(t)["plain"]
                   /\ SendsOffset <=> My(t)["element"] # Default
<1>1. CASE Judge(kept, items) /\ UNCHANGED host
  <2>1. ASSUME ~Shared, items \cap disturbed = {}
        PROVE  kept
    <3>1. "element" \notin disturbed /\ "plain" \notin disturbed BY <2>1
    <3>2. bound["element"] = My(t)["element"] /\ cache["element"] = My(t)["element"]
      BY <2>1, <3>1, Agreement, ItemFacts DEF Draw
    <3>3. bound["plain"] = My(t)["plain"] BY <2>1, <3>1, Agreement, ItemFacts DEF Draw
    <3> QED BY <3>2, <3>3 DEF SendsOffset
  <2>2. kept \in BOOLEAN OBVIOUS
  <2>3. HasContext(t) /\ UNCHANGED <<egl, cache, host, program>> BY <1>1 DEF Draw
  <2> HIDE DEF items, kept
  <2> QED BY <1>1, <2>1, <2>2, <2>3, LookStep
<1>2. CASE Lose(My(t)) /\ UNCHANGED misread BY <1>2, LoseStep DEF Draw
<1> QED BY <1>1, <1>2 DEF Draw

-----------------------------------------------------------------------------
(* A context is made current or released.  The first one finds nothing set *)
(* anywhere; a second one ends what is promised.                           *)
LEMMA MakeCurrentStep ==
  ASSUME GlInv, NEW t \in Threads, NEW c \in Contexts \cup {NoContext}, MakeCurrent(t, c)
  PROVE  GlInv'
<1>1. /\ UNCHANGED <<cache, bound, live, losses, disturbed, held, want, misread>>
      /\ used' = used \cup ({c} \ {NoContext}) /\ stub_cur_ctx' = c
      /\ current' = [current EXCEPT ![t] = c]
      /\ current \in [Threads -> Contexts \cup {NoContext}]
  BY DEF MakeCurrent, host, program, GlInv, GlTypeOK
<1>2. \A u \in Threads : current'[u] = IF u = t THEN c ELSE current[u] BY <1>1
<1>3. GlTypeOK' BY <1>1 DEF GlInv, GlTypeOK
<1>4. CurrentInv'
  <2>1. \A u \in Threads : HasContext(u)' => current'[u] \in used'
    BY <1>1, <1>2 DEF GlInv, CurrentInv, HasContext
  <2>2. c = NoContext \/ \A u \in Threads \ {t} : current[u] # c BY DEF MakeCurrent
  <2>3. \A u, v \in Threads : u # v /\ HasContext(u)' => current'[u] # current'[v]
    BY <1>2, <2>2 DEF GlInv, CurrentInv, HasContext
  <2> QED BY <2>1, <2>3 DEF CurrentInv
<1>5. UnusedInv' BY <1>1 DEF GlInv, UnusedInv
<1>6. Shared => Shared' BY <1>1 DEF Shared
<1>7. StubInv'
  <2> SUFFICES ASSUME ~Shared', NEW u \in Threads, HasContext(u)'
               PROVE  c = current'[u]
    BY <1>1 DEF StubInv
  <2>1. current'[u] \in used' BY <1>4 DEF CurrentInv
  <2>2. CASE c # NoContext BY <1>1, <2>1, <2>2 DEF Shared
  <2>3. CASE c = NoContext
    <3>1. HasContext(t) /\ u # t /\ HasContext(u) BY <1>2, <2>3 DEF MakeCurrent, HasContext
    <3>2. current[t] # current[u] /\ current[t] \in used /\ current[u] \in used
      BY <3>1 DEF GlInv, CurrentInv
    <3> QED BY <1>6, <3>2 DEF Shared
  <2> QED BY <2>2, <2>3
<1>8. BeliefsAgree'
  <2> SUFFICES ASSUME NEW d \in used', NEW i \in Items, ~Shared', i \notin disturbed
               PROVE  (i \in Targets => cache[i] = want[d][i]) /\ bound[i] = want[d][i]
    BY <1>1 DEF BeliefsAgree
  <2>1. CASE d \in used BY <1>6, <2>1 DEF GlInv, BeliefsAgree
  <2>2. CASE d \notin used
    <3>1. d = c /\ d \in Contexts BY <1>1, <2>2
    <3>2. used = {} BY <1>1, <2>2, <3>1 DEF Shared
    <3> QED BY <3>1, <3>2 DEF GlInv, UnusedInv
  <2> QED BY <2>1, <2>2
<1>9. HeldInv' /\ MeaningKept' BY <1>1 DEF GlInv, HeldInv, MeaningKept
<1> QED BY <1>3, <1>4, <1>5, <1>7, <1>8, <1>9 DEF GlInv

-----------------------------------------------------------------------------
(* A thread sets item i of its context to v, and the host does so too. *)
Wants(t, i, v) == want' = [want EXCEPT ![current[t]][i] = v]

Obeyed(i, v) ==
  /\ bound' = [bound EXCEPT ![i] = v]
  /\ live \subseteq live' /\ live' \subseteq Buffers
  /\ disturbed' = disturbed \ {i}
  /\ UNCHANGED losses

(* What the program wants after it has asked for it, obeyed or not.        *)
LEMMA WantStep ==
  ASSUME GlInv, NEW t \in Threads, HasContext(t), NEW i \in Items, NEW v \in Values \cup Settings,
         Wants(t, i, v)
  PROVE  /\ want' \in [Contexts -> [Items -> Values \cup Settings]]
         /\ want'[current[t]] \in [Items -> Values \cup Settings]
         /\ \A k \in Items : want'[current[t]][k] = IF k = i THEN v ELSE My(t)[k]
<1>1. current[t] \in Contexts BY WantFacts
<1>2. want \in [Contexts -> [Items -> Values \cup Settings]] BY DEF GlInv, GlTypeOK
<1>3. want' = [want EXCEPT ![current[t]] = [want[current[t]] EXCEPT ![i] = v]]
  BY DEF Wants
<1>4. [want[current[t]] EXCEPT ![i] = v] \in [Items -> Values \cup Settings] BY <1>1, <1>2
<1>5. want' \in [Contexts -> [Items -> Values \cup Settings]] BY <1>2, <1>3, <1>4
<1>6. want'[current[t]] = [want[current[t]] EXCEPT ![i] = v] BY <1>1, <1>2, <1>3
<1>7. \A k \in Items : want'[current[t]][k] = IF k = i THEN v ELSE My(t)[k]
  BY <1>1, <1>2, <1>6 DEF My
<1> QED BY <1>4, <1>5, <1>6, <1>7

(* Setting an item leaves guest and host agreed, or loses everything.  The *)
(* guest's memory of it, if it has one, is changed in any case.            *)
LEMMA SetItem ==
  ASSUME GlInv, NEW t \in Threads, HasContext(t), NEW i \in Items, NEW v \in Values \cup Settings,
         UNCHANGED <<egl, held, misread>>,
         Wants(t, i, v),
         cache' \in [Targets -> Values],
         \A x \in Targets : cache'[x] = IF x = i THEN v ELSE cache[x],
         Obeyed(i, v) \/ Lose(want'[current[t]])
  PROVE  GlInv'
<1>1. CurrentInv' /\ UnusedInv' /\ StubInv' /\ Shared' = Shared /\ used' = used
      /\ (~Shared => \A c \in used : c = current[t])
  BY SameContext
<1>2. /\ want' \in [Contexts -> [Items -> Values \cup Settings]]
      /\ want'[current[t]] \in [Items -> Values \cup Settings]
      /\ \A k \in Items : want'[current[t]][k] = IF k = i THEN v ELSE My(t)[k]
  BY WantStep
<1>3. MeaningKept' BY DEF GlInv, MeaningKept
<1>4. GlTypeOK BY DEF GlInv
<1>5. /\ stub_cur_ctx' \in Contexts \cup {NoContext}
      /\ current' \in [Threads -> Contexts \cup {NoContext}]
      /\ cache' \in [Targets -> Values]
      /\ held' \subseteq Buffers /\ used' \subseteq Contexts /\ misread' \in BOOLEAN
  BY <1>4 DEF GlTypeOK, egl
<1>6. CASE Obeyed(i, v)
  <2>1. GlTypeOK' BY <1>2, <1>4, <1>5, <1>6 DEF GlTypeOK, Obeyed
  <2>2. HeldInv' BY <1>6 DEF GlInv, HeldInv, Obeyed
  <2>3. BeliefsAgree'
    <3> SUFFICES ASSUME NEW c \in used, NEW k \in Items, ~Shared, k \notin disturbed'
                 PROVE  (k \in Targets => cache'[k] = want'[c][k]) /\ bound'[k] = want'[c][k]
      BY <1>1 DEF BeliefsAgree
    <3>1. c = current[t] BY <1>1
    <3>2. bound'[k] = IF k = i THEN v ELSE bound[k] BY <1>4, <1>6 DEF GlTypeOK, Obeyed
    <3>3. CASE k = i BY <1>2, <3>1, <3>2, <3>3
    <3>4. CASE k # i
      <4>1. k \notin disturbed BY <1>6, <3>4 DEF Obeyed
      <4>2. bound[k] = My(t)[k] /\ (k \in Targets => cache[k] = My(t)[k]) BY <4>1, Agreement
      <4> QED BY <1>2, <3>1, <3>2, <3>4, <4>2
    <3> QED BY <3>3, <3>4
  <2> QED BY <1>1, <1>3, <2>1, <2>2, <2>3 DEF GlInv
<1>7. CASE Lose(want'[current[t]])
  <2>1. /\ bound' \in [Items -> Values \cup Settings] /\ live' \subseteq Buffers
        /\ losses' \in 0..MaxLosses /\ disturbed' \subseteq Items
        /\ HeldInv'
        /\ \A k \in Items : bound'[k] = Default
        /\ \A k \in Items : k \notin disturbed' => k \notin disturbed /\ want'[current[t]][k] = Default
    BY <1>2, <1>7, LoseFacts
  <2>2. GlTypeOK' BY <1>2, <1>5, <2>1 DEF GlTypeOK
  <2>3. BeliefsAgree'
    <3> SUFFICES ASSUME NEW c \in used, NEW k \in Items, ~Shared, k \notin disturbed'
                 PROVE  (k \in Targets => cache'[k] = want'[c][k]) /\ bound'[k] = want'[c][k]
      BY <1>1 DEF BeliefsAgree
    <3>1. c = current[t] /\ k \notin disturbed /\ want'[c][k] = Default /\ bound'[k] = Default
      BY <1>1, <2>1
    <3>2. k \in Targets => cache[k] = My(t)[k] BY <3>1, Agreement
    <3> QED BY <1>2, <3>1, <3>2
  <2> QED BY <1>1, <1>3, <2>1, <2>2, <2>3 DEF GlInv
<1> QED BY <1>6, <1>7

LEMMA BindStep ==
  ASSUME GlInv, NEW t \in Threads, NEW x \in Targets, NEW b \in Values, Bind(t, x, b)
  PROVE  GlInv'
<1>1. cache \in [Targets -> Values] /\ held \subseteq Buffers /\ live \subseteq Buffers
  BY DEF GlInv, GlTypeOK
<1>2. cache' = [cache EXCEPT ![x] = b] BY DEF Bind, Remember
<1>3. cache' \in [Targets -> Values] /\ \A y \in Targets : cache'[y] = IF y = x THEN b ELSE cache[y]
  BY <1>1, <1>2
<1>4. x \in Items /\ b \in Values \cup Settings BY ItemFacts
<1>5. live \subseteq live \cup ({b} \ {Default}) /\ live \cup ({b} \ {Default}) \subseteq Buffers
  BY <1>1 DEF Values
<1>6. /\ HasContext(t) /\ UNCHANGED <<egl, held, misread>> /\ Wants(t, x, b)
      /\ Obeyed(x, b) \/ Lose(want'[current[t]])
  BY <1>5 DEF Bind, Wants, Obeyed
<1> QED BY <1>3, <1>4, <1>6, SetItem

LEMMA SetStep ==
  ASSUME GlInv, NEW t \in Threads, NEW v \in Settings, Set(t, v)
  PROVE  GlInv'
<1>1. cache \in [Targets -> Values] /\ live \subseteq Buffers BY DEF GlInv, GlTypeOK
<1>2. /\ HasContext(t) /\ UNCHANGED <<egl, cache, held, misread>> /\ Wants(t, "plain", v)
      /\ Obeyed("plain", v) \/ Lose(want'[current[t]])
  BY <1>1 DEF Set, Wants, Obeyed
<1>3. \A x \in Targets : cache'[x] = IF x = "plain" THEN v ELSE cache[x] BY <1>2, ItemFacts
<1>4. "plain" \in Items /\ v \in Values \cup Settings BY ItemFacts
<1> QED BY <1>1, <1>2, <1>3, <1>4, SetItem

-----------------------------------------------------------------------------
(* A buffer name changes hands; the bindings do not change.                *)
LEMMA GenStep == ASSUME GlInv, NEW t \in Threads, Gen(t) PROVE GlInv'
<1>0. GlTypeOK /\ HeldInv BY DEF GlInv
<1>1. CASE UNCHANGED held /\ Lose(My(t)) /\ UNCHANGED misread
  BY <1>1, LoseStep DEF Gen, program
<1>2. ASSUME NEW b \in Buffers \ live,
             /\ live' = live \cup {b}
             /\ held' = held \cup {b}
             /\ misread' = (misread \/ (b \in held /\ losses = 0))
             /\ UNCHANGED <<bound, losses, disturbed>>
      PROVE  GlInv'
  <2>1. HasContext(t) /\ UNCHANGED <<egl, cache, want>> BY DEF Gen
  <2>2. CurrentInv' /\ UnusedInv' /\ StubInv' /\ Shared' = Shared /\ used' = used
    BY <2>1, SameContext
  <2>3. misread' \in BOOLEAN /\ ~misread' BY <1>0, <1>2 DEF HeldInv, GlInv, MeaningKept
  <2>4. GlTypeOK' BY <1>0, <1>2, <2>1, <2>3 DEF GlTypeOK, egl
  <2>5. HeldInv' BY <1>0, <1>2 DEF HeldInv
  <2>6. BeliefsAgree' BY <1>2, <2>1, <2>2 DEF GlInv, BeliefsAgree
  <2> QED BY <2>2, <2>3, <2>4, <2>5, <2>6 DEF GlInv, MeaningKept
<1> QED BY <1>1, <1>2 DEF Gen

(* A deletion ends bindings in the host; the guest's memory of them makes  *)
(* these items disturbed, and no others.                                   *)
LEMMA DeleteStep ==
  ASSUME GlInv, NEW t \in Threads, NEW b \in Buffers, Delete(t, b)
  PROVE  GlInv'
<1> DEFINE c == current[t]
<1>0. GlTypeOK /\ HeldInv BY DEF GlInv
<1>1. HasContext(t) /\ UNCHANGED <<egl, cache, misread>> /\ held' = held \ {b}
      /\ want' = [want EXCEPT ![c] = Without(@, b)]
  BY DEF Delete
<1>2. CurrentInv' /\ UnusedInv' /\ StubInv' /\ Shared' = Shared /\ used' = used
      /\ (~Shared => \A d \in used : d = c)
  BY <1>1, SameContext
<1>3. c \in Contexts /\ My(t) \in [Items -> Values \cup Settings] BY <1>1, WantFacts
<1>4. \A f \in [Items -> Values \cup Settings] :
         /\ Without(f, b) \in [Items -> Values \cup Settings]
         /\ \A i \in Items : Without(f, b)[i] = IF i \in Targets /\ f[i] = b THEN Default ELSE f[i]
  BY ItemFacts DEF Without
<1>5. /\ want' \in [Contexts -> [Items -> Values \cup Settings]]
      /\ \A i \in Items : want'[c][i] = IF i \in Targets /\ My(t)[i] = b THEN Default ELSE My(t)[i]
  <2>1. want \in [Contexts -> [Items -> Values \cup Settings]] BY <1>0 DEF GlTypeOK
  <2>2. Without(My(t), b) \in [Items -> Values \cup Settings] BY <1>3, <1>4
  <2>3. want' = [want EXCEPT ![c] = Without(My(t), b)] BY <1>1 DEF My
  <2>4. want'[c] = Without(My(t), b) BY <1>3, <2>1, <2>3
  <2> HIDE DEF c
  <2> QED BY <1>3, <1>4, <2>1, <2>2, <2>3, <2>4
<1>6. MeaningKept' BY <1>1 DEF GlInv, MeaningKept
<1>7. /\ stub_cur_ctx' \in Contexts \cup {NoContext}
      /\ current' \in [Threads -> Contexts \cup {NoContext}]
      /\ cache' \in [Targets -> Values]
      /\ held' \subseteq Buffers /\ used' \subseteq Contexts /\ misread' \in BOOLEAN
  BY <1>0, <1>1 DEF GlTypeOK, egl
<1>8. CASE /\ live' = live \ {b}
           /\ bound' = Without(bound, b)
           /\ disturbed' = disturbed \cup {x \in Targets : cache[x] = b}
           /\ UNCHANGED losses
  <2>1. bound \in [Items -> Values \cup Settings] /\ disturbed \subseteq Items
    BY <1>0 DEF GlTypeOK
  <2>2. /\ bound' \in [Items -> Values \cup Settings]
        /\ \A i \in Items : bound'[i] = IF i \in Targets /\ bound[i] = b THEN Default ELSE bound[i]
    BY <1>4, <1>8, <2>1
  <2>3. disturbed' \subseteq Items /\ live' \subseteq Buffers
    BY <1>0, <1>8, <2>1, ItemFacts DEF GlTypeOK
  <2>4. GlTypeOK' BY <1>0, <1>5, <1>7, <1>8, <2>2, <2>3 DEF GlTypeOK
  <2>5. HeldInv' BY <1>0, <1>1, <1>8 DEF HeldInv
  <2>6. BeliefsAgree'
    <3> SUFFICES ASSUME NEW d \in used, NEW i \in Items, ~Shared, i \notin disturbed'
                 PROVE  (i \in Targets => cache'[i] = want'[d][i]) /\ bound'[i] = want'[d][i]
      BY <1>2 DEF BeliefsAgree
    <3>1. d = c /\ i \notin disturbed /\ (i \in Targets => cache[i] # b) BY <1>2, <1>8
    <3>2. bound[i] = My(t)[i] /\ (i \in Targets => cache[i] = My(t)[i])
      BY <1>1, <3>1, Agreement
    <3> HIDE DEF c
    <3> QED BY <1>1, <1>5, <2>2, <3>1, <3>2
  <2> QED BY <1>2, <1>6, <2>4, <2>5, <2>6 DEF GlInv
<1>9. CASE Lose(My(t))
  <2>1. /\ bound' \in [Items -> Values \cup Settings] /\ live' \subseteq Buffers
        /\ losses' \in 0..MaxLosses /\ disturbed' \subseteq Items
        /\ HeldInv'
        /\ \A i \in Items : bound'[i] = Default
        /\ \A i \in Items : i \notin disturbed' => i \notin disturbed /\ My(t)[i] = Default
    BY <1>3, <1>9, LoseFacts
  <2>2. GlTypeOK' BY <1>5, <1>7, <2>1 DEF GlTypeOK
  <2>3. BeliefsAgree'
    <3> SUFFICES ASSUME NEW d \in used, NEW i \in Items, ~Shared, i \notin disturbed'
                 PROVE  (i \in Targets => cache'[i] = want'[d][i]) /\ bound'[i] = want'[d][i]
      BY <1>2 DEF BeliefsAgree
    <3>1. d = c /\ i \notin disturbed /\ My(t)[i] = Default /\ bound'[i] = Default
      BY <1>2, <2>1
    <3>2. i \in Targets => cache[i] = My(t)[i] BY <1>1, <3>1, Agreement
    <3> HIDE DEF c
    <3> QED BY <1>1, <1>5, <3>1, <3>2
  <2> QED BY <1>2, <1>6, <2>1, <2>2, <2>3 DEF GlInv
<1> QED BY <1>8, <1>9 DEF Delete

-----------------------------------------------------------------------------
(* Before anything has happened there is nothing to disagree about.        *)
LEMMA InitGlInv == ASSUME GlInit PROVE GlInv
<1>1. /\ bound = Fresh /\ \A c \in Contexts : want[c] = Fresh
      /\ want \in [Contexts -> [Items -> Values \cup Settings]]
  BY ItemFacts DEF GlInit
<1>2. GlTypeOK
  <2>1. current \in [Threads -> Contexts \cup {NoContext}] /\ cache \in [Targets -> Values]
    BY ItemFacts DEF GlInit
  <2>2. bound \in [Items -> Values \cup Settings] BY <1>1, ItemFacts
  <2>3. losses \in 0..MaxLosses BY GlAssumption DEF GlInit
  <2>4. misread \in BOOLEAN /\ stub_cur_ctx = NoContext BY DEF GlInit
  <2>5. live = {} /\ held = {} /\ used = {} /\ disturbed = {} BY DEF GlInit
  <2> QED BY <1>1, <2>1, <2>2, <2>3, <2>4, <2>5 DEF GlTypeOK
<1>3. CurrentInv /\ StubInv BY DEF GlInit, CurrentInv, StubInv, HasContext
<1>4. UnusedInv BY <1>1, ItemFacts DEF GlInit, UnusedInv
<1>5. HeldInv /\ BeliefsAgree /\ MeaningKept BY DEF GlInit, HeldInv, BeliefsAgree, MeaningKept
<1> QED BY <1>2, <1>3, <1>4, <1>5 DEF GlInv

(* Every call of the program preserves the invariant.                      *)
LEMMA NextGlInv == ASSUME GlInv, [GlNext]_glvars PROVE GlInv'
<1>1. ASSUME NEW t \in Threads, NEW c \in Contexts \cup {NoContext}, MakeCurrent(t, c)
      PROVE  GlInv'
  BY <1>1, MakeCurrentStep
<1>2. ASSUME NEW t \in Threads, GetCurrent(t) PROVE GlInv' BY <1>2, GetCurrentStep
<1>3. ASSUME NEW t \in Threads, NEW x \in Targets, NEW b \in Values, Bind(t, x, b) PROVE GlInv'
  BY <1>3, BindStep
<1>4. ASSUME NEW t \in Threads, NEW v \in Settings, Set(t, v) PROVE GlInv' BY <1>4, SetStep
<1>5. ASSUME NEW t \in Threads, NEW i \in Items, Query(t, i) PROVE GlInv' BY <1>5, QueryStep
<1>6. ASSUME NEW t \in Threads, Swap(t) PROVE GlInv' BY <1>6, SwapStep
<1>7. ASSUME NEW t \in Threads, Gen(t) PROVE GlInv' BY <1>7, GenStep
<1>8. ASSUME NEW t \in Threads, NEW b \in Buffers, Delete(t, b) PROVE GlInv' BY <1>8, DeleteStep
<1>9. ASSUME NEW t \in Threads, Pointer(t) PROVE GlInv' BY <1>9, PointerStep
<1>10. ASSUME NEW t \in Threads, Draw(t) PROVE GlInv' BY <1>10, DrawStep
<1>11. CASE UNCHANGED glvars
  <2> USE <1>11 DEF GlInv, glvars, egl, host, program
  <2>1. GlTypeOK' /\ UnusedInv' /\ HeldInv' /\ MeaningKept'
    BY DEF GlTypeOK, UnusedInv, HeldInv, MeaningKept
  <2>2. CurrentInv' /\ StubInv' BY DEF CurrentInv, StubInv, HasContext, Shared
  <2>3. BeliefsAgree' BY DEF BeliefsAgree, Shared
  <2> QED BY <2>1, <2>2, <2>3
<1> QED
  BY <1>1, <1>2, <1>3, <1>4, <1>5, <1>6, <1>7, <1>8, <1>9, <1>10, <1>11 DEF GlNext

(* The inductive invariant holds in every reachable state.                 *)
THEOREM GlInvariant == GlSpec => []GlInv
<1>1. GlInit => GlInv BY InitGlInv
<1>2. GlInv /\ [GlNext]_glvars => GlInv' BY NextGlInv
<1> QED BY <1>1, <1>2, PTL DEF GlSpec

(* Every variable keeps its type.                                          *)
THEOREM GlTypeCorrect == GlSpec => []GlTypeOK
<1>1. GlInv => GlTypeOK BY DEF GlInv
<1> QED BY <1>1, GlInvariant, PTL

(* With one context, guest, host and program agree on every item that no   *)
(* lost connection and no deletion has touched (libGLESv2_bridge.c:49).    *)
THEOREM Beliefs == GlSpec => []BeliefsAgree
<1>1. GlInv => BeliefsAgree BY DEF GlInv
<1> QED BY <1>1, GlInvariant, PTL

(* Then every call means in the host what the program meant: no offset is  *)
(* taken for a pointer, no indices for an offset (:243, :751).             *)
THEOREM Meaning == GlSpec => []MeaningKept
<1>1. GlInv => MeaningKept BY DEF GlInv
<1> QED BY <1>1, GlInvariant, PTL

-----------------------------------------------------------------------------
(* Diagnostic frames.                                                      *)

(* The connections whose threads have got the lock in handle, or ended.    *)
Published == {c \in Connections : handler[c] \in {"png", "status", "done"}}

(* A number is saved or shown only after as many frames.                   *)
CountInv ==
  /\ frames <= Cardinality(Published) /\ status <= Cardinality(Published)
  /\ png # Nothing => Published # {}

PostedOK ==
  /\ posted \in Seq(BOOLEAN) /\ Len(posted) <= MaxPosts
  /\ \A k \in 1..Len(posted) : posted[k]

(* The one thread that publishes holds the lock, has shown its frame and   *)
(* then saved it.                                                          *)
ThreadInv(c) ==
  /\ handler[c] # "none" => c <= Len(posted)
  /\ handler[c] \in {"read", "have", "png", "status"} => up
  /\ handler[c] \in {"have", "png", "status"} => got[c] = Pieces
  /\ handler[c] \in {"png", "status"} <=> lock = c
  /\ lock = c => cut /\ frame = Frame(c) /\ frames > 0
  /\ handler[c] = "status" => png = Frame(c)

SavedInv ==
  ~cut => /\ png = Nothing <=> status = 0
          /\ up => frame = png /\ frames = status

DownInv == ~up => frame = Nothing /\ frames = 0

Whole(image) ==
  \/ image = Nothing
  \/ image = Torn /\ cut /\ faults > 0
  \/ \E k \in 1..Len(posted) : image = Frame(k)

(* A buffer's properties tell what its memory was made for, unless the     *)
(* program has set them, or the memory, itself.                            *)
FitInv ==
  \A b \in 1..Len(buffer) : buffer[b].pixels \in {buffer[b].header, None, Own}

ScreenOK ==
  /\ window \in [Windows -> Geometries]
  /\ buffers \in [Windows -> Seq(1..MaxBuffers)]
  /\ buffer \in Seq(Buffer)
  /\ FitInv

SendingOK ==
  /\ sending \in 0..MaxPosts
  /\ sent \in [Connections -> 0..Pieces]

ReceiverOK ==
  /\ got \in [Connections -> 0..Pieces] /\ lock \in 0..MaxPosts
  /\ handler \in [Connections -> {"none", "read", "have", "png", "status", "done"}]
  /\ frames \in Nat /\ status \in Nat /\ faults \in Nat
  /\ up \in BOOLEAN /\ cut \in BOOLEAN

PublishInv ==
  /\ \A c \in Connections : ThreadInv(c)
  /\ SavedInv /\ DownInv /\ Whole(frame) /\ Whole(png)

DiagInv == ScreenOK /\ SendingOK /\ ReceiverOK /\ PostedOK /\ CountInv /\ PublishInv

-----------------------------------------------------------------------------
LEMMA Bounds ==
  /\ Pieces \in Nat /\ Pieces > 1
  /\ MaxBuffers \in Nat /\ MaxPosts \in Nat /\ MaxFaults \in Nat
  /\ \A c \in Connections : c \in Nat /\ c # Nobody /\ c \in 0..MaxPosts
  /\ \A c \in 0..MaxPosts : c = Nobody \/ c \in Connections
BY DfAssumption DEF DfAssumption, Connections, Nobody

LEMMA ImageFacts ==
  /\ Nothing # Torn
  /\ \A c : Frame(c) # Nothing /\ Frame(c) # Torn
<1>1. Nothing.kind = "nothing" /\ Torn.kind = "torn" /\ \A c : Frame(c).kind = "whole"
  BY DEF Nothing, Torn, Frame
<1> QED BY <1>1

LEMMA PrefixFacts ==
  ASSUME NEW S, NEW s \in Seq(S), NEW n \in 0..Len(s)
  PROVE  SubSeq(s, 1, n) \in Seq(S)
OBVIOUS

LEMMA ConcatFacts ==
  ASSUME NEW S, NEW s \in Seq(S), NEW e \in S, NEW n \in Nat
  PROVE  LET x == s \o [i \in 1..n |-> e] IN
         x \in Seq(S) /\ \A b \in 1..Len(x) : (b \in 1..Len(s) /\ x[b] = s[b]) \/ x[b] = e
<1> DEFINE t == [i \in 1..n |-> e]
<1>1. t \in Seq(S) /\ Len(t) = n /\ \A i \in 1..n : t[i] = e OBVIOUS
<1> HIDE DEF t
<1>2. /\ s \o t \in Seq(S) /\ Len(s \o t) = Len(s) + n /\ Len(s) \in Nat
      /\ \A b \in 1..Len(s) + n : (s \o t)[b] = IF b <= Len(s) THEN s[b] ELSE t[b - Len(s)]
  BY <1>1
<1>3. \A b \in 1..Len(s) + n : b \in 1..Len(s) \/ (~(b <= Len(s)) /\ b - Len(s) \in 1..n)
  BY <1>2
<1>4. \A b \in 1..Len(s \o t) : (b \in 1..Len(s) /\ (s \o t)[b] = s[b]) \/ (s \o t)[b] = e
  BY <1>1, <1>2, <1>3
<1> QED BY <1>2, <1>4 DEF t

(* The threads that published are finitely many; only more can have.       *)
LEMMA PublishedFacts ==
  /\ IsFiniteSet(Published) /\ Cardinality(Published) \in Nat
  /\ Cardinality(Published) <= MaxPosts
<1>1. IsFiniteSet(Connections) /\ Cardinality(Connections) <= MaxPosts
  BY Bounds, FS_Interval DEF Connections
<1>2. Published \in SUBSET Connections BY DEF Published
<1>3. IsFiniteSet(Published) /\ Cardinality(Published) <= Cardinality(Connections)
  BY <1>1, <1>2, FS_Subset
<1>4. Cardinality(Published) \in Nat /\ Cardinality(Connections) \in Nat
  BY <1>1, <1>3, FS_CardinalityType
<1> QED BY <1>1, <1>3, <1>4, Bounds

LEMMA MorePublished ==
  ASSUME CountInv, ReceiverOK, Published \subseteq Published'
  PROVE  /\ Cardinality(Published) <= Cardinality(Published')
         /\ Cardinality(Published) \in Nat /\ Cardinality(Published') \in Nat
<1>1. IsFiniteSet(Published') /\ Cardinality(Published') \in Nat
  <2>1. IsFiniteSet(Connections) BY Bounds, FS_Interval DEF Connections
  <2>2. Published' \in SUBSET Connections BY DEF Published
  <2>3. IsFiniteSet(Published') BY <2>1, <2>2, FS_Subset
  <2> QED BY <2>3, FS_CardinalityType
<1>2. Published \in SUBSET Published' OBVIOUS
<1>3. Cardinality(Published) <= Cardinality(Published') BY <1>1, <1>2, FS_Subset
<1> QED BY <1>1, <1>3, PublishedFacts

(* A step of the program that does not touch the receiver.                 *)
LEMMA ReceiverKept ==
  ASSUME DiagInv, UNCHANGED receiver, UNCHANGED posted
  PROVE  ReceiverOK' /\ PostedOK' /\ CountInv' /\ PublishInv'
<1>1. UNCHANGED <<handler, got, lock, frame, frames, png, status, up, faults, cut>>
  BY DEF receiver, shown, files
<1>2. ReceiverOK' /\ PostedOK' BY <1>1 DEF DiagInv, ReceiverOK, PostedOK
<1>3. CountInv' BY <1>1 DEF DiagInv, CountInv, Published
<1>4. PublishInv' BY <1>1 DEF DiagInv, PublishInv, ThreadInv, SavedInv, DownInv, Whole
<1> QED BY <1>2, <1>3, <1>4

-----------------------------------------------------------------------------
(* The Screen stub.                                                        *)
LEMMA SetWindowStep ==
  ASSUME DiagInv, NEW w \in Windows, NEW g \in Geometries, SetWindow(w, g)
  PROVE  DiagInv'
<1>1. UNCHANGED <<buffers, buffer, sender, receiver>> BY DEF SetWindow
<1>2. ScreenOK' BY <1>1 DEF DiagInv, ScreenOK, FitInv, SetWindow
<1>3. SendingOK' BY <1>1 DEF DiagInv, SendingOK, sender
<1> QED BY <1>1, <1>2, <1>3, ReceiverKept DEF DiagInv, sender

LEMMA BuffersStep ==
  ASSUME DiagInv, NEW w \in Windows, NEW count \in 1..2, EnsureBuffers(w, count),
         UNCHANGED <<window, sender, receiver>>
  PROVE  DiagInv'
<1> DEFINE missing == count - Len(buffers[w])
           new == [header |-> window[w], pixels |-> window[w]]
<1>1. /\ window \in [Windows -> Geometries] /\ buffers \in [Windows -> Seq(1..MaxBuffers)]
      /\ buffer \in Seq(Buffer) /\ FitInv
  BY DEF DiagInv, ScreenOK
<1>2. window[w] \in Geometries /\ buffers[w] \in Seq(1..MaxBuffers)
      /\ Len(buffers[w]) \in Nat /\ Len(buffer) \in Nat /\ count \in Nat
  BY <1>1
<1>3. ScreenOK'
  <2>1. CASE missing <= 0
    <3>1. buffers' = [buffers EXCEPT ![w] = SubSeq(@, 1, count)] /\ buffer' = buffer
      BY <2>1 DEF EnsureBuffers
    <3>2. count \in 0..Len(buffers[w]) BY <1>2, <2>1
    <3>3. SubSeq(buffers[w], 1, count) \in Seq(1..MaxBuffers) BY <1>2, <3>2, PrefixFacts
    <3> QED BY <1>1, <3>1, <3>3 DEF ScreenOK, FitInv
  <2>2. CASE ~(missing <= 0)
    <3>1. /\ Len(buffer) + missing <= MaxBuffers
          /\ buffers' = [buffers EXCEPT ![w] = @ \o [i \in 1..missing |-> Len(buffer) + i]]
          /\ buffer' = buffer \o [i \in 1..missing |-> new]
      BY <2>2 DEF EnsureBuffers
    <3>2. missing \in Nat BY <1>2, <2>2
    <3> HIDE DEF missing
    <3>3. [i \in 1..missing |-> Len(buffer) + i] \in Seq(1..MaxBuffers)
      <4>1. \A i \in 1..missing : Len(buffer) + i \in 1..MaxBuffers BY <1>2, <3>1, <3>2, Bounds
      <4> QED BY <3>2, <4>1
    <3>4. new \in Buffer /\ new.pixels = new.header BY <1>2 DEF Buffer
    <3> HIDE DEF new
    <3>5. buffers[w] \o [i \in 1..missing |-> Len(buffer) + i] \in Seq(1..MaxBuffers)
      BY <1>2, <3>3
    <3>6. /\ buffer' \in Seq(Buffer)
          /\ \A b \in 1..Len(buffer') :
               (b \in 1..Len(buffer) /\ buffer'[b] = buffer[b]) \/ buffer'[b] = new
      BY <1>1, <3>1, <3>2, <3>4, ConcatFacts
    <3>7. FitInv' BY <1>1, <3>4, <3>6 DEF FitInv
    <3> QED BY <1>1, <3>1, <3>5, <3>6, <3>7 DEF ScreenOK
  <2> QED BY <2>1, <2>2
<1>4. SendingOK' BY DEF DiagInv, SendingOK, sender
<1> QED BY <1>3, <1>4, ReceiverKept DEF DiagInv, sender

LEMMA ScreenStep ==
  ASSUME DiagInv, NEW w \in Windows,
         (\E n \in 1..2 : CreateBuffers(w, n)) \/ GetBuffers(w) \/ \E v \in Windows \ {w} : Share(w, v)
  PROVE  DiagInv'
<1>1. ASSUME NEW n \in 1..2, CreateBuffers(w, n) PROVE DiagInv'
  BY <1>1, BuffersStep DEF CreateBuffers
<1>2. CASE GetBuffers(w)
  <2>1. 2 \in 1..2 OBVIOUS
  <2> QED BY <1>2, <2>1, BuffersStep DEF GetBuffers
<1>3. ASSUME NEW v \in Windows, Share(w, v) PROVE DiagInv'
  <2>1. buffers' = [buffers EXCEPT ![w] = buffers[v]] /\ UNCHANGED <<window, buffer, sender, receiver>>
    BY <1>3 DEF Share
  <2>2. ScreenOK' BY <2>1 DEF DiagInv, ScreenOK, FitInv
  <2>3. SendingOK' BY <2>1 DEF DiagInv, SendingOK, sender
  <2> QED BY <2>1, <2>2, <2>3, ReceiverKept DEF DiagInv, sender
<1> QED BY <1>1, <1>2, <1>3

(* What the program does with a buffer becomes its own affair.             *)
LEMMA OwnStep ==
  ASSUME DiagInv,
         \/ CreateBuffer
         \/ \E b \in DOMAIN buffer :
              \/ \E g \in Geometries : SetBuffer(b, g)
              \/ \E memory \in {None, Own} : SetPointer(b, memory)
  PROVE  DiagInv'
<1>1. UNCHANGED <<window, buffers, sender, receiver>> BY DEF CreateBuffer, SetBuffer, SetPointer
<1>2. /\ window \in [Windows -> Geometries] /\ buffers \in [Windows -> Seq(1..MaxBuffers)]
      /\ buffer \in Seq(Buffer) /\ FitInv
      /\ Len(buffer) \in Nat /\ DOMAIN buffer = 1..Len(buffer)
  BY DEF DiagInv, ScreenOK
<1>3. ASSUME NEW b \in DOMAIN buffer, NEW new \in Buffer, new.pixels \in {None, Own},
             buffer' = [buffer EXCEPT ![b] = new]
      PROVE  buffer' \in Seq(Buffer) /\ FitInv'
  <2>1. /\ buffer' \in Seq(Buffer) /\ Len(buffer') = Len(buffer) /\ buffer'[b] = new
        /\ \A d \in 1..Len(buffer) : d # b => buffer'[d] = buffer[d]
    BY <1>2, <1>3
  <2> QED BY <1>2, <1>3, <2>1 DEF FitInv
<1>4. ASSUME CreateBuffer PROVE buffer' \in Seq(Buffer) /\ FitInv'
  <2> DEFINE new == [header |-> "refused", pixels |-> None]
  <2>1. new \in Buffer /\ new.pixels = None BY DEF Buffer, Geometries
  <2>2. buffer' = Append(buffer, new) BY <1>4 DEF CreateBuffer
  <2> HIDE DEF new
  <2>3. /\ buffer' \in Seq(Buffer) /\ Len(buffer') = Len(buffer) + 1
        /\ buffer'[Len(buffer) + 1] = new
        /\ \A d \in 1..Len(buffer) : buffer'[d] = buffer[d]
    BY <1>2, <2>1, <2>2
  <2>4. \A d \in 1..Len(buffer') : d \in 1..Len(buffer) \/ d = Len(buffer) + 1 BY <1>2, <2>3
  <2>5. FitInv' BY <1>2, <2>1, <2>3, <2>4 DEF FitInv
  <2> QED BY <2>3, <2>5
<1>5. ASSUME NEW b \in DOMAIN buffer, NEW g \in Geometries, SetBuffer(b, g)
      PROVE  buffer' \in Seq(Buffer) /\ FitInv'
  <2> DEFINE new == [header |-> g, pixels |-> IF buffer[b].pixels = None THEN None ELSE Own]
  <2>1. new \in Buffer /\ new.pixels \in {None, Own} BY DEF Buffer
  <2>2. buffer' = [buffer EXCEPT ![b] = new] BY <1>2, <1>5 DEF SetBuffer
  <2> HIDE DEF new
  <2> QED BY <1>3, <2>1, <2>2
<1>6. ASSUME NEW b \in DOMAIN buffer, NEW memory \in {None, Own}, SetPointer(b, memory)
      PROVE  buffer' \in Seq(Buffer) /\ FitInv'
  <2>1. buffer[b] \in Buffer BY <1>2
  <2> DEFINE new == [buffer[b] EXCEPT !.pixels = memory]
  <2>2. new \in Buffer /\ new.pixels = memory BY <2>1 DEF Buffer
  <2>3. buffer' = [buffer EXCEPT ![b] = new] BY <1>6 DEF SetPointer
  <2> HIDE DEF new
  <2> QED BY <1>3, <2>2, <2>3
<1>7. ScreenOK'
  <2>1. window' = window /\ buffers' = buffers BY <1>1
  <2>2. buffer' \in Seq(Buffer) /\ FitInv' BY <1>4, <1>5, <1>6
  <2> QED BY <1>2, <2>1, <2>2 DEF ScreenOK
<1>8. SendingOK' BY <1>1 DEF DiagInv, SendingOK, sender
<1> QED BY <1>1, <1>7, <1>8, ReceiverKept DEF DiagInv, sender

-----------------------------------------------------------------------------
(* frame_publish. *)
LEMMA PostStep ==
  ASSUME DiagInv, NEW w \in Windows, NEW b \in DOMAIN buffer, Post(w, b)
  PROVE  DiagInv'
<1> DEFINE c == Len(posted) + 1  new == buffer[b].pixels \in {buffer[b].header, Own}
<1>0. /\ UNCHANGED <<screen, got, lock, shown, files, up, faults, cut>>
      /\ Len(posted) < MaxPosts
  BY DEF Post, Running
<1>1. CASE UNCHANGED <<posted, sending, sent, closed, handler>>
  <2>1. UNCHANGED receiver BY <1>0, <1>1 DEF receiver
  <2>2. ScreenOK' /\ SendingOK' BY <1>0, <1>1 DEF DiagInv, ScreenOK, FitInv, SendingOK, screen
  <2> QED BY <1>1, <2>1, <2>2, ReceiverKept DEF DiagInv
<1>2. CASE /\ buffer[b].pixels # None
           /\ posted' = Append(posted, new) /\ sending' = c /\ up
           /\ handler' = [handler EXCEPT ![c] = "read"] /\ UNCHANGED <<sent, closed, ended>>
  <2>1. buffer[b].pixels \in {buffer[b].header, None, Own}
    <3>1. b \in 1..Len(buffer) BY DEF DiagInv, ScreenOK
    <3> QED BY <3>1 DEF DiagInv, ScreenOK, FitInv
  <2>2. /\ posted \in Seq(BOOLEAN) /\ Len(posted) \in Nat
        /\ c \in Connections /\ c \in 0..MaxPosts /\ c = Len(posted) + 1
    BY <1>0, Bounds DEF DiagInv, PostedOK, Connections
  <2>3. new = TRUE BY <1>2, <2>1
  <2> HIDE DEF c, new
  <2>4. /\ posted' \in Seq(BOOLEAN)
        /\ Len(posted') = Len(posted) + 1 /\ posted'[Len(posted) + 1] = TRUE
        /\ \A k \in 1..Len(posted) : posted'[k] = posted[k]
    BY <1>2, <2>2, <2>3
  <2>5. PostedOK'
    <3>1. Len(posted') <= MaxPosts BY <1>0, <2>2, <2>4, Bounds
    <3>2. ASSUME NEW k \in 1..Len(posted') PROVE posted'[k]
      <4>1. k \in 1..Len(posted) \/ k = Len(posted) + 1 BY <2>2, <2>4
      <4> QED BY <2>4, <4>1 DEF DiagInv, PostedOK
    <3> QED BY <2>4, <3>1, <3>2 DEF PostedOK
  <2>6. ScreenOK' /\ SendingOK'
    BY <1>0, <1>2, <2>2 DEF DiagInv, ScreenOK, FitInv, SendingOK, screen
  <2>7. /\ UNCHANGED <<got, lock, frame, frames, png, status, up, faults, cut>>
        /\ handler'[c] = "read" /\ \A d \in Connections : d # c => handler'[d] = handler[d]
        /\ handler' \in [Connections -> {"none", "read", "have", "png", "status", "done"}]
    BY <1>0, <1>2, <2>2 DEF DiagInv, ReceiverOK, shown, files
  <2>8. ReceiverOK' BY <2>7 DEF DiagInv, ReceiverOK
  <2>9. handler[c] = "none"
    <3>1. handler[c] # "none" => c <= Len(posted) BY <2>2 DEF DiagInv, PublishInv, ThreadInv
    <3> QED BY <2>2, <3>1
  <2>10. CountInv'
    <3>1. Published' = Published BY <2>7, <2>9 DEF Published
    <3> QED BY <2>7, <3>1 DEF DiagInv, CountInv
  <2>11. PublishInv'
    <3>1. ASSUME NEW d \in Connections PROVE ThreadInv(d)'
      <4>1. ThreadInv(d) /\ d \in Nat BY Bounds DEF DiagInv, PublishInv
      <4>2. CASE d = c BY <1>2, <2>2, <2>4, <2>7, <2>9, <4>1, <4>2 DEF ThreadInv
      <4>3. CASE d # c BY <2>2, <2>4, <2>7, <4>1, <4>3 DEF ThreadInv
      <4> QED BY <4>2, <4>3
    <3>2. SavedInv' /\ DownInv' BY <2>7 DEF DiagInv, PublishInv, SavedInv, DownInv
    <3>3. \A k \in 1..Len(posted) : k \in 1..Len(posted') BY <2>2, <2>4
    <3>4. Whole(frame)' /\ Whole(png)' BY <2>7, <3>3 DEF DiagInv, PublishInv, Whole
    <3> QED BY <3>1, <3>2, <3>4 DEF PublishInv
  <2> QED BY <2>5, <2>6, <2>8, <2>10, <2>11 DEF DiagInv
<1> QED BY <1>1, <1>2 DEF Post, Geometry, Sendable

LEMMA SendStep ==
  ASSUME DiagInv, Send \/ FinishPost
  PROVE  DiagInv'
<1>1. UNCHANGED <<screen, posted, receiver>> BY DEF Send, FinishPost
<1>2. ScreenOK' BY <1>1 DEF DiagInv, ScreenOK, FitInv, screen
<1>3. SendingOK'
  <2>1. sending \in 0..MaxPosts /\ sent \in [Connections -> 0..Pieces] BY DEF DiagInv, SendingOK
  <2>2. CASE Send
    <3>1. sending \in Connections BY <2>1, <2>2, Bounds DEF Send
    <3>2. sent[sending] + 1 \in 0..Pieces BY <2>1, <2>2, <3>1, Bounds DEF Send
    <3> QED BY <2>1, <2>2, <3>2 DEF Send, SendingOK
  <2>3. CASE FinishPost BY <2>1, <2>3, Bounds DEF FinishPost, SendingOK, Nobody
  <2> QED BY <2>2, <2>3
<1> QED BY <1>1, <1>2, <1>3, ReceiverKept DEF DiagInv

-----------------------------------------------------------------------------
(* Frames.handle. *)

(* A step of the receiver.                                                 *)
LEMMA SenderKept ==
  ASSUME DiagInv, UNCHANGED <<screen, sender>>, ReceiverOK', CountInv', PublishInv'
  PROVE  DiagInv'
BY DEF DiagInv, ScreenOK, FitInv, SendingOK, PostedOK, screen, sender

LEMMA ReadStep ==
  ASSUME DiagInv, NEW c \in Connections, Receive(c) \/ Reject(c)
  PROVE  DiagInv'
<1>1. /\ handler[c] = "read" /\ UNCHANGED <<screen, sender>>
      /\ UNCHANGED <<posted, lock, frame, frames, png, status, up, faults, cut>>
  BY DEF Receive, Reject, shown, files, sender
<1>2. /\ got \in [Connections -> 0..Pieces] /\ sent \in [Connections -> 0..Pieces]
      /\ handler \in [Connections -> {"none", "read", "have", "png", "status", "done"}]
  BY DEF DiagInv, ReceiverOK, SendingOK
<1>3. /\ got' \in [Connections -> 0..Pieces]
      /\ handler' \in [Connections -> {"none", "read", "have", "png", "status", "done"}]
      /\ handler'[c] \in {"read", "have", "done"}
      /\ handler'[c] = "have" => got'[c] = Pieces
      /\ \A d \in Connections : d # c => got'[d] = got[d] /\ handler'[d] = handler[d]
  <2>1. CASE Receive(c)
    <3>1. got[c] + 1 \in 0..Pieces BY <1>2, <2>1, Bounds DEF Receive
    <3> QED BY <1>2, <2>1, <3>1 DEF Receive
  <2>2. CASE Reject(c) BY <1>2, <2>2 DEF Reject
  <2> QED BY <2>1, <2>2
<1>4. ReceiverOK' BY <1>1, <1>3 DEF DiagInv, ReceiverOK
<1>5. CountInv'
  <2>1. Published \subseteq Published' BY <1>1, <1>3 DEF Published
  <2>2. Cardinality(Published) <= Cardinality(Published')
        /\ Cardinality(Published) \in Nat /\ Cardinality(Published') \in Nat
    BY <2>1, MorePublished DEF DiagInv
  <2> QED BY <1>1, <2>1, <2>2 DEF DiagInv, CountInv, ReceiverOK
<1>6. PublishInv'
  <2>1. ASSUME NEW d \in Connections PROVE ThreadInv(d)'
    <3>1. ThreadInv(d) BY DEF DiagInv, PublishInv
    <3> QED BY <1>1, <1>3, <3>1 DEF ThreadInv
  <2>2. SavedInv' /\ DownInv' /\ Whole(frame)' /\ Whole(png)'
    BY <1>1 DEF DiagInv, PublishInv, SavedInv, DownInv, Whole
  <2> QED BY <2>1, <2>2 DEF PublishInv
<1> QED BY <1>1, <1>4, <1>5, <1>6, SenderKept

LEMMA ShowStep ==
  ASSUME DiagInv, NEW c \in Connections, Show(c)
  PROVE  DiagInv'
<1>1. /\ handler[c] = "have" /\ lock = Nobody /\ lock' = c
      /\ frame' = Received(c) /\ frames' = frames + 1 /\ cut' = TRUE
      /\ handler' = [handler EXCEPT ![c] = "png"]
      /\ UNCHANGED <<screen, sender>> /\ UNCHANGED <<posted, got, png, status, up, faults>>
  BY DEF Show, files, sender
<1>2. /\ handler \in [Connections -> {"none", "read", "have", "png", "status", "done"}]
      /\ frames \in Nat
  BY DEF DiagInv, ReceiverOK
<1>3. ThreadInv(c) /\ c \in Nat /\ c \in 0..MaxPosts /\ c # Nobody
  BY Bounds DEF DiagInv, PublishInv
<1>4. frame' = Frame(c) /\ c <= Len(posted) /\ up BY <1>1, <1>3 DEF ThreadInv, Received
<1>5. ReceiverOK' BY <1>1, <1>2, <1>3 DEF DiagInv, ReceiverOK
<1>6. CountInv'
  <2>1. Published' = Published \cup {c} /\ c \notin Published BY <1>1, <1>2 DEF Published
  <2>2. Cardinality(Published') = Cardinality(Published) + 1
    BY <2>1, PublishedFacts, FS_AddElement
  <2>3. Cardinality(Published) \in Nat BY PublishedFacts
  <2>4. status \in Nat BY DEF DiagInv, ReceiverOK
  <2> QED BY <1>1, <1>2, <2>1, <2>2, <2>3, <2>4 DEF DiagInv, CountInv
<1>7. PublishInv'
  <2>1. ASSUME NEW d \in Connections PROVE ThreadInv(d)'
    <3>1. ThreadInv(d) /\ d # Nobody BY Bounds DEF DiagInv, PublishInv
    <3>2. CASE d = c BY <1>1, <1>2, <1>3, <1>4, <3>2 DEF ThreadInv
    <3>3. CASE d # c BY <1>1, <1>2, <3>1, <3>3 DEF ThreadInv
    <3> QED BY <3>2, <3>3
  <2>2. SavedInv' /\ DownInv' BY <1>1, <1>4 DEF SavedInv, DownInv
  <2>3. c \in 1..Len(posted) BY <1>3, <1>4 DEF DiagInv, PostedOK, Nobody
  <2>4. Whole(frame)' BY <1>1, <1>4, <2>3 DEF Whole
  <2>5. Whole(png)' BY <1>1 DEF DiagInv, PublishInv, Whole
  <2> QED BY <2>1, <2>2, <2>4, <2>5 DEF PublishInv
<1> QED BY <1>1, <1>5, <1>6, <1>7, SenderKept

LEMMA WritePngStep ==
  ASSUME DiagInv, NEW c \in Connections, WritePng(c)
  PROVE  DiagInv'
<1>1. /\ handler[c] = "png" /\ png' = Received(c)
      /\ handler' = [handler EXCEPT ![c] = "status"]
      /\ UNCHANGED <<screen, sender>>
      /\ UNCHANGED <<posted, got, lock, frame, frames, status, up, faults, cut>>
  BY DEF WritePng, shown, sender
<1>2. handler \in [Connections -> {"none", "read", "have", "png", "status", "done"}]
  BY DEF DiagInv, ReceiverOK
<1>3. ThreadInv(c) /\ lock = c /\ cut /\ up /\ frame = Frame(c)
  BY <1>1 DEF DiagInv, PublishInv, ThreadInv
<1>4. png' = Frame(c) BY <1>1, <1>3 DEF ThreadInv, Received
<1>5. ReceiverOK' BY <1>1, <1>2 DEF DiagInv, ReceiverOK
<1>6. CountInv'
  <2>1. Published' = Published /\ c \in Published BY <1>1, <1>2 DEF Published
  <2> QED BY <1>1, <2>1 DEF DiagInv, CountInv
<1>7. PublishInv'
  <2>1. ASSUME NEW d \in Connections PROVE ThreadInv(d)'
    <3>1. ThreadInv(d) BY DEF DiagInv, PublishInv
    <3> QED BY <1>1, <1>2, <1>3, <1>4, <3>1 DEF ThreadInv
  <2>2. SavedInv' /\ DownInv' BY <1>1, <1>3 DEF SavedInv, DownInv
  <2>3. Whole(frame)' BY <1>1 DEF DiagInv, PublishInv, Whole
  <2>4. Whole(png)' BY <1>1, <1>3, <1>4, <2>3 DEF Whole
  <2> QED BY <2>1, <2>2, <2>3, <2>4 DEF PublishInv
<1> QED BY <1>1, <1>5, <1>6, <1>7, SenderKept

LEMMA WriteStatusStep ==
  ASSUME DiagInv, NEW c \in Connections, WriteStatus(c)
  PROVE  DiagInv'
<1>1. /\ handler[c] = "status" /\ status' = frames /\ lock' = Nobody /\ cut' = FALSE
      /\ handler' = [handler EXCEPT ![c] = "done"]
      /\ UNCHANGED <<screen, sender>>
      /\ UNCHANGED <<posted, got, frame, frames, png, up, faults>>
  BY DEF WriteStatus, shown, sender
<1>2. /\ handler \in [Connections -> {"none", "read", "have", "png", "status", "done"}]
      /\ frames \in Nat
  BY DEF DiagInv, ReceiverOK
<1>3. ThreadInv(c) /\ lock = c /\ up /\ frame = Frame(c) /\ png = Frame(c) /\ frames > 0
  BY <1>1 DEF DiagInv, PublishInv, ThreadInv
<1>4. ReceiverOK'
  <2>1. lock' \in 0..MaxPosts /\ status' \in Nat BY <1>1, <1>2, Bounds DEF Nobody
  <2> QED BY <1>1, <1>2, <2>1 DEF DiagInv, ReceiverOK
<1>5. CountInv'
  <2>1. Published' = Published BY <1>1, <1>2 DEF Published
  <2> QED BY <1>1, <2>1 DEF DiagInv, CountInv
<1>6. PublishInv'
  <2>1. ASSUME NEW d \in Connections PROVE ThreadInv(d)'
    <3>1. ThreadInv(d) /\ d # Nobody BY Bounds DEF DiagInv, PublishInv
    <3> QED BY <1>1, <1>2, <1>3, <3>1 DEF ThreadInv
  <2>2. SavedInv' /\ DownInv' BY <1>1, <1>2, <1>3, ImageFacts DEF SavedInv, DownInv
  <2>3. c \in 1..Len(posted)
    <3>1. c <= Len(posted) BY <1>1, <1>3 DEF ThreadInv
    <3> QED BY <3>1 DEF DiagInv, PostedOK, Connections
  <2>4. Whole(frame)' /\ Whole(png)' BY <1>1, <1>3, <2>3 DEF Whole
  <2> QED BY <2>1, <2>2, <2>4 DEF PublishInv
<1> QED BY <1>1, <1>4, <1>5, <1>6, SenderKept

-----------------------------------------------------------------------------
(* What goes wrong. *)

(* A publication that stops: cut says so until the next one is complete.   *)
LEMMA WriteFailsStep ==
  ASSUME DiagInv, NEW c \in Connections, WriteFails(c)
  PROVE  DiagInv'
<1>1. /\ handler[c] \in {"png", "status"} /\ StoppedWriting(c)
      /\ faults' = faults + 1 /\ lock' = Nobody
      /\ handler' = [handler EXCEPT ![c] = "done"]
      /\ UNCHANGED <<screen, sender>>
      /\ UNCHANGED <<posted, got, frame, frames, up, cut>>
  BY DEF WriteFails, shown, sender
<1>2. /\ handler \in [Connections -> {"none", "read", "have", "png", "status", "done"}]
      /\ status \in Nat /\ faults \in Nat /\ frames \in Nat
  BY DEF DiagInv, ReceiverOK
<1>3. ThreadInv(c) /\ lock = c /\ cut /\ up
  BY <1>1 DEF DiagInv, PublishInv, ThreadInv
<1>4. png' \in {png, Nothing, Torn} /\ status' \in {status, 0} BY <1>1 DEF StoppedWriting
<1>5. ReceiverOK'
  <2>1. lock' \in 0..MaxPosts /\ faults' \in Nat /\ status' \in Nat
    BY <1>1, <1>2, <1>4, Bounds DEF Nobody
  <2> QED BY <1>1, <1>2, <2>1 DEF DiagInv, ReceiverOK
<1>6. CountInv'
  <2>1. Published' = Published /\ c \in Published BY <1>1, <1>2 DEF Published
  <2>2. status' <= Cardinality(Published)
    <3>1. Cardinality(Published) \in Nat BY PublishedFacts
    <3> QED BY <1>4, <3>1 DEF DiagInv, CountInv
  <2> QED BY <1>1, <2>1, <2>2 DEF DiagInv, CountInv
<1>7. PublishInv'
  <2>1. ASSUME NEW d \in Connections PROVE ThreadInv(d)'
    <3>1. ThreadInv(d) /\ d # Nobody BY Bounds DEF DiagInv, PublishInv
    <3> QED BY <1>1, <1>2, <1>3, <3>1 DEF ThreadInv
  <2>2. SavedInv' /\ DownInv' BY <1>1, <1>3 DEF SavedInv, DownInv
  <2>3. faults' > 0 BY <1>1, <1>2
  <2>4. Whole(frame)' BY <1>1, <2>3 DEF DiagInv, PublishInv, Whole
  <2>5. Whole(png)' BY <1>1, <1>3, <1>4, <2>3 DEF DiagInv, PublishInv, Whole
  <2> QED BY <2>1, <2>2, <2>4, <2>5 DEF PublishInv
<1> QED BY <1>1, <1>5, <1>6, <1>7, SenderKept

LEMMA KillStep ==
  ASSUME DiagInv, Kill
  PROVE  DiagInv'
<1>1. /\ up' = FALSE /\ faults' = faults + 1 /\ lock' = Nobody
      /\ IF lock = Nobody THEN UNCHANGED files ELSE StoppedWriting(lock)
      /\ handler' = [c \in Connections |-> IF handler[c] = "none" THEN "none" ELSE "done"]
      /\ frame' = Nothing /\ frames' = 0
      /\ UNCHANGED <<screen, sender>> /\ UNCHANGED <<posted, got, cut>>
  BY DEF Kill, sender
<1>2. /\ handler \in [Connections -> {"none", "read", "have", "png", "status", "done"}]
      /\ status \in Nat /\ faults \in Nat /\ frames \in Nat /\ lock \in 0..MaxPosts
  BY DEF DiagInv, ReceiverOK
<1>3. \/ png' = png /\ status' = status
      \/ cut /\ lock \in Published /\ png' \in {png, Nothing, Torn} /\ status' \in {status, 0}
  <2>1. CASE lock = Nobody BY <1>1, <2>1 DEF files
  <2>2. CASE lock # Nobody
    <3>1. lock \in Connections BY <1>2, <2>2, Bounds
    <3>2. ThreadInv(lock) BY <3>1 DEF DiagInv, PublishInv
    <3>3. cut /\ handler[lock] \in {"png", "status"} BY <3>2 DEF ThreadInv
    <3>4. lock \in Published BY <3>1, <3>3 DEF Published
    <3> QED BY <1>1, <2>2, <3>3, <3>4 DEF StoppedWriting
  <2> QED BY <2>1, <2>2
<1>4. /\ handler' \in [Connections -> {"none", "read", "have", "png", "status", "done"}]
      /\ \A c \in Connections : handler'[c] = IF handler[c] = "none" THEN "none" ELSE "done"
  BY <1>1, <1>2
<1>5. ReceiverOK'
  <2>1. lock' \in 0..MaxPosts /\ faults' \in Nat /\ status' \in Nat /\ frames' \in Nat
    BY <1>1, <1>2, <1>3, Bounds DEF Nobody
  <2> QED BY <1>1, <1>2, <1>4, <2>1 DEF DiagInv, ReceiverOK
<1>6. CountInv'
  <2>1. Published \subseteq Published' BY <1>4 DEF Published
  <2>2. Cardinality(Published) <= Cardinality(Published')
        /\ Cardinality(Published) \in Nat /\ Cardinality(Published') \in Nat
    BY <2>1, MorePublished DEF DiagInv
  <2>3. frames' <= Cardinality(Published') BY <1>1, <2>2
  <2>4. status' <= Cardinality(Published') BY <1>2, <1>3, <2>2 DEF DiagInv, CountInv
  <2>5. png' # Nothing => Published' # {} BY <1>3, <2>1 DEF DiagInv, CountInv
  <2> QED BY <2>3, <2>4, <2>5 DEF CountInv
<1>7. PublishInv'
  <2>1. ASSUME NEW d \in Connections PROVE ThreadInv(d)'
    <3>1. ThreadInv(d) /\ d # Nobody BY Bounds DEF DiagInv, PublishInv
    <3> QED BY <1>1, <1>4, <3>1 DEF ThreadInv
  <2>2. SavedInv' /\ DownInv'
    BY <1>1, <1>3 DEF DiagInv, PublishInv, SavedInv, DownInv
  <2>3. faults' > 0 BY <1>1, <1>2
  <2>4. Whole(frame)' BY <1>1 DEF Whole
  <2>5. Whole(png)' BY <1>1, <1>3, <2>3 DEF DiagInv, PublishInv, Whole
  <2> QED BY <2>1, <2>2, <2>4, <2>5 DEF PublishInv
<1> QED BY <1>1, <1>5, <1>6, <1>7, SenderKept

LEMMA RestartStep ==
  ASSUME DiagInv, Restart
  PROVE  DiagInv'
<1>1. /\ ~up /\ up' = TRUE /\ frame' = png
      /\ UNCHANGED <<screen, sender>>
      /\ UNCHANGED <<posted, handler, got, lock, png, status, faults, cut>>
  BY DEF Restart, files, sender
<1>2. IF png = Nothing THEN frames' = frames ELSE frames' = IF status = 0 THEN 1 ELSE status
  BY DEF Restart
<1>3. frames \in Nat /\ status \in Nat /\ frames = 0
  BY <1>1 DEF DiagInv, ReceiverOK, PublishInv, DownInv
<1>4. ReceiverOK' BY <1>1, <1>2, <1>3 DEF DiagInv, ReceiverOK
<1>5. CountInv'
  <2>1. Published' = Published BY <1>1 DEF Published
  <2>2. IsFiniteSet(Published) /\ Cardinality(Published) \in Nat BY PublishedFacts
  <2>3. png # Nothing => Cardinality(Published) # 0 BY <2>2, FS_EmptySet DEF DiagInv, CountInv
  <2>4. frames' <= Cardinality(Published) BY <1>2, <1>3, <2>2, <2>3 DEF DiagInv, CountInv
  <2> QED BY <1>1, <2>1, <2>4 DEF DiagInv, CountInv
<1>6. PublishInv'
  <2>1. ASSUME NEW d \in Connections PROVE ThreadInv(d)'
    <3>1. ThreadInv(d) /\ d # Nobody BY Bounds DEF DiagInv, PublishInv
    <3> QED BY <1>1, <3>1 DEF ThreadInv
  <2>2. SavedInv' BY <1>1, <1>2, <1>3 DEF DiagInv, PublishInv, SavedInv
  <2>3. DownInv' BY <1>1 DEF DownInv
  <2>4. Whole(frame)' /\ Whole(png)' BY <1>1 DEF DiagInv, PublishInv, Whole
  <2> QED BY <2>1, <2>2, <2>3, <2>4 DEF PublishInv
<1> QED BY <1>1, <1>4, <1>5, <1>6, SenderKept

-----------------------------------------------------------------------------
LEMMA InitDiagInv == DfInit => DiagInv
<1> SUFFICES ASSUME DfInit PROVE DiagInv
  OBVIOUS
<1>1. /\ <<>> \in Seq(1..MaxBuffers) /\ <<>> \in Seq(Buffer) /\ <<>> \in Seq(BOOLEAN)
      /\ Len(<<>>) = 0 /\ 1..0 = {}
  OBVIOUS
<1>2. ScreenOK BY <1>1 DEF DfInit, ScreenOK, FitInv, Geometries
<1>3. 0 \in 0..MaxPosts /\ 0 \in 0..Pieces BY Bounds
<1>4. SendingOK BY <1>3 DEF DfInit, SendingOK, Nobody
<1>5. ReceiverOK BY <1>3 DEF DfInit, ReceiverOK, Nobody
<1>6. PostedOK BY <1>1, Bounds DEF DfInit, PostedOK
<1>7. CountInv BY PublishedFacts DEF DfInit, CountInv
<1>8. PublishInv
  <2>1. ASSUME NEW c \in Connections PROVE ThreadInv(c)
    <3>1. c # Nobody BY Bounds
    <3> QED BY <3>1 DEF DfInit, ThreadInv
  <2> QED BY <2>1 DEF DfInit, PublishInv, SavedInv, DownInv, Whole
<1> QED BY <1>2, <1>4, <1>5, <1>6, <1>7, <1>8 DEF DiagInv

LEMMA NextDiagInv == DiagInv /\ [DfNext]_dfvars => DiagInv'
<1> SUFFICES ASSUME DiagInv, [DfNext]_dfvars PROVE DiagInv'
  OBVIOUS
<1>1. ASSUME NEW w \in Windows, NEW g \in Geometries, SetWindow(w, g) PROVE DiagInv'
  BY <1>1, SetWindowStep
<1>2. ASSUME NEW w \in Windows,
             (\E n \in 1..2 : CreateBuffers(w, n)) \/ GetBuffers(w)
               \/ \E v \in Windows \ {w} : Share(w, v)
      PROVE  DiagInv'
  BY <1>2, ScreenStep
<1>3. ASSUME NEW w \in Windows, NEW b \in DOMAIN buffer, Post(w, b) PROVE DiagInv'
  BY <1>3, PostStep
<1>4. CASE Send \/ FinishPost BY <1>4, SendStep
<1>5. ASSUME NEW c \in Connections, Receive(c) \/ Reject(c) PROVE DiagInv' BY <1>5, ReadStep
<1>6. ASSUME NEW c \in Connections, Show(c) PROVE DiagInv' BY <1>6, ShowStep
<1>7. ASSUME NEW c \in Connections, WritePng(c) PROVE DiagInv' BY <1>7, WritePngStep
<1>8. ASSUME NEW c \in Connections, WriteStatus(c) PROVE DiagInv' BY <1>8, WriteStatusStep
<1>9. ASSUME NEW c \in Connections, WriteFails(c) PROVE DiagInv' BY <1>9, WriteFailsStep
<1>10. CASE Kill BY <1>10, KillStep
<1>11. CASE Restart BY <1>11, RestartStep
<1>12. CASE UNCHANGED dfvars
  <2>1. UNCHANGED <<screen, sender, receiver, posted>> BY <1>12 DEF dfvars, receiver, sender
  <2>2. ScreenOK' /\ SendingOK' BY <2>1 DEF DiagInv, ScreenOK, FitInv, SendingOK, screen, sender
  <2> QED BY <2>1, <2>2, ReceiverKept DEF DiagInv
<1>13. CASE \/ CreateBuffer
            \/ \E b \in DOMAIN buffer :
                 \/ \E g \in Geometries : SetBuffer(b, g)
                 \/ \E memory \in {None, Own} : SetPointer(b, memory)
  BY <1>13, OwnStep
<1> QED
  BY <1>1, <1>2, <1>3, <1>4, <1>5, <1>6, <1>7, <1>8, <1>9, <1>10, <1>11, <1>12, <1>13 DEF DfNext

(* The invariant of the diagnostic frames, for any windows, posts, pieces  *)
(* and faults.                                                             *)
THEOREM DiagInvariant == DfSpec => []DiagInv
<1> QED BY InitDiagInv, NextDiagInv, PTL DEF DfSpec

(* Every variable keeps its type; no more frames are counted than were     *)
(* posted (mib_display_receiver.py:53).                                    *)
THEOREM DiagTypeCorrect == DfSpec => []DfTypeOK
<1>1. DiagInv => DfTypeOK
  <2> SUFFICES ASSUME DiagInv PROVE DfTypeOK
    OBVIOUS
  <2>1. Cardinality(Published) \in Nat /\ Cardinality(Published) <= MaxPosts BY PublishedFacts
  <2>2. frames \in 0..MaxPosts /\ status \in 0..MaxPosts
    BY <2>1, Bounds DEF DiagInv, CountInv, ReceiverOK
  <2> QED BY <2>2 DEF DfTypeOK, DiagInv, ScreenOK, SendingOK, ReceiverOK
<1> QED BY <1>1, DiagInvariant, PTL

(* What the viewer shows or has saved is a complete posted frame, read     *)
(* with the geometry of its pixels unless the program had set properties   *)
(* or memory of the buffer itself, but for a file whose writing was        *)
(* interrupted (mib_display_receiver.py:36, libscreen_stub.c:176).         *)
THEOREM FramesAreWhole == DfSpec => []ShownWasPosted
<1>1. DiagInv => ShownWasPosted
  <2> SUFFICES ASSUME DiagInv, NEW image \in {frame, png}
               PROVE  \/ image = Nothing
                      \/ image = Torn /\ cut /\ faults > 0
                      \/ \E k \in DOMAIN posted :
                           image = Frame(k) /\ posted[k]
    BY DEF ShownWasPosted
  <2>1. Whole(image) BY DEF DiagInv, PublishInv
  <2>2. DOMAIN posted = 1..Len(posted) BY DEF DiagInv, PostedOK
  <2> QED BY <2>1, <2>2 DEF Whole, DiagInv, PostedOK
<1> QED BY <1>1, DiagInvariant, PTL

(* Between publications the saved image and count are those shown          *)
(* (mib_display_receiver.py:55-58).                                        *)
THEOREM SavedAsShown == DfSpec => []SavedIsShown
<1>1. DiagInv => SavedIsShown BY DEF DiagInv, PublishInv, SavedInv, SavedIsShown
<1> QED BY <1>1, DiagInvariant, PTL
=============================================================================
