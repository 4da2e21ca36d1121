----------------------- MODULE DependencySelectionProofs -----------------------
(***************************************************************************)
(* Proofs about DependencySelection: what the two passes over the          *)
(* repositories select, for every order of the maps, any modfiles and any  *)
(* circles among them, and what the walk over the installed modules finds. *)
(***************************************************************************)
EXTENDS DependencySelection, FiniteSetTheorems, TLAPS

\* A selection and a collection are never under way at once (Service.mu).
OneWalk == sel = NoSelection \/ col = NoCollection

\* What the pass still has to look at, or has.
Covered(d) ==
    \/ d \in DOMAIN sel.deps
    \/ \E i \in DOMAIN sel.stack : d \in sel.stack[i].pending

\* The calls of the first pass search main, those of the second the origin of a
\* module that was asked for; the first pass meets only what FromMain contains.
StackInv ==
    \A i \in DOMAIN sel.stack :
        /\ sel.pass = "main" => sel.stack[i].origin = sel.main
        /\ sel.pass = "origin" =>
              \E m \in DOMAIN sel.mods : sel.stack[i].origin = sel.mods[m].origin
        /\ sel.pass = "main" =>
              \A d \in sel.stack[i].pending : OfMain(d) => d \in FromMain

\* What is taken is taken as main offers it if FromMain contains it; the rest, from
\* the origin of a module that was asked for, in the second pass.
DepsInv ==
    \A d \in DOMAIN sel.deps :
        IF d \in FromMain THEN sel.deps[d] = GetModuleFS(d, sel.main)
        ELSE /\ sel.pass = "origin"
             /\ \E m \in DOMAIN sel.mods : sel.deps[d].origin = sel.mods[m].origin

\* The first pass loses no dependency that main offers.
FirstPassInv ==
    sel.pass = "main" =>
        /\ sel.missing = NoModule
        /\ \A m \in DOMAIN sel.mods \ sel.roots : \A d \in sel.mods[m].deps :
              OfMain(d) => Covered(d)
        /\ \A m \in DOMAIN sel.deps : \A d \in sel.deps[m].deps :
              OfMain(d) => Covered(d)

\* The second pass has all of FromMain, and loses no dependency of what was asked
\* for and of what it adds.
SecondPassInv ==
    sel.pass = "origin" =>
        /\ FromMain \subseteq DOMAIN sel.deps
        /\ sel.missing \notin FromMain
        /\ \A m \in DOMAIN sel.mods \ sel.roots : \A d \in sel.mods[m].deps : Covered(d)
        /\ \A m \in DOMAIN sel.deps \ FromMain : \A d \in sel.deps[m].deps : Covered(d)

SelInv ==
    sel # NoSelection =>
        /\ sel.roots \subseteq DOMAIN sel.mods
        /\ StackInv /\ DepsInv /\ FirstPassInv /\ SecondPassInv

\* What is found is needed, and what is needed has been found or is reached from the
\* ids of the next call.
ColInv ==
    col # NoCollection =>
        /\ col.found \cup (col.next \cap Present) \subseteq Needed(col.wanted)
        /\ col.wanted \cap Present \subseteq col.found \cup col.next
        /\ DepsOf(col.found) \cap Present \subseteq col.found \cup col.next

WalkInv == TypeOK /\ OneWalk /\ SelInv /\ ColInv

-----------------------------------------------------------------------------
(* What is asked for. *)

\* A sequence of integers has a last one among its highest.
LEMMA LastOfHighest ==
    ASSUME NEW n \in Nat \ {0}, NEW p \in [1..n -> Int]
    PROVE  \E i \in 1..n : \A j \in 1..n : p[j] < p[i] \/ (p[j] = p[i] /\ j <= i)
<1> DEFINE Above(i) == {j \in 1..n : p[i] < p[j] \/ (p[j] = p[i] /\ i < j)}
           T == {Above(i) : i \in 1..n}
<1>1. T \subseteq FiniteSubsetsOf(1..n)
  <2>1. \A i \in 1..n : Above(i) \in SUBSET (1..n)
    OBVIOUS
  <2>2. IsFiniteSet(1..n)
    BY FS_Interval
  <2>3. \A i \in 1..n : IsFiniteSet(Above(i))
    BY <2>1, <2>2, FS_Subset
  <2>4. QED
    BY <2>1, <2>3 DEF FiniteSubsetsOf
<1>2. T # {}
  <2>1. 1 \in 1..n
    OBVIOUS
  <2>2. Above(1) \in T
    BY <2>1
  <2>3. QED
    BY <2>2
<1>3. PICK U \in T : \A V \in T : <<V, U>> \notin StrictSubsetOrdering(1..n)
  <2>1. IsWellFoundedOn(StrictSubsetOrdering(1..n), FiniteSubsetsOf(1..n))
    BY FS_StrictSubsetOrderingWellFounded
  <2> HIDE DEF T
  <2>2. QED
    BY <2>1, <1>1, <1>2, WFMin
<1>4. PICK i \in 1..n : U = Above(i)
  BY <1>3
<1>5. Above(i) = {}
  <2> SUFFICES ASSUME NEW j \in 1..n, j \in Above(i)
               PROVE  FALSE
    OBVIOUS
  <2>1. i \in Int /\ j \in Int /\ p[i] \in Int /\ p[j] \in Int
    OBVIOUS
  <2>2. j \notin Above(j)
    BY <2>1
  <2>3. \A k \in 1..n : k \in Above(j) => k \in Above(i)
    <3> TAKE k \in 1..n
    <3>1. k \in Int /\ p[k] \in Int
      OBVIOUS
    <3>2. QED
      BY <2>1, <3>1
  <2>4. Above(j) \in SUBSET (1..n) /\ Above(i) \in SUBSET (1..n)
    OBVIOUS
  <2>5. Above(j) \subseteq Above(i) /\ Above(j) # Above(i)
    BY <2>2, <2>3, <2>4
  <2>6. Above(j) \in T
    OBVIOUS
  <2> HIDE DEF Above, T
  <2>7. QED
    BY <2>4, <2>5, <2>6, <1>3, <1>4 DEF StrictSubsetOrdering
<1>6. \A j \in 1..n : p[j] < p[i] \/ (p[j] = p[i] /\ j <= i)
  <2> TAKE j \in 1..n
  <2>1. i \in Int /\ j \in Int /\ p[i] \in Int /\ p[j] \in Int
    OBVIOUS
  <2>2. j \notin Above(i)
    BY <1>5
  <2>3. QED
    BY <2>1, <2>2
<1>7. QED
  BY <1>6

\* selectByPriority finds a channel of the repository.
LEMMA MainChannelIsAChannel ==
    ASSUME NEW s \in Source
    PROVE  /\ MainChannel(s) \in Channel
           /\ \E i \in DOMAIN Repository[s].channels :
                 Repository[s].channels[i].name = MainChannel(s)
<1> DEFINE R == [name: Channel, priority: Int]
           c == Repository[s].channels
           p == [i \in 1..Len(c) |-> c[i].priority]
           Best(i) == \A j \in DOMAIN c :
              c[j].priority < c[i].priority \/ (c[j].priority = c[i].priority /\ j <= i)
<1>1. c \in Seq(R) /\ c # <<>>
  BY DependencySelectionAssumption
<1>2. /\ Len(c) \in Nat \ {0}
      /\ DOMAIN c = 1..Len(c)
      /\ \A i \in DOMAIN c : c[i].name \in Channel /\ c[i].priority \in Int
  <2> HIDE DEF c
  <2>1. /\ Len(c) \in Nat \ {0}
        /\ c \in [1..Len(c) -> R]
    <3> HIDE DEF R
    <3>1. QED
      BY <1>1
  <2>2. QED
    BY <2>1
<1>3. p \in [1..Len(c) -> Int]
  BY <1>2
<1>4. \E i \in 1..Len(c) : \A j \in 1..Len(c) : p[j] < p[i] \/ (p[j] = p[i] /\ j <= i)
  <2> HIDE DEF c, p
  <2>1. QED
    BY <1>2, <1>3, LastOfHighest
<1>5. \E i \in DOMAIN c : Best(i)
  BY <1>2, <1>4
<1>6. PICK i \in DOMAIN c : i = CHOOSE k \in DOMAIN c : Best(k)
  BY <1>5
<1>7. MainChannel(s) = c[i].name
  BY <1>6 DEF MainChannel
<1>8. QED
  BY <1>2, <1>7

\* The main origin is one that a refresh fills.
LEMMA MainOriginsAreOrigins == MainOrigins \subseteq Origin
<1> SUFFICES ASSUME NEW s \in Source
             PROVE  <<s, MainChannel(s)>> \in Origin
  BY DEF MainOrigins
<1>1. /\ MainChannel(s) \in Channel
      /\ \E i \in DOMAIN Repository[s].channels :
            Repository[s].channels[i].name = MainChannel(s)
  BY MainChannelIsAChannel
<1>2. QED
  BY <1>1 DEF Origin

-----------------------------------------------------------------------------
(* Types *)

LEMMA PartialType ==
    ASSUME NEW S, NEW T, NEW f
    PROVE  f \in Partial(S, T) <=> DOMAIN f \in SUBSET S /\ f \in [DOMAIN f -> T]
  BY DEF Partial

\* What the types of a selection say about its fields.
LEMMA SelectionType ==
    ASSUME TypeOK, sel # NoSelection
    PROVE  /\ sel \in Selection
           /\ sel.main \in Origin /\ sel.roots \in SUBSET Module
           /\ DOMAIN sel.mods \in SUBSET Module /\ sel.mods \in [DOMAIN sel.mods -> Variant]
           /\ DOMAIN sel.deps \in SUBSET Module /\ sel.deps \in [DOMAIN sel.deps -> Variant]
           /\ sel.stack \in Seq(Frame)
           /\ Len(sel.stack) \in Nat /\ DOMAIN sel.stack = 1..Len(sel.stack)
           /\ \A i \in 1..Len(sel.stack) : sel.stack[i] \in Frame
           /\ sel.pass \in {"main", "origin"}
<1>1. sel \in Selection
  BY DEF TypeOK
<1>2. sel.mods \in Partial(Module, Variant) /\ sel.deps \in Partial(Module, Variant)
  BY <1>1 DEF Selection
<1>3. sel.stack \in Seq(Frame)
  BY <1>1 DEF Selection
<1>4. /\ Len(sel.stack) \in Nat /\ DOMAIN sel.stack = 1..Len(sel.stack)
      /\ \A i \in 1..Len(sel.stack) : sel.stack[i] \in Frame
  BY <1>3
<1>5. /\ sel.main \in Origin /\ sel.roots \in SUBSET Module
      /\ sel.pass \in {"main", "origin"}
  BY <1>1 DEF Selection
<1>6. QED
  BY <1>1, <1>2, <1>3, <1>4, <1>5, PartialType

\* GetModuleFS is called for what is offered.
LEMMA VariantType ==
    ASSUME TypeOK, NEW m \in Module, NEW o \in Origin, Offered(m, o)
    PROVE  offer[o][m] \in Modfile /\ GetModuleFS(m, o) \in Variant
<1>1. offer \in Offer
  BY DependencySelectionAssumption DEF TypeOK
<1>2. offer[o][m] \in Modfile
  BY <1>1 DEF Offer, Offered
<1>3. QED
  BY <1>2 DEF GetModuleFS, Variant, Modfile

LEMMA InstalledType ==
    ASSUME TypeOK
    PROVE  /\ Present \subseteq Module
           /\ \A m \in Present : installed[m] \in Variant /\ installed[m].origin \in Origin
  BY DEF TypeOK, Present, Variant

\* The frame whose dependency is looked at, and the others.
LEMMA VisitedType ==
    ASSUME TypeOK, sel # NoSelection, sel.stack # <<>>, NEW d
    PROVE  /\ Len(sel.stack) \in 1..Len(sel.stack)
           /\ Last(sel.stack) = sel.stack[Len(sel.stack)]
           /\ Last(sel.stack) \in Frame
           /\ Visited(d) \in Seq(Frame)
           /\ Len(Visited(d)) = Len(sel.stack)
           /\ DOMAIN Visited(d) = DOMAIN sel.stack
           /\ \A i \in 1..Len(sel.stack) :
                 /\ Visited(d)[i].origin = sel.stack[i].origin
                 /\ Visited(d)[i].pending =
                       IF i = Len(sel.stack) THEN sel.stack[i].pending \ {d}
                       ELSE sel.stack[i].pending
<1> DEFINE s == sel.stack
           n == Len(sel.stack)
<1>1. s \in Seq(Frame) /\ n \in Nat /\ DOMAIN s = 1..n /\ \A i \in 1..n : s[i] \in Frame
  BY SelectionType
<1>2. n \in 1..n
  <2>1. n # 0
    BY <1>1
  <2>2. QED
    BY <1>1, <2>1
<1>3. /\ DOMAIN Visited(d) = 1..n
      /\ \A i \in 1..n : Visited(d)[i] =
            IF i = n THEN [s[i] EXCEPT !.pending = @ \ {d}] ELSE s[i]
  BY <1>1, <1>2 DEF Visited
<1>4. \A i \in 1..n :
          /\ Visited(d)[i] \in Frame
          /\ Visited(d)[i].origin = s[i].origin
          /\ Visited(d)[i].pending = IF i = n THEN s[i].pending \ {d} ELSE s[i].pending
  <2> TAKE i \in 1..n
  <2>1. PICK f \in Frame : f = s[i]
    BY <1>1
  <2>2. /\ [f EXCEPT !.pending = @ \ {d}] \in Frame
        /\ [f EXCEPT !.pending = @ \ {d}].origin = f.origin
        /\ [f EXCEPT !.pending = @ \ {d}].pending = f.pending \ {d}
    BY DEF Frame
  <2>3. Visited(d)[i] = IF i = n THEN [f EXCEPT !.pending = @ \ {d}] ELSE f
    BY <1>3, <2>1
  <2> HIDE DEF s, n
  <2>4. QED
    BY <2>1, <2>2, <2>3
<1>5. Visited(d) \in [1..n -> Frame]
  <2>1. Visited(d) = [i \in 1..n |-> Visited(d)[i]]
    BY <1>1, <1>3 DEF Visited
  <2>2. QED
    BY <2>1, <1>4
<1>6. Visited(d) \in Seq(Frame) /\ Len(Visited(d)) = n
  <2> HIDE DEF n
  <2>1. QED
    BY <1>1, <1>5
<1>7. QED
  BY <1>1, <1>2, <1>3, <1>4, <1>6 DEF Last

-----------------------------------------------------------------------------
(* What the steps of the walk do to the selection. *)

LEMMA NextRootStep ==
    ASSUME TypeOK, NEW m \in DOMAIN sel.mods, NextRoot(m)
    PROVE  /\ sel # NoSelection /\ sel' \in Selection
           /\ sel' = [sel EXCEPT !.roots = sel.roots \ {m}, !.stack = sel'.stack]
           /\ sel.missing = NoModule /\ sel.stack = <<>>
           /\ m \in Module /\ m \in sel.roots /\ sel.mods[m] \in Variant
           /\ sel'.stack \in Seq(Frame) /\ DOMAIN sel'.stack = {1}
           /\ sel'.stack[1] =
                 [origin |-> IF sel.pass = "main" THEN sel.main ELSE sel.mods[m].origin,
                  pending |-> sel.mods[m].deps]
<1> DEFINE f == [origin |-> IF sel.pass = "main" THEN sel.main ELSE sel.mods[m].origin,
                 pending |-> sel.mods[m].deps]
<1>1. /\ sel # NoSelection /\ sel.missing = NoModule /\ sel.stack = <<>>
      /\ m \in sel.roots
      /\ sel' = [sel EXCEPT !.roots = sel.roots \ {m}, !.stack = <<f>>]
  BY DEF NextRoot, Selecting
<1>2. /\ sel \in Selection /\ sel.main \in Origin /\ m \in Module
      /\ sel.mods[m] \in Variant /\ sel.roots \in SUBSET Module
  BY <1>1, SelectionType
<1>3. f \in Frame
  BY <1>2 DEF Frame, Variant
<1>4. <<f>> \in Seq(Frame) /\ DOMAIN <<f>> = {1} /\ <<f>>[1] = f
  BY <1>3
<1> HIDE DEF f
<1>5. sel'.stack = <<f>> /\ sel' \in Selection
  BY <1>1, <1>2, <1>4 DEF Selection
<1>6. QED
  BY <1>1, <1>2, <1>4, <1>5 DEF f

\* Known and Skip only pass over a dependency.
LEMMA VisitStep ==
    ASSUME TypeOK, NEW d, Known(d) \/ Skip(d)
    PROVE  /\ sel # NoSelection /\ sel' \in Selection
           /\ sel' = [sel EXCEPT !.stack = Visited(d)] /\ sel'.stack = Visited(d)
           /\ sel.missing = NoModule /\ sel.stack # <<>> /\ d \in Last(sel.stack).pending
<1>1. /\ sel # NoSelection /\ sel.missing = NoModule /\ sel.stack # <<>>
      /\ d \in Last(sel.stack).pending
      /\ sel' = [sel EXCEPT !.stack = Visited(d)]
  BY DEF Known, Skip, Pending, Selecting
<1>2. sel \in Selection /\ Visited(d) \in Seq(Frame)
  BY <1>1, SelectionType, VisitedType
<1>3. QED
  BY <1>1, <1>2 DEF Selection

LEMMA AddStep ==
    ASSUME TypeOK, NEW d \in Module, Add(d)
    PROVE  /\ sel # NoSelection /\ sel' \in Selection
           /\ sel' = [sel EXCEPT !.deps = sel'.deps, !.stack = sel'.stack]
           /\ sel.missing = NoModule /\ sel.stack # <<>> /\ d \in Last(sel.stack).pending
           /\ d \notin DOMAIN sel.deps
           /\ Last(sel.stack).origin \in Origin /\ Offered(d, Last(sel.stack).origin)
           /\ DOMAIN sel'.deps = DOMAIN sel.deps \cup {d}
           /\ sel'.deps[d] = GetModuleFS(d, Last(sel.stack).origin)
           /\ \A m \in DOMAIN sel.deps : sel'.deps[m] = sel.deps[m]
           /\ DOMAIN sel'.stack = 1..(Len(sel.stack) + 1)
           /\ \A i \in 1..Len(sel.stack) : sel'.stack[i] = Visited(d)[i]
           /\ sel'.stack[Len(sel.stack) + 1] =
                 [origin |-> Last(sel.stack).origin,
                  pending |-> offer[Last(sel.stack).origin][d].deps]
<1>1. PICK o : o = Last(sel.stack).origin
  OBVIOUS
<1>2. PICK n : n = Len(sel.stack)
  OBVIOUS
<1> DEFINE g == [m \in DOMAIN sel.deps \cup {d} |->
                    IF m = d THEN GetModuleFS(d, o) ELSE sel.deps[m]]
           f == [origin |-> o, pending |-> offer[o][d].deps]
           t == Append(Visited(d), f)
<1>3. /\ sel # NoSelection /\ sel.missing = NoModule /\ sel.stack # <<>>
      /\ d \in Last(sel.stack).pending /\ d \notin DOMAIN sel.deps
      /\ Offered(d, o)
      /\ sel' = [sel EXCEPT !.deps = g, !.stack = t]
  BY <1>1 DEF Add, Pending, Selecting
<1>4. /\ sel \in Selection /\ n \in Nat /\ Visited(d) \in Seq(Frame)
      /\ Len(Visited(d)) = n /\ o \in Origin
      /\ DOMAIN sel.deps \in SUBSET Module /\ sel.deps \in [DOMAIN sel.deps -> Variant]
  BY <1>1, <1>2, <1>3, SelectionType, VisitedType DEF Frame
<1>5. offer[o][d] \in Modfile /\ GetModuleFS(d, o) \in Variant
  BY <1>3, <1>4, VariantType
<1>6. f \in Frame
  BY <1>4, <1>5 DEF Frame, Modfile
<1>7. PICK v \in Seq(Frame) : v = Visited(d)
  BY <1>4
<1>8. /\ t \in Seq(Frame) /\ DOMAIN t = 1..(n + 1) /\ t[n + 1] = f
      /\ \A i \in 1..n : t[i] = v[i]
  <2> HIDE DEF f
  <2>1. v \in Seq(Frame) /\ Len(v) = n /\ n \in Nat /\ t = Append(v, f)
    BY <1>4, <1>7
  <2> HIDE DEF t
  <2>2. QED
    BY <2>1, <1>6
<1>9. g \in Partial(Module, Variant)
  <2>1. DOMAIN g \in SUBSET Module /\ g \in [DOMAIN g -> Variant]
    BY <1>4, <1>5
  <2> HIDE DEF g
  <2>2. QED
    BY <2>1, PartialType
<1>10. /\ DOMAIN g = DOMAIN sel.deps \cup {d} /\ g[d] = GetModuleFS(d, o)
       /\ \A m \in DOMAIN sel.deps : g[m] = sel.deps[m]
  BY <1>3
<1>11. sel'.deps = g /\ sel'.stack = t /\ sel' \in Selection
  <2> HIDE DEF g, t
  <2>1. QED
    BY <1>3, <1>4, <1>8, <1>9 DEF Selection
<1> HIDE DEF g, t
<1>12. QED
  BY <1>1, <1>2, <1>3, <1>4, <1>7, <1>8, <1>10, <1>11 DEF f

LEMMA NotFoundStep ==
    ASSUME TypeOK, NEW d \in Module, NotFound(d)
    PROVE  /\ sel # NoSelection /\ sel' \in Selection
           /\ sel' = [sel EXCEPT !.missing = d] /\ sel'.missing = d
           /\ sel.pass = "origin" /\ d \notin DOMAIN sel.deps
<1>1. /\ sel # NoSelection /\ sel.pass = "origin" /\ d \notin DOMAIN sel.deps
      /\ sel' = [sel EXCEPT !.missing = d]
  BY DEF NotFound, Pending, Selecting
<1>2. sel \in Selection
  BY <1>1, SelectionType
<1>3. QED
  BY <1>1, <1>2 DEF Selection

LEMMA ReturnStep ==
    ASSUME TypeOK, Return
    PROVE  /\ sel # NoSelection /\ sel' \in Selection
           /\ sel' = [sel EXCEPT !.stack = sel'.stack]
           /\ sel.missing = NoModule
           /\ Len(sel.stack) \in 1..Len(sel.stack)
           /\ sel.stack[Len(sel.stack)].pending = {}
           /\ DOMAIN sel'.stack = 1..(Len(sel.stack) - 1)
           /\ Len(sel'.stack) = Len(sel.stack) - 1
           /\ \A i \in 1..(Len(sel.stack) - 1) : sel'.stack[i] = sel.stack[i]
<1>1. PICK s : s = sel.stack
  OBVIOUS
<1>2. /\ sel # NoSelection /\ sel.missing = NoModule /\ s # <<>>
      /\ Last(s).pending = {}
      /\ sel' = [sel EXCEPT !.stack = SubSeq(s, 1, Len(s) - 1)]
  BY <1>1 DEF Return, Selecting
<1>3. sel \in Selection /\ s \in Seq(Frame) /\ Len(s) \in 1..Len(s)
  BY <1>1, <1>2, SelectionType, VisitedType
<1>4. PICK t : t = SubSeq(s, 1, Len(s) - 1)
  OBVIOUS
<1>5. /\ t \in Seq(Frame) /\ DOMAIN t = 1..(Len(s) - 1) /\ Len(t) = Len(s) - 1
      /\ \A i \in 1..(Len(s) - 1) : t[i] = s[i]
  <2>1. Len(s) \in Nat /\ Len(s) - 1 \in Nat
    BY <1>3
  <2>2. t \in Seq(Frame) /\ \A i \in 1..(Len(s) - 1) : t[i] = s[i]
    BY <1>3, <1>4
  <2>3. PICK k \in Nat : k = Len(s) - 1
    BY <2>1
  <2>4. t = SubSeq(s, 1, k) /\ Len(s) = k + 1 /\ k <= Len(s)
    BY <1>3, <1>4, <2>3
  <2>5. Len(SubSeq(s, 1, k)) = k
    BY <1>3, <2>3, <2>4
  <2>6. QED
    BY <2>2, <2>3, <2>4, <2>5
<1>6. sel'.stack = t /\ sel' \in Selection
  BY <1>2, <1>3, <1>4, <1>5 DEF Selection
<1>7. QED
  BY <1>1, <1>2, <1>3, <1>4, <1>5, <1>6 DEF Last

LEMMA SecondPassStep ==
    ASSUME TypeOK, SecondPass
    PROVE  /\ sel # NoSelection /\ sel' \in Selection
           /\ sel' = [sel EXCEPT !.pass = "origin", !.roots = DOMAIN sel.mods]
           /\ sel'.pass = "origin" /\ sel'.roots = DOMAIN sel.mods
           /\ sel.missing = NoModule /\ sel.stack = <<>> /\ sel.roots = {}
           /\ sel.pass = "main"
<1>1. /\ sel # NoSelection /\ sel.missing = NoModule /\ sel.stack = <<>> /\ sel.roots = {}
      /\ sel.pass = "main"
      /\ sel' = [sel EXCEPT !.pass = "origin", !.roots = DOMAIN sel.mods]
  BY DEF SecondPass, PassEnds, Selecting
<1>2. sel \in Selection /\ DOMAIN sel.mods \in SUBSET Module
  BY <1>1, SelectionType
<1>3. QED
  BY <1>1, <1>2 DEF Selection

-----------------------------------------------------------------------------
(* The requests are typed. *)

\* What selectRepoModules takes for the items of a request.
LEMMA SelectedType ==
    ASSUME TypeOK, NEW items \in Asked,
           \A i \in Wanted(items) : Offered(i.id, OriginOf(i))
    PROVE  Selected(items) \in Partial(Module, Variant)
<1> DEFINE chosen == {i \in Wanted(items) : Newer(i)}
<1>1. items \subseteq Item
  BY DependencySelectionAssumption
<1>2. \A i \in chosen : i.id \in Module /\ OriginOf(i) \in Origin
  <2> SUFFICES ASSUME NEW i \in chosen
               PROVE  i.id \in Module /\ OriginOf(i) \in Origin
    OBVIOUS
  <2>1. i \in items /\ i \in Wanted(items)
    BY DEF Wanted
  <2>2. CASE i \in [kind: {"add"}, id: Module, origin: Origin]
    BY <2>2 DEF OriginOf
  <2>3. CASE i \in [kind: {"update", "remove"}, id: Module]
    <3>1. i.kind = "update" /\ i.id \in Present /\ i.id \in Module
      BY <2>1, <2>3 DEF Wanted
    <3>2. QED
      BY <3>1, InstalledType DEF OriginOf
  <2>4. QED
    BY <1>1, <2>1, <2>2, <2>3 DEF Item
<1>3. \A m \in {i.id : i \in chosen} :
          GetModuleFS(m, OriginOf(CHOOSE i \in chosen : i.id = m)) \in Variant
  <2> SUFFICES ASSUME NEW m \in {i.id : i \in chosen}
               PROVE  GetModuleFS(m, OriginOf(CHOOSE i \in chosen : i.id = m)) \in Variant
    OBVIOUS
  <2>1. PICK k : k = CHOOSE i \in chosen : i.id = m
    OBVIOUS
  <2>2. k \in chosen /\ k.id = m
    BY <2>1
  <2>3. m \in Module /\ OriginOf(k) \in Origin /\ Offered(m, OriginOf(k))
    BY <1>2, <2>2
  <2>4. GetModuleFS(m, OriginOf(k)) \in Variant
    BY <2>3, VariantType
  <2>5. QED
    BY <2>1, <2>4
<1>4. /\ DOMAIN Selected(items) \in SUBSET Module
      /\ Selected(items) \in [DOMAIN Selected(items) -> Variant]
  BY <1>2, <1>3 DEF Selected
<1>5. QED
  BY <1>4, PartialType

LEMMA UpdatableType ==
    ASSUME TypeOK
    PROVE  [m \in Updatable |-> GetModuleFS(m, installed[m].origin)]
              \in Partial(Module, Variant)
<1>1. \A m \in Updatable : m \in Module /\ GetModuleFS(m, installed[m].origin) \in Variant
  BY InstalledType, VariantType DEF Updatable
<1>2. QED
  BY <1>1, PartialType

LEMMA BeginStep ==
    ASSUME TypeOK, NEW mods \in Partial(Module, Variant), NEW remove \in SUBSET Module,
           Begin(mods, remove)
    PROVE  /\ sel' \in Selection /\ sel'.mods = mods /\ sel'.remove = remove
           /\ sel'.pass = "main" /\ sel'.roots = DOMAIN mods /\ DOMAIN sel'.deps = {}
           /\ sel'.stack = <<>> /\ sel'.missing = NoModule
<1>1. PICK main \in MainOrigins :
          sel' = [mods |-> mods, remove |-> remove, main |-> main, pass |-> "main",
                  roots |-> DOMAIN mods, deps |-> [m \in {} |-> NotInstalled],
                  stack |-> <<>>, missing |-> NoModule]
  BY DEF Begin
<1>2. main \in Origin
  BY MainOriginsAreOrigins
<1>3. DOMAIN mods \in SUBSET Module
  BY PartialType
<1>4. [m \in {} |-> NotInstalled] \in Partial(Module, Variant)
  BY PartialType
<1>5. <<>> \in Seq(Frame)
  OBVIOUS
<1>6. QED
  BY <1>1, <1>2, <1>3, <1>4, <1>5 DEF Selection

\* What the request is about once both passes are over.
LEMMA MergedType ==
    ASSUME TypeOK, sel # NoSelection
    PROVE  /\ DOMAIN Merged = DOMAIN sel.mods \cup DOMAIN sel.deps
           /\ \A m \in DOMAIN Merged : m \in Module /\ Merged[m] \in Variant
           /\ \A m \in DOMAIN Merged :
                 Merged[m] = IF m \in DOMAIN sel.mods THEN sel.mods[m] ELSE sel.deps[m]
<1>1. /\ DOMAIN sel.mods \in SUBSET Module /\ sel.mods \in [DOMAIN sel.mods -> Variant]
      /\ DOMAIN sel.deps \in SUBSET Module /\ sel.deps \in [DOMAIN sel.deps -> Variant]
  BY SelectionType
<1>2. QED
  BY <1>1 DEF Merged

LEMMA EndSelectionType ==
    ASSUME TypeOK, NEW done \in SUBSET Module, EndSelection(done)
    PROVE  installed' \in [Module -> Variant \cup {NotInstalled}]
<1>1. sel # NoSelection
  BY DEF EndSelection, Complete, PassEnds, Selecting
<1>2. /\ DOMAIN NewRequest.install \subseteq DOMAIN Merged
      /\ DOMAIN NewRequest.change \subseteq DOMAIN Merged
  BY DEF NewRequest
<1>3. \A m \in done \ NewRequest.remove : Merged[m] \in Variant
  BY <1>1, <1>2, MergedType DEF EndSelection
<1>4. QED
  BY <1>3 DEF EndSelection, TypeOK

-----------------------------------------------------------------------------
(* Every step preserves the types. *)

LEMMA NextTypeOK ==
    ASSUME TypeOK, sel # NoSelection => sel.roots \subseteq DOMAIN sel.mods, [Next]_vars
    PROVE  TypeOK'
<1>1. ASSUME NEW items \in Asked, CreateModulesChangeRequest(items)
      PROVE  TypeOK'
  <2>1. Selected(items) \in Partial(Module, Variant)
    BY <1>1, SelectedType DEF CreateModulesChangeRequest
  <2>2. {i.id : i \in {j \in items : j.kind = "remove"}} \in SUBSET Module
    BY DependencySelectionAssumption DEF Item
  <2>3. PICK mods, remove : /\ mods = Selected(items)
                            /\ remove = {i.id : i \in {j \in items : j.kind = "remove"}}
    OBVIOUS
  <2>4. Begin(mods, remove)
    BY <1>1, <2>3 DEF CreateModulesChangeRequest
  <2>5. sel' \in Selection
    BY <2>1, <2>2, <2>3, <2>4, BeginStep
  <2>6. QED
    BY <2>4, <2>5 DEF Begin, TypeOK
<1>2. CASE CreateModulesUpdateAllChangeRequest
  <2>1. PICK mods : mods = [m \in Updatable |-> GetModuleFS(m, installed[m].origin)]
    OBVIOUS
  <2>2. Begin(mods, {})
    BY <1>2, <2>1 DEF CreateModulesUpdateAllChangeRequest
  <2>3. sel' \in Selection
    BY <2>1, <2>2, UpdatableType, BeginStep
  <2>4. QED
    BY <2>2, <2>3 DEF Begin, TypeOK
<1>3. ASSUME NEW m \in Module, NextRoot(m) \/ Known(m) \/ Add(m) \/ Skip(m) \/ NotFound(m)
      PROVE  TypeOK'
  <2>1. NextRoot(m) => m \in DOMAIN sel.mods
    BY DEF NextRoot, Selecting
  <2>2. sel' \in Selection
    BY <1>3, <2>1, NextRootStep, VisitStep, AddStep, NotFoundStep
  <2>3. UNCHANGED <<offer, installed, deployed, enabled, col>>
    BY <1>3 DEF NextRoot, Known, Add, Skip, NotFound, Keep
  <2>4. QED
    BY <2>2, <2>3 DEF TypeOK
<1>4. CASE Return \/ SecondPass
  <2>1. sel' \in Selection
    BY <1>4, ReturnStep, SecondPassStep
  <2>2. UNCHANGED <<offer, installed, deployed, enabled, col>>
    BY <1>4 DEF Return, SecondPass, Keep
  <2>3. QED
    BY <2>1, <2>2 DEF TypeOK
<1>5. CASE Refuse
  BY <1>5 DEF Refuse, Keep, TypeOK
<1>6. ASSUME NEW done \in SUBSET Module, EndSelection(done)
      PROVE  TypeOK'
  <2>1. installed' \in [Module -> Variant \cup {NotInstalled}]
    BY <1>6, EndSelectionType
  <2>2. sel' = NoSelection /\ UNCHANGED <<offer, deployed, enabled, col>>
    BY <1>6 DEF EndSelection
  <2>3. QED
    BY <2>1, <2>2 DEF TypeOK
<1>7. CASE RefreshRepositories
  BY <1>7 DEF RefreshRepositories, TypeOK
<1>8. ASSUME NEW S \in Named, CreateDeployments(S) \/ EnableDeployments(S)
      PROVE  TypeOK'
  <2>1. S \in SUBSET Module
    BY DependencySelectionAssumption
  <2>4. PICK purpose \in {"deploy", "enable"} : BeginCollection(purpose, S)
    BY <1>8 DEF CreateDeployments, EnableDeployments
  <2>5. [purpose |-> purpose, wanted |-> S, next |-> S, found |-> {}, failed |-> FALSE]
            \in Collection
    BY <2>1 DEF Collection
  <2>2. col' \in Collection /\ UNCHANGED <<offer, installed, sel, deployed, enabled>>
    BY <2>4, <2>5 DEF BeginCollection
  <2>3. QED
    BY <2>2 DEF TypeOK
<1>9. CASE EnableAllDeployments
  <2>1. col' \in Collection /\ UNCHANGED <<offer, installed, sel, deployed, enabled>>
    BY <1>9, InstalledType DEF EnableAllDeployments, Collection
  <2>2. QED
    BY <2>1 DEF TypeOK
<1>10. CASE Collect
  <2>1. PICK next : /\ next \subseteq DepsOf(col.next \cap Present)
                    /\ col' = [col EXCEPT !.found = @ \cup (col.next \cap Present),
                                          !.next = next]
    BY <1>10 DEF Collect
  <2>2. DepsOf(col.next \cap Present) \in SUBSET Module
    BY InstalledType DEF DepsOf, Variant
  <2>3. col' \in Collection
    BY <1>10, <2>1, <2>2, InstalledType DEF Collect, Collecting, Collection, TypeOK
  <2>4. QED
    BY <1>10, <2>3 DEF Collect, TypeOK
<1>15. CASE CollectionFails \/ RefuseCollection
  <2>1. col' \in Collection \cup {NoCollection}
    BY <1>15 DEF CollectionFails, RefuseCollection, Collecting, TypeOK, Collection
  <2>2. UNCHANGED <<offer, installed, sel, deployed, enabled>>
    BY <1>15 DEF CollectionFails, RefuseCollection
  <2>3. QED
    BY <2>1, <2>2 DEF TypeOK
<1>11. CASE Deploy \/ Enable
  <2>1. col.found \in SUBSET Module /\ col.wanted \in SUBSET Module
    BY <1>11 DEF Deploy, Enable, Collected, Collecting, TypeOK, Collection
  <2>2. col' = NoCollection /\ UNCHANGED <<offer, installed, sel>>
    BY <1>11 DEF Deploy, Enable
  <2>3. enabled' \in SUBSET deployed' /\ deployed' \in SUBSET Module
    <3>1. CASE Deploy
      BY <2>1, <3>1 DEF Deploy, TypeOK
    <3>2. CASE Enable
      BY <3>2 DEF Enable, Filtered, TypeOK
    <3>3. QED
      BY <1>11, <3>1, <3>2
  <2>4. QED
    BY <2>2, <2>3 DEF TypeOK
<1>12. ASSUME NEW S \in Named, DisableDeployments(S) \/ DeleteDeployments(S)
       PROVE  TypeOK'
  BY <1>12 DEF DisableDeployments, DeleteDeployments, TypeOK
<1>13. CASE UNCHANGED vars
  BY <1>13 DEF vars, TypeOK
<1>14. QED
  BY <1>1, <1>2, <1>3, <1>4, <1>5, <1>6, <1>7, <1>8, <1>9, <1>10, <1>11, <1>12, <1>13, <1>15
  DEF Next, SelectionStep, CollectionStep

-----------------------------------------------------------------------------
(* The least closed set of what main offers. *)

\* What main offers of the dependencies of what was asked for, and of what FromMain
\* contains already, FromMain contains.
LEMMA FromMainIsClosed ==
    ASSUME NEW d \in Module, OfMain(d),
           \/ \E m \in DOMAIN sel.mods : d \in sel.mods[m].deps
           \/ \E m \in FromMain : d \in offer[sel.main][m].deps
    PROVE  d \in FromMain
<1> SUFFICES ASSUME NEW S \in SUBSET {m \in Module : OfMain(m)}, MainClosed(S)
             PROVE  d \in S
  BY DEF FromMain
<1>1. FromMain \subseteq S
  BY DEF FromMain
<1>2. QED
  BY <1>1 DEF MainClosed, OfMain

LEMMA FromMainIsLeast ==
    ASSUME NEW S \in SUBSET Module, \A m \in S : OfMain(m), MainClosed(S)
    PROVE  FromMain \subseteq S
  BY DEF FromMain

LEMMA FromMainIsOffered == FromMain \subseteq Module /\ \A d \in FromMain : OfMain(d)
  BY DEF FromMain

\* While a request is worked on, FromMain is the same set.
LEMMA FromMainIsKept ==
    ASSUME offer' = offer, sel'.main = sel.main, sel'.mods = sel.mods
    PROVE  FromMain' = FromMain /\ \A m : OfMain(m)' = OfMain(m)
<1>1. \A m, o : Offered(m, o)' = Offered(m, o)
  BY DEF Offered
<1>2. \A m : OfMain(m)' = OfMain(m)
  BY <1>1 DEF OfMain
<1>3. \A S : MainClosed(S)' = MainClosed(S)
  BY <1>1 DEF MainClosed
<1>4. QED
  BY <1>2, <1>3 DEF FromMain

-----------------------------------------------------------------------------
(* Every step of the walk preserves SelInv. *)

\* A request begins with nothing looked at.
LEMMA BeginSelInv ==
    ASSUME TypeOK, NEW mods \in Partial(Module, Variant), NEW remove \in SUBSET Module,
           Begin(mods, remove)
    PROVE  SelInv'
<1>1. /\ sel'.mods = mods /\ sel'.pass = "main" /\ sel'.roots = DOMAIN mods
      /\ DOMAIN sel'.deps = {} /\ sel'.stack = <<>> /\ sel'.missing = NoModule
  BY BeginStep
<1>2. QED
  BY <1>1 DEF SelInv, StackInv, DepsInv, FirstPassInv, SecondPassInv

LEMMA NextRootSelInv ==
    ASSUME TypeOK, SelInv, NEW m \in DOMAIN sel.mods, NextRoot(m)
    PROVE  SelInv'
<1>1. /\ sel # NoSelection
      /\ sel' = [sel EXCEPT !.roots = sel.roots \ {m}, !.stack = sel'.stack]
      /\ sel \in Selection /\ sel.stack = <<>>
      /\ m \in Module /\ m \in sel.roots /\ sel.mods[m] \in Variant
      /\ DOMAIN sel'.stack = {1}
      /\ sel'.stack[1] =
            [origin |-> IF sel.pass = "main" THEN sel.main ELSE sel.mods[m].origin,
             pending |-> sel.mods[m].deps]
  BY NextRootStep, SelectionType
<1>2. /\ sel'.mods = sel.mods /\ sel'.main = sel.main /\ sel'.pass = sel.pass
      /\ sel'.deps = sel.deps /\ sel'.missing = sel.missing
      /\ sel'.roots = sel.roots \ {m}
  BY <1>1 DEF Selection
<1>3. FromMain' = FromMain /\ \A k : OfMain(k)' = OfMain(k)
  BY <1>2, FromMainIsKept DEF NextRoot, Keep
<1>4. /\ sel'.stack[1].pending = sel.mods[m].deps
      /\ sel'.stack[1].origin = IF sel.pass = "main" THEN sel.main ELSE sel.mods[m].origin
      /\ sel.mods[m].deps \in SUBSET Module
  BY <1>1 DEF Variant
<1>5. \A d \in sel.mods[m].deps : Covered(d)'
  BY <1>1, <1>4 DEF Covered
<1>6. \A d : Covered(d) => Covered(d)'
  BY <1>1, <1>2 DEF Covered
<1>7. StackInv'
  <2>1. \A d \in sel.mods[m].deps : OfMain(d) => d \in FromMain
    BY <1>4, FromMainIsClosed
  <2>2. QED
    BY <1>1, <1>2, <1>3, <1>4, <2>1 DEF StackInv
<1>8. DepsInv'
  BY <1>1, <1>2, <1>3 DEF SelInv, DepsInv, GetModuleFS, NextRoot, Keep
<1>9. FirstPassInv'
  BY <1>1, <1>2, <1>3, <1>5, <1>6 DEF SelInv, FirstPassInv
<1>10. SecondPassInv'
  BY <1>1, <1>2, <1>3, <1>5, <1>6 DEF SelInv, SecondPassInv
<1>11. QED
  BY <1>1, <1>2, <1>7, <1>8, <1>9, <1>10 DEF SelInv

LEMMA VisitSelInv ==
    ASSUME TypeOK, SelInv, NEW d \in Module, Known(d) \/ Skip(d)
    PROVE  SelInv'
<1>1. /\ sel # NoSelection /\ sel \in Selection
      /\ sel' = [sel EXCEPT !.stack = Visited(d)] /\ sel'.stack = Visited(d)
      /\ sel.stack # <<>> /\ d \in Last(sel.stack).pending
  BY VisitStep, SelectionType
<1>2. /\ sel'.mods = sel.mods /\ sel'.main = sel.main /\ sel'.pass = sel.pass
      /\ sel'.deps = sel.deps /\ sel'.missing = sel.missing /\ sel'.roots = sel.roots
      /\ offer' = offer
  BY <1>1 DEF Selection, Known, Skip, Keep
<1>3. FromMain' = FromMain /\ \A k : OfMain(k)' = OfMain(k)
  BY <1>2, FromMainIsKept
<1>4. PICK n : n = Len(sel.stack)
  OBVIOUS
<1>5. /\ DOMAIN sel.stack = 1..n /\ n \in 1..n
      /\ DOMAIN sel'.stack = 1..n /\ Last(sel.stack) = sel.stack[n]
      /\ \A i \in 1..n :
            /\ sel'.stack[i].origin = sel.stack[i].origin
            /\ sel'.stack[i].pending = IF i = n THEN sel.stack[i].pending \ {d}
                                       ELSE sel.stack[i].pending
  <2>1. PICK v : v = Visited(d)
    OBVIOUS
  <2>2. /\ DOMAIN sel.stack = 1..n /\ n \in 1..n
        /\ DOMAIN v = 1..n /\ Last(sel.stack) = sel.stack[n]
    BY <1>1, <1>4, <2>1, VisitedType, SelectionType
  <2>3. \A i \in 1..n :
            /\ v[i].origin = sel.stack[i].origin
            /\ v[i].pending = IF i = n THEN sel.stack[i].pending \ {d}
                              ELSE sel.stack[i].pending
    BY <1>1, <1>4, <2>1, VisitedType
  <2>4. QED
    BY <1>1, <2>1, <2>2, <2>3
<1>6. \A e : e # d => (Covered(e) => Covered(e)')
  BY <1>2, <1>5 DEF Covered
<1>7. StackInv'
  <2>1. \A i \in 1..n : /\ sel'.stack[i].origin = sel.stack[i].origin
                       /\ sel'.stack[i].pending \subseteq sel.stack[i].pending
    BY <1>5
  <2>2. StackInv /\ DOMAIN sel.stack = 1..n /\ DOMAIN sel'.stack = 1..n
    BY <1>1, <1>5 DEF SelInv
  <2>3. QED
    BY <1>2, <1>3, <2>1, <2>2 DEF StackInv
<1>8. DepsInv'
  BY <1>1, <1>2, <1>3 DEF SelInv, DepsInv, GetModuleFS
<1>9. CASE Known(d)
  <2>1. Covered(d)'
    BY <1>2, <1>9 DEF Known, Covered
  <2>2. \A e : Covered(e) => Covered(e)'
    BY <1>6, <2>1
  <2>3. FirstPassInv' /\ SecondPassInv'
    BY <1>1, <1>2, <1>3, <2>2 DEF SelInv, FirstPassInv, SecondPassInv
  <2>4. QED
    BY <1>1, <1>2, <1>7, <1>8, <2>3 DEF SelInv
<1>10. CASE Skip(d)
  <2>1. sel.pass = "main" /\ sel.pass # "origin"
    BY <1>10 DEF Skip
  <2>2. ~ OfMain(d)
    <3>1. sel.stack[n].origin = sel.main
      BY <1>1, <1>5, <2>1 DEF SelInv, StackInv
    <3>2. QED
      BY <1>5, <1>10, <3>1 DEF Skip, OfMain
  <2>3. \A e : OfMain(e) => (Covered(e) => Covered(e)')
    BY <1>6, <2>2
  <2>4. FirstPassInv'
    BY <1>1, <1>2, <1>3, <2>3 DEF SelInv, FirstPassInv
  <2>5. SecondPassInv'
    BY <1>2, <2>1 DEF SecondPassInv
  <2>6. QED
    BY <1>1, <1>2, <1>7, <1>8, <2>4, <2>5 DEF SelInv
<1>11. QED
  BY <1>9, <1>10

LEMMA AddSelInv ==
    ASSUME TypeOK, SelInv, NEW d \in Module, Add(d)
    PROVE  SelInv'
<1>1. PICK o : o = Last(sel.stack).origin
  OBVIOUS
<1>2. PICK n : n = Len(sel.stack)
  OBVIOUS
<1>3. PICK v : v = Visited(d)
  OBVIOUS
<1>4. /\ sel # NoSelection /\ sel \in Selection
      /\ sel' = [sel EXCEPT !.deps = sel'.deps, !.stack = sel'.stack]
      /\ sel.stack # <<>> /\ d \in Last(sel.stack).pending /\ d \notin DOMAIN sel.deps
      /\ o \in Origin /\ Offered(d, o)
  BY <1>1, AddStep, SelectionType
<1>5. /\ DOMAIN sel'.deps = DOMAIN sel.deps \cup {d}
      /\ sel'.deps[d] = GetModuleFS(d, o)
      /\ \A m \in DOMAIN sel.deps : sel'.deps[m] = sel.deps[m]
  BY <1>1, AddStep
<1>6. /\ DOMAIN sel'.stack = 1..(n + 1)
      /\ \A i \in 1..n : sel'.stack[i] = v[i]
      /\ sel'.stack[n + 1] = [origin |-> o, pending |-> offer[o][d].deps]
  BY <1>1, <1>2, <1>3, AddStep
<1>7. /\ sel'.mods = sel.mods /\ sel'.main = sel.main /\ sel'.pass = sel.pass
      /\ sel'.missing = sel.missing /\ sel'.roots = sel.roots /\ offer' = offer
  BY <1>4 DEF Selection, Add, Keep
<1>8. FromMain' = FromMain /\ \A k : OfMain(k)' = OfMain(k)
  BY <1>7, FromMainIsKept
<1>9. /\ DOMAIN sel.stack = 1..n /\ n \in 1..n /\ n \in Nat
      /\ Last(sel.stack) = sel.stack[n]
      /\ \A i \in 1..n : /\ v[i].origin = sel.stack[i].origin
                         /\ v[i].pending = IF i = n THEN sel.stack[i].pending \ {d}
                                           ELSE sel.stack[i].pending
  <2>1. /\ DOMAIN sel.stack = 1..n /\ n \in 1..n /\ n \in Nat
        /\ Last(sel.stack) = sel.stack[n]
    BY <1>2, <1>4, VisitedType, SelectionType
  <2>2. \A i \in 1..n : /\ v[i].origin = sel.stack[i].origin
                        /\ v[i].pending = IF i = n THEN sel.stack[i].pending \ {d}
                                          ELSE sel.stack[i].pending
    <3>1. sel # NoSelection /\ sel.stack # <<>>
      BY <1>4
    <3>2. QED
      BY <1>2, <1>3, <3>1, VisitedType
  <2>3. QED
    BY <2>1, <2>2
<1>10. sel'.deps[d].origin = o /\ sel'.deps[d].deps = offer[o][d].deps
  BY <1>5 DEF GetModuleFS
<1>11. offer[o][d].deps \in SUBSET Module
  BY <1>4, VariantType DEF Modfile
<1>12. \A e : Covered(e) => Covered(e)'
  <2> SUFFICES ASSUME NEW e, Covered(e)
               PROVE  Covered(e)'
    OBVIOUS
  <2>1. CASE e \in DOMAIN sel.deps \/ e = d
    BY <1>5, <2>1 DEF Covered
  <2>2. CASE e # d /\ \E i \in 1..n : e \in sel.stack[i].pending
    <3>1. PICK i \in 1..n : e \in sel.stack[i].pending
      BY <2>2
    <3>2. e \in sel'.stack[i].pending
      BY <1>6, <1>9, <2>2, <3>1
    <3>3. i \in DOMAIN sel'.stack
      BY <1>6, <1>9
    <3>4. QED
      BY <3>2, <3>3 DEF Covered
  <2>3. QED
    BY <1>9, <2>1, <2>2 DEF Covered
<1>13. \A e \in sel'.deps[d].deps : Covered(e)'
  <2>1. n + 1 \in DOMAIN sel'.stack
    BY <1>6, <1>9
  <2>2. sel'.stack[n + 1].pending = sel'.deps[d].deps
    BY <1>6, <1>10
  <2>3. QED
    BY <2>1, <2>2 DEF Covered
<1>14. \A i \in 1..(n + 1) :
          /\ sel'.stack[i].origin = IF i = n + 1 THEN o ELSE sel.stack[i].origin
          /\ sel'.stack[i].pending \subseteq IF i = n + 1 THEN offer[o][d].deps
                                             ELSE sel.stack[i].pending
  <2> TAKE i \in 1..(n + 1)
  <2>1. CASE i = n + 1
    BY <1>6, <2>1
  <2>2. CASE i # n + 1
    <3>1. i \in 1..n
      BY <1>9, <2>2
    <3>2. QED
      BY <1>6, <1>9, <2>2, <3>1
  <2>3. QED
    BY <2>1, <2>2
<1>15. CASE sel.pass = "main"
  <2>1. o = sel.main /\ OfMain(d) /\ d \in FromMain
    BY <1>1, <1>4, <1>9, <1>15 DEF SelInv, StackInv, OfMain
  <2>2. \A e \in offer[o][d].deps : OfMain(e) => e \in FromMain
    BY <1>11, <2>1, FromMainIsClosed
  <2>3. StackInv'
    <3> SUFFICES ASSUME NEW i \in 1..(n + 1)
                 PROVE  /\ sel'.stack[i].origin = sel.main
                        /\ \A e \in sel'.stack[i].pending : OfMain(e) => e \in FromMain
      BY <1>6, <1>7, <1>8, <1>15 DEF StackInv
    <3>1. CASE i = n + 1
      BY <1>14, <2>1, <2>2, <3>1
    <3>2. CASE i # n + 1
      <4>1. i \in DOMAIN sel.stack
        BY <1>9, <3>2
      <4>2. /\ sel.stack[i].origin = sel.main
            /\ \A e \in sel.stack[i].pending : OfMain(e) => e \in FromMain
        BY <1>4, <1>15, <4>1 DEF SelInv, StackInv
      <4>3. /\ sel'.stack[i].origin = sel.stack[i].origin
            /\ sel'.stack[i].pending \subseteq sel.stack[i].pending
        BY <1>14, <3>2
      <4>4. QED
        BY <4>2, <4>3
    <3>3. QED
      BY <3>1, <3>2
  <2>4. DepsInv'
    <3>1. DepsInv
      BY <1>4 DEF SelInv
    <3>2. \A m : GetModuleFS(m, sel.main)' = GetModuleFS(m, sel.main)
      BY <1>7 DEF GetModuleFS
    <3>3. QED
      BY <1>5, <1>7, <1>8, <1>15, <2>1, <3>1, <3>2 DEF DepsInv
  <2>5. FirstPassInv'
    BY <1>4, <1>5, <1>7, <1>8, <1>12, <1>13 DEF SelInv, FirstPassInv
  <2>6. SecondPassInv'
    BY <1>7, <1>15 DEF SecondPassInv
  <2>7. QED
    BY <1>4, <1>7, <2>3, <2>4, <2>5, <2>6 DEF SelInv
<1>16. CASE sel.pass = "origin"
  <2>1. d \notin FromMain
    BY <1>4, <1>16 DEF SelInv, SecondPassInv
  <2>2. \E m \in DOMAIN sel.mods : o = sel.mods[m].origin
    BY <1>1, <1>4, <1>9, <1>16 DEF SelInv, StackInv
  <2>3. StackInv'
    <3> SUFFICES ASSUME NEW i \in 1..(n + 1)
                 PROVE  \E m \in DOMAIN sel.mods : sel'.stack[i].origin = sel.mods[m].origin
      BY <1>6, <1>7, <1>16 DEF StackInv
    <3>1. CASE i = n + 1
      BY <1>14, <2>2, <3>1
    <3>2. CASE i # n + 1
      <4>1. i \in DOMAIN sel.stack
        BY <1>9, <3>2
      <4>2. \E m \in DOMAIN sel.mods : sel.stack[i].origin = sel.mods[m].origin
        BY <1>4, <1>16, <4>1 DEF SelInv, StackInv
      <4>3. QED
        BY <1>14, <3>2, <4>2
    <3>3. QED
      BY <3>1, <3>2
  <2>4. DepsInv'
    <3>1. DepsInv
      BY <1>4 DEF SelInv
    <3>2. \A m : GetModuleFS(m, sel.main)' = GetModuleFS(m, sel.main)
      BY <1>7 DEF GetModuleFS
    <3>3. QED
      BY <1>5, <1>7, <1>8, <1>10, <1>16, <2>1, <2>2, <3>1, <3>2 DEF DepsInv
  <2>5. FirstPassInv'
    BY <1>7, <1>16 DEF FirstPassInv
  <2>6. SecondPassInv'
    BY <1>4, <1>5, <1>7, <1>8, <1>12, <1>13, <2>1 DEF SelInv, SecondPassInv
  <2>7. QED
    BY <1>4, <1>7, <2>3, <2>4, <2>5, <2>6 DEF SelInv
<1>17. QED
  BY <1>4, <1>15, <1>16 DEF Selection

\* A dependency that is not found is not one of FromMain: those are all there.
LEMMA NotFoundSelInv ==
    ASSUME TypeOK, SelInv, NEW d \in Module, NotFound(d)
    PROVE  SelInv'
<1>1. /\ sel # NoSelection /\ sel \in Selection
      /\ sel' = [sel EXCEPT !.missing = d] /\ sel'.missing = d
      /\ sel.pass = "origin" /\ d \notin DOMAIN sel.deps
  BY NotFoundStep, SelectionType
<1>2. /\ sel'.mods = sel.mods /\ sel'.main = sel.main /\ sel'.pass = "origin"
      /\ sel'.deps = sel.deps /\ sel'.stack = sel.stack /\ sel'.roots = sel.roots
      /\ offer' = offer
  BY <1>1 DEF Selection, NotFound, Keep
<1>3. FromMain' = FromMain /\ \A k : OfMain(k)' = OfMain(k)
  BY <1>2, FromMainIsKept
<1>4. \A e : Covered(e)' = Covered(e)
  BY <1>2 DEF Covered
<1>5. StackInv' /\ FirstPassInv'
  BY <1>1, <1>2 DEF SelInv, StackInv, FirstPassInv
<1>6. DepsInv'
  BY <1>1, <1>2, <1>3 DEF SelInv, DepsInv, GetModuleFS
<1>7. SecondPassInv'
  BY <1>1, <1>2, <1>3, <1>4 DEF SelInv, SecondPassInv
<1>8. QED
  BY <1>1, <1>2, <1>5, <1>6, <1>7 DEF SelInv

LEMMA ReturnSelInv ==
    ASSUME TypeOK, SelInv, Return
    PROVE  SelInv'
<1>1. PICK n : n = Len(sel.stack)
  OBVIOUS
<1>2. /\ sel # NoSelection /\ sel \in Selection
      /\ sel' = [sel EXCEPT !.stack = sel'.stack]
      /\ n \in 1..n /\ n \in Nat /\ DOMAIN sel.stack = 1..n
      /\ sel.stack[n].pending = {}
      /\ DOMAIN sel'.stack = 1..(n - 1)
      /\ \A i \in 1..(n - 1) : sel'.stack[i] = sel.stack[i]
  BY <1>1, ReturnStep, SelectionType
<1>3. /\ sel'.mods = sel.mods /\ sel'.main = sel.main /\ sel'.pass = sel.pass
      /\ sel'.deps = sel.deps /\ sel'.missing = sel.missing /\ sel'.roots = sel.roots
      /\ offer' = offer
  BY <1>2 DEF Selection, Return, Keep
<1>4. FromMain' = FromMain /\ \A k : OfMain(k)' = OfMain(k)
  BY <1>3, FromMainIsKept
<1>5. \A i \in 1..(n - 1) : i \in DOMAIN sel.stack
  BY <1>2
<1>6. \A e : Covered(e) => Covered(e)'
  <2> SUFFICES ASSUME NEW e, NEW i \in 1..n, e \in sel.stack[i].pending
               PROVE  Covered(e)'
    BY <1>2, <1>3 DEF Covered
  <2>1. i \in 1..(n - 1)
    BY <1>2
  <2>2. QED
    BY <1>2, <2>1 DEF Covered
<1>7. StackInv'
  BY <1>2, <1>3, <1>4, <1>5 DEF SelInv, StackInv
<1>8. DepsInv'
  BY <1>2, <1>3, <1>4 DEF SelInv, DepsInv, GetModuleFS
<1>9. FirstPassInv' /\ SecondPassInv'
  BY <1>2, <1>3, <1>4, <1>6 DEF SelInv, FirstPassInv, SecondPassInv
<1>10. QED
  BY <1>2, <1>3, <1>7, <1>8, <1>9 DEF SelInv

\* The first pass ends with exactly FromMain.
LEMMA FirstPassEnds ==
    ASSUME TypeOK, SelInv, SecondPass
    PROVE  DOMAIN sel.deps = FromMain
<1>1. /\ sel # NoSelection /\ sel.stack = <<>> /\ sel.roots = {} /\ sel.pass = "main"
      /\ DOMAIN sel.deps \in SUBSET Module
  BY SecondPassStep, SelectionType
<1>2. DOMAIN sel.deps \subseteq FromMain
  BY <1>1 DEF SelInv, DepsInv
<1>3. \A e : Covered(e) => e \in DOMAIN sel.deps
  BY <1>1 DEF Covered
<1>4. \A m \in DOMAIN sel.deps : OfMain(m)
  BY <1>2, FromMainIsOffered
<1>5. \A m \in DOMAIN sel.deps : sel.deps[m].deps = offer[sel.main][m].deps
  <2>1. \A m \in DOMAIN sel.deps : sel.deps[m] = GetModuleFS(m, sel.main)
    BY <1>1, <1>2 DEF SelInv, DepsInv
  <2>2. \A m : GetModuleFS(m, sel.main).deps = offer[sel.main][m].deps
    BY DEF GetModuleFS
  <2>3. QED
    BY <2>1, <2>2
<1>6. MainClosed(DOMAIN sel.deps)
  BY <1>1, <1>3, <1>5 DEF SelInv, FirstPassInv, MainClosed, OfMain
<1>7. FromMain \subseteq DOMAIN sel.deps
  BY <1>1, <1>4, <1>6, FromMainIsLeast
<1>8. QED
  BY <1>2, <1>7

LEMMA SecondPassSelInv ==
    ASSUME TypeOK, SelInv, SecondPass
    PROVE  SelInv'
<1>1. /\ sel # NoSelection /\ sel \in Selection
      /\ sel' = [sel EXCEPT !.pass = "origin", !.roots = DOMAIN sel.mods]
      /\ sel'.pass = "origin" /\ sel'.roots = DOMAIN sel.mods
      /\ sel.missing = NoModule /\ sel.stack = <<>> /\ sel.pass = "main"
  BY SecondPassStep, SelectionType
<1>2. /\ sel'.mods = sel.mods /\ sel'.main = sel.main /\ sel'.deps = sel.deps
      /\ sel'.missing = NoModule /\ sel'.stack = <<>> /\ offer' = offer
  BY <1>1 DEF Selection, SecondPass, Keep
<1>3. FromMain' = FromMain /\ FromMain = DOMAIN sel.deps
  BY <1>2, FromMainIsKept, FirstPassEnds
<1>4. StackInv' /\ FirstPassInv'
  BY <1>1, <1>2 DEF StackInv, FirstPassInv
<1>5. DepsInv'
  BY <1>1, <1>2, <1>3 DEF SelInv, DepsInv, GetModuleFS
<1>6. NoModule \notin FromMain
  BY DependencySelectionAssumption, FromMainIsOffered
<1>7. SecondPassInv'
  BY <1>1, <1>2, <1>3, <1>6 DEF SecondPassInv
<1>8. QED
  BY <1>1, <1>2, <1>4, <1>5, <1>7 DEF SelInv

\* A step that leaves the selection and the repositories alone, or ends the
\* selection.
LEMMA KeepSelInv ==
    ASSUME SelInv, UNCHANGED <<offer, sel>> \/ sel' = NoSelection
    PROVE  SelInv'
<1>1. CASE sel' = NoSelection
  BY <1>1 DEF SelInv
<1>2. CASE UNCHANGED <<offer, sel>>
  <2>1. FromMain' = FromMain /\ \A k : OfMain(k)' = OfMain(k)
    BY <1>2, FromMainIsKept
  <2>2. \A e : Covered(e)' = Covered(e)
    BY <1>2 DEF Covered
  <2>3. \A m : GetModuleFS(m, sel.main)' = GetModuleFS(m, sel.main)
    BY <1>2 DEF GetModuleFS
  <2>4. StackInv' = StackInv /\ DepsInv' = DepsInv
    BY <1>2, <2>1, <2>3 DEF StackInv, DepsInv
  <2>5. FirstPassInv' = FirstPassInv /\ SecondPassInv' = SecondPassInv
    BY <1>2, <2>1, <2>2 DEF FirstPassInv, SecondPassInv
  <2>6. QED
    BY <1>2, <2>4, <2>5 DEF SelInv
<1>3. QED
  BY <1>1, <1>2

LEMMA NextSelInv ==
    ASSUME TypeOK, SelInv, [Next]_vars
    PROVE  SelInv'
<1>1. ASSUME NEW items \in Asked, CreateModulesChangeRequest(items)
      PROVE  SelInv'
  <2>1. Selected(items) \in Partial(Module, Variant)
    BY <1>1, SelectedType DEF CreateModulesChangeRequest
  <2>2. {i.id : i \in {j \in items : j.kind = "remove"}} \in SUBSET Module
    BY DependencySelectionAssumption DEF Item
  <2>3. PICK mods, remove : /\ mods = Selected(items)
                            /\ remove = {i.id : i \in {j \in items : j.kind = "remove"}}
    OBVIOUS
  <2>4. Begin(mods, remove)
    BY <1>1, <2>3 DEF CreateModulesChangeRequest
  <2>5. QED
    BY <2>1, <2>2, <2>3, <2>4, BeginSelInv
<1>2. CASE CreateModulesUpdateAllChangeRequest
  <2>1. PICK mods : mods = [m \in Updatable |-> GetModuleFS(m, installed[m].origin)]
    OBVIOUS
  <2>2. Begin(mods, {})
    BY <1>2, <2>1 DEF CreateModulesUpdateAllChangeRequest
  <2>3. QED
    BY <2>1, <2>2, UpdatableType, BeginSelInv
<1>3. ASSUME NEW m \in Module, NextRoot(m)
      PROVE  SelInv'
  <2>1. m \in DOMAIN sel.mods
    BY <1>3 DEF NextRoot, Selecting, SelInv
  <2>2. QED
    BY <1>3, <2>1, NextRootSelInv
<1>4. ASSUME NEW m \in Module, Known(m) \/ Skip(m)
      PROVE  SelInv'
  BY <1>4, VisitSelInv
<1>5. ASSUME NEW m \in Module, Add(m)
      PROVE  SelInv'
  BY <1>5, AddSelInv
<1>6. ASSUME NEW m \in Module, NotFound(m)
      PROVE  SelInv'
  BY <1>6, NotFoundSelInv
<1>7. CASE Return
  BY <1>7, ReturnSelInv
<1>8. CASE SecondPass
  BY <1>8, SecondPassSelInv
<1>9. CASE Refuse \/ \E done \in SUBSET Module : EndSelection(done)
  BY <1>9, KeepSelInv DEF Refuse, EndSelection
<1>10. CASE RefreshRepositories
  BY <1>10, KeepSelInv DEF RefreshRepositories, Idle
<1>11. CASE UNCHANGED <<offer, sel>>
  BY <1>11, KeepSelInv
<1>12. QED
  BY <1>1, <1>2, <1>3, <1>4, <1>5, <1>6, <1>7, <1>8, <1>9, <1>10, <1>11
  DEF Next, SelectionStep, CollectionStep, CreateDeployments, EnableDeployments,
      BeginCollection, EnableAllDeployments, Collect, CollectionFails, RefuseCollection,
      Deploy, Enable, DisableDeployments, DeleteDeployments, vars

-----------------------------------------------------------------------------
(* The walk over the installed modules. *)

\* Needed is a set of installed modules that contains those named and, of what its
\* modules depend on, what is installed; and it is the least such set.
LEMMA NeededIsClosed ==
    ASSUME NEW S
    PROVE  /\ Needed(S) \subseteq Present
           /\ S \cap Present \subseteq Needed(S)
           /\ DepsOf(Needed(S)) \cap Present \subseteq Needed(S)
<1>1. Needed(S) \subseteq Present
  BY DEF Needed
<1>2. S \cap Present \subseteq Needed(S)
  BY DEF Needed
<1>3. ASSUME NEW d \in DepsOf(Needed(S)) \cap Present
      PROVE  d \in Needed(S)
  <2> SUFFICES ASSUME NEW T \in SUBSET Present, S \cap Present \subseteq T,
                      DepsOf(T) \cap Present \subseteq T
               PROVE  d \in T
    BY DEF Needed
  <2>1. Needed(S) \subseteq T
    BY DEF Needed
  <2>2. DepsOf(Needed(S)) \subseteq DepsOf(T)
    BY <2>1 DEF DepsOf
  <2>3. QED
    BY <2>2
<1>4. QED
  BY <1>1, <1>2, <1>3

LEMMA NeededIsLeast ==
    ASSUME NEW S, NEW T \in SUBSET Present, S \cap Present \subseteq T,
           DepsOf(T) \cap Present \subseteq T
    PROVE  Needed(S) \subseteq T
  BY DEF Needed

\* The walk is over when nothing is left to look up: it has found what is needed.
LEMMA FoundIsNeeded ==
    ASSUME ColInv, col # NoCollection, col.next = {}
    PROVE  col.found = Needed(col.wanted)
<1>1. /\ col.found \subseteq Needed(col.wanted)
      /\ col.wanted \cap Present \subseteq col.found
      /\ DepsOf(col.found) \cap Present \subseteq col.found
  BY DEF ColInv
<1>2. col.found \in SUBSET Present
  BY <1>1, NeededIsClosed
<1>3. QED
  BY <1>1, <1>2, NeededIsLeast

\* One call: what is installed of its ids is found, and what that depends on has been
\* found, is found now or is looked up next.
LEMMA CollectStep ==
    ASSUME TypeOK, Collect
    PROVE  \E next :
              /\ next \subseteq DepsOf(col.next \cap Present) \ col.found
              /\ \A d \in DepsOf(col.next \cap Present) \ col.found :
                    d \in col.next \cap Present \/ d \in next
              /\ col'.found = col.found \cup (col.next \cap Present) /\ col'.next = next
              /\ col'.wanted = col.wanted
              /\ col # NoCollection /\ col.next # {} /\ installed' = installed
<1> DEFINE modules == col.next \cap Present
<1>1. PICK place \in Bijection(modules, 1..Cardinality(modules)) :
          col' = [col EXCEPT
             !.found = @ \cup modules,
             !.next = {d \in DepsOf(modules) \ col.found :
                          \E m \in modules : /\ d \in installed[m].deps
                                           /\ d \in modules => place[m] < place[d]}]
  BY DEF Collect
<1>2. PICK next :
          next = {d \in DepsOf(modules) \ col.found :
                     \E m \in modules : /\ d \in installed[m].deps
                                      /\ d \in modules => place[m] < place[d]}
  OBVIOUS
<1>3. \A d \in DepsOf(modules) : \E m \in modules : d \in installed[m].deps
  BY DEF DepsOf
<1>4. \A d \in DepsOf(modules) \ col.found : d \in modules \/ d \in next
  BY <1>2, <1>3
<1>5. col' = [col EXCEPT !.found = col.found \cup modules, !.next = next]
  BY <1>1, <1>2
<1>6. col # NoCollection /\ col.next # {} /\ installed' = installed
  BY DEF Collect, Collecting
<1>7. /\ col'.found = col.found \cup modules /\ col'.next = next
      /\ col'.wanted = col.wanted
  BY <1>5, <1>6 DEF TypeOK, Collection
<1>8. QED
  BY <1>2, <1>4, <1>6, <1>7

LEMMA CollectColInv ==
    ASSUME TypeOK, ColInv, Collect
    PROVE  ColInv'
<1>1. PICK modules : modules = col.next \cap Present
  OBVIOUS
<1>2. PICK next :
          /\ next \subseteq DepsOf(modules)
          /\ \A d \in DepsOf(modules) \ col.found : d \in modules \/ d \in next
          /\ col'.found = col.found \cup modules /\ col'.next = next
          /\ col'.wanted = col.wanted /\ col # NoCollection /\ installed' = installed
  BY <1>1, CollectStep
<1>3. /\ col'.found = col.found \cup modules /\ col'.next = next
      /\ col'.wanted = col.wanted
  BY <1>2
<1>4. Present' = Present
  BY <1>2 DEF Present
<1>5. \A S : DepsOf(S)' = DepsOf(S)
  BY <1>2, <1>4 DEF DepsOf
<1>6. Needed(col.wanted)' = Needed(col.wanted)
  <2>1. \A S : Needed(S)' = Needed(S)
    BY <1>4, <1>5 DEF Needed
  <2>2. QED
    BY <1>3, <2>1
<1>7. /\ col.found \cup modules \subseteq Needed(col.wanted)
      /\ col.wanted \cap Present \subseteq col.found \cup modules
      /\ DepsOf(col.found) \cap Present \subseteq col.found \cup modules
  BY <1>1, <1>2 DEF ColInv
<1>8. DepsOf(modules) \subseteq DepsOf(Needed(col.wanted))
  BY <1>7 DEF DepsOf
<1>9. next \cap Present \subseteq Needed(col.wanted)
  BY <1>2, <1>8, NeededIsClosed
<1>10. DepsOf(col.found \cup modules) = DepsOf(col.found) \cup DepsOf(modules)
  BY DEF DepsOf
<1>11. DepsOf(col.found \cup modules) \cap Present \subseteq col.found \cup modules \cup next
  BY <1>2, <1>7, <1>10
<1>12. QED
  BY <1>3, <1>4, <1>5, <1>6, <1>7, <1>9, <1>11 DEF ColInv

LEMMA KeepColInv ==
    ASSUME ColInv, UNCHANGED <<installed, col>> \/ col' = NoCollection
    PROVE  ColInv'
<1>1. CASE col' = NoCollection
  BY <1>1 DEF ColInv
<1>2. CASE UNCHANGED <<installed, col>>
  <2>1. Present' = Present
    BY <1>2 DEF Present
  <2>2. \A S : DepsOf(S)' = DepsOf(S)
    BY <1>2, <2>1 DEF DepsOf
  <2>3. \A S : Needed(S)' = Needed(S)
    BY <2>1, <2>2 DEF Needed
  <2>4. QED
    BY <1>2, <2>1, <2>2, <2>3 DEF ColInv
<1>3. QED
  BY <1>1, <1>2

LEMMA NextColInv ==
    ASSUME TypeOK, OneWalk, ColInv, [Next]_vars
    PROVE  ColInv'
<1>1. ASSUME NEW S, NEW purpose, BeginCollection(purpose, S)
      PROVE  ColInv'
  <2>1. /\ col' = [purpose |-> purpose, wanted |-> S, next |-> S, found |-> {},
                 failed |-> FALSE]
        /\ installed' = installed
    BY <1>1 DEF BeginCollection
  <2>2. col'.wanted = S /\ col'.next = S /\ col'.found = {}
    BY <2>1
  <2>3. DepsOf({})' = {}
    BY DEF DepsOf
  <2>4. (S \cap Present \subseteq Needed(S))'
    BY NeededIsClosed, <2>1 DEF Needed, Present, DepsOf
  <2>5. QED
    BY <2>2, <2>3, <2>4 DEF ColInv
<1>2. CASE EnableAllDeployments
  <2>1. /\ col' = [purpose |-> "enable", wanted |-> Present, next |-> {}, found |-> Present,
                 failed |-> FALSE]
        /\ installed' = installed
    BY <1>2 DEF EnableAllDeployments
  <2>2. col'.wanted = Present /\ col'.next = {} /\ col'.found = Present
    BY <2>1
  <2>3. Present' = Present
    BY <2>1 DEF Present
  <2>4. Present' \subseteq Needed(Present)'
    BY <2>3 DEF Needed
  <2>5. QED
    BY <2>2, <2>3, <2>4 DEF ColInv
<1>3. CASE Collect
  BY <1>3, CollectColInv
<1>4. CASE \E done \in SUBSET Module : EndSelection(done)
  <2>1. sel # NoSelection /\ col' = col
    BY <1>4 DEF EndSelection, Complete, PassEnds, Selecting
  <2>2. QED
    BY <2>1, KeepColInv DEF OneWalk
<1>5. CASE UNCHANGED <<installed, col>> \/ col' = NoCollection
  BY <1>5, KeepColInv
<1>7. CASE CollectionFails
  <2>1. /\ col # NoCollection /\ installed' = installed
        /\ col'.found = col.found /\ col'.next = col.next /\ col'.wanted = col.wanted
    BY <1>7 DEF CollectionFails, Collecting, TypeOK, Collection
  <2>2. Present' = Present
    BY <2>1 DEF Present
  <2>3. \A S : DepsOf(S)' = DepsOf(S)
    BY <2>1, <2>2 DEF DepsOf
  <2>4. \A S : Needed(S)' = Needed(S)
    BY <2>2, <2>3 DEF Needed
  <2>5. QED
    BY <2>1, <2>2, <2>3, <2>4 DEF ColInv
<1>6. QED
  BY <1>1, <1>2, <1>3, <1>4, <1>5, <1>7
  DEF Next, SelectionStep, CollectionStep, CreateModulesChangeRequest,
      CreateModulesUpdateAllChangeRequest, Begin, NextRoot, Known, Add, Skip, NotFound,
      Return, SecondPass, Refuse, Keep, RefreshRepositories, CreateDeployments,
      EnableDeployments, RefuseCollection, Deploy, Enable, DisableDeployments,
      DeleteDeployments, vars

LEMMA NextOneWalk ==
    ASSUME OneWalk, [Next]_vars
    PROVE  OneWalk'
  BY DEF OneWalk, Idle, Next, SelectionStep, CollectionStep, CreateModulesChangeRequest,
      CreateModulesUpdateAllChangeRequest, Begin, NextRoot, Known, Add, Skip, NotFound,
      Pending, PassEnds, Complete, Selecting, EndSelection,
      Return, SecondPass, Refuse, Keep, RefreshRepositories, CreateDeployments,
      EnableDeployments, BeginCollection, EnableAllDeployments, Collecting,
      Collected, Collect, CollectionFails, RefuseCollection, Deploy, Enable, DisableDeployments, DeleteDeployments, vars

-----------------------------------------------------------------------------
(* Theorems *)

\* Whatever the repositories offer and the modfiles say, the two walks keep what
\* WalkInv says of them.
THEOREM WalkInvariant == Spec => []WalkInv
<1>1. Init => WalkInv
  <2> SUFFICES ASSUME Init
               PROVE  WalkInv
    OBVIOUS
  <2>1. TypeOK
    BY DEF Init, TypeOK
  <2>2. OneWalk /\ SelInv /\ ColInv
    BY DEF Init, OneWalk, SelInv, ColInv
  <2>3. QED
    BY <2>1, <2>2 DEF WalkInv
<1>2. WalkInv /\ [Next]_vars => WalkInv'
  <2> SUFFICES ASSUME WalkInv, [Next]_vars
               PROVE  WalkInv'
    OBVIOUS
  <2>1. TypeOK /\ OneWalk /\ SelInv /\ ColInv
    BY DEF WalkInv
  <2>2. sel # NoSelection => sel.roots \subseteq DOMAIN sel.mods
    BY <2>1 DEF SelInv
  <2>3. TypeOK'
    BY <2>1, <2>2, NextTypeOK
  <2>4. QED
    BY <2>1, <2>3, NextOneWalk, NextSelInv, NextColInv DEF WalkInv
<1>3. QED
  BY <1>1, <1>2, PTL DEF Spec

\* The selection, the stored variants and the collection keep their types: in
\* particular selectByPriority always has a channel to return.
THEOREM TypeCorrect == Spec => []TypeOK
<1>1. WalkInv => TypeOK
  BY DEF WalkInv
<1>2. QED
  BY <1>1, WalkInvariant, PTL

\* addRepoModDepsToMap, called twice by selectRepoModules: for every order of the
\* maps the main repository comes first.
THEOREM MainFirst == Spec => []MainComesFirst
<1>1. WalkInv => MainComesFirst
  <2> SUFFICES ASSUME WalkInv, sel # NoSelection
               PROVE  /\ sel.missing \notin FromMain
                      /\ \A d \in DOMAIN sel.deps :
                            IF d \in FromMain THEN sel.deps[d].origin = sel.main
                            ELSE /\ sel.pass = "origin"
                                 /\ \E m \in DOMAIN sel.mods :
                                       sel.deps[d].origin = sel.mods[m].origin
                      /\ sel.pass = "origin" => FromMain \subseteq DOMAIN sel.deps
                      /\ Complete => \A m \in DOMAIN sel.mods : Merged[m] = sel.mods[m]
    BY DEF MainComesFirst
  <2>1. TypeOK /\ StackInv /\ DepsInv /\ FirstPassInv /\ SecondPassInv
    BY DEF WalkInv, SelInv
  <2>2. sel.pass \in {"main", "origin"}
    BY <2>1, SelectionType
  <2>3. NoModule \notin FromMain
    BY DependencySelectionAssumption, FromMainIsOffered
  <2>4. sel.missing \notin FromMain
    BY <2>1, <2>2, <2>3 DEF FirstPassInv, SecondPassInv
  <2>5. \A d \in FromMain : GetModuleFS(d, sel.main).origin = sel.main
    BY DEF GetModuleFS
  <2>6. \A d \in DOMAIN sel.deps :
            IF d \in FromMain THEN sel.deps[d].origin = sel.main
            ELSE /\ sel.pass = "origin"
                 /\ \E m \in DOMAIN sel.mods : sel.deps[d].origin = sel.mods[m].origin
    BY <2>1, <2>5 DEF DepsInv
  <2>7. sel.pass = "origin" => FromMain \subseteq DOMAIN sel.deps
    BY <2>1 DEF SecondPassInv
  <2>8. \A m \in DOMAIN sel.mods : Merged[m] = sel.mods[m]
    BY <2>1, MergedType
  <2>9. QED
    BY <2>4, <2>6, <2>7, <2>8
<1>2. QED
  BY <1>1, WalkInvariant, PTL

\* The first pass ends with exactly the least closed set, so what it selects does
\* not depend on the order of the maps.
THEOREM FirstPassIsExact == Spec => [][SecondPass => DOMAIN sel.deps = FromMain]_vars
<1>1. WalkInv /\ [Next]_vars => [SecondPass => DOMAIN sel.deps = FromMain]_vars
  BY FirstPassEnds DEF WalkInv
<1>2. QED
  BY <1>1, WalkInvariant, PTL DEF Spec

\* A selection is closed under dependencies, except for what FromMain needs and main
\* does not offer.
THEOREM SelectionClosed == Spec => []SelectionIsClosed
<1>1. WalkInv => SelectionIsClosed
  <2> SUFFICES ASSUME WalkInv, Complete,
                      NEW m \in DOMAIN Merged, NEW d \in Merged[m].deps
               PROVE  \/ d \in DOMAIN Merged
                      \/ m \in FromMain \ DOMAIN sel.mods /\ ~ OfMain(d)
    BY DEF SelectionIsClosed
  <2>1. /\ sel # NoSelection /\ sel.stack = <<>> /\ sel.roots = {} /\ sel.pass = "origin"
    BY DEF Complete, PassEnds, Selecting
  <2>2. TypeOK /\ StackInv /\ DepsInv /\ SecondPassInv
    BY <2>1 DEF WalkInv, SelInv
  <2>3. /\ DOMAIN Merged = DOMAIN sel.mods \cup DOMAIN sel.deps
        /\ m \in Module /\ Merged[m] \in Variant
        /\ Merged[m] = IF m \in DOMAIN sel.mods THEN sel.mods[m] ELSE sel.deps[m]
    BY <2>1, <2>2, MergedType
  <2>4. \A e : Covered(e) => e \in DOMAIN sel.deps
    BY <2>1 DEF Covered
  <2>5. CASE m \in DOMAIN sel.mods \/ m \notin FromMain
    BY <2>1, <2>2, <2>3, <2>4, <2>5 DEF SecondPassInv
  <2>6. CASE m \notin DOMAIN sel.mods /\ m \in FromMain /\ OfMain(d)
    <3>1. Merged[m] = GetModuleFS(m, sel.main)
      BY <2>2, <2>3, <2>6 DEF DepsInv
    <3>2. d \in offer[sel.main][m].deps
      BY <3>1 DEF GetModuleFS
    <3>3. d \in Module
      BY <2>3 DEF Variant
    <3>4. d \in FromMain
      BY <2>6, <3>2, <3>3, FromMainIsClosed
    <3>5. QED
      BY <2>1, <2>2, <2>3, <3>4 DEF SecondPassInv
  <2>7. QED
    BY <2>5, <2>6
<1>2. QED
  BY <1>1, WalkInvariant, PTL

\* EnableDeployments enables what the modules it names need, and no more, unless
\* none of them is installed.
THEOREM EnabledWithDeps == Spec => EnabledWithDependencies
<1>1. WalkInv /\ [Next]_vars =>
          [(Collecting /\ col.purpose = "enable" /\ col' = NoCollection) =>
              \/ enabled' = enabled \cup (Needed(col.wanted) \cap deployed)
              \/ col.wanted \cap Present = {} /\ enabled' = deployed]_vars
  <2> SUFFICES ASSUME WalkInv, [Next]_vars,
                      Collecting, col.purpose = "enable", col' = NoCollection
               PROVE  \/ enabled' = enabled \cup (Needed(col.wanted) \cap deployed)
                      \/ col.wanted \cap Present = {} /\ enabled' = deployed
    OBVIOUS
  <2>1. TypeOK /\ OneWalk /\ ColInv /\ col \in Collection
    BY DEF WalkInv, TypeOK, Collecting
  <2>2. ~ Collect
    <3> SUFFICES ASSUME Collect
                 PROVE  FALSE
      OBVIOUS
    <3>1. PICK next : /\ next \subseteq DepsOf(col.next \cap Present)
                      /\ col' = [col EXCEPT !.found = @ \cup (col.next \cap Present),
                                            !.next = next]
      BY DEF Collect
    <3>2. DepsOf(col.next \cap Present) \in SUBSET Module
      BY <2>1, InstalledType DEF DepsOf, Variant
    <3>3. col' \in Collection
      BY <2>1, <3>1, <3>2, InstalledType DEF Collection
    <3>4. QED
      BY <3>3, DependencySelectionAssumption
  <2>3. Enable
    <3>1. ~ Deploy /\ ~ Idle /\ col' # col /\ ~ CollectionFails /\ ~ RefuseCollection
      <4>1. CollectionFails => col' \in Collection
        BY <2>1 DEF CollectionFails, Collection
      <4>2. QED
        BY <4>1, DependencySelectionAssumption
        DEF Deploy, Collected, Collecting, Idle, RefuseCollection
    <3>2. QED
      BY <2>2, <3>1
      DEF Next, SelectionStep, CollectionStep, CreateModulesChangeRequest,
          CreateModulesUpdateAllChangeRequest, Begin, NextRoot, Known, Add, Skip,
          NotFound, Return, SecondPass, Refuse, Keep, EndSelection,
          RefreshRepositories, CreateDeployments, EnableDeployments, BeginCollection,
          EnableAllDeployments, DisableDeployments, DeleteDeployments, vars
  <2>4. /\ col.found = Needed(col.wanted)
        /\ enabled' = enabled \cup Filtered(col.found)
    BY <2>1, <2>3, FoundIsNeeded DEF Enable, Collected, Collecting
  <2>5. CASE col.found = {}
    <3>1. col.wanted \cap Present \subseteq Needed(col.wanted)
      BY NeededIsClosed
    <3>2. col.wanted \cap Present = {}
      BY <2>4, <2>5, <3>1
    <3>3. QED
      BY <2>1, <2>4, <2>5, <3>2 DEF Filtered, TypeOK
  <2>6. CASE col.found # {}
    BY <2>4, <2>6 DEF Filtered
  <2>7. QED
    BY <2>5, <2>6
<1>2. QED
  BY <1>1, WalkInvariant, PTL DEF Spec, EnabledWithDependencies

-----------------------------------------------------------------------------
(* Both walks come to an end, also if modules depend on each other in a      *)
(* circle: each of their steps descends in an order that is well founded if  *)
(* there are finitely many modules.                                          *)

NatOrder == {ss \in Nat \X Nat : ss[1] < ss[2]}

SetOrder == StrictSubsetOrdering(Module)

\* The frames below the top, then what is pending in it.
StackOrder == LexPairOrdering(NatOrder, SetOrder, Nat, SUBSET Module)
StackSize == Nat \X SUBSET Module

RootsOrder == LexPairOrdering(SetOrder, StackOrder, SUBSET Module, StackSize)
RootsSize == (SUBSET Module) \X StackSize

DepsOrder == LexPairOrdering(SetOrder, RootsOrder, SUBSET Module, RootsSize)
DepsSize == (SUBSET Module) \X RootsSize

\* The passes, what has not been selected, the roots that are left, the stack.
SelectionOrder == LexPairOrdering(NatOrder, DepsOrder, Nat, DepsSize)
SelectionSize == Nat \X DepsSize

Phase == IF sel.missing # NoModule THEN 0 ELSE IF sel.pass = "origin" THEN 1 ELSE 2

TopPending == IF sel.stack = <<>> THEN {} ELSE Last(sel.stack).pending

StackLeft == <<Len(sel.stack), TopPending>>
RootsLeft == <<sel.roots, StackLeft>>
DepsLeft == <<Module \ DOMAIN sel.deps, RootsLeft>>
SelectionLeft == <<Phase, DepsLeft>>

\* What has not been found, then whether the ids of the next call are installed, and
\* an error last.
CollectionOrder == LexPairOrdering(SetOrder, NatOrder, SUBSET Module, Nat)
CollectionSize == (SUBSET Module) \X Nat

CollectionLeft ==
    <<Present \ col.found,
      IF col.failed THEN 0 ELSE IF col.next = {} THEN 1
      ELSE IF col.next \cap Present = {} THEN 2 ELSE 3>>

LEMMA LexPair ==
    ASSUME NEW R1, NEW R2, NEW S1, NEW S2,
           NEW a1 \in S1, NEW a2 \in S2, NEW b1 \in S1, NEW b2 \in S2,
           <<a1, b1>> \in R1 \/ (a1 = b1 /\ <<a2, b2>> \in R2)
    PROVE  <<<<a1, a2>>, <<b1, b2>>>> \in LexPairOrdering(R1, R2, S1, S2)
  BY DEF LexPairOrdering

LEMMA NatDescends ==
    ASSUME NEW a \in Nat, NEW b \in Nat, a < b
    PROVE  <<a, b>> \in NatOrder
  BY DEF NatOrder

LEMMA SetDescends ==
    ASSUME NEW A \in SUBSET Module, NEW B \in SUBSET Module, A \subseteq B, A # B
    PROVE  <<A, B>> \in SetOrder
  BY DEF SetOrder, StrictSubsetOrdering

\* With finitely many modules there is no infinite descent.
THEOREM OrdersAreWellFounded ==
    ASSUME IsFiniteSet(Module)
    PROVE  /\ IsWellFoundedOn(SelectionOrder, SelectionSize)
           /\ IsWellFoundedOn(CollectionOrder, CollectionSize)
<1>1. IsWellFoundedOn(NatOrder, Nat)
  BY NatLessThanWellFounded DEF OpToRel, NatOrder
<1>2. IsWellFoundedOn(SetOrder, SUBSET Module)
  BY FS_StrictSubsetOrderingWellFounded, FS_FiniteSubsetsOfFinite DEF SetOrder
<1>3. IsWellFoundedOn(StackOrder, StackSize)
  BY <1>1, <1>2, WFLexPairOrdering DEF StackOrder, StackSize
<1>4. IsWellFoundedOn(RootsOrder, RootsSize)
  BY <1>2, <1>3, WFLexPairOrdering DEF RootsOrder, RootsSize
<1>5. IsWellFoundedOn(DepsOrder, DepsSize)
  BY <1>2, <1>4, WFLexPairOrdering DEF DepsOrder, DepsSize
<1>6. IsWellFoundedOn(SelectionOrder, SelectionSize)
  BY <1>1, <1>5, WFLexPairOrdering DEF SelectionOrder, SelectionSize
<1>7. IsWellFoundedOn(CollectionOrder, CollectionSize)
  BY <1>1, <1>2, WFLexPairOrdering DEF CollectionOrder, CollectionSize
<1>8. QED
  BY <1>6, <1>7

Measured ==
    /\ Phase \in Nat /\ Len(sel.stack) \in Nat /\ TopPending \in SUBSET Module
    /\ sel.roots \in SUBSET Module /\ Module \ DOMAIN sel.deps \in SUBSET Module
    /\ StackLeft \in StackSize /\ RootsLeft \in RootsSize /\ DepsLeft \in DepsSize

LEMMA LeftIsMeasured == TypeOK /\ sel # NoSelection => Measured
<1> SUFFICES ASSUME TypeOK, sel # NoSelection
             PROVE  Measured
  OBVIOUS
<1>1. Phase \in Nat
  BY DEF Phase
<1>2. Len(sel.stack) \in Nat /\ sel.roots \in SUBSET Module
  BY SelectionType
<1>3. TopPending \in SUBSET Module
  BY VisitedType DEF TopPending, Frame
<1>4. QED
  BY <1>1, <1>2, <1>3
  DEF Measured, StackLeft, StackSize, RootsLeft, RootsSize, DepsLeft, DepsSize

\* Fewer frames, or less pending in the top one.
StackShrinks ==
    \/ Len(sel'.stack) < Len(sel.stack)
    \/ /\ Len(sel'.stack) = Len(sel.stack)
       /\ TopPending' \subseteq TopPending /\ TopPending' # TopPending

\* What is left descends if one of its parts does and those before it stay.
LEMMA LeftDescends ==
    ASSUME Measured, Measured',
           \/ Phase' < Phase
           \/ /\ Phase' = Phase
              /\ \E d \in Module \ DOMAIN sel.deps : DOMAIN sel'.deps = DOMAIN sel.deps \cup {d}
           \/ /\ Phase' = Phase /\ DOMAIN sel'.deps = DOMAIN sel.deps
              /\ sel'.roots \subseteq sel.roots /\ sel'.roots # sel.roots
           \/ /\ Phase' = Phase /\ DOMAIN sel'.deps = DOMAIN sel.deps
              /\ sel'.roots = sel.roots /\ StackShrinks
    PROVE  <<SelectionLeft', SelectionLeft>> \in SelectionOrder
<1> USE DEF Measured
<1>1. StackShrinks => <<StackLeft', StackLeft>> \in StackOrder
  BY NatDescends, SetDescends, LexPair DEF StackShrinks, StackLeft, StackOrder
<1>2. sel'.roots = sel.roots /\ StackShrinks => <<RootsLeft', RootsLeft>> \in RootsOrder
  BY <1>1, LexPair DEF RootsLeft, RootsOrder
<1>3. sel'.roots \subseteq sel.roots /\ sel'.roots # sel.roots =>
          <<RootsLeft', RootsLeft>> \in RootsOrder
  BY SetDescends, LexPair DEF RootsLeft, RootsOrder
<1>4. DOMAIN sel'.deps = DOMAIN sel.deps /\ <<RootsLeft', RootsLeft>> \in RootsOrder =>
          <<DepsLeft', DepsLeft>> \in DepsOrder
  BY LexPair DEF DepsLeft, DepsOrder
<1>5. ASSUME NEW d \in Module \ DOMAIN sel.deps,
             DOMAIN sel'.deps = DOMAIN sel.deps \cup {d}
      PROVE  <<DepsLeft', DepsLeft>> \in DepsOrder
  <2>1. <<Module \ DOMAIN sel'.deps, Module \ DOMAIN sel.deps>> \in SetOrder
    BY <1>5, SetDescends
  <2>2. QED
    BY <2>1, LexPair DEF DepsLeft, DepsOrder
<1>6. Phase' = Phase /\ <<DepsLeft', DepsLeft>> \in DepsOrder =>
          <<SelectionLeft', SelectionLeft>> \in SelectionOrder
  BY LexPair DEF SelectionLeft, SelectionOrder
<1>7. Phase' < Phase => <<SelectionLeft', SelectionLeft>> \in SelectionOrder
  BY NatDescends, LexPair DEF SelectionLeft, SelectionOrder
<1>8. QED
  BY <1>2, <1>3, <1>4, <1>5, <1>6, <1>7

\* Every call of addRepoModDepsToMap, every dependency it meets and every return
\* from it leaves less to do.
LEMMA SelectionStepDescends ==
    ASSUME WalkInv, Measured, Measured',
           \/ \E m \in Module : NextRoot(m) \/ Known(m) \/ Add(m) \/ Skip(m) \/ NotFound(m)
           \/ Return \/ SecondPass
    PROVE  <<SelectionLeft', SelectionLeft>> \in SelectionOrder
<1>1. TypeOK /\ (sel # NoSelection => sel.roots \subseteq DOMAIN sel.mods)
  BY DEF WalkInv, SelInv
<1>2. ASSUME NEW m \in Module, NextRoot(m)
      PROVE  <<SelectionLeft', SelectionLeft>> \in SelectionOrder
  <2>1. m \in DOMAIN sel.mods
    BY <1>1, <1>2 DEF NextRoot, Selecting
  <2>2. /\ sel' = [sel EXCEPT !.roots = sel.roots \ {m}, !.stack = sel'.stack]
        /\ sel \in Selection /\ m \in sel.roots
    BY <1>1, <1>2, <2>1, NextRootStep, SelectionType
  <2>3. /\ sel'.missing = sel.missing /\ sel'.pass = sel.pass /\ sel'.deps = sel.deps
        /\ sel'.roots = sel.roots \ {m}
    BY <2>2 DEF Selection
  <2>4. Phase' = Phase /\ sel'.roots \subseteq sel.roots /\ sel'.roots # sel.roots
    BY <2>2, <2>3 DEF Phase
  <2>5. QED
    BY <2>3, <2>4, LeftDescends
<1>3. ASSUME NEW m \in Module, Known(m) \/ Skip(m)
      PROVE  <<SelectionLeft', SelectionLeft>> \in SelectionOrder
  <2>1. /\ sel' = [sel EXCEPT !.stack = Visited(m)] /\ sel'.stack = Visited(m)
        /\ sel # NoSelection /\ sel \in Selection
        /\ sel.stack # <<>> /\ m \in Last(sel.stack).pending
    BY <1>1, <1>3, VisitStep, SelectionType
  <2>2. /\ sel'.missing = sel.missing /\ sel'.pass = sel.pass /\ sel'.deps = sel.deps
        /\ sel'.roots = sel.roots
    BY <2>1 DEF Selection
  <2>3. PICK n : n = Len(sel.stack)
    OBVIOUS
  <2>4. PICK v : v = Visited(m)
    OBVIOUS
  <2>5. /\ n \in 1..n /\ Len(v) = n /\ Last(sel.stack) = sel.stack[n]
        /\ v[n].pending = sel.stack[n].pending \ {m}
    <3>1. sel # NoSelection /\ sel.stack # <<>>
      BY <2>1
    <3>2. n \in 1..n /\ Len(v) = n /\ Last(sel.stack) = sel.stack[n]
      BY <1>1, <2>3, <2>4, <3>1, VisitedType
    <3>3. \A i \in 1..n : v[i].pending = IF i = n THEN sel.stack[i].pending \ {m}
                                         ELSE sel.stack[i].pending
      BY <1>1, <2>3, <2>4, <3>1, VisitedType
    <3>4. QED
      BY <3>2, <3>3
  <2>6. sel'.stack # <<>> /\ sel'.stack = v /\ Last(sel'.stack) = v[n]
    BY <2>1, <2>4, <2>5 DEF Last
  <2>7. TopPending = sel.stack[n].pending /\ TopPending' = v[n].pending
    BY <2>1, <2>5, <2>6 DEF TopPending
  <2>8. StackShrinks
    BY <2>1, <2>3, <2>5, <2>6, <2>7 DEF StackShrinks
  <2>9. Phase' = Phase
    BY <2>2 DEF Phase
  <2>10. QED
    BY <2>2, <2>8, <2>9, LeftDescends
<1>4. ASSUME NEW m \in Module, Add(m)
      PROVE  <<SelectionLeft', SelectionLeft>> \in SelectionOrder
  <2>1. /\ sel' = [sel EXCEPT !.deps = sel'.deps, !.stack = sel'.stack]
        /\ sel \in Selection /\ m \notin DOMAIN sel.deps
        /\ DOMAIN sel'.deps = DOMAIN sel.deps \cup {m}
    BY <1>1, <1>4, AddStep, SelectionType
  <2>2. sel'.missing = sel.missing /\ sel'.pass = sel.pass
    BY <2>1 DEF Selection
  <2>3. Phase' = Phase
    BY <2>2 DEF Phase
  <2>4. QED
    BY <2>1, <2>3, LeftDescends
<1>5. ASSUME NEW m \in Module, NotFound(m)
      PROVE  <<SelectionLeft', SelectionLeft>> \in SelectionOrder
  <2>1. sel'.missing = m /\ sel.pass = "origin" /\ sel.missing = NoModule
    BY <1>1, <1>5, NotFoundStep DEF NotFound, Pending, Selecting
  <2>2. Phase' < Phase
    BY <2>1, DependencySelectionAssumption DEF Phase
  <2>3. QED
    BY <2>2, LeftDescends
<1>6. CASE Return
  <2>1. /\ sel' = [sel EXCEPT !.stack = sel'.stack] /\ sel \in Selection
        /\ Len(sel.stack) \in 1..Len(sel.stack) /\ Len(sel'.stack) = Len(sel.stack) - 1
    BY <1>1, <1>6, ReturnStep, SelectionType
  <2>2. /\ sel'.missing = sel.missing /\ sel'.pass = sel.pass /\ sel'.deps = sel.deps
        /\ sel'.roots = sel.roots
    BY <2>1 DEF Selection
  <2>3. StackShrinks
    BY <2>1 DEF StackShrinks
  <2>4. Phase' = Phase
    BY <2>2 DEF Phase
  <2>5. QED
    BY <2>2, <2>3, <2>4, LeftDescends
<1>7. CASE SecondPass
  <2>1. /\ sel'.pass = "origin" /\ sel.pass = "main" /\ sel.missing = NoModule
        /\ sel \in Selection
        /\ sel' = [sel EXCEPT !.pass = "origin", !.roots = DOMAIN sel.mods]
    BY <1>1, <1>7, SecondPassStep, SelectionType
  <2>2. sel'.missing = NoModule
    BY <2>1 DEF Selection
  <2>3. Phase' < Phase
    BY <2>1, <2>2 DEF Phase
  <2>4. QED
    BY <2>3, LeftDescends
<1>8. QED
  BY <1>2, <1>3, <1>4, <1>5, <1>6, <1>7

\* A selection under way is done with, or has less left to look at: two passes over
\* modules that depend on each other in a circle end.
THEOREM SelectionDescends ==
    Spec => [][sel # NoSelection =>
                  \/ sel' = NoSelection
                  \/ <<SelectionLeft', SelectionLeft>> \in SelectionOrder]_sel
<1>1. ASSUME WalkInv, WalkInv', [Next]_vars
      PROVE  [sel # NoSelection =>
                 \/ sel' = NoSelection
                 \/ <<SelectionLeft', SelectionLeft>> \in SelectionOrder]_sel
  <2> SUFFICES ASSUME sel # NoSelection, sel' # sel, (sel # NoSelection)'
               PROVE  <<SelectionLeft', SelectionLeft>> \in SelectionOrder
    OBVIOUS
  <2>1. TypeOK /\ TypeOK'
    BY <1>1 DEF WalkInv
  <2>2. Measured
    BY <2>1, LeftIsMeasured
  <2>3. Measured'
    BY <2>1, LeftIsMeasured, PTL
  <2>4. \/ \E m \in Module : NextRoot(m) \/ Known(m) \/ Add(m) \/ Skip(m) \/ NotFound(m)
        \/ Return \/ SecondPass
    BY <1>1
    DEF Next, Idle, SelectionStep, CollectionStep, CreateModulesChangeRequest,
        CreateModulesUpdateAllChangeRequest, Refuse, EndSelection,
        RefreshRepositories, CreateDeployments, EnableDeployments, BeginCollection,
        EnableAllDeployments, Collect, CollectionFails, RefuseCollection, Deploy, Enable,
        DisableDeployments, DeleteDeployments, vars
  <2>5. QED
    BY <1>1, <2>2, <2>3, <2>4, SelectionStepDescends
<1>2. QED
  BY <1>1, WalkInvariant, PTL DEF Spec

\* A call of getModulesWithDependencies finds a module that had not been found, or is
\* followed by at most one more, for ids that are not installed.
LEMMA CollectDescends ==
    ASSUME WalkInv, Collect
    PROVE  <<CollectionLeft', CollectionLeft>> \in CollectionOrder
<1> DEFINE ahead == IF col.failed THEN 0 ELSE IF col.next = {} THEN 1
                    ELSE IF col.next \cap Present = {} THEN 2 ELSE 3
<1>1. PICK modules : modules = col.next \cap Present
  OBVIOUS
<1>2. PICK next :
          /\ next \subseteq DepsOf(modules) \ col.found
          /\ col'.found = col.found \cup modules /\ col'.next = next
          /\ col # NoCollection /\ col.next # {} /\ installed' = installed
          /\ ~ col.failed
  BY <1>1, CollectStep DEF WalkInv, Collect, Collecting
<1>3. Present' = Present /\ Present \in SUBSET Module /\ modules \subseteq Present
  BY <1>1, <1>2, InstalledType DEF Present
<1>4. /\ Present \ col.found \in SUBSET Module /\ Present' \ col'.found \in SUBSET Module
      /\ ahead \in Nat /\ ahead' \in Nat
  BY <1>3
<1>5. CASE ~ modules \subseteq col.found
  <2>1. <<Present' \ col'.found, Present \ col.found>> \in SetOrder
    BY <1>2, <1>3, <1>4, <1>5, SetDescends
  <2>2. QED
    BY <1>4, <2>1, LexPair DEF CollectionLeft, CollectionOrder
<1>6. CASE modules \subseteq col.found
  <2>1. Present' \ col'.found = Present \ col.found
    BY <1>2, <1>3, <1>6
  <2>2. DepsOf(modules) \subseteq DepsOf(col.found)
    BY <1>6 DEF DepsOf
  <2>3. DepsOf(col.found) \cap Present \subseteq col.found \cup col.next
    BY <1>2 DEF WalkInv, ColInv
  <2>4. next \cap Present = {}
    BY <1>1, <1>2, <1>6, <2>2, <2>3
  <2>5. modules = {} => next = {}
    BY <1>2 DEF DepsOf
  <2>6. ahead' < ahead
    BY <1>1, <1>2, <1>3, <2>4, <2>5
  <2>7. QED
    BY <1>4, <2>1, <2>6, NatDescends, LexPair DEF CollectionLeft, CollectionOrder
<1>7. QED
  BY <1>5, <1>6

\* After an error there are no more calls.
LEMMA FailureDescends ==
    ASSUME WalkInv, CollectionFails
    PROVE  <<CollectionLeft', CollectionLeft>> \in CollectionOrder
<1> DEFINE ahead == IF col.failed THEN 0 ELSE IF col.next = {} THEN 1
                    ELSE IF col.next \cap Present = {} THEN 2 ELSE 3
<1>1. /\ col'.found = col.found /\ col'.failed /\ ~ col.failed /\ installed' = installed
  BY DEF CollectionFails, Collecting, WalkInv, TypeOK, Collection
<1>2. Present' = Present /\ Present \in SUBSET Module
  BY <1>1, InstalledType DEF Present
<1>3. /\ Present \ col.found \in SUBSET Module /\ Present' \ col'.found \in SUBSET Module
      /\ ahead \in Nat /\ ahead' \in Nat /\ ahead' < ahead
  BY <1>1, <1>2
<1>4. QED
  BY <1>1, <1>2, <1>3, NatDescends, LexPair DEF CollectionLeft, CollectionOrder

\* The walk over the installed modules ends as well.
THEOREM CollectionDescends ==
    Spec => [][col # NoCollection =>
                  \/ col' = NoCollection
                  \/ <<CollectionLeft', CollectionLeft>> \in CollectionOrder]_col
<1>1. ASSUME WalkInv, [Next]_vars
      PROVE  [col # NoCollection =>
                 \/ col' = NoCollection
                 \/ <<CollectionLeft', CollectionLeft>> \in CollectionOrder]_col
  <2> SUFFICES ASSUME col # NoCollection, col' # col, col' # NoCollection
               PROVE  <<CollectionLeft', CollectionLeft>> \in CollectionOrder
    OBVIOUS
  <2>1. Collect \/ CollectionFails
    BY <1>1
    DEF Next, Idle, SelectionStep, CollectionStep, CreateModulesChangeRequest,
        CreateModulesUpdateAllChangeRequest, Begin, NextRoot, Known, Add, Skip,
        NotFound, Return, SecondPass, Refuse, Keep, EndSelection,
        RefreshRepositories, CreateDeployments, EnableDeployments, BeginCollection,
        EnableAllDeployments, RefuseCollection, Deploy, Enable, DisableDeployments,
        DeleteDeployments, vars
  <2>2. QED
    BY <1>1, <2>1, CollectDescends, FailureDescends
<1>2. QED
  BY <1>1, WalkInvariant, PTL DEF Spec


=============================================================================
