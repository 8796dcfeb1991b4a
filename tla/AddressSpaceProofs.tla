------------------------- MODULE AddressSpaceProofs -------------------------
(***************************************************************************)
(* Page tables, for any number of frames, spaces and pages: the tables     *)
(* form a tree below each root, in which place says where a table hangs,   *)
(* and they implement VirtualMemory.                                       *)
(***************************************************************************)
EXTENDS AddressSpace, TLAPS

EntryType == [address : Nodes, present : BOOLEAN, user : BOOLEAN, big : BOOLEAN]

BigPage == Entry(RAM, TRUE, FALSE, TRUE)

(* Places are only looked at through these: how far a place is below its   *)
(* root (0 for a frame that is no table), and the half of the addresses.   *)
PlaceSeq    == Seq(Tables \cup Index)
Level(q)    == Len(q)
Top(r)      == <<r>>
UserHalf(q) == q[2] < LINEAR

(* What entry i of the table t, in use, can be: nothing, a big page of the *)
(* kernel, a table one level down, or in the last level a page.            *)
EntryFits(E, F, H, P, t, i) ==
  \/ E[t][i] = Zero
  \/ t \in {kernel_pagedir, kernel_linear} /\ E[t][i] = BigPage
  \/ /\ Level(P[t]) \in 1 .. 3 /\ t \notin {kernel_pagedir, kernel_linear}
     /\ E[t][i].present /\ ~E[t][i].big
     /\ E[t][i].user <=> ~(Level(P[t]) = 1 /\ i = LINEAR)
     /\ E[t][i].address \in Tables
     /\ P[E[t][i].address] = ChildPlace(P[t], i)
  \/ /\ Level(P[t]) = 4
     /\ E[t][i] = PageEntry(E[t][i].address, UserHalf(P[t]))
     /\ E[t][i].address \in Frames \ (F \cup H)
     /\ Level(P[E[t][i].address]) = 0

Types(E, F, H, P) ==
  /\ E \in [Tables -> [Index -> EntryType]]
  /\ F \subseteq Frames /\ H \subseteq Frames /\ F \cap H = {}
  /\ P \in [Tables -> PlaceSeq] /\ \A t \in Tables : Level(P[t]) \in 0 .. 4

Places(F, H, P) ==
  /\ P[kernel_pml4] = Top(kernel_pml4)
  /\ P[kernel_pagedirtable] = ChildPlace(Top(kernel_pml4), KERNEL)
  /\ P[kernel_pagedir] = ChildPlace(ChildPlace(Top(kernel_pml4), KERNEL), 510)
  /\ P[kernel_linear] = ChildPlace(Top(kernel_pml4), LINEAR)
  /\ \A t \in Tables : Level(P[t]) = 1 => P[t] = Top(t)
  /\ \A t \in F \cup H : Level(P[t]) = 0
  /\ \A t, u \in Tables : Level(P[t]) # 0 /\ P[t] = P[u] => t = u

RootsShare(E, P) ==
  \A t \in Tables : Level(P[t]) = 1 =>
    /\ E[t][LINEAR].present /\ E[t][LINEAR].address = kernel_linear
    /\ E[t][KERNEL].present /\ E[t][KERNEL].address = kernel_pagedirtable

(* The kernel's big pages stay.                                            *)
BigPages(E) ==
  \A i \in Index : /\ E[kernel_linear][i] = BigPage
                   /\ i < 16 => E[kernel_pagedir][i] = BigPage

(* A page is entered once ...                                              *)
OneEntry(E, P) ==
  \A t, u \in Tables, i, j \in Index :
    /\ Level(P[t]) = 4 /\ E[t][i].present
    /\ Level(P[u]) = 4 /\ E[u][j].present
    /\ E[t][i].address = E[u][j].address
    => t = u /\ i = j

(* ... and so is every table but the roots.                                *)
Named(E, P, f) ==
  \E t \in Tables, i \in Index :
    Level(P[t]) # 0 /\ E[t][i].present /\ E[t][i].address = f

Hangs(E, P) == \A t \in Tables : Level(P[t]) \notin {0, 1} => Named(E, P, t)

Tree(E, F, H, P) ==
  /\ Types(E, F, H, P)
  /\ Places(F, H, P)
  /\ RootsShare(E, P) /\ BigPages(E)
  /\ \A t \in Tables, i \in Index : Level(P[t]) # 0 => EntryFits(E, F, H, P, t, i)
  /\ OneEntry(E, P)
  /\ Hangs(E, P)

(* As long as nothing is mapped over a page, all other frames are pages.   *)
Accounted(E, F, H, P) ==
  \A f \in Frames \ (F \cup H) : Level(P[f]) = 0 => Named(E, P, f)

AInv ==
  /\ Tree(entries, free, held, place)
  /\ Accounted(entries, free, held, place)
  /\ panicked \in BOOLEAN

----------------------------------------------------------------------------
(* Places.                                                                 *)

LEMMA LevelZero ==
  ASSUME NEW q \in PlaceSeq
  PROVE  /\ Level(q) \in Nat
         /\ Level(q) # 0 <=> q # <<>>
  BY DEF Level, PlaceSeq

LEMMA TopFacts ==
  ASSUME NEW r \in Tables
  PROVE  Top(r) \in PlaceSeq /\ Level(Top(r)) = 1
  BY DEF Level, PlaceSeq, Top

LEMMA TopInjective ==
  ASSUME NEW r, NEW s, Top(r) = Top(s)
  PROVE  r = s
  BY DEF Top

LEMMA AppendFacts ==
  ASSUME NEW q \in PlaceSeq, NEW i \in Index
  PROVE  /\ Append(q, i) \in PlaceSeq
         /\ Level(Append(q, i)) = Level(q) + 1
         /\ Append(q, i)[Level(q) + 1] = i
         /\ \A n \in 1 .. Level(q) : Append(q, i)[n] = q[n]
  BY DEF PlaceSeq, Level

LEMMA SharedFacts ==
  ASSUME NEW i \in Index
  PROVE  /\ <<kernel_pml4, i>> \in PlaceSeq
         /\ Level(<<kernel_pml4, i>>) = 2
         /\ <<kernel_pml4, i>>[2] = i
<1>1. <<kernel_pml4, i>> \in PlaceSeq
  BY DEF PlaceSeq, Tables, Static
<1>2. Len(<<kernel_pml4, i>>) = 2 /\ <<kernel_pml4, i>>[2] = i
  OBVIOUS
<1> QED
  BY <1>1, <1>2 DEF Level

LEMMA SamePlace ==
  ASSUME NEW q \in PlaceSeq, NEW r \in PlaceSeq, Level(q) = Level(r),
         \A n \in 1 .. Level(q) : q[n] = r[n]
  PROVE  q = r
  BY DEF PlaceSeq, Level

(* The two ways to hang a table: with the kernel's own, or below its       *)
(* parent.                                                                 *)
Shared(q, i) == Level(q) = 1 /\ i \in {LINEAR, KERNEL}

LEMMA ChildOfShared ==
  ASSUME NEW q, NEW i, Shared(q, i)
  PROVE  ChildPlace(q, i) = <<kernel_pml4, i>>
  BY DEF ChildPlace, Shared, Level

LEMMA ChildOfOther ==
  ASSUME NEW q, NEW i, ~Shared(q, i)
  PROVE  ChildPlace(q, i) = Append(q, i)
  BY DEF ChildPlace, Shared, Level

LEMMA ChildLevel ==
  ASSUME NEW q \in PlaceSeq, NEW i \in Index
  PROVE  ChildPlace(q, i) \in PlaceSeq /\ Level(ChildPlace(q, i)) = Level(q) + 1
<1>1. CASE Shared(q, i)
  BY <1>1, ChildOfShared, SharedFacts DEF Shared
<1>2. CASE ~Shared(q, i)
  <2>1. ChildPlace(q, i) = Append(q, i)
    BY <1>2, ChildOfOther
  <2>2. Append(q, i) \in PlaceSeq /\ Level(Append(q, i)) = Level(q) + 1
    BY AppendFacts
  <2> QED
    BY <2>1, <2>2
<1> QED
  BY <1>1, <1>2

LEMMA ChildHalf ==
  ASSUME NEW q \in PlaceSeq, NEW i \in Index, Level(q) # 0
  PROVE  UserHalf(ChildPlace(q, i)) <=> IF Level(q) = 1 THEN i < LINEAR ELSE UserHalf(q)
<1>1. CASE Shared(q, i)
  BY <1>1, ChildOfShared, SharedFacts DEF Shared, UserHalf
<1>2. CASE ~Shared(q, i)
  <2>1. Level(q) \in Nat
    BY LevelZero
  <2>2. Append(q, i)[Level(q) + 1] = i /\ \A n \in 1 .. Level(q) : Append(q, i)[n] = q[n]
    BY AppendFacts
  <2>3. Append(q, i)[2] = IF Level(q) = 1 THEN i ELSE q[2]
    <3>1. CASE Level(q) = 1
      <4>1. Level(q) + 1 = 2
        BY <3>1
      <4>2. Append(q, i)[2] = i
        BY <2>2, <4>1
      <4> QED
        BY <3>1, <4>2
    <3>2. CASE Level(q) # 1
      <4>1. 2 \in 1 .. Level(q)
        BY <2>1, <3>2
      <4> QED
        BY <2>2, <3>2, <4>1
    <3> QED
      BY <3>1, <3>2
  <2> QED
    BY <1>2, <2>3, ChildOfOther DEF UserHalf
<1> QED
  BY <1>1, <1>2

LEMMA ChildInjective ==
  ASSUME NEW q \in PlaceSeq, NEW r \in PlaceSeq, NEW i \in Index, NEW j \in Index,
         ChildPlace(q, i) = ChildPlace(r, j)
  PROVE  \/ q = r /\ i = j /\ ~Shared(q, i)
         \/ Shared(q, i) /\ Shared(r, j) /\ i = j
<1>1. Level(q) \in Nat /\ Level(r) \in Nat /\ Level(q) + 1 = Level(r) + 1
  BY ChildLevel, LevelZero
<1>2. Level(q) = Level(r)
  BY <1>1
<1>3. CASE Shared(q, i) /\ Shared(r, j)
  <2>1. <<kernel_pml4, i>>[2] = i /\ <<kernel_pml4, j>>[2] = j
    BY SharedFacts
  <2> QED
    BY <1>3, <2>1, ChildOfShared
<1>4. CASE Shared(q, i) /\ ~Shared(r, j)
  <2>1. <<kernel_pml4, i>>[2] = i /\ Append(r, j)[Level(r) + 1] = j
    BY SharedFacts, AppendFacts
  <2>2. Level(r) + 1 = 2
    BY <1>2, <1>4 DEF Shared
  <2>3. i = j
    BY <1>4, <2>1, <2>2, ChildOfShared, ChildOfOther
  <2> QED
    BY <1>2, <1>4, <2>3 DEF Shared
<1>5. CASE ~Shared(q, i) /\ Shared(r, j)
  <2>1. <<kernel_pml4, j>>[2] = j /\ Append(q, i)[Level(q) + 1] = i
    BY SharedFacts, AppendFacts
  <2>2. Level(q) + 1 = 2
    BY <1>2, <1>5 DEF Shared
  <2>3. i = j
    BY <1>5, <2>1, <2>2, ChildOfShared, ChildOfOther
  <2> QED
    BY <1>2, <1>5, <2>3 DEF Shared
<1>6. CASE ~Shared(q, i) /\ ~Shared(r, j)
  <2>1. Append(q, i) = Append(r, j)
    BY <1>6, ChildOfOther
  <2>2. /\ Append(q, i)[Level(q) + 1] = i /\ Append(r, j)[Level(r) + 1] = j
        /\ \A n \in 1 .. Level(q) : Append(q, i)[n] = q[n]
        /\ \A n \in 1 .. Level(r) : Append(r, j)[n] = r[n]
    BY AppendFacts
  <2>3. i = j
    BY <1>2, <2>1, <2>2
  <2>4. \A n \in 1 .. Level(q) : q[n] = r[n]
    BY <1>2, <2>1, <2>2
  <2> QED
    BY <1>2, <1>6, <2>3, <2>4, SamePlace
<1> QED
  BY <1>3, <1>4, <1>5, <1>6

LEMMA AppendPair ==
  ASSUME NEW a \in Tables \cup Index, NEW b \in Tables \cup Index, NEW c \in Index
  PROVE  Append(<<a, b>>, c) = <<a, b, c>>
<1> DEFINE x == Append(<<a, b>>, c)
           y == <<a, b, c>>
<1>1. <<a, b>> \in PlaceSeq /\ Len(<<a, b>>) = 2 /\ <<a, b>>[1] = a /\ <<a, b>>[2] = b
  BY DEF PlaceSeq
<1>2. y \in PlaceSeq /\ Len(y) = 3 /\ y[1] = a /\ y[2] = b /\ y[3] = c
  BY DEF PlaceSeq
<1>3. x \in PlaceSeq /\ Len(x) = 3 /\ x[1] = a /\ x[2] = b /\ x[3] = c
  BY <1>1 DEF PlaceSeq
<1> HIDE DEF x, y
<1>4. \A n \in 1 .. 3 : x[n] = y[n]
  <2>1. \A n \in 1 .. 3 : n = 1 \/ n = 2 \/ n = 3
    OBVIOUS
  <2> QED
    BY <1>2, <1>3, <2>1
<1>5. x = y
  BY <1>2, <1>3, <1>4, SamePlace DEF Level
<1> QED
  BY <1>5 DEF x, y

(* A place below an entry that is not shared.                              *)
LEMMA ChildOnly ==
  ASSUME NEW q \in PlaceSeq, NEW r \in PlaceSeq, NEW i \in Index, NEW j \in Index,
         ChildPlace(q, i) = ChildPlace(r, j), i \notin {LINEAR, KERNEL} \/ Level(q) # 1
  PROVE  q = r /\ i = j
  BY ChildInjective DEF Shared

LEMMA KernelPlaces ==
  /\ kernel_pml4 \in Tables /\ kernel_pagedir \in Tables /\ kernel_linear \in Tables
  /\ kernel_pagedirtable \in Tables
  /\ Top(kernel_pml4) \in PlaceSeq /\ Level(Top(kernel_pml4)) = 1
  /\ ChildPlace(Top(kernel_pml4), LINEAR) \in PlaceSeq
  /\ Level(ChildPlace(Top(kernel_pml4), LINEAR)) = 2
  /\ ChildPlace(Top(kernel_pml4), KERNEL) \in PlaceSeq
  /\ Level(ChildPlace(Top(kernel_pml4), KERNEL)) = 2
  /\ ChildPlace(ChildPlace(Top(kernel_pml4), KERNEL), 510) \in PlaceSeq
  /\ Level(ChildPlace(ChildPlace(Top(kernel_pml4), KERNEL), 510)) = 3
<1>1. /\ kernel_pml4 \in Tables /\ kernel_pagedir \in Tables /\ kernel_linear \in Tables
      /\ kernel_pagedirtable \in Tables /\ 510 \in Index /\ LINEAR \in Index /\ KERNEL \in Index
  BY PagesAssumption DEF Tables, Static
<1>2. Top(kernel_pml4) \in PlaceSeq /\ Level(Top(kernel_pml4)) = 1
  BY <1>1, TopFacts
<1>3. /\ ChildPlace(Top(kernel_pml4), KERNEL) \in PlaceSeq
      /\ Level(ChildPlace(Top(kernel_pml4), KERNEL)) = 1 + 1
      /\ ChildPlace(Top(kernel_pml4), LINEAR) \in PlaceSeq
      /\ Level(ChildPlace(Top(kernel_pml4), LINEAR)) = 1 + 1
  BY <1>1, <1>2, ChildLevel
<1>4. /\ ChildPlace(ChildPlace(Top(kernel_pml4), KERNEL), 510) \in PlaceSeq
      /\ Level(ChildPlace(ChildPlace(Top(kernel_pml4), KERNEL), 510)) = 1 + 1 + 1
  BY <1>1, <1>3, ChildLevel
<1> QED
  BY <1>1, <1>2, <1>3, <1>4

LEMMA StaticLevels ==
  ASSUME NEW E, NEW F, NEW H, NEW P, Tree(E, F, H, P)
  PROVE  /\ Level(P[kernel_pml4]) = 1 /\ Level(P[kernel_pagedirtable]) = 2
         /\ Level(P[kernel_pagedir]) = 3 /\ Level(P[kernel_linear]) = 2
  BY KernelPlaces DEF Tree, Places

----------------------------------------------------------------------------
(* What the tree says of the frames.                                       *)

LEMMA InUseLevel ==
  ASSUME Tree(entries, free, held, place)
  PROVE  InUse = {t \in Tables : Level(place[t]) # 0}
  BY LevelZero DEF InUse, Tree, Types

LEMMA RootLevel ==
  ASSUME Tree(entries, free, held, place)
  PROVE  Roots = {t \in Frames \cup {kernel_pml4} : Level(place[t]) = 1}
<1>1. \A t \in Tables : place[t] = Top(t) <=> Level(place[t]) = 1
  BY TopFacts DEF Tree, Places
<1> QED
  BY <1>1 DEF Roots, Top, Tables, Static

(* The entry t[i] in use names f: as the table below it, or as a page.     *)
LEMMA Naming ==
  ASSUME NEW E, NEW F, NEW H, NEW P, Tree(E, F, H, P),
         NEW t \in Tables, NEW i \in Index, Level(P[t]) # 0, E[t][i].present
  PROVE  \/ E[t][i] = BigPage /\ t \in {kernel_pagedir, kernel_linear}
         \/ /\ Level(P[t]) \in 1 .. 3 /\ ~E[t][i].big /\ t \notin {kernel_pagedir, kernel_linear}
            /\ E[t][i].address \in Tables \ (F \cup H)
            /\ P[E[t][i].address] = ChildPlace(P[t], i)
            /\ Level(P[E[t][i].address]) = Level(P[t]) + 1
         \/ /\ Level(P[t]) = 4 /\ E[t][i] = PageEntry(E[t][i].address, UserHalf(P[t]))
            /\ E[t][i].address \in Frames \ (F \cup H)
            /\ Level(P[E[t][i].address]) = 0
<1>1. EntryFits(E, F, H, P, t, i)
  BY DEF Tree
<1>2. E[t][i] # Zero
  BY DEF Zero, Entry
<1>3. CASE /\ Level(P[t]) \in 1 .. 3 /\ ~E[t][i].big /\ t \notin {kernel_pagedir, kernel_linear}
           /\ E[t][i].address \in Tables
           /\ P[E[t][i].address] = ChildPlace(P[t], i)
  <2>1. P[t] \in PlaceSeq
    BY DEF Tree, Types
  <2>2. Level(P[E[t][i].address]) = Level(P[t]) + 1
    BY <1>3, <2>1, ChildLevel
  <2>3. Level(P[t]) + 1 # 0
    BY <1>3
  <2>4. E[t][i].address \notin F \cup H
    BY <2>2, <2>3 DEF Tree, Places
  <2> QED
    BY <1>3, <2>2, <2>4
<1> QED
  BY <1>1, <1>2, <1>3 DEF EntryFits

(* Two entries in use never name the same.                                 *)
LEMMA NamedOnce ==
  ASSUME NEW E, NEW F, NEW H, NEW P, Tree(E, F, H, P),
         NEW t \in Tables, NEW i \in Index, Level(P[t]) # 0, E[t][i].present,
         NEW u \in Tables, NEW j \in Index, Level(P[u]) # 0, E[u][j].present,
         E[t][i].address = E[u][j].address, E[t][i].address \in Frames
  PROVE  t = u /\ i = j
<1> DEFINE f == E[t][i].address
<1>1. f \in Frames /\ f # RAM /\ f \notin Static
  BY NodesAssumption DEF Tables
<1>2. E[t][i] # BigPage /\ E[u][j] # BigPage
  BY <1>1 DEF BigPage, Entry
<1>3. CASE Level(P[f]) = 0
  <2>1. \A n \in 1 .. 3 : n + 1 # 0
    OBVIOUS
  <2>2. Level(P[t]) = 4 /\ Level(P[u]) = 4
    BY <1>2, <1>3, <2>1, Naming
  <2> QED
    BY <2>2 DEF Tree, OneEntry
<1>4. CASE Level(P[f]) # 0
  <2>1. P[f] = ChildPlace(P[t], i) /\ P[f] = ChildPlace(P[u], j)
    BY <1>2, <1>4, Naming
  <2>2. P[t] \in PlaceSeq /\ P[u] \in PlaceSeq
    BY DEF Tree, Types
  <2>3. ~Shared(P[t], i)
    BY <1>1 DEF Tree, RootsShare, Static, Shared
  <2>4. P[t] = P[u] /\ i = j
    BY <2>1, <2>2, <2>3, ChildInjective
  <2> QED
    BY <2>4 DEF Tree, Places
<1> QED
  BY <1>3, <1>4

LEMMA TreeHasOneUse ==
  ASSUME Tree(entries, free, held, place), Accounted(entries, free, held, place)
  PROVE  EveryFrameHasOneUse
<1> SUFFICES ASSUME NEW f \in Frames
             PROVE  \/ /\ f \in (free \cup held \cup Roots) /\ Parents(f) = {}
                       /\ ~(f \in free /\ f \in held)
                       /\ f \in Roots => f \notin (free \cup held)
                    \/ /\ f \notin (free \cup held \cup Roots)
                       /\ \E x \in Parents(f) : Parents(f) = {x}
  BY DEF EveryFrameHasOneUse
<1>1. f \in Tables /\ f # RAM /\ f \notin Static
  BY NodesAssumption DEF Tables
<1>2. \A x \in Parents(f) :
        /\ x = <<x[1], x[2]>> /\ x[1] \in Tables /\ x[2] \in Index
        /\ Level(place[x[1]]) # 0
        /\ entries[x[1]][x[2]].present /\ entries[x[1]][x[2]].address = f
  BY InUseLevel DEF Parents
<1>3. f \in Roots <=> Level(place[f]) = 1
  BY RootLevel
<1>4. CASE f \in free \cup held \cup Roots
  <2>1. Parents(f) = {}
    <3> SUFFICES ASSUME NEW x \in Parents(f) PROVE FALSE
      OBVIOUS
    <3>1. entries[x[1]][x[2]] # BigPage
      BY <1>1, <1>2 DEF BigPage, Entry
    <3>2. f \in Roots /\ Level(place[f]) # 0 /\ Level(place[f]) = Level(place[x[1]]) + 1
          /\ Level(place[x[1]]) \in 1 .. 3
      BY <1>2, <1>3, <1>4, <3>1, Naming
    <3> QED
      BY <1>3, <3>2
  <2>2. ~(f \in free /\ f \in held)
    BY DEF Tree, Types
  <2>3. f \in Roots => f \notin (free \cup held)
    BY <1>3 DEF Tree, Places
  <2> QED
    BY <1>4, <2>1, <2>2, <2>3
<1>5. CASE f \notin free \cup held \cup Roots
  <2>1. Named(entries, place, f)
    BY <1>1, <1>3, <1>5 DEF Tree, Hangs, Accounted
  <2>2. PICK t \in Tables, i \in Index :
          Level(place[t]) # 0 /\ entries[t][i].present /\ entries[t][i].address = f
    BY <2>1 DEF Named
  <2>3. <<t, i>> \in Parents(f)
    BY <2>2, InUseLevel DEF Parents
  <2>4. ASSUME NEW x \in Parents(f)
        PROVE  x = <<t, i>>
    BY <1>2, <2>2, <2>4, NamedOnce
  <2> QED
    BY <1>5, <2>3, <2>4
<1> QED
  BY <1>4, <1>5

----------------------------------------------------------------------------
(* Changes of the tables, each applied to memory that is a tree.           *)

Written(E, t, i, e)  == [E EXCEPT ![t][i] = e]
Filled(E, f, table)  == [E EXCEPT ![f] = table]
PutAt(P, f, q)       == [P EXCEPT ![f] = q]
Hung(E, t, i, f)     == Written(Filled(E, f, ZeroTable), t, i, TableEntry(f))
Empty(E, t)          == \A i \in Index : ~E[t][i].present

(* No page is mapped or unmapped, no space comes or goes.                  *)
SamePages(E, P, E2, P2) ==
  \A u \in Tables :
    /\ Level(P[u]) = 1 <=> Level(P2[u]) = 1
    /\ \A i \in Index :
         /\ Level(P[u]) = 4 /\ E[u][i].present <=> Level(P2[u]) = 4 /\ E2[u][i].present
         /\ Level(P[u]) = 4 /\ E[u][i].present => P2[u] = P[u] /\ E2[u][i] = E[u][i]

LEMMA SamePagesCompose ==
  ASSUME NEW E, NEW P, NEW E2, NEW P2, NEW E3, NEW P3,
         SamePages(E, P, E2, P2), SamePages(E2, P2, E3, P3)
  PROVE  SamePages(E, P, E3, P3)
  BY DEF SamePages

EntryTables == [Tables -> [Index -> EntryType]]

LEMMA WriteFacts ==
  ASSUME NEW E \in EntryTables, NEW t \in Tables, NEW i \in Index, NEW e \in EntryType
  PROVE  /\ [E EXCEPT ![t][i] = e] \in EntryTables
         /\ \A u \in Tables, j \in Index :
              [E EXCEPT ![t][i] = e][u][j] = IF u = t /\ j = i THEN e ELSE E[u][j]
  BY DEF EntryTables

LEMMA EntryTypes ==
  /\ Zero \in EntryType /\ ~Zero.present /\ Zero.address = NULL
  /\ BigPage \in EntryType /\ BigPage.present /\ BigPage.address = RAM
  /\ \A t \in Tables : /\ TableEntry(t) \in EntryType /\ TableEntry(t).present
                       /\ ~TableEntry(t).big /\ TableEntry(t).address = t
                       /\ TableEntry(t).user
  /\ \A f \in Frames, b \in BOOLEAN : /\ PageEntry(f, b) \in EntryType /\ PageEntry(f, b).present
                                      /\ PageEntry(f, b).address = f
  BY DEF Zero, BigPage, TableEntry, PageEntry, Entry, EntryType, Nodes, Tables

LEMMA TableTypes ==
  /\ ZeroTable \in [Index -> EntryType] /\ Garbage \in [Index -> EntryType]
  /\ RootTable \in [Index -> EntryType]
<1>1. ZeroTable \in [Index -> EntryType]
  BY EntryTypes DEF ZeroTable
<1>2. Garbage \in [Index -> EntryType]
  BY DEF Garbage, Entry, EntryType, Nodes
<1>3. kernel_pagedirtable \in Tables /\ kernel_linear \in Tables
  BY DEF Tables, Static
<1>4. Entry(kernel_linear, TRUE, FALSE, FALSE) \in EntryType
  BY <1>3 DEF Entry, EntryType, Nodes
<1>5. RootTable \in [Index -> EntryType]
  BY <1>3, <1>4, EntryTypes DEF RootTable
<1> QED
  BY <1>1, <1>2, <1>5

(* Setting an entry of the last level.                                     *)
LEMMA MapKeepsTree ==
  ASSUME NEW E, NEW F, NEW H, NEW P, Tree(E, F, H, P),
         NEW t \in Tables, NEW i \in Index, Level(P[t]) = 4, NEW f \in H
  PROVE  /\ Tree(Written(E, t, i, PageEntry(f, UserHalf(P[t]))), F, H \ {f}, P)
         /\ Accounted(E, F, H, P) /\ ~E[t][i].present =>
              Accounted(Written(E, t, i, PageEntry(f, UserHalf(P[t]))), F, H \ {f}, P)
<1> DEFINE e  == PageEntry(f, UserHalf(P[t]))
           E2 == [E EXCEPT ![t][i] = e]
<1>1. /\ E \in EntryTables /\ f \in Frames /\ f \in Tables /\ f \notin F
      /\ f \notin Static /\ Level(P[f]) = 0
  BY NodesAssumption DEF Tree, Types, EntryTables, Tables, Places
<1>2. UserHalf(P[t]) \in BOOLEAN
  BY DEF UserHalf
<1>3. e \in EntryType /\ e.present /\ e.address = f
  BY <1>1, <1>2, EntryTypes
<1>4. /\ E2 \in EntryTables
      /\ \A u \in Tables, j \in Index : E2[u][j] = IF u = t /\ j = i THEN e ELSE E[u][j]
  BY <1>1, <1>3, WriteFacts
<1> HIDE DEF e, E2
<1>5. Types(E2, F, H \ {f}, P)
  BY <1>4 DEF Tree, Types, EntryTables
<1>6. Places(F, H \ {f}, P)
  BY DEF Tree, Places
<1>7. RootsShare(E2, P)
  <2>1. \A u \in Tables, j \in Index : Level(P[u]) = 1 => E2[u][j] = E[u][j]
    BY <1>4
  <2>2. LINEAR \in Index /\ KERNEL \in Index
    BY PagesAssumption
  <2> QED
    BY <2>1, <2>2 DEF Tree, RootsShare
<1>8. ASSUME NEW u \in Tables, NEW j \in Index, Level(P[u]) # 0
      PROVE  EntryFits(E2, F, H \ {f}, P, u, j)
  <2>1. CASE u = t /\ j = i
    <3>1. E2[u][j] = PageEntry(f, UserHalf(P[u])) /\ E2[u][j].address = f
      BY <1>3, <1>4, <2>1 DEF e
    <3> QED
      BY <1>1, <2>1, <3>1 DEF EntryFits
  <2>2. CASE ~(u = t /\ j = i)
    <3>1. E2[u][j] = E[u][j]
      BY <1>4, <2>2
    <3>2. EntryFits(E, F, H, P, u, j)
      BY <1>8 DEF Tree
    <3> QED
      BY <3>1, <3>2 DEF EntryFits
  <2> QED
    BY <2>1, <2>2
<1>9. OneEntry(E2, P)
  <2> SUFFICES ASSUME NEW u \in Tables, NEW v \in Tables, NEW j \in Index, NEW k \in Index,
                      Level(P[u]) = 4, E2[u][j].present, Level(P[v]) = 4, E2[v][k].present,
                      E2[u][j].address = E2[v][k].address
               PROVE  u = v /\ j = k
    BY DEF OneEntry
  <2>1. ASSUME NEW w \in Tables, NEW l \in Index, Level(P[w]) = 4, E2[w][l].present,
               ~(w = t /\ l = i)
        PROVE  E[w][l].present /\ E2[w][l] = E[w][l] /\ E2[w][l].address # f
    <3>1. E2[w][l] = E[w][l]
      BY <1>4, <2>1
    <3>2. E[w][l] = BigPage \/ E[w][l].address \in Tables \ (F \cup H)
          \/ E[w][l].address \in Frames \ (F \cup H)
      BY <2>1, <3>1, Naming
    <3>3. BigPage.address # f
      BY <1>1, EntryTypes, NodesAssumption
    <3> QED
      BY <2>1, <3>1, <3>2, <3>3
  <2>2. E2[t][i].address = f
    BY <1>3, <1>4
  <2>3. CASE ~(u = t /\ j = i) /\ ~(v = t /\ k = i)
    BY <2>1, <2>3 DEF Tree, OneEntry
  <2> QED
    BY <2>1, <2>2, <2>3
<1>10. Hangs(E2, P)
  <2> SUFFICES ASSUME NEW g \in Tables, Level(P[g]) \notin {0, 1}
               PROVE  Named(E2, P, g)
    BY DEF Hangs
  <2>1. PICK v \in Tables, j \in Index :
          Level(P[v]) # 0 /\ E[v][j].present /\ E[v][j].address = g
    BY DEF Tree, Hangs, Named
  <2>2. ~(v = t /\ j = i)
    <3>1. E[v][j] # BigPage
      BY <2>1, EntryTypes, NodesAssumption
    <3>2. Level(P[v]) # 4
      BY <2>1, <3>1, Naming
    <3> QED
      BY <3>2
  <2> QED
    BY <1>4, <2>1, <2>2 DEF Named
<1>12. ASSUME Accounted(E, F, H, P), ~E[t][i].present
       PROVE  Accounted(E2, F, H \ {f}, P)
  <2> SUFFICES ASSUME NEW g \in Frames \ (F \cup (H \ {f})), Level(P[g]) = 0
               PROVE  Named(E2, P, g)
    BY DEF Accounted
  <2>1. CASE g = f
    BY <1>3, <1>4, <2>1 DEF Named
  <2>2. CASE g # f
    <3>1. Named(E, P, g)
      BY <1>12, <2>2 DEF Accounted
    <3> QED
      BY <1>4, <1>12, <3>1 DEF Named
  <2> QED
    BY <2>1, <2>2
<1>11. BigPages(E2)
  BY <1>4, StaticLevels, KernelPlaces DEF Tree, BigPages
<1> QED
  BY <1>5, <1>6, <1>7, <1>8, <1>9, <1>10, <1>11, <1>12 DEF Tree, e, E2, Written

(* Clearing one, and what was mapped is the caller's.                      *)
LEMMA UnmapKeepsTree ==
  ASSUME NEW E, NEW F, NEW H, NEW P, Tree(E, F, H, P),
         NEW t \in Tables, NEW i \in Index, Level(P[t]) = 4,
         NEW H2, H2 = IF E[t][i].address = NULL THEN H ELSE H \cup {E[t][i].address}
  PROVE  /\ Tree(Written(E, t, i, Zero), F, H2, P)
         /\ Accounted(E, F, H, P) => Accounted(Written(E, t, i, Zero), F, H2, P)
<1> DEFINE E2 == [E EXCEPT ![t][i] = Zero]
           f  == E[t][i].address
<1>1. E \in EntryTables
  BY DEF Tree, Types, EntryTables
<1>2. /\ E2 \in EntryTables
      /\ \A u \in Tables, j \in Index : E2[u][j] = IF u = t /\ j = i THEN Zero ELSE E[u][j]
  BY <1>1, EntryTypes, WriteFacts
<1> HIDE DEF E2
<1>3. \/ E[t][i] = Zero /\ H2 = H
      \/ /\ E[t][i].present /\ f \in Frames \ (F \cup H) /\ f \in Tables
         /\ Level(P[f]) = 0 /\ H2 = H \cup {f}
  <2>1. t \notin {kernel_pagedir, kernel_linear}
    BY StaticLevels
  <2>2. EntryFits(E, F, H, P, t, i)
    BY DEF Tree
  <2>3. E[t][i] = Zero \/ (/\ f \in Frames \ (F \cup H) /\ Level(P[f]) = 0
                           /\ E[t][i] = PageEntry(f, UserHalf(P[t])))
    BY <2>1, <2>2 DEF EntryFits
  <2>4. CASE E[t][i] = Zero
    BY <2>4, EntryTypes
  <2>5. CASE /\ f \in Frames \ (F \cup H) /\ Level(P[f]) = 0
             /\ E[t][i] = PageEntry(f, UserHalf(P[t]))
    <3>1. UserHalf(P[t]) \in BOOLEAN
      BY DEF UserHalf
    <3>2. f # NULL /\ f \in Tables
      BY <2>5, NodesAssumption DEF Tables
    <3> QED
      BY <2>5, <3>1, <3>2, EntryTypes
  <2> QED
    BY <2>3, <2>4, <2>5
<1>4. Types(E2, F, H2, P)
  BY <1>2, <1>3 DEF Tree, Types, EntryTables
<1>5. Places(F, H2, P)
  BY <1>3 DEF Tree, Places
<1>6. RootsShare(E2, P)
  <2>1. \A u \in Tables, j \in Index : Level(P[u]) = 1 => E2[u][j] = E[u][j]
    BY <1>2
  <2>2. LINEAR \in Index /\ KERNEL \in Index
    BY PagesAssumption
  <2> QED
    BY <2>1, <2>2 DEF Tree, RootsShare
<1>7. ASSUME NEW u \in Tables, NEW j \in Index, Level(P[u]) # 0
      PROVE  EntryFits(E2, F, H2, P, u, j)
  <2>1. CASE u = t /\ j = i
    BY <1>2, <2>1 DEF EntryFits
  <2>2. CASE ~(u = t /\ j = i)
    <3>1. E2[u][j] = E[u][j]
      BY <1>2, <2>2
    <3>2. EntryFits(E, F, H, P, u, j)
      BY <1>7 DEF Tree
    <3>3. ASSUME Level(P[u]) = 4, E[u][j] = PageEntry(E[u][j].address, UserHalf(P[u])),
                 E[u][j].address \in Frames \ (F \cup H)
          PROVE  E[u][j].address \notin F \cup H2
      <4>1. UserHalf(P[u]) \in BOOLEAN
        BY DEF UserHalf
      <4>2. E[u][j].present
        BY <3>3, <4>1, EntryTypes
      <4>3. E[t][i].present => E[u][j].address # f
        BY <2>2, <3>3, <4>2 DEF Tree, OneEntry
      <4> QED
        BY <1>3, <3>3, <4>3
    <3> QED
      BY <3>1, <3>2, <3>3 DEF EntryFits
  <2> QED
    BY <2>1, <2>2
<1>8. OneEntry(E2, P)
  <2>1. \A u \in Tables, j \in Index :
          E2[u][j].present => E[u][j].present /\ E2[u][j] = E[u][j]
    BY <1>2, EntryTypes
  <2> QED
    BY <2>1 DEF Tree, OneEntry
<1>9. Hangs(E2, P)
  <2> SUFFICES ASSUME NEW g \in Tables, Level(P[g]) \notin {0, 1}
               PROVE  Named(E2, P, g)
    BY DEF Hangs
  <2>1. Named(E, P, g)
    BY DEF Tree, Hangs
  <2>2. E[t][i].present => g # f
    BY <1>3, EntryTypes
  <2> QED
    BY <1>2, <2>1, <2>2 DEF Named
<1>11. ASSUME Accounted(E, F, H, P)
       PROVE  Accounted(E2, F, H2, P)
  <2> SUFFICES ASSUME NEW g \in Frames \ (F \cup H2), Level(P[g]) = 0
               PROVE  Named(E2, P, g)
    BY DEF Accounted
  <2>1. g \notin F \cup H /\ (E[t][i].present => g # f)
    BY <1>3, EntryTypes
  <2>2. Named(E, P, g)
    BY <1>11, <2>1 DEF Accounted
  <2> QED
    BY <1>2, <2>1, <2>2 DEF Named
<1>10. BigPages(E2)
  BY <1>2, StaticLevels, KernelPlaces DEF Tree, BigPages
<1> QED
  BY <1>4, <1>5, <1>6, <1>7, <1>8, <1>9, <1>10, <1>11 DEF Tree, E2, Written

(* The clients' frames: a frame that is no table may hold anything.        *)
LEMMA AllocKeepsTree ==
  ASSUME NEW E, NEW F, NEW H, NEW P, Tree(E, F, H, P), NEW f \in F
  PROVE  /\ Tree(Filled(E, f, Garbage), F \ {f}, H \cup {f}, P)
         /\ Accounted(E, F, H, P) => Accounted(Filled(E, f, Garbage), F \ {f}, H \cup {f}, P)
<1> DEFINE E2 == [E EXCEPT ![f] = Garbage]
<1>1. /\ f \in Frames /\ f \in Tables /\ f \notin H /\ Level(P[f]) = 0
      /\ E \in EntryTables
  BY DEF Tree, Types, Places, Tables, EntryTables
<1>2. /\ E2 \in EntryTables
      /\ \A u \in Tables : Level(P[u]) # 0 => E2[u] = E[u]
  BY <1>1, TableTypes DEF EntryTables
<1> HIDE DEF E2
<1>3. Types(E2, F \ {f}, H \cup {f}, P)
  BY <1>1, <1>2 DEF Tree, Types, EntryTables
<1>4. Places(F \ {f}, H \cup {f}, P)
  BY <1>1 DEF Tree, Places
<1>5. RootsShare(E2, P)
  BY <1>2 DEF Tree, RootsShare
<1>6. ASSUME NEW u \in Tables, NEW j \in Index, Level(P[u]) # 0
      PROVE  EntryFits(E2, F \ {f}, H \cup {f}, P, u, j)
  <2>1. E2[u][j] = E[u][j] /\ EntryFits(E, F, H, P, u, j)
    BY <1>2, <1>6 DEF Tree
  <2>2. (F \ {f}) \cup (H \cup {f}) = F \cup H
    OBVIOUS
  <2> QED
    BY <2>1, <2>2 DEF EntryFits
<1>7. OneEntry(E2, P)
  BY <1>2 DEF Tree, OneEntry
<1>8. /\ Hangs(E2, P)
      /\ Accounted(E, F, H, P) => Accounted(E2, F \ {f}, H \cup {f}, P)
  <2>1. \A g : Named(E, P, g) => Named(E2, P, g)
    BY <1>2 DEF Named
  <2> QED
    BY <2>1 DEF Tree, Hangs, Accounted
<1>9. BigPages(E2)
  BY <1>2, StaticLevels, KernelPlaces DEF Tree, BigPages
<1> QED
  BY <1>3, <1>4, <1>5, <1>6, <1>7, <1>8, <1>9 DEF Tree, E2, Filled

LEMMA DeallocKeepsTree ==
  ASSUME NEW E, NEW F, NEW H, NEW P, Tree(E, F, H, P), NEW f \in H
  PROVE  /\ Tree(E, F \cup {f}, H \ {f}, P)
         /\ Accounted(E, F, H, P) => Accounted(E, F \cup {f}, H \ {f}, P)
<1>1. (F \cup {f}) \cup (H \ {f}) = F \cup H
  OBVIOUS
<1>2. Types(E, F \cup {f}, H \ {f}, P) /\ Places(F \cup {f}, H \ {f}, P)
  BY DEF Tree, Types, Places
<1>3. ASSUME NEW u \in Tables, NEW j \in Index, Level(P[u]) # 0
      PROVE  EntryFits(E, F \cup {f}, H \ {f}, P, u, j)
  BY <1>1, <1>3 DEF Tree, EntryFits
<1>4. Accounted(E, F, H, P) => Accounted(E, F \cup {f}, H \ {f}, P)
  BY <1>1 DEF Accounted
<1> QED
  BY <1>2, <1>3, <1>4 DEF Tree

(* A frame that becomes the root of a space.                               *)
LEMMA CreateKeepsTree ==
  ASSUME NEW E, NEW F, NEW H, NEW P, Tree(E, F, H, P), NEW f \in F
  PROVE  /\ Tree(Filled(E, f, RootTable), F \ {f}, H, PutAt(P, f, Top(f)))
         /\ Accounted(E, F, H, P) =>
              Accounted(Filled(E, f, RootTable), F \ {f}, H, PutAt(P, f, Top(f)))
<1> DEFINE E2 == [E EXCEPT ![f] = RootTable]
           P2 == [P EXCEPT ![f] = Top(f)]
<1>1. /\ f \in Frames /\ f \in Tables /\ f \notin H /\ Level(P[f]) = 0
      /\ f \notin Static /\ E \in EntryTables /\ P \in [Tables -> PlaceSeq]
  BY NodesAssumption DEF Tree, Types, Places, Tables, EntryTables
<1>2. E2 \in EntryTables /\ \A u \in Tables : E2[u] = IF u = f THEN RootTable ELSE E[u]
  BY <1>1, TableTypes DEF EntryTables
<1>3. Top(f) \in PlaceSeq /\ Level(Top(f)) = 1
  BY <1>1, TopFacts
<1>4. P2 \in [Tables -> PlaceSeq] /\ \A u \in Tables : P2[u] = IF u = f THEN Top(f) ELSE P[u]
  BY <1>1, <1>3
<1>5. /\ LINEAR \in Index /\ KERNEL \in Index /\ LINEAR # KERNEL
      /\ kernel_linear \in Tables /\ kernel_pagedirtable \in Tables
      /\ kernel_pml4 \in Tables /\ kernel_pagedir \in Tables
      /\ f \notin {kernel_pml4, kernel_pagedirtable, kernel_pagedir, kernel_linear}
  BY <1>1, PagesAssumption DEF Tables, Static, LINEAR, KERNEL
<1>6. /\ RootTable[LINEAR] = Entry(kernel_linear, TRUE, FALSE, FALSE)
      /\ RootTable[KERNEL] = TableEntry(kernel_pagedirtable)
      /\ \A j \in Index \ {LINEAR, KERNEL} : RootTable[j] = Zero
  BY <1>5 DEF RootTable
<1> HIDE DEF E2, P2
<1>7. Types(E2, F \ {f}, H, P2)
  BY <1>1, <1>2, <1>3, <1>4 DEF Tree, Types, EntryTables
<1>8. Places(F \ {f}, H, P2)
  <2>1. ASSUME NEW t \in Tables, Level(P2[t]) = 1
        PROVE  P2[t] = Top(t)
    BY <1>4, <2>1 DEF Tree, Places
  <2>2. ASSUME NEW t \in Tables, NEW u \in Tables, Level(P2[t]) # 0, P2[t] = P2[u]
        PROVE  t = u
    <3>1. CASE t # f /\ u # f
      BY <1>4, <2>2, <3>1 DEF Tree, Places
    <3>2. CASE t = f \/ u = f
      <4>1. P2[t] = Top(f) /\ P2[u] = Top(f)
        BY <1>4, <2>2, <3>2
      <4>2. Top(t) = Top(f) /\ Top(u) = Top(f)
        BY <1>3, <2>1, <4>1
      <4> QED
        BY <4>2, TopInjective
    <3> QED
      BY <3>1, <3>2
  <2>3. \A t \in (F \ {f}) \cup H : Level(P2[t]) = 0
    BY <1>1, <1>4 DEF Tree, Types, Places, Tables
  <2>4. /\ P2[kernel_pml4] = P[kernel_pml4] /\ P2[kernel_pagedirtable] = P[kernel_pagedirtable]
        /\ P2[kernel_pagedir] = P[kernel_pagedir] /\ P2[kernel_linear] = P[kernel_linear]
    BY <1>4, <1>5
  <2> QED
    BY <2>1, <2>2, <2>3, <2>4 DEF Tree, Places
<1>9. RootsShare(E2, P2)
  <2> SUFFICES ASSUME NEW t \in Tables, Level(P2[t]) = 1
               PROVE  /\ E2[t][LINEAR].present /\ E2[t][LINEAR].address = kernel_linear
                      /\ E2[t][KERNEL].present /\ E2[t][KERNEL].address = kernel_pagedirtable
    BY DEF RootsShare
  <2>1. CASE t = f
    BY <1>2, <1>5, <1>6, <2>1, EntryTypes DEF Entry
  <2>2. CASE t # f
    BY <1>2, <1>4, <2>2 DEF Tree, RootsShare
  <2> QED
    BY <2>1, <2>2
<1>10. ASSUME NEW t \in Tables, NEW i \in Index, Level(P2[t]) # 0
       PROVE  EntryFits(E2, F \ {f}, H, P2, t, i)
  <2>1. CASE t = f
    <3>1. Level(P2[f]) = 1 /\ P2[f] = Top(f) /\ E2[f] = RootTable
      BY <1>1, <1>2, <1>3, <1>4
    <3>2. \A n \in {1} : n \in 1 .. 3
      OBVIOUS
    <3>3. \A g \in {kernel_linear, kernel_pagedirtable} : P2[g] = P[g]
      BY <1>4, <1>5
    <3>4. CASE i \in {LINEAR, KERNEL}
      <4> DEFINE g == IF i = LINEAR THEN kernel_linear ELSE kernel_pagedirtable
      <4>1. RootTable[i].address = g /\ RootTable[i].present /\ ~RootTable[i].big /\ g \in Tables
            /\ (RootTable[i].user <=> i # LINEAR)
        BY <1>5, <1>6, <3>4, EntryTypes DEF Entry
      <4>2. <<kernel_pml4, i>> = P[g]
        <5>1. Shared(Top(kernel_pml4), i)
          BY <1>5, <3>4, TopFacts DEF Shared
        <5>2. ChildPlace(Top(kernel_pml4), i) = <<kernel_pml4, i>>
          BY <5>1, ChildOfShared
        <5> QED
          BY <1>5, <3>4, <5>2 DEF Tree, Places
      <4>3. Shared(P2[f], i)
        BY <3>1, <3>4 DEF Shared
      <4>4. ChildPlace(P2[f], i) = P2[g]
        BY <3>3, <4>2, <4>3, ChildOfShared
      <4> QED
        BY <1>5, <2>1, <3>1, <3>2, <4>1, <4>4 DEF EntryFits
    <3>5. CASE i \notin {LINEAR, KERNEL}
      BY <1>6, <2>1, <3>1, <3>5 DEF EntryFits
    <3> QED
      BY <3>4, <3>5
  <2>2. CASE t # f
    <3>1. E2[t][i] = E[t][i] /\ P2[t] = P[t] /\ EntryFits(E, F, H, P, t, i)
      BY <1>2, <1>4, <1>10, <2>2 DEF Tree
    <3>2. CASE /\ Level(P[t]) \in 1 .. 3 /\ t \notin {kernel_pagedir, kernel_linear}
               /\ E[t][i].present /\ ~E[t][i].big
               /\ E[t][i].address \in Tables
               /\ P[E[t][i].address] = ChildPlace(P[t], i)
      <4>1. Level(P[E[t][i].address]) # 0
        <5>1. Level(P[E[t][i].address]) = Level(P[t]) + 1
          BY <1>1, <3>2, ChildLevel
        <5> QED
          BY <3>2, <5>1
      <4>2. P2[E[t][i].address] = P[E[t][i].address]
        BY <1>1, <1>4, <3>2, <4>1
      <4> QED
        BY <3>1, <3>2, <4>2 DEF EntryFits
    <3>3. CASE /\ Level(P[t]) = 4
               /\ E[t][i] = PageEntry(E[t][i].address, UserHalf(P[t]))
               /\ E[t][i].address \in Frames \ (F \cup H)
               /\ Level(P[E[t][i].address]) = 0
      <4>1. P2[E[t][i].address] = P[E[t][i].address]
        BY <1>4, <3>3 DEF Tables
      <4> QED
        BY <3>1, <3>3, <4>1 DEF EntryFits
    <3> QED
      BY <3>1, <3>2, <3>3 DEF EntryFits
  <2> QED
    BY <2>1, <2>2
<1>11. OneEntry(E2, P2)
  <2>1. \A t \in Tables : Level(P2[t]) = 4 => t # f /\ P2[t] = P[t] /\ E2[t] = E[t]
    BY <1>2, <1>3, <1>4
  <2> QED
    BY <2>1 DEF Tree, OneEntry
<1>12. /\ Hangs(E2, P2)
       /\ Accounted(E, F, H, P) => Accounted(E2, F \ {f}, H, P2)
  <2>1. \A g : Named(E, P, g) => Named(E2, P2, g)
    BY <1>1, <1>2, <1>4 DEF Named
  <2>2. Hangs(E2, P2)
    BY <1>3, <1>4, <2>1 DEF Tree, Hangs
  <2>3. Accounted(E, F, H, P) => Accounted(E2, F \ {f}, H, P2)
    BY <1>3, <1>4, <2>1 DEF Accounted, Tables
  <2> QED
    BY <2>2, <2>3
<1>13. BigPages(E2)
  BY <1>2, <1>5 DEF Tree, BigPages
<1> QED
  BY <1>7, <1>8, <1>9, <1>10, <1>11, <1>12, <1>13 DEF Tree, E2, P2, Filled, PutAt

(* A table hung below one that has no entry there: nothing hangs there yet.*)
LEMMA PlaceIsNew ==
  ASSUME NEW E, NEW F, NEW H, NEW P, Tree(E, F, H, P),
         NEW t \in Tables, NEW i \in Index, Level(P[t]) # 0, ~E[t][i].present,
         NEW u \in Tables
  PROVE  P[u] # ChildPlace(P[t], i) /\ ~Shared(P[t], i)
<1>1. P[t] \in PlaceSeq /\ P[u] \in PlaceSeq
  BY DEF Tree, Types
<1>2. Level(P[t]) \in Nat /\ Level(ChildPlace(P[t], i)) = Level(P[t]) + 1
  BY <1>1, LevelZero, ChildLevel
<1>3. ~Shared(P[t], i)
  BY DEF Tree, RootsShare, Shared
<1>4. SUFFICES ASSUME P[u] = ChildPlace(P[t], i) PROVE FALSE
  BY <1>3
<1>5. Level(P[u]) # 0 /\ Level(P[u]) # 1
  BY <1>2, <1>4
<1>7. Named(E, P, u)
  BY <1>5 DEF Tree, Hangs
<1>8. PICK v \in Tables, j \in Index :
        Level(P[v]) # 0 /\ E[v][j].present /\ E[v][j].address = u
  BY <1>7 DEF Named
<1>9. E[v][j] # BigPage
  BY <1>8, EntryTypes, NodesAssumption
<1>10. P[u] = ChildPlace(P[v], j)
  BY <1>5, <1>8, <1>9, Naming
<1>11. P[v] \in PlaceSeq
  BY DEF Tree, Types
<1>12. P[v] = P[t] /\ j = i
  BY <1>1, <1>3, <1>4, <1>10, <1>11, ChildInjective
<1>13. v = t
  BY <1>12 DEF Tree, Places
<1> QED
  BY <1>8, <1>12, <1>13

LEMMA HangKeepsTree ==
  ASSUME NEW E, NEW F, NEW H, NEW P, Tree(E, F, H, P),
         NEW t \in Tables, NEW i \in Index, Level(P[t]) \in 1 .. 3,
         t \notin {kernel_pagedir, kernel_linear}, ~E[t][i].present, NEW f \in F
  PROVE  /\ Tree(Hung(E, t, i, f), F \ {f}, H, PutAt(P, f, ChildPlace(P[t], i)))
         /\ Accounted(E, F, H, P) =>
              Accounted(Hung(E, t, i, f), F \ {f}, H, PutAt(P, f, ChildPlace(P[t], i)))
         /\ f \in Tables /\ Empty(Hung(E, t, i, f), f)
         /\ SamePages(E, P, Hung(E, t, i, f), PutAt(P, f, ChildPlace(P[t], i)))
<1> DEFINE E1 == [E EXCEPT ![f] = ZeroTable]
           E2 == [E1 EXCEPT ![t][i] = TableEntry(f)]
           q  == ChildPlace(P[t], i)
           P2 == [P EXCEPT ![f] = q]
<1>1. /\ f \in Frames /\ f \in Tables /\ f \notin H /\ Level(P[f]) = 0 /\ f # t
      /\ f \notin Static /\ E \in EntryTables /\ P \in [Tables -> PlaceSeq]
      /\ Level(P[t]) # 0
  BY NodesAssumption DEF Tree, Types, Places, Tables, EntryTables
<1>2. E1 \in EntryTables /\ \A u \in Tables : E1[u] = IF u = f THEN ZeroTable ELSE E[u]
  BY <1>1, TableTypes DEF EntryTables
<1>3. TableEntry(f) \in EntryType
  BY <1>1, EntryTypes
<1>4. /\ E2 \in EntryTables
      /\ \A u \in Tables, j \in Index : E2[u][j] = IF u = t /\ j = i THEN TableEntry(f) ELSE E1[u][j]
  <2> HIDE DEF E1
  <2> QED
    BY <1>2, <1>3, WriteFacts
<1>5. \A u \in Tables, j \in Index :
        E2[u][j] = IF u = t /\ j = i THEN TableEntry(f) ELSE IF u = f THEN Zero ELSE E[u][j]
  <2>1. \A j \in Index : ZeroTable[j] = Zero
    BY DEF ZeroTable
  <2> HIDE DEF E1, E2
  <2> QED
    BY <1>2, <1>4, <2>1
<1>6. q \in PlaceSeq /\ Level(q) = Level(P[t]) + 1 /\ Level(q) \in 2 .. 4
  <2>1. q \in PlaceSeq /\ Level(q) = Level(P[t]) + 1
    BY <1>1, ChildLevel
  <2> QED
    BY <2>1
<1>7. ~Shared(P[t], i) /\ \A u \in Tables : P[u] # q
  BY <1>1, PlaceIsNew
<1>8. P2 \in [Tables -> PlaceSeq] /\ \A u \in Tables : P2[u] = IF u = f THEN q ELSE P[u]
  BY <1>1, <1>6
<1>9. Level(q) # 0 /\ Level(q) # 1 /\ Level(q) \in 0 .. 4
  BY <1>6
<1> HIDE DEF E1, E2, P2, q
<1>10. Types(E2, F \ {f}, H, P2)
  BY <1>1, <1>4, <1>8, <1>9 DEF Tree, Types, EntryTables
<1>11. Places(F \ {f}, H, P2)
  <2>1. \A u \in Tables : Level(P2[u]) = 1 => P2[u] = Top(u)
    BY <1>8, <1>9 DEF Tree, Places
  <2>2. \A u, v \in Tables : Level(P2[u]) # 0 /\ P2[u] = P2[v] => u = v
    BY <1>7, <1>8 DEF Tree, Places
  <2>3. \A u \in (F \ {f}) \cup H : Level(P2[u]) = 0
    BY <1>1, <1>8 DEF Tree, Types, Places, Tables
  <2>4. /\ P2[kernel_pml4] = P[kernel_pml4] /\ P2[kernel_pagedirtable] = P[kernel_pagedirtable]
        /\ P2[kernel_pagedir] = P[kernel_pagedir] /\ P2[kernel_linear] = P[kernel_linear]
    BY <1>1, <1>8 DEF Tables, Static
  <2> QED
    BY <2>1, <2>2, <2>3, <2>4 DEF Tree, Places
<1>12. RootsShare(E2, P2)
  <2> SUFFICES ASSUME NEW u \in Tables, Level(P2[u]) = 1, NEW j \in {LINEAR, KERNEL}
               PROVE  E2[u][j] = E[u][j] /\ Level(P[u]) = 1
    BY DEF Tree, RootsShare
  <2>1. j \in Index
    BY PagesAssumption
  <2>2. u # f /\ Level(P[u]) = 1
    BY <1>8, <1>9
  <2>3. ~(u = t /\ j = i)
    BY <1>7, <2>2 DEF Shared
  <2> QED
    BY <1>5, <2>1, <2>2, <2>3
<1>13. ASSUME NEW u \in Tables, NEW j \in Index, Level(P2[u]) # 0
       PROVE  EntryFits(E2, F \ {f}, H, P2, u, j)
  <2>1. CASE u = t /\ j = i
    <3>1. E2[u][j] = TableEntry(f) /\ P2[f] = q /\ P2[u] = P[u]
      BY <1>1, <1>5, <1>8, <2>1
    <3>2. E2[u][j].present /\ ~E2[u][j].big /\ E2[u][j].address = f /\ E2[u][j].user
      BY <1>1, <3>1, EntryTypes
    <3>3. ~(Level(P2[u]) = 1 /\ j = LINEAR)
      BY <1>7, <2>1, <3>1 DEF Shared
    <3> QED
      BY <1>1, <2>1, <3>1, <3>2, <3>3 DEF EntryFits, q
  <2>2. CASE ~(u = t /\ j = i) /\ u = f
    BY <1>5, <2>2 DEF EntryFits
  <2>3. CASE ~(u = t /\ j = i) /\ u # f
    <3>1. E2[u][j] = E[u][j] /\ P2[u] = P[u] /\ EntryFits(E, F, H, P, u, j)
      BY <1>5, <1>8, <1>13, <2>3 DEF Tree
    <3>2. CASE /\ Level(P[u]) \in 1 .. 3 /\ u \notin {kernel_pagedir, kernel_linear}
               /\ E[u][j].present /\ ~E[u][j].big
               /\ E[u][j].address \in Tables
               /\ P[E[u][j].address] = ChildPlace(P[u], j)
      <4>1. Level(P[E[u][j].address]) # 0
        <5>1. Level(P[E[u][j].address]) = Level(P[u]) + 1
          BY <1>1, <3>2, ChildLevel
        <5> QED
          BY <3>2, <5>1
      <4>2. P2[E[u][j].address] = P[E[u][j].address]
        BY <1>1, <1>8, <3>2, <4>1
      <4> QED
        BY <3>1, <3>2, <4>2 DEF EntryFits
    <3>3. CASE /\ Level(P[u]) = 4
               /\ E[u][j] = PageEntry(E[u][j].address, UserHalf(P[u]))
               /\ E[u][j].address \in Frames \ (F \cup H)
               /\ Level(P[E[u][j].address]) = 0
      <4>1. P2[E[u][j].address] = P[E[u][j].address]
        BY <1>8, <3>3 DEF Tables
      <4> QED
        BY <3>1, <3>3, <4>1 DEF EntryFits
    <3> QED
      BY <3>1, <3>2, <3>3 DEF EntryFits
  <2> QED
    BY <2>1, <2>2, <2>3
<1>14. OneEntry(E2, P2)
  <2>1. Level(P[t]) # 4
    OBVIOUS
  <2>2. \A u \in Tables, j \in Index : Level(P2[u]) = 4 /\ E2[u][j].present =>
          E2[u][j] = E[u][j] /\ Level(P[u]) = 4
    BY <1>1, <1>5, <1>8, <2>1, EntryTypes
  <2> QED
    BY <2>2 DEF Tree, OneEntry
<1>15. /\ Hangs(E2, P2)
       /\ Accounted(E, F, H, P) => Accounted(E2, F \ {f}, H, P2)
  <2>1. Named(E2, P2, f)
    <3>1. Level(P2[t]) # 0 /\ E2[t][i].present /\ E2[t][i].address = f
      BY <1>1, <1>5, <1>8, EntryTypes
    <3> QED
      BY <3>1 DEF Named
  <2>2. ASSUME NEW g, Named(E, P, g)
        PROVE  Named(E2, P2, g)
    <3>1. PICK v \in Tables, j \in Index :
            Level(P[v]) # 0 /\ E[v][j].present /\ E[v][j].address = g
      BY <2>2 DEF Named
    <3>2. E2[v][j] = E[v][j] /\ P2[v] = P[v]
      BY <1>1, <1>5, <1>8, <3>1
    <3> QED
      BY <3>1, <3>2 DEF Named
  <2>3. Hangs(E2, P2)
    BY <1>8, <2>1, <2>2 DEF Tree, Hangs
  <2>4. Accounted(E, F, H, P) => Accounted(E2, F \ {f}, H, P2)
    BY <1>8, <2>1, <2>2 DEF Accounted, Tables
  <2> QED
    BY <2>3, <2>4
<1>16. Empty(E2, f)
  BY <1>1, <1>5, EntryTypes DEF Empty
<1>17. BigPages(E2)
  <2>1. f \notin {kernel_pagedir, kernel_linear}
    BY <1>1 DEF Static
  <2> QED
    BY <1>5, <2>1, KernelPlaces DEF Tree, BigPages
<1>18. SamePages(E, P, E2, P2)
  <2> SUFFICES ASSUME NEW u \in Tables
               PROVE  /\ Level(P[u]) = 1 <=> Level(P2[u]) = 1
                      /\ \A j \in Index :
                           /\ Level(P[u]) = 4 /\ E[u][j].present
                                <=> Level(P2[u]) = 4 /\ E2[u][j].present
                           /\ Level(P[u]) = 4 /\ E[u][j].present
                                => P2[u] = P[u] /\ E2[u][j] = E[u][j]
    BY DEF SamePages
  <2>1. CASE u = f
    BY <1>1, <1>8, <1>9, <1>16, <2>1 DEF Empty
  <2>2. CASE u = t
    <3>1. P2[u] = P[u] /\ Level(P[u]) # 4
      BY <1>1, <1>8, <2>2
    <3> QED
      BY <3>1
  <2>3. CASE u # f /\ u # t
    BY <1>5, <1>8, <2>3
  <2> QED
    BY <2>1, <2>2, <2>3
<1> QED
  BY <1>1, <1>10, <1>11, <1>12, <1>13, <1>14, <1>15, <1>16, <1>17, <1>18
  DEF Tree, Hung, Written, Filled, PutAt, E1, E2, P2, q

----------------------------------------------------------------------------
(* resolve_pageentry.  A cursor on its way is at index i of the table with *)
(* the place q; unless it just made that table, it changed nothing, has    *)
(* come to the table T the processor comes to, and W says that the         *)
(* processor comes there.                                                  *)

Yes == TRUE
No  == FALSE

Cursor(E, F, P, t, i) ==
  [entries |-> E, free |-> F, place |-> P, table |-> t, index |-> i, failed |-> No]
Stuck(E, F, P, t, i) ==
  [entries |-> E, free |-> F, place |-> P, table |-> t, index |-> i, failed |-> Yes]

At(c, q, i) ==
  /\ Tree(c.entries, c.free, held, c.place)
  /\ Accounted(entries, free, held, place) => Accounted(c.entries, c.free, held, c.place)
  /\ SamePages(entries, place, c.entries, c.place)
  /\ \/ c.failed = Yes
     \/ /\ c = Cursor(c.entries, c.free, c.place, c.table, i)
        /\ c.table \in Tables /\ c.place[c.table] = q

Walks(c, T, W) ==
  ~c.failed => \/ c.entries = entries /\ c.table = T /\ W
               \/ ~c.entries[c.table][c.index].present

(* The processor goes on below entry i of T.                               *)
Goes(W, T, i) ==
  W /\ T \in Tables /\ entries[T][i].present /\ ~entries[T][i].big

(* The cursor after a new table, now at entry j of it.                     *)
Makes(E, F, P, t, i, j, d) ==
  \E f \in Candidates(F) :
    d = Cursor(Hung(E, t, i, f), F \ {f}, PutAt(P, f, ChildPlace(P[t], i)), f, j)

Moved(c, u, j) == [c EXCEPT !.table = u, !.index = j]

LEMMA CursorMoves ==
  ASSUME NEW E, NEW F, NEW P, NEW t, NEW i, NEW u, NEW j
  PROVE  Moved(Cursor(E, F, P, t, i), u, j) = Cursor(E, F, P, u, j)
<1>1. [Cursor(E, F, P, t, i) EXCEPT !.table = u] = Cursor(E, F, P, u, i)
  BY DEF Cursor
<1>2. [Cursor(E, F, P, u, i) EXCEPT !.index = j] = Cursor(E, F, P, u, j)
  BY DEF Cursor
<1> QED
  BY <1>1, <1>2 DEF Moved

LEMMA FollowFacts ==
  ASSUME NEW E, NEW F, NEW P, NEW t \in Tables, NEW i, NEW j,
         NEW d \in Follow(Cursor(E, F, P, t, i), j), ~E[t][i].big
  PROVE  \/ E[t][i].present /\ d = Cursor(E, F, P, E[t][i].address, j)
         \/ ~E[t][i].present /\ F = {} /\ d = Stuck(E, F, P, t, i)
         \/ ~E[t][i].present /\ Makes(E, F, P, t, i, j, d)
<1> DEFINE c == Cursor(E, F, P, t, i)
<1>1. /\ c.entries = E /\ c.free = F /\ c.place = P /\ c.table = t /\ c.index = i
      /\ c.failed = No
  BY DEF Cursor
<1>2. Read(c.entries, c.table, c.index) = E[t][i]
  BY <1>1 DEF Read
<1>3. CASE E[t][i].present
  <2>1. d = [c EXCEPT !.table = E[t][i].address, !.index = j]
    BY <1>1, <1>2, <1>3 DEF Follow, No, Yes
  <2>2. d = Cursor(E, F, P, E[t][i].address, j)
    BY <2>1 DEF Cursor
  <2> QED
    BY <1>3, <2>2
<1>4. CASE ~E[t][i].present /\ F = {}
  <2>1. d = [c EXCEPT !.failed = Yes]
    BY <1>1, <1>2, <1>4 DEF Follow, No, Yes
  <2>2. d = Stuck(E, F, P, t, i)
    BY <2>1 DEF Cursor, Stuck
  <2> QED
    BY <1>4, <2>2
<1>5. CASE ~E[t][i].present /\ F # {}
  <2>1. PICK f \in Candidates(F) : d = [NewTable(c, f) EXCEPT !.table = f, !.index = j]
    BY <1>1, <1>2, <1>5 DEF Follow, No, Yes
  <2>2. NewTable(c, f) = Cursor(Hung(E, t, i, f), F \ {f},
                                PutAt(P, f, ChildPlace(P[t], i)), t, i)
    <3>1. NewTable(c, f) =
            [c EXCEPT !.entries = [[c.entries EXCEPT ![f] = ZeroTable]
                                     EXCEPT ![c.table][c.index] = TableEntry(f)],
                      !.free  = c.free \ {f},
                      !.place = [c.place EXCEPT ![f] = ChildPlace(c.place[c.table], c.index)]]
      BY DEF NewTable
    <3>2. NewTable(c, f) =
            [c EXCEPT !.entries = Hung(E, t, i, f), !.free = F \ {f},
                      !.place = PutAt(P, f, ChildPlace(P[t], i))]
      BY <1>1, <3>1 DEF Hung, Written, Filled, PutAt
    <3> QED
      BY <3>2 DEF Cursor
  <2>3. d = Cursor(Hung(E, t, i, f), F \ {f},
                   PutAt(P, f, ChildPlace(P[t], i)), f, j)
    <3>1. d = Moved(NewTable(c, f), f, j)
      BY <2>1 DEF Moved
    <3> QED
      BY <2>2, <3>1, CursorMoves
  <2> QED
    BY <1>5, <2>3 DEF Makes
<1> QED
  BY <1>3, <1>4, <1>5

LEMMA CursorHangs ==
  ASSUME NEW E, NEW F, NEW P, NEW t \in Tables, NEW i \in Index, NEW j \in Index,
         Tree(E, F, held, P), SamePages(entries, place, E, P), Level(P[t]) \in 1 .. 3,
         Accounted(entries, free, held, place) => Accounted(E, F, held, P),
         t \notin {kernel_pagedir, kernel_linear}, ~E[t][i].present, NEW f \in Candidates(F),
         NEW d, d = Cursor(Hung(E, t, i, f), F \ {f},
                           PutAt(P, f, ChildPlace(P[t], i)), f, j)
  PROVE  /\ At(d, ChildPlace(P[t], i), j)
         /\ ~d.entries[d.table][d.index].present
<1> DEFINE E2 == Hung(E, t, i, f)
           P2 == PutAt(P, f, ChildPlace(P[t], i))
<1>1. f \in F
  BY CandidatesAssumption DEF Tree, Types
<1>2. /\ Tree(E2, F \ {f}, held, P2)
      /\ Accounted(entries, free, held, place) => Accounted(E2, F \ {f}, held, P2)
      /\ f \in Tables /\ Empty(E2, f) /\ SamePages(E, P, E2, P2)
  BY <1>1, HangKeepsTree
<1>3. P2[f] = ChildPlace(P[t], i)
  BY <1>2 DEF Tree, Types, PutAt
<1> HIDE DEF E2, P2
<1>4. /\ d.entries = E2 /\ d.free = F \ {f} /\ d.place = P2 /\ d.table = f
      /\ d.index = j /\ d.failed = No
  BY DEF Cursor, E2, P2
<1>5. d = Cursor(d.entries, d.free, d.place, d.table, j)
  BY <1>4 DEF E2, P2
<1>6. SamePages(entries, place, E2, P2)
  BY <1>2, SamePagesCompose
<1> QED
  BY <1>2, <1>3, <1>4, <1>5, <1>6 DEF At, Empty

LEMMA FollowGoesDown ==
  ASSUME NEW c, NEW q \in PlaceSeq, NEW i \in Index, NEW j \in Index, NEW T,
         NEW W,
         At(c, q, i), Walks(c, T, W), Level(q) \in 1 .. 3,
         q # ChildPlace(Top(kernel_pml4), LINEAR),
         q # ChildPlace(ChildPlace(Top(kernel_pml4), KERNEL), 510),
         NEW d \in Follow(c, j)
  PROVE  /\ At(d, ChildPlace(q, i), j)
         /\ Walks(d, entries[T][i].address, Goes(W, T, i))
<1> DEFINE E == c.entries  F == c.free  P == c.place  t == c.table
<1>1. CASE c.failed
  <2>1. d = c
    BY <1>1 DEF Follow
  <2>2. c.failed = Yes
    <3>1. c # Cursor(E, F, P, t, i)
      BY <1>1 DEF Cursor, No
    <3> QED
      BY <3>1 DEF At
  <2> QED
    BY <1>1, <2>1, <2>2 DEF At, Walks
<1>2. CASE ~c.failed
  <2>1. /\ c = Cursor(E, F, P, t, i) /\ Tree(E, F, held, P) /\ SamePages(entries, place, E, P)
        /\ Accounted(entries, free, held, place) => Accounted(E, F, held, P)
        /\ t \in Tables /\ P[t] = q /\ c.index = i
    <3>1. c.failed # Yes
      BY <1>2 DEF Yes
    <3>2. /\ c = Cursor(E, F, P, t, i) /\ Tree(E, F, held, P) /\ SamePages(entries, place, E, P)
          /\ Accounted(entries, free, held, place) => Accounted(E, F, held, P)
          /\ t \in Tables /\ P[t] = q
      BY <3>1 DEF At
    <3>3. c.index = i
      BY <3>2 DEF Cursor
    <3> QED
      BY <3>2, <3>3
  <2>2. t \notin {kernel_pagedir, kernel_linear}
    BY <2>1 DEF Tree, Places
  <2>3. Level(P[t]) \in 1 .. 3 /\ Level(P[t]) # 0 /\ Level(P[t]) # 4
    BY <2>1
  <2>4. EntryFits(E, F, held, P, t, i)
    BY <2>1, <2>3 DEF Tree
  <2>5. E[t][i] = Zero \/ (/\ E[t][i].present /\ ~E[t][i].big /\ E[t][i].address \in Tables
                           /\ P[E[t][i].address] = ChildPlace(P[t], i))
    BY <2>2, <2>3, <2>4 DEF EntryFits
  <2>6. ~E[t][i].big
    BY <2>5 DEF Zero, Entry
  <2> HIDE DEF E, F, P, t
  <2>7. CASE E[t][i].present /\ d = Cursor(E, F, P, E[t][i].address, j)
    <3>1. /\ d.entries = E /\ d.free = F /\ d.place = P /\ d.table = E[t][i].address
          /\ d.index = j /\ d.failed = No
      BY <2>7 DEF Cursor
    <3>2. E[t][i].address \in Tables /\ P[E[t][i].address] = ChildPlace(q, i)
      BY <2>1, <2>5, <2>7, EntryTypes
    <3>3. At(d, ChildPlace(q, i), j)
      BY <2>1, <2>7, <3>1, <3>2 DEF At
    <3>4. E = entries /\ t = T /\ W
      BY <1>2, <2>1, <2>7 DEF Walks, E, t
    <3> QED
      BY <2>1, <2>6, <2>7, <3>1, <3>3, <3>4 DEF Walks, Goes
  <2>8. CASE d = Stuck(E, F, P, t, i)
    <3>1. /\ d.entries = E /\ d.free = F /\ d.place = P /\ d.failed = Yes
      BY <2>8 DEF Stuck
    <3> QED
      BY <2>1, <2>8, <3>1 DEF At, Walks, Yes
  <2>9. ASSUME ~E[t][i].present, NEW f \in Candidates(F),
               d = Cursor(Hung(E, t, i, f), F \ {f},
                          PutAt(P, f, ChildPlace(P[t], i)), f, j)
        PROVE  At(d, ChildPlace(q, i), j) /\ 
                 Walks(d, entries[T][i].address, Goes(W, T, i))
    <3>1. At(d, ChildPlace(P[t], i), j) /\ ~d.entries[d.table][d.index].present
      BY <2>1, <2>2, <2>3, <2>9, CursorHangs
    <3> QED
      BY <2>1, <3>1 DEF Walks
  <2>10. d \in Follow(Cursor(E, F, P, t, i), j)
    BY <2>1
  <2>11. \/ E[t][i].present /\ d = Cursor(E, F, P, E[t][i].address, j)
         \/ ~E[t][i].present /\ F = {} /\ d = Stuck(E, F, P, t, i)
         \/ ~E[t][i].present /\ Makes(E, F, P, t, i, j, d)
    BY <2>1, <2>6, <2>10, FollowFacts
  <2> QED
    BY <2>7, <2>8, <2>9, <2>11 DEF Makes
<1> QED
  BY <1>1, <1>2 DEF At

(* The places on the way to page p of the space r: none is a table whose   *)
(* entries are big pages.                                                  *)
Down2(r, p) == ChildPlace(Top(r), p[1])
Down3(r, p) == ChildPlace(Down2(r, p), p[2])
Down4(r, p) == ChildPlace(Down3(r, p), p[3])

LEMMA PathPlaces ==
  ASSUME NEW r \in Tables, NEW p \in Pages
  PROVE  /\ Top(r) \in PlaceSeq /\ Level(Top(r)) = 1
         /\ Down2(r, p) \in PlaceSeq /\ Level(Down2(r, p)) = 2
         /\ Down3(r, p) \in PlaceSeq /\ Level(Down3(r, p)) = 3
         /\ Down4(r, p) \in PlaceSeq /\ Level(Down4(r, p)) = 4
         /\ p[1] \in Index /\ p[2] \in Index /\ p[3] \in Index /\ p[4] \in Index
<1>1. p[1] \in Index /\ p[2] \in Index /\ p[3] \in Index /\ p[4] \in Index
  BY PagesAssumption
<1>2. Top(r) \in PlaceSeq /\ Level(Top(r)) = 1
  BY TopFacts
<1>3. Down2(r, p) \in PlaceSeq /\ Level(Down2(r, p)) = 1 + 1
  BY <1>1, <1>2, ChildLevel DEF Down2
<1>4. Down3(r, p) \in PlaceSeq /\ Level(Down3(r, p)) = 1 + 1 + 1
  BY <1>1, <1>3, ChildLevel DEF Down3
<1>5. Down4(r, p) \in PlaceSeq /\ Level(Down4(r, p)) = 1 + 1 + 1 + 1
  BY <1>1, <1>4, ChildLevel DEF Down4
<1> QED
  BY <1>1, <1>2, <1>3, <1>4, <1>5

BigPlaces == {ChildPlace(Top(kernel_pml4), LINEAR),
              ChildPlace(ChildPlace(Top(kernel_pml4), KERNEL), 510)}

LEMMA PathIsFree ==
  ASSUME NEW r \in Tables, NEW p \in MapPages
  PROVE  /\ p \in Pages
         /\ Top(r) \notin BigPlaces /\ Down2(r, p) \notin BigPlaces /\ Down3(r, p) \notin BigPlaces
         /\ UserHalf(Down4(r, p)) <=> p \in UserPages
<1>1. p \in Pages
  BY DEF MapPages, Pages
<1>2. /\ p[1] \in Index /\ p[2] \in Index /\ p[3] \in Index
      /\ p[1] # LINEAR /\ (p[1] = KERNEL => p[2] # 510)
      /\ p \in UserPages <=> p[1] < LINEAR
  BY <1>1, PagesAssumption DEF MapPages, LINEAR, KERNEL
<1>3. 510 \in Index /\ LINEAR \in Index /\ KERNEL \in Index
  BY PagesAssumption
<1>4. Top(r) \notin BigPlaces
  BY PathPlaces, KernelPlaces, <1>1 DEF BigPlaces
<1>5. Down2(r, p) \notin BigPlaces
  <2>1. Down2(r, p) # ChildPlace(Top(kernel_pml4), LINEAR)
    BY <1>1, <1>2, <1>3, PathPlaces, KernelPlaces, ChildInjective DEF Down2
  <2>2. Down2(r, p) # ChildPlace(ChildPlace(Top(kernel_pml4), KERNEL), 510)
    BY <1>1, PathPlaces, KernelPlaces
  <2> QED
    BY <2>1, <2>2 DEF BigPlaces
<1>6. Down3(r, p) \notin BigPlaces
  <2>1. Down3(r, p) # ChildPlace(Top(kernel_pml4), LINEAR)
    BY <1>1, PathPlaces, KernelPlaces
  <2>2. ASSUME Down3(r, p) = ChildPlace(ChildPlace(Top(kernel_pml4), KERNEL), 510) PROVE FALSE
    <3>1. Down2(r, p) = ChildPlace(Top(kernel_pml4), KERNEL) /\ p[2] = 510
      BY <1>1, <1>2, <1>3, <2>2, PathPlaces, KernelPlaces, ChildOnly DEF Down3
    <3>2. p[1] = KERNEL
      BY <1>1, <1>2, <1>3, <3>1, PathPlaces, KernelPlaces, ChildInjective DEF Down2
    <3> QED
      BY <1>2, <3>1, <3>2
  <2> QED
    BY <2>1, <2>2 DEF BigPlaces
<1>7. UserHalf(Down4(r, p)) <=> p \in UserPages
  <2>1. UserHalf(Down2(r, p)) <=> p[1] < LINEAR
    BY <1>1, <1>2, PathPlaces, ChildHalf DEF Down2
  <2>2. UserHalf(Down3(r, p)) <=> UserHalf(Down2(r, p))
    BY <1>1, <1>2, PathPlaces, ChildHalf DEF Down3
  <2>3. UserHalf(Down4(r, p)) <=> UserHalf(Down3(r, p))
    BY <1>1, <1>2, PathPlaces, ChildHalf DEF Down4
  <2> QED
    BY <1>2, <2>1, <2>2, <2>3
<1> QED
  BY <1>1, <1>4, <1>5, <1>6, <1>7

LEMMA ResolveFinds ==
  ASSUME Tree(entries, free, held, place),
         NEW r \in Tables, Level(place[r]) = 1, NEW p \in MapPages,
         NEW c \in resolve_pageentry(r, p)
  PROVE  /\ At(c, Down4(r, p), p[4])
         /\ Translate(r, p) = Unmapped /\ ~c.failed => ~c.entries[c.table][c.index].present
<1> DEFINE T3 == entries[r][p[1]].address
           T2 == entries[T3][p[2]].address
           T1 == entries[T2][p[3]].address
           W3 == Goes(Yes, r, p[1])
           W2 == Goes(W3, T3, p[2])
           W1 == Goes(W2, T2, p[3])
           c0 == Start(r, p[1])
<1>1. PICK c3 \in Follow(c0, p[2]) : \E c2 \in Follow(c3, p[3]) : c \in Follow(c2, p[4])
  <2> DEFINE Last(d)   == UNION {Follow(x, p[4]) : x \in Follow(d, p[3])}
             Middle(d) == UNION {Last(x) : x \in Follow(d, p[2])}
  <2>1. resolve_pageentry(r, p) = UNION {Middle(d) : d \in {c0}}
    BY DEF resolve_pageentry
  <2> HIDE DEF Middle, c0
  <2>2. c \in Middle(c0)
    BY <2>1
  <2>3. PICK c3 \in Follow(c0, p[2]) : c \in Last(c3)
    BY <2>2 DEF Middle
  <2> QED
    BY <2>3
<1>a. PICK c2 \in Follow(c3, p[3]) : c \in Follow(c2, p[4])
  BY <1>1
<1>2. p \in Pages
  BY PathIsFree
<1>3. At(c0, Top(r), p[1]) /\ Walks(c0, r, Yes)
  <2>1. c0 = Cursor(entries, free, place, r, p[1])
    BY DEF Start, Cursor, No
  <2> HIDE DEF c0
  <2>2. c0.entries = entries /\ c0.free = free /\ c0.place = place /\ c0.table = r
    BY <2>1 DEF Cursor
  <2>3. place[r] = Top(r)
    BY DEF Tree, Places
  <2> QED
    BY <2>1, <2>2, <2>3 DEF At, Walks, Yes, SamePages
<1> HIDE DEF c0
<1>4. At(c3, Down2(r, p), p[2]) /\ Walks(c3, T3, W3)
  <2>1. Level(Top(r)) \in 1 .. 3
    BY <1>2, PathPlaces
  <2>2. Top(r) # ChildPlace(Top(kernel_pml4), LINEAR)
        /\ Top(r) # ChildPlace(ChildPlace(Top(kernel_pml4), KERNEL), 510)
    BY PathIsFree DEF BigPlaces
  <2>3. /\ At(c3, ChildPlace(Top(r), p[1]), p[2]) /\ Walks(c3, T3, W3)
    BY <1>1, <1>2, <1>3, <2>1, <2>2, PathPlaces, FollowGoesDown
  <2> QED
    BY <2>3 DEF Down2
<1>5. At(c2, Down3(r, p), p[3]) /\ Walks(c2, T2, W2)
  <2>1. Level(Down2(r, p)) \in 1 .. 3
    BY <1>2, PathPlaces
  <2>2. Down2(r, p) # ChildPlace(Top(kernel_pml4), LINEAR)
        /\ Down2(r, p) # ChildPlace(ChildPlace(Top(kernel_pml4), KERNEL), 510)
    BY PathIsFree DEF BigPlaces
  <2> HIDE DEF T3, W3
  <2>4. /\ At(c2, ChildPlace(Down2(r, p), p[2]), p[3]) /\ Walks(c2, T2, W2)
    BY <1>a, <1>2, <1>4, <2>1, <2>2, PathPlaces, FollowGoesDown
  <2> QED
    BY <2>4 DEF Down3
<1>6. At(c, Down4(r, p), p[4]) /\ Walks(c, T1, W1)
  <2>1. Level(Down3(r, p)) \in 1 .. 3
    BY <1>2, PathPlaces
  <2>2. Down3(r, p) # ChildPlace(Top(kernel_pml4), LINEAR)
        /\ Down3(r, p) # ChildPlace(ChildPlace(Top(kernel_pml4), KERNEL), 510)
    BY PathIsFree DEF BigPlaces
  <2> HIDE DEF T2, W2
  <2>4. /\ At(c, ChildPlace(Down3(r, p), p[3]), p[4]) /\ Walks(c, T1, W1)
    BY <1>a, <1>2, <1>5, <2>1, <2>2, PathPlaces, FollowGoesDown
  <2> QED
    BY <2>4 DEF Down4
<1>7. ASSUME Translate(r, p) = Unmapped, ~c.failed, c.entries[c.table][c.index].present
      PROVE  FALSE
  <2>1. c = Cursor(c.entries, c.free, c.place, c.table, p[4]) /\ c.table \in Tables
        /\ c.place[c.table] = Down4(r, p) /\ Tree(c.entries, c.free, held, c.place)
    <3>1. c.failed # Yes
      BY <1>7 DEF Yes
    <3> QED
      BY <1>6, <3>1 DEF At
  <2>2. c.index = p[4]
    BY <2>1 DEF Cursor
  <2>3. c.entries = entries /\ c.table = T1 /\ W1
    BY <1>6, <1>7 DEF Walks
  <2>4. /\ r \in Tables /\ entries[r][p[1]].present
        /\ T3 \in Tables /\ entries[T3][p[2]].present /\ ~entries[T3][p[2]].big
        /\ T2 \in Tables /\ entries[T2][p[3]].present /\ ~entries[T2][p[3]].big
        /\ T1 \in Tables /\ entries[T1][p[4]].present
    BY <1>7, <2>1, <2>2, <2>3 DEF Goes
  <2> HIDE DEF T1, T2, T3, W1, W2, W3
  <2>5. Level(c.place[T1]) = 4 /\ p[4] \in Index
    <3>1. Level(Down4(r, p)) = 4 /\ p[4] \in Index
      BY <1>2, PathPlaces
    <3>2. c.place[T1] = Down4(r, p)
      BY <2>1, <2>3
    <3>3. Level(c.place[T1]) = 4
      BY <3>1, <3>2
    <3> QED
      BY <3>1, <3>3
  <2>6. /\ Read(entries, r, p[1]) = entries[r][p[1]] /\ Read(entries, T3, p[2]) = entries[T3][p[2]]
        /\ Read(entries, T2, p[3]) = entries[T2][p[3]] /\ Read(entries, T1, p[4]) = entries[T1][p[4]]
    BY <2>4 DEF Read
  <2>7. Translate(r, p).frame = entries[T1][p[4]].address
    BY <2>4, <2>6 DEF Translate, Mapping, T1, T2, T3
  <2>8. entries[T1][p[4]].address # NULL
    <3> DEFINE e == c.entries[T1][p[4]]
    <3>0. Level(c.place[T1]) # 0
      BY <2>5
    <3>1. e.present /\ Tree(c.entries, c.free, held, c.place) /\ Level(c.place[T1]) # 0
      BY <2>1, <2>3, <2>4, <3>0
    <3>2. \/ e = BigPage
          \/ e.address \in Tables \ (c.free \cup held)
          \/ e.address \in Frames \ (c.free \cup held)
      BY <2>4, <2>5, <3>1, Naming
    <3>3. e.address = RAM \/ e.address \in Tables
      BY <3>2, EntryTypes DEF Tables
    <3> QED
      BY <2>3, <3>3, NodesAssumption
  <2>9. Translate(r, p).frame = NULL
    BY <1>7 DEF Unmapped
  <2> QED
    BY <2>7, <2>8, <2>9
<1> QED
  BY <1>6, <1>7

----------------------------------------------------------------------------
(* What a walk of the processor that ends in a user page comes through.    *)

LEMMA WalkDown ==
  ASSUME NEW E, NEW F, NEW H, NEW P, Tree(E, F, H, P),
         NEW t \in Tables, NEW i \in Index, Level(P[t]) \in 1 .. 3, E[t][i].present
  PROVE  \/ E[t][i] = BigPage /\ Level(P[t]) # 1
         \/ /\ E[t][i].address \in Tables /\ ~E[t][i].big
            /\ P[E[t][i].address] = ChildPlace(P[t], i)
<1>1. Level(P[t]) # 0 /\ Level(P[t]) # 4
  OBVIOUS
<1>2. \/ E[t][i] = BigPage /\ t \in {kernel_pagedir, kernel_linear}
      \/ /\ E[t][i].address \in Tables /\ ~E[t][i].big
         /\ P[E[t][i].address] = ChildPlace(P[t], i)
  BY <1>1, Naming
<1>3. Level(P[kernel_pagedir]) # 1 /\ Level(P[kernel_linear]) # 1
  BY KernelPlaces DEF Tree, Places
<1> QED
  BY <1>2, <1>3

LEMMA WalkLeaf ==
  ASSUME NEW E, NEW F, NEW H, NEW P, Tree(E, F, H, P),
         NEW t \in Tables, NEW i \in Index, Level(P[t]) = 4, E[t][i].present
  PROVE  E[t][i].user <=> UserHalf(P[t])
<1>1. Level(P[t]) # 0 /\ ~(Level(P[t]) \in 1 .. 3)
  OBVIOUS
<1>2. Level(P[kernel_pagedir]) # 4 /\ Level(P[kernel_linear]) # 4
  BY KernelPlaces DEF Tree, Places
<1>3. E[t][i] = PageEntry(E[t][i].address, UserHalf(P[t]))
  BY <1>1, <1>2, Naming
<1>4. \A f, b : PageEntry(f, b).user = b
  BY DEF PageEntry, Entry
<1>5. E[t][i].user = UserHalf(P[t])
  BY <1>3, <1>4
<1> QED
  BY <1>5

(* The entries the processor reads, one after the other.                   *)
Look4(E, r, p) == Read(E, r, p[1])
Look3(E, r, p) == Read(E, Look4(E, r, p).address, p[2])
Look2(E, r, p) == Read(E, Look3(E, r, p).address, p[3])
Look1(E, r, p) == Read(E, Look2(E, r, p).address, p[4])

Translation(E, r, p) ==
  IF ~Look4(E, r, p).present THEN Unmapped
  ELSE IF ~Look3(E, r, p).present THEN Unmapped
  ELSE IF Look3(E, r, p).big
    THEN Mapping(Look3(E, r, p).address, Look4(E, r, p).user /\ Look3(E, r, p).user)
  ELSE IF ~Look2(E, r, p).present THEN Unmapped
  ELSE IF Look2(E, r, p).big
    THEN Mapping(Look2(E, r, p).address,
                 Look4(E, r, p).user /\ Look3(E, r, p).user /\ Look2(E, r, p).user)
  ELSE IF ~Look1(E, r, p).present THEN Unmapped
  ELSE Mapping(Look1(E, r, p).address,
               Look4(E, r, p).user /\ Look3(E, r, p).user /\ Look2(E, r, p).user
                 /\ Look1(E, r, p).user)

LEMMA TranslateIs ==
  ASSUME NEW r, NEW p
  PROVE  Translate(r, p) = Translation(entries, r, p)
  BY DEF Translate, Translation, Look4, Look3, Look2, Look1

(* What a walk that reaches something found in its last entry e.           *)
EndsAt(E, r, p, e) ==
  Translation(E, r, p).frame = e.address /\ (Translation(E, r, p).user => e.user)

Reaches(E, r, p) == Translation(E, r, p).frame \in Frames \/ Translation(E, r, p).user

LEMMA TranslateLooks ==
  ASSUME NEW E, NEW r, NEW p, Reaches(E, r, p)
  PROVE  /\ Look4(E, r, p).present /\ Look3(E, r, p).present
         /\ Look3(E, r, p).big => EndsAt(E, r, p, Look3(E, r, p))
         /\ ~Look3(E, r, p).big =>
              /\ Look2(E, r, p).present
              /\ Look2(E, r, p).big => EndsAt(E, r, p, Look2(E, r, p))
              /\ ~Look2(E, r, p).big =>
                   Look1(E, r, p).present /\ EndsAt(E, r, p, Look1(E, r, p))
<1>1. Translation(E, r, p) =
        IF ~Look4(E, r, p).present THEN Unmapped
        ELSE IF ~Look3(E, r, p).present THEN Unmapped
        ELSE IF Look3(E, r, p).big
          THEN Mapping(Look3(E, r, p).address, Look4(E, r, p).user /\ Look3(E, r, p).user)
        ELSE IF ~Look2(E, r, p).present THEN Unmapped
        ELSE IF Look2(E, r, p).big
          THEN Mapping(Look2(E, r, p).address,
                       Look4(E, r, p).user /\ Look3(E, r, p).user /\ Look2(E, r, p).user)
        ELSE IF ~Look1(E, r, p).present THEN Unmapped
        ELSE Mapping(Look1(E, r, p).address,
                     Look4(E, r, p).user /\ Look3(E, r, p).user /\ Look2(E, r, p).user
                       /\ Look1(E, r, p).user)
  BY DEF Translation
<1>2. Translation(E, r, p) # Unmapped
  <2>1. Unmapped.frame \notin Frames /\ ~Unmapped.user
    BY NodesAssumption DEF Tables, Unmapped
  <2> QED
    BY <2>1 DEF Reaches
<1>3. \A f, b : Mapping(f, b).frame = f /\ Mapping(f, b).user = b
  BY DEF Mapping
<1>4. Look4(E, r, p).present /\ Look3(E, r, p).present
  BY <1>1, <1>2
<1>5. CASE Look3(E, r, p).big
  <2> DEFINE u == Look4(E, r, p).user /\ Look3(E, r, p).user
  <2>1. Translation(E, r, p) = Mapping(Look3(E, r, p).address, u)
    BY <1>1, <1>4, <1>5
  <2>2. u => Look3(E, r, p).user
    OBVIOUS
  <2> HIDE DEF u
  <2>3. Translation(E, r, p).frame = Look3(E, r, p).address /\ Translation(E, r, p).user = u
    BY <1>3, <2>1
  <2>4. Translation(E, r, p).user => Look3(E, r, p).user
    BY <2>2, <2>3
  <2> QED
    BY <1>4, <1>5, <2>3, <2>4 DEF EndsAt
<1>6. CASE ~Look3(E, r, p).big /\ ~Look2(E, r, p).present
  BY <1>1, <1>2, <1>4, <1>6
<1>7. CASE ~Look3(E, r, p).big /\ Look2(E, r, p).present /\ Look2(E, r, p).big
  <2> DEFINE u == Look4(E, r, p).user /\ Look3(E, r, p).user /\ Look2(E, r, p).user
  <2>1. Translation(E, r, p) = Mapping(Look2(E, r, p).address, u)
    BY <1>1, <1>4, <1>7
  <2>2. u => Look2(E, r, p).user
    OBVIOUS
  <2> HIDE DEF u
  <2>3. Translation(E, r, p).frame = Look2(E, r, p).address /\ Translation(E, r, p).user = u
    BY <1>3, <2>1
  <2>4. Translation(E, r, p).user => Look2(E, r, p).user
    BY <2>2, <2>3
  <2> QED
    BY <1>4, <1>7, <2>3, <2>4 DEF EndsAt
<1>8. CASE ~Look3(E, r, p).big /\ Look2(E, r, p).present /\ ~Look2(E, r, p).big
  <2>1. Look1(E, r, p).present
    BY <1>1, <1>2, <1>4, <1>8
  <2> DEFINE u == Look4(E, r, p).user /\ Look3(E, r, p).user /\ Look2(E, r, p).user /\ Look1(E, r, p).user
  <2>2. Translation(E, r, p) = Mapping(Look1(E, r, p).address, u)
    BY <1>1, <1>4, <1>8, <2>1
  <2>3. u => Look1(E, r, p).user
    OBVIOUS
  <2> HIDE DEF u
  <2>4. Translation(E, r, p).frame = Look1(E, r, p).address /\ Translation(E, r, p).user = u
    BY <1>3, <2>2
  <2>5. Translation(E, r, p).user => Look1(E, r, p).user
    BY <2>3, <2>4
  <2> QED
    BY <1>4, <1>8, <2>1, <2>4, <2>5 DEF EndsAt
<1> QED
  BY <1>5, <1>6, <1>7, <1>8

LEMMA UserWalk ==
  ASSUME NEW E, NEW F, NEW H, NEW P, Tree(E, F, H, P),
         NEW r \in Tables, Level(P[r]) = 1, NEW p \in Pages, Reaches(E, r, p)
  PROVE  \E t \in Tables : /\ P[t] = Down4(r, p) /\ E[t][p[4]].present
                           /\ E[t][p[4]].address = Translation(E, r, p).frame
                           /\ Translation(E, r, p).user => UserHalf(P[t])
<1> DEFINE T3 == Look4(E, r, p).address
           T2 == Look3(E, r, p).address
           T1 == Look2(E, r, p).address
<1>1. /\ p[1] \in Index /\ p[2] \in Index /\ p[3] \in Index /\ p[4] \in Index
      /\ Level(Down2(r, p)) = 2 /\ Level(Down3(r, p)) = 3 /\ Level(Down4(r, p)) = 4
      /\ P[r] = Top(r)
  BY PathPlaces DEF Tree, Places
<1>2. \A t \in Tables : \A i : Read(E, t, i) = E[t][i]
  BY DEF Read
<1>3. BigPage.big /\ ~BigPage.user /\ BigPage.address \notin Frames
  BY EntryTypes, NodesAssumption DEF Tables, BigPage, Entry
<1>4. T3 \in Tables /\ P[T3] = Down2(r, p)
  <2>1. Look4(E, r, p) = E[r][p[1]] /\ E[r][p[1]].present
    BY <1>2, TranslateLooks DEF Look4
  <2>2. Level(P[r]) \in 1 .. 3
    OBVIOUS
  <2> QED
    BY <1>1, <2>1, <2>2, WalkDown DEF Down2
<1>5. ~Look3(E, r, p).big /\ T2 \in Tables /\ P[T2] = Down3(r, p)
  <2> HIDE DEF T3
  <2>1. Look3(E, r, p) = E[T3][p[2]] /\ E[T3][p[2]].present
    BY <1>2, <1>4, TranslateLooks DEF Look3, T3
  <2>2. Level(P[T3]) \in 1 .. 3
    BY <1>1, <1>4
  <2>3. Look3(E, r, p) = BigPage \/ (/\ ~Look3(E, r, p).big /\ Look3(E, r, p).address \in Tables
                                  /\ P[Look3(E, r, p).address] = Down3(r, p))
    BY <1>1, <1>4, <2>1, <2>2, WalkDown DEF Down3
  <2>4. Look3(E, r, p) # BigPage
    <3>2. ASSUME Look3(E, r, p) = BigPage PROVE FALSE
      <4>1. Look3(E, r, p).big
        BY <1>3, <3>2
      <4>2. /\ Translation(E, r, p).frame = Look3(E, r, p).address
            /\ Translation(E, r, p).user => Look3(E, r, p).user
        BY <4>1, TranslateLooks DEF EndsAt
      <4> QED
        BY <1>3, <3>2, <4>2 DEF Reaches
    <3> QED
      BY <3>2
  <2> QED
    BY <2>3, <2>4
<1>6. Look2(E, r, p).present /\ ~Look2(E, r, p).big /\ T1 \in Tables /\ P[T1] = Down4(r, p)
  <2> HIDE DEF T2
  <2>1. Look2(E, r, p) = E[T2][p[3]] /\ E[T2][p[3]].present
    BY <1>2, <1>5, TranslateLooks DEF Look2, T2
  <2>2. Level(P[T2]) \in 1 .. 3
    BY <1>1, <1>5
  <2>3. Look2(E, r, p) = BigPage \/ (/\ ~Look2(E, r, p).big /\ Look2(E, r, p).address \in Tables
                                  /\ P[Look2(E, r, p).address] = Down4(r, p))
    BY <1>1, <1>5, <2>1, <2>2, WalkDown DEF Down4
  <2>4. Look2(E, r, p) # BigPage
    <3>2. ASSUME Look2(E, r, p) = BigPage PROVE FALSE
      <4>1. Look2(E, r, p).big
        BY <1>3, <3>2
      <4>2. /\ Translation(E, r, p).frame = Look2(E, r, p).address
            /\ Translation(E, r, p).user => Look2(E, r, p).user
        BY <1>5, <4>1, TranslateLooks DEF EndsAt
      <4> QED
        BY <1>3, <3>2, <4>2 DEF Reaches
    <3> QED
      BY <3>2
  <2> QED
    BY <2>1, <2>3, <2>4
<1>7. /\ Look1(E, r, p) = E[T1][p[4]]
      /\ Look1(E, r, p).present
      /\ Translation(E, r, p).frame = Look1(E, r, p).address
      /\ Translation(E, r, p).user => Look1(E, r, p).user
  BY <1>2, <1>5, <1>6, TranslateLooks DEF Look1, EndsAt
<1> HIDE DEF T1
<1>8. E[T1][p[4]].user <=> UserHalf(P[T1])
  <2>1. Level(P[T1]) = 4
    BY <1>1, <1>6
  <2> QED
    BY <1>1, <1>6, <1>7, <2>1, WalkLeaf
<1> QED
  BY <1>6, <1>7, <1>8

(* Pages whose walks end in one table are one page of one space, unless    *)
(* the space shares the way.                                               *)
LEMMA SameWalk ==
  ASSUME NEW r \in Tables, NEW p \in Pages, NEW s \in Tables, NEW q \in Pages,
         Down4(r, p) = Down4(s, q), p[4] = q[4], UserHalf(Down4(r, p))
  PROVE  s = r /\ q = p
<1>1. /\ Top(r) \in PlaceSeq /\ Level(Top(r)) = 1
      /\ Down2(r, p) \in PlaceSeq /\ Level(Down2(r, p)) = 2
      /\ Down3(r, p) \in PlaceSeq /\ Level(Down3(r, p)) = 3
      /\ p[1] \in Index /\ p[2] \in Index /\ p[3] \in Index
  BY PathPlaces
<1>2. /\ Top(s) \in PlaceSeq /\ Down2(s, q) \in PlaceSeq /\ Down3(s, q) \in PlaceSeq
      /\ q[1] \in Index /\ q[2] \in Index /\ q[3] \in Index
  BY PathPlaces
<1>3. Down3(r, p) = Down3(s, q) /\ p[3] = q[3]
  BY <1>1, <1>2, ChildOnly DEF Down4
<1>4. Down2(r, p) = Down2(s, q) /\ p[2] = q[2]
  BY <1>1, <1>2, <1>3, ChildOnly DEF Down3
<1>5. p[1] < LINEAR
  <2>1. UserHalf(Down3(r, p)) <=> UserHalf(Down4(r, p))
    BY <1>1, ChildHalf DEF Down4
  <2>2. UserHalf(Down2(r, p)) <=> UserHalf(Down3(r, p))
    BY <1>1, ChildHalf DEF Down3
  <2>3. UserHalf(Down2(r, p)) <=> p[1] < LINEAR
    BY <1>1, ChildHalf DEF Down2
  <2> QED
    BY <2>1, <2>2, <2>3
<1>6. p[1] \notin {LINEAR, KERNEL}
  BY <1>5 DEF LINEAR, KERNEL
<1>7. Top(r) = Top(s) /\ p[1] = q[1]
  BY <1>1, <1>2, <1>4, <1>6, ChildOnly DEF Down2
<1>8. q = p
  <2>1. p \in Index \X Index \X Index \X Index /\ q \in Index \X Index \X Index \X Index
    BY PagesAssumption
  <2>2. p = <<p[1], p[2], p[3], p[4]>> /\ q = <<q[1], q[2], q[3], q[4]>>
    BY <2>1
  <2> QED
    BY <1>3, <1>4, <1>7, <2>2
<1> QED
  BY <1>7, <1>8, TopInjective

LEMMA TreeIsolates ==
  ASSUME Tree(entries, free, held, place)
  PROVE  UserIsolation
<1> SUFFICES ASSUME NEW r \in Roots, NEW p \in Pages, Translate(r, p).user
             PROVE  LET f == Translate(r, p).frame IN
                    /\ f \in Frames \ (free \cup InUse)
                    /\ \A s \in Roots, q \in Pages : Translate(s, q).frame = f => s = r /\ q = p
  BY DEF UserIsolation
<1> DEFINE f == Translate(r, p).frame
<1>1. \A s \in Roots : s \in Tables /\ Level(place[s]) = 1
  BY RootLevel, KernelPlaces DEF Tables
<1>2. PICK t \in Tables : /\ place[t] = Down4(r, p) /\ entries[t][p[4]].present
                          /\ entries[t][p[4]].address = f /\ UserHalf(place[t])
  BY <1>1, UserWalk, TranslateIs DEF Reaches
<1>3. Level(place[t]) = 4 /\ p[4] \in Index
  BY <1>1, <1>2, PathPlaces
<1>4. f \in Frames \ (free \cup held) /\ Level(place[f]) = 0
  <2>1. Level(place[t]) # 0 /\ ~(Level(place[t]) \in 1 .. 3)
    BY <1>3
  <2>2. t \notin {kernel_pagedir, kernel_linear}
    BY <1>3, KernelPlaces DEF Tree, Places
  <2> QED
    BY <1>2, <1>3, <2>1, <2>2, Naming
<1>5. f \notin InUse
  BY <1>4, InUseLevel
<1>6. ASSUME NEW s \in Roots, NEW q \in Pages, Translate(s, q).frame = f
      PROVE  s = r /\ q = p
  <2>1. PICK u \in Tables : /\ place[u] = Down4(s, q) /\ entries[u][q[4]].present
                            /\ entries[u][q[4]].address = f
    BY <1>1, <1>4, <1>6, UserWalk, TranslateIs DEF Reaches
  <2>2. Level(place[u]) = 4 /\ q[4] \in Index
    BY <1>1, <2>1, PathPlaces
  <2>3. t = u /\ p[4] = q[4]
    BY <1>2, <1>3, <2>1, <2>2 DEF Tree, OneEntry
  <2> QED
    BY <1>1, <1>2, <2>1, <2>3, SameWalk
<1> QED
  BY <1>4, <1>5, <1>6

----------------------------------------------------------------------------
(* The invariant holds at boot and every operation keeps it.               *)

LEMMA InitPlaces ==
  ASSUME Init
  PROVE  /\ place \in [Tables -> PlaceSeq]
         /\ place[kernel_pml4] = Top(kernel_pml4)
         /\ place[kernel_pagedirtable] = ChildPlace(Top(kernel_pml4), KERNEL)
         /\ place[kernel_pagedir] = ChildPlace(ChildPlace(Top(kernel_pml4), KERNEL), 510)
         /\ place[kernel_linear] = ChildPlace(Top(kernel_pml4), LINEAR)
         /\ \A t \in Frames : Level(place[t]) = 0
<1>1. 510 \in Index /\ LINEAR \in Index /\ KERNEL \in Index
  BY PagesAssumption
<1>2. ChildPlace(Top(kernel_pml4), KERNEL) = <<kernel_pml4, KERNEL>>
  BY KernelPlaces, ChildOfShared DEF Shared
<1>3. ChildPlace(Top(kernel_pml4), LINEAR) = <<kernel_pml4, LINEAR>>
  BY KernelPlaces, ChildOfShared DEF Shared
<1>4. ChildPlace(ChildPlace(Top(kernel_pml4), KERNEL), 510) = <<kernel_pml4, KERNEL, 510>>
  <2>1. ~Shared(<<kernel_pml4, KERNEL>>, 510)
    BY DEF Shared, LINEAR, KERNEL
  <2>2. ChildPlace(<<kernel_pml4, KERNEL>>, 510) = Append(<<kernel_pml4, KERNEL>>, 510)
    BY <2>1, ChildOfOther
  <2>3. Append(<<kernel_pml4, KERNEL>>, 510) = <<kernel_pml4, KERNEL, 510>>
    BY <1>1, KernelPlaces, AppendPair
  <2> QED
    BY <1>2, <2>2, <2>3
<1>5. <<>> \in PlaceSeq /\ Level(<<>>) = 0
  BY DEF PlaceSeq, Level
<1>6. \A t \in Frames : t \in Tables /\ t \notin Static
  BY NodesAssumption DEF Tables
<1> DEFINE at(t) == IF t = kernel_pml4 THEN Top(kernel_pml4)
                    ELSE IF t = kernel_pagedirtable THEN ChildPlace(Top(kernel_pml4), KERNEL)
                    ELSE IF t = kernel_pagedir
                      THEN ChildPlace(ChildPlace(Top(kernel_pml4), KERNEL), 510)
                    ELSE IF t = kernel_linear THEN ChildPlace(Top(kernel_pml4), LINEAR)
                    ELSE <<>>
<1>7. place = [t \in Tables |-> at(t)]
  BY <1>2, <1>3, <1>4 DEF Init, Top
<1>8. \A t \in Tables : at(t) \in PlaceSeq
  BY <1>5, KernelPlaces
<1>9. /\ at(kernel_pml4) = Top(kernel_pml4)
      /\ at(kernel_pagedirtable) = ChildPlace(Top(kernel_pml4), KERNEL)
      /\ at(kernel_pagedir) = ChildPlace(ChildPlace(Top(kernel_pml4), KERNEL), 510)
      /\ at(kernel_linear) = ChildPlace(Top(kernel_pml4), LINEAR)
      /\ \A t \in Frames : at(t) = <<>>
  BY <1>6, NodesAssumption DEF Static
<1> HIDE DEF at
<1> QED
  BY <1>5, <1>6, <1>7, <1>8, <1>9, KernelPlaces

LEMMA InitEntries ==
  ASSUME Init
  PROVE  /\ entries \in EntryTables
         /\ entries[kernel_pml4] = RootTable
         /\ entries[kernel_pagedirtable][510] = TableEntry(kernel_pagedir)
         /\ \A i \in Index \ {510} : entries[kernel_pagedirtable][i] = Zero
         /\ \A i \in Index : entries[kernel_pagedir][i] \in {BigPage, Zero}
         /\ \A i \in Index : i < 16 => entries[kernel_pagedir][i] = BigPage
         /\ \A i \in Index : entries[kernel_linear][i] = BigPage
<1> DEFINE A == [ZeroTable EXCEPT ![510] = TableEntry(kernel_pagedir)]
           B == [i \in Index |-> IF i < 16 THEN Entry(RAM, TRUE, FALSE, TRUE) ELSE Zero]
           C == [i \in Index |-> Entry(RAM, TRUE, FALSE, TRUE)]
           of(t) == IF t = kernel_pml4 THEN RootTable
                    ELSE IF t = kernel_pagedirtable THEN A
                    ELSE IF t = kernel_pagedir THEN B
                    ELSE IF t = kernel_linear THEN C
                    ELSE Garbage
<1>1. entries = [t \in Tables |-> of(t)]
  BY DEF Init, KernelTables
<1>2. A \in [Index -> EntryType] /\ A[510] = TableEntry(kernel_pagedir)
      /\ \A i \in Index \ {510} : A[i] = Zero
  BY KernelPlaces, EntryTypes, TableTypes, PagesAssumption DEF ZeroTable
<1>3. B \in [Index -> EntryType]
      /\ \A i \in Index : B[i] \in {BigPage, Zero} /\ (i < 16 => B[i] = BigPage)
  BY EntryTypes DEF BigPage
<1>4. C \in [Index -> EntryType] /\ \A i \in Index : C[i] = BigPage
  BY EntryTypes DEF BigPage
<1> HIDE DEF A, B, C
<1>5. \A t \in Tables : of(t) \in [Index -> EntryType]
  BY <1>2, <1>3, <1>4, TableTypes
<1>6. /\ of(kernel_pml4) = RootTable /\ of(kernel_pagedirtable) = A
      /\ of(kernel_pagedir) = B /\ of(kernel_linear) = C
  BY NodesAssumption
<1> HIDE DEF of
<1> QED
  BY <1>1, <1>2, <1>3, <1>4, <1>5, <1>6, KernelPlaces DEF EntryTables

LEMMA RootTableFacts ==
  /\ RootTable[LINEAR].present /\ ~RootTable[LINEAR].big /\ ~RootTable[LINEAR].user
  /\ RootTable[LINEAR].address = kernel_linear
  /\ RootTable[KERNEL].present /\ ~RootTable[KERNEL].big /\ RootTable[KERNEL].user
  /\ RootTable[KERNEL].address = kernel_pagedirtable
  /\ \A i \in Index \ {LINEAR, KERNEL} : RootTable[i] = Zero
<1>1. LINEAR \in Index /\ KERNEL \in Index /\ LINEAR # KERNEL
  BY PagesAssumption DEF LINEAR, KERNEL
<1>2. RootTable[LINEAR] = Entry(kernel_linear, TRUE, FALSE, FALSE)
      /\ RootTable[KERNEL] = TableEntry(kernel_pagedirtable)
  BY <1>1 DEF RootTable
<1> QED
  BY <1>1, <1>2 DEF RootTable, TableEntry, Entry

LEMMA InitTree ==
  ASSUME Init
  PROVE  AInv
<1>1. /\ free = Frames /\ held = {} /\ panicked = FALSE
  BY DEF Init
<1>2. /\ Level(place[kernel_pml4]) = 1 /\ Level(place[kernel_pagedirtable]) = 2
      /\ Level(place[kernel_pagedir]) = 3 /\ Level(place[kernel_linear]) = 2
  BY InitPlaces, KernelPlaces
<1>3. \A t \in Tables : t \in Frames \/ t \in {kernel_pml4, kernel_pagedirtable,
                                               kernel_pagedir, kernel_linear}
  BY DEF Tables, Static
<1>4. Types(entries, free, held, place)
  <2>1. \A t \in Tables : Level(place[t]) \in 0 .. 4
    BY <1>2, <1>3, InitPlaces
  <2> QED
    BY <1>1, <2>1, InitPlaces, InitEntries DEF Types, EntryTables
<1>5. Places(free, held, place)
  <2>1. \A t \in Tables : Level(place[t]) = 1 => place[t] = Top(t)
    BY <1>2, <1>3, InitPlaces
  <2>2. place[kernel_pagedirtable] # place[kernel_linear]
    <3>1. LINEAR \in Index /\ KERNEL \in Index /\ LINEAR # KERNEL
      BY PagesAssumption DEF LINEAR, KERNEL
    <3> QED
      BY <3>1, InitPlaces, KernelPlaces, ChildInjective
  <2>3. ASSUME NEW t \in Tables, NEW u \in Tables, Level(place[t]) # 0, place[t] = place[u]
        PROVE  t = u
    <3>1. t \notin Frames /\ u \notin Frames
      BY <2>3, InitPlaces
    <3> QED
      BY <1>2, <1>3, <2>2, <2>3, <3>1
  <2>4. \A t \in free \cup held : Level(place[t]) = 0
    BY <1>1, InitPlaces
  <2> QED
    BY <2>1, <2>3, <2>4, InitPlaces DEF Places
<1>6. \A t \in Tables : Level(place[t]) = 1 => t = kernel_pml4
  BY <1>2, <1>3, InitPlaces
<1>7. RootsShare(entries, place)
  BY <1>6, InitEntries, RootTableFacts DEF RootsShare
<1>8. ASSUME NEW t \in Tables, NEW i \in Index, Level(place[t]) # 0
      PROVE  EntryFits(entries, free, held, place, t, i)
  <2>0. t \notin Frames /\ 1 \in 1 .. 3 /\ 2 \in 1 .. 3 /\ LINEAR # KERNEL /\ 1 # 2
    BY <1>8, InitPlaces DEF LINEAR, KERNEL
  <2>1. CASE t = kernel_pml4
    <3>1. CASE i = LINEAR
      <4>1. entries[t][i] = RootTable[LINEAR]
        BY <2>1, <3>1, InitEntries
      <4> QED
        BY <1>2, <2>0, <2>1, <3>1, <4>1, RootTableFacts, InitPlaces, KernelPlaces, NodesAssumption
        DEF EntryFits
    <3>2. CASE i = KERNEL
      <4>1. entries[t][i] = RootTable[KERNEL]
        BY <2>1, <3>2, InitEntries
      <4> QED
        BY <1>2, <2>0, <2>1, <3>2, <4>1, RootTableFacts, InitPlaces, KernelPlaces, NodesAssumption
        DEF EntryFits
    <3>3. CASE i \notin {LINEAR, KERNEL}
      BY <2>1, <3>3, RootTableFacts, InitEntries DEF EntryFits
    <3> QED
      BY <3>1, <3>2, <3>3
  <2>2. CASE t = kernel_pagedirtable
    <3>1. CASE i = 510
      <4>1. entries[t][i] = TableEntry(kernel_pagedir)
        BY <2>2, <3>1, InitEntries
      <4>2. entries[t][i].present /\ ~entries[t][i].big /\ entries[t][i].address = kernel_pagedir
            /\ entries[t][i].user
        BY <4>1, KernelPlaces, EntryTypes
      <4> QED
        BY <1>2, <2>0, <2>2, <3>1, <4>2, InitPlaces, KernelPlaces, NodesAssumption DEF EntryFits
    <3>2. CASE i # 510
      BY <2>2, <3>2, InitEntries DEF EntryFits
    <3> QED
      BY <3>1, <3>2
  <2>3. CASE t \in {kernel_pagedir, kernel_linear}
    BY <2>3, InitEntries DEF EntryFits
  <2> QED
    BY <1>3, <2>0, <2>1, <2>2, <2>3
<1>9. OneEntry(entries, place)
  <2>1. \A t \in Tables : Level(place[t]) # 4
    BY <1>2, <1>3, InitPlaces
  <2> QED
    BY <2>1 DEF OneEntry
<1>10. Hangs(entries, place) /\ Accounted(entries, free, held, place)
  <2> SUFFICES ASSUME NEW f \in {kernel_pml4, kernel_pagedirtable, kernel_pagedir, kernel_linear}
               PROVE  Level(place[f]) = 1 \/ Named(entries, place, f)
    BY <1>1, <1>3, InitPlaces DEF Hangs, Accounted
  <2>1. 510 \in Index /\ LINEAR \in Index /\ KERNEL \in Index
    BY PagesAssumption
  <2>2. Named(entries, place, kernel_linear) /\ Named(entries, place, kernel_pagedirtable)
    BY <1>2, <2>1, InitEntries, RootTableFacts, KernelPlaces DEF Named
  <2>3. Named(entries, place, kernel_pagedir)
    <3>1. entries[kernel_pagedirtable][510].present
          /\ entries[kernel_pagedirtable][510].address = kernel_pagedir
      BY InitEntries, KernelPlaces, EntryTypes
    <3> QED
      BY <1>2, <2>1, <3>1, KernelPlaces DEF Named
  <2> QED
    BY <1>2, <2>2, <2>3
<1>11. BigPages(entries)
  BY InitEntries DEF BigPages
<1> QED
  BY <1>1, <1>4, <1>5, <1>7, <1>8, <1>9, <1>10, <1>11 DEF AInv, Tree

(* Where resolve_pageentry stops unless an allocation panicked.            *)
LEMMA ResolvedAt ==
  ASSUME Tree(entries, free, held, place),
         NEW r \in Roots, NEW p \in MapPages, NEW c \in resolve_pageentry(r, p)
  PROVE  /\ Tree(c.entries, c.free, held, c.place) /\ c.failed \in BOOLEAN
         /\ Accounted(entries, free, held, place) => Accounted(c.entries, c.free, held, c.place)
         /\ SamePages(entries, place, c.entries, c.place)
         /\ ~c.failed => /\ c.table \in Tables /\ c.index \in Index
                         /\ c.index = p[4] /\ c.place[c.table] = Down4(r, p)
                         /\ Level(c.place[c.table]) = 4
                         /\ UserHalf(c.place[c.table]) <=> p \in UserPages
         /\ Translate(r, p) = Unmapped /\ ~c.failed => ~c.entries[c.table][c.index].present
<1>2. r \in Tables /\ Level(place[r]) = 1
  BY RootLevel, KernelPlaces DEF Tables
<1>3. At(c, Down4(r, p), p[4])
  BY <1>2, ResolveFinds
<1>4. Translate(r, p) = Unmapped /\ ~c.failed => ~c.entries[c.table][c.index].present
  BY <1>2, ResolveFinds
<1>5. p \in Pages /\ (UserHalf(Down4(r, p)) <=> p \in UserPages)
  BY <1>2, PathIsFree
<1>6. Level(Down4(r, p)) = 4 /\ p[4] \in Index
  BY <1>2, <1>5, PathPlaces
<1>7. CASE c.failed = Yes
  BY <1>3, <1>7 DEF At, Yes
<1>8. CASE /\ c = Cursor(c.entries, c.free, c.place, c.table, p[4])
           /\ c.table \in Tables /\ c.place[c.table] = Down4(r, p)
  <2>1. c.index = p[4] /\ c.failed = No
    BY <1>8 DEF Cursor
  <2>2. c.failed \in BOOLEAN
    BY <2>1 DEF No
  <2>3. /\ Tree(c.entries, c.free, held, c.place) /\ SamePages(entries, place, c.entries, c.place)
        /\ Accounted(entries, free, held, place) => Accounted(c.entries, c.free, held, c.place)
    BY <1>3 DEF At
  <2> QED
    BY <1>4, <1>5, <1>6, <1>8, <2>1, <2>2, <2>3
<1> QED
  BY <1>3, <1>7, <1>8 DEF At

LEMMA MapStep ==
  ASSUME AInv, NEW r \in Roots, NEW p \in MapPages, NEW f \in held, MapUnmapped(r, p, f)
  PROVE  AInv'
<1>1. PICK c \in resolve_pageentry(r, p) :
        /\ Commit(c, PageEntry(f, p \in UserPages))
        /\ held' = IF c.failed THEN held ELSE held \ {f}
  BY DEF MapUnmapped, mmap
<1>2. Translate(r, p) = Unmapped
  BY DEF MapUnmapped
<1>3. /\ Tree(c.entries, c.free, held, c.place) /\ c.failed \in BOOLEAN
      /\ Accounted(c.entries, c.free, held, c.place)
      /\ ~c.failed => /\ c.table \in Tables /\ c.index \in Index
                      /\ Level(c.place[c.table]) = 4
                      /\ UserHalf(c.place[c.table]) <=> p \in UserPages
                      /\ ~c.entries[c.table][c.index].present
  BY <1>2, ResolvedAt DEF AInv
<1>4. free' = c.free /\ place' = c.place /\ panicked' = c.failed
  BY <1>1 DEF Commit
<1>5. CASE c.failed
  <2>1. entries' = c.entries /\ held' = held
    BY <1>1, <1>5 DEF Commit
  <2> QED
    BY <1>3, <1>4, <2>1 DEF AInv
<1>6. CASE ~c.failed
  <2> DEFINE t == c.table  i == c.index
  <2>1. PageEntry(f, p \in UserPages) = PageEntry(f, UserHalf(c.place[t]))
    <3>1. (p \in UserPages) = UserHalf(c.place[t])
      BY <1>3, <1>6 DEF UserHalf
    <3> QED
      BY <3>1
  <2>2. entries' = Written(c.entries, t, i, PageEntry(f, UserHalf(c.place[t])))
    BY <1>1, <1>6, <2>1 DEF Commit, Written
  <2>3. held' = held \ {f}
    BY <1>1, <1>6
  <2>4. /\ Tree(Written(c.entries, t, i, PageEntry(f, UserHalf(c.place[t]))),
                c.free, held \ {f}, c.place)
        /\ Accounted(Written(c.entries, t, i, PageEntry(f, UserHalf(c.place[t]))),
                     c.free, held \ {f}, c.place)
    BY <1>3, <1>6, MapKeepsTree
  <2> QED
    BY <1>3, <1>4, <2>2, <2>3, <2>4 DEF AInv
<1> QED
  BY <1>3, <1>5, <1>6

LEMMA UnmapStep ==
  ASSUME AInv, NEW r \in Roots, NEW p \in MapPages, munmap(r, p)
  PROVE  AInv'
<1>1. PICK c \in resolve_pageentry(r, p) :
        /\ Commit(c, Zero)
        /\ held' = IF c.failed \/ c.entries[c.table][c.index].address = NULL THEN held
                   ELSE held \cup {c.entries[c.table][c.index].address}
  BY DEF munmap
<1>2. /\ Tree(c.entries, c.free, held, c.place) /\ c.failed \in BOOLEAN
      /\ Accounted(c.entries, c.free, held, c.place)
      /\ ~c.failed => /\ c.table \in Tables /\ c.index \in Index
                      /\ Level(c.place[c.table]) = 4
  BY ResolvedAt DEF AInv
<1>3. free' = c.free /\ place' = c.place /\ panicked' = c.failed
  BY <1>1 DEF Commit
<1>4. CASE c.failed
  <2>1. entries' = c.entries /\ held' = held
    BY <1>1, <1>4 DEF Commit
  <2> QED
    BY <1>2, <1>3, <2>1 DEF AInv
<1>5. CASE ~c.failed
  <2> DEFINE t == c.table  i == c.index
  <2>1. entries' = Written(c.entries, t, i, Zero)
    BY <1>1, <1>5 DEF Commit, Written
  <2>2. held' = IF c.entries[t][i].address = NULL THEN held
                ELSE held \cup {c.entries[t][i].address}
    BY <1>1, <1>5
  <2>3. /\ Tree(Written(c.entries, t, i, Zero), c.free, held', c.place)
        /\ Accounted(Written(c.entries, t, i, Zero), c.free, held', c.place)
    BY <1>2, <1>5, <2>2, UnmapKeepsTree
  <2> QED
    BY <1>2, <1>3, <2>1, <2>3 DEF AInv
<1> QED
  BY <1>2, <1>4, <1>5

LEMMA StepKeepsAInv ==
  ASSUME AInv, [Next]_vars
  PROVE  AInv'
<1>1. ASSUME OutOfFrames PROVE AInv'
  BY <1>1 DEF OutOfFrames, AInv
<1>2. Candidates(free) \subseteq free
  BY CandidatesAssumption DEF AInv, Tree, Types
<1>3. CASE FrameAlloc
  <2>1. ASSUME NEW f \in Candidates(free),
               free' = free \ {f}, held' = held \cup {f},
               entries' = [entries EXCEPT ![f] = Garbage],
               UNCHANGED <<place, panicked>>
        PROVE  AInv'
    <3>1. /\ Tree(Filled(entries, f, Garbage), free \ {f}, held \cup {f}, place)
          /\ Accounted(Filled(entries, f, Garbage), free \ {f}, held \cup {f}, place)
      BY <1>2, AllocKeepsTree DEF AInv
    <3>2. entries' = Filled(entries, f, Garbage)
      BY <2>1 DEF Filled
    <3> QED
      BY <2>1, <3>1, <3>2 DEF AInv
  <2> QED
    BY <1>1, <1>3, <2>1 DEF FrameAlloc
<1>4. ASSUME NEW f \in held, FrameDealloc(f) PROVE AInv'
  BY <1>4, DeallocKeepsTree DEF FrameDealloc, AInv
<1>5. CASE create_address_space
  <2>1. ASSUME NEW f \in Candidates(free), free' = free \ {f},
               entries' = [entries EXCEPT ![f] = RootTable],
               place' = [place EXCEPT ![f] = <<f>>],
               UNCHANGED <<held, panicked>>
        PROVE  AInv'
    <3>1. /\ Tree(Filled(entries, f, RootTable), free \ {f}, held, PutAt(place, f, Top(f)))
          /\ Accounted(Filled(entries, f, RootTable), free \ {f}, held, PutAt(place, f, Top(f)))
      BY <1>2, CreateKeepsTree DEF AInv
    <3>2. entries' = Filled(entries, f, RootTable) /\ place' = PutAt(place, f, Top(f))
      BY <2>1 DEF Filled, PutAt, Top
    <3> QED
      BY <2>1, <3>1, <3>2 DEF AInv
  <2> QED
    BY <1>1, <1>5, <2>1 DEF create_address_space
<1>6. ASSUME NEW r \in Roots \ {kernel_pml4}, NEW p \in UserPages,
             munmap(r, p) \/ \E f \in held : MapUnmapped(r, p, f)
      PROVE  AInv'
  <2>1. r \in Roots /\ p \in MapPages
    BY DEF MapPages
  <2> QED
    BY <1>6, <2>1, MapStep, UnmapStep
<1>7. ASSUME NEW p \in DynamicPages, NEW f \in held, MapUnmapped(kernel_pml4, p, f)
      PROVE  AInv'
  <2>1. Tree(entries, free, held, place)
    BY DEF AInv
  <2>2. kernel_pml4 \in Roots /\ p \in MapPages
    BY <2>1, RootLevel, KernelPlaces DEF MapPages, Tree, Places
  <2> QED
    BY <1>7, <2>2, MapStep
<1>8. CASE UNCHANGED vars
  BY <1>8 DEF vars, AInv
<1> QED
  BY <1>3, <1>4, <1>5, <1>6, <1>7, <1>8 DEF Next

----------------------------------------------------------------------------
(* Results.                                                                *)

(* In every state the page tables form a tree below each root in which     *)
(* place says where a table hangs, and every frame that is neither free    *)
(* nor held is a root or entered in it (address_space.c and memory.c).     *)
THEOREM TablesFormATree == Spec => []AInv
<1>1. Init => AInv
  BY InitTree
<1>2. AInv /\ [Next]_vars => AInv'
  BY StepKeepsAInv
<1> QED
  BY <1>1, <1>2, PTL DEF Spec

(* The tables, the frames and the places keep their types, whatever the    *)
(* clients map and unmap.                                                  *)
THEOREM AddressSpaceTypes == Spec => []TypeOK
<1>1. AInv => TypeOK
  <2> SUFFICES ASSUME AInv PROVE TypeOK
    OBVIOUS
  <2>1. Types(entries, free, held, place) /\ panicked \in BOOLEAN
    BY DEF AInv, Tree
  <2> QED
    BY <2>1 DEF Types, TypeOK, EntryType, PlaceSeq
<1> QED
  BY <1>1, TablesFormATree, PTL

(* resolve_pageentry, mmap and munmap neither lose a frame nor use one     *)
(* twice: each is free, held, a root, or entered in exactly one place.     *)
THEOREM OneUse == Spec => []EveryFrameHasOneUse
<1>1. AInv => EveryFrameHasOneUse
  BY TreeHasOneUse DEF AInv
<1> QED
  BY <1>1, TablesFormATree, PTL

(* What user mode reaches in a space is a frame that is no table, that the *)
(* allocator does not have, and that no other page of any space reaches.   *)
THEOREM Isolation == Spec => []UserIsolation
<1>1. AInv => UserIsolation
  BY TreeIsolates DEF AInv
<1> QED
  BY <1>1, TablesFormATree, PTL

----------------------------------------------------------------------------
(* The maps: what an operation does to the tree of tables is, seen through *)
(* the translations, a change of one page or of none.                      *)

KernelPages == {p \in Pages : p[1] \in {LINEAR, KERNEL}}

(* The tree has a table for page p of the space r, and an entry in it.     *)
Leads(E, P, r, p, t) == t \in Tables /\ P[t] = Down4(r, p) /\ E[t][p[4]].present

----------------------------------------------------------------------------
(* Translations are read off the last level of the tree.                   *)

(* A table hangs by an entry of the one table above it.                    *)
LEMMA Above ==
  ASSUME NEW E, NEW F, NEW H, NEW P, Tree(E, F, H, P),
         NEW u \in Tables, NEW q \in PlaceSeq, NEW i \in Index, Level(q) \in 1 .. 3,
         P[u] = ChildPlace(q, i), Level(q) # 1 \/ i \notin {LINEAR, KERNEL}
  PROVE  \E v \in Tables : /\ P[v] = q /\ E[v][i].present /\ ~E[v][i].big
                           /\ E[v][i].user /\ E[v][i].address = u
<1>1. Level(P[u]) \notin {0, 1}
  <2>1. Level(P[u]) = Level(q) + 1
    BY ChildLevel
  <2> QED
    BY <2>1
<1>3. Named(E, P, u)
  BY <1>1 DEF Tree, Hangs
<1>4. PICK v \in Tables, j \in Index :
        Level(P[v]) # 0 /\ E[v][j].present /\ E[v][j].address = u
  BY <1>3 DEF Named
<1>5. E[v][j] # BigPage
  BY <1>4, EntryTypes, NodesAssumption
<1>6. P[u] = ChildPlace(P[v], j) /\ Level(P[v]) \in 1 .. 3 /\ ~E[v][j].big
      /\ v \notin {kernel_pagedir, kernel_linear}
  BY <1>1, <1>4, <1>5, Naming
<1>7. P[v] = q /\ j = i
  <2>1. P[v] \in PlaceSeq
    BY DEF Tree, Types
  <2> DEFINE w == P[v]
  <2>2. w \in PlaceSeq /\ ChildPlace(q, i) = ChildPlace(w, j)
    BY <1>6, <2>1
  <2> HIDE DEF w
  <2>3. q = w /\ i = j
    BY <2>2, ChildOnly
  <2> QED
    BY <2>3 DEF w
<1>8. E[v][i].user
  <2>1. EntryFits(E, F, H, P, v, i)
    BY <1>4, <1>7 DEF Tree
  <2>2. E[v][i] # Zero /\ ~(Level(P[v]) = 1 /\ i = LINEAR) /\ Level(P[v]) # 4
    BY <1>4, <1>6, <1>7, EntryTypes
  <2> QED
    BY <1>6, <2>1, <2>2 DEF EntryFits
<1> QED
  BY <1>4, <1>6, <1>7, <1>8

(* The entry of a root that leads to the table at a place below it.        *)
LEMMA AboveRoot ==
  ASSUME NEW E, NEW F, NEW H, NEW P, Tree(E, F, H, P),
         NEW r \in Tables, Level(P[r]) = 1, NEW i \in Index, i # LINEAR,
         NEW u \in Tables, P[u] = ChildPlace(Top(r), i)
  PROVE  E[r][i].present /\ ~E[r][i].big /\ E[r][i].user /\ E[r][i].address = u
<1>1. Top(r) \in PlaceSeq /\ Level(Top(r)) = 1 /\ P[r] = Top(r) /\ Level(Top(r)) \in 1 .. 3
  BY TopFacts DEF Tree, Places
<1>2. CASE i # KERNEL
  <2>1. PICK v \in Tables : /\ P[v] = Top(r) /\ E[v][i].present /\ ~E[v][i].big
                            /\ E[v][i].user /\ E[v][i].address = u
    BY <1>1, <1>2, Above
  <2>2. v = r
    BY <1>1, <2>1 DEF Tree, Places
  <2> QED
    BY <2>1, <2>2
<1>3. CASE i = KERNEL
  <2>1. E[r][i].present /\ E[r][i].address = kernel_pagedirtable
    BY <1>3 DEF Tree, RootsShare
  <2>2. Level(P[kernel_pagedirtable]) = 2 /\ kernel_pagedirtable \in Tables
    BY KernelPlaces, StaticLevels
  <2>3. u = kernel_pagedirtable
    <3>1. Shared(Top(r), i) /\ Shared(Top(kernel_pml4), i)
      BY <1>1, <1>3, KernelPlaces DEF Shared
    <3>2. P[u] = P[kernel_pagedirtable]
      BY <1>3, <3>1, ChildOfShared DEF Tree, Places
    <3> QED
      BY <2>2, <3>2 DEF Tree, Places
  <2>4. r \notin {kernel_pagedir, kernel_linear}
    BY StaticLevels
  <2>5. EntryFits(E, F, H, P, r, i) /\ E[r][i] # Zero
    BY <2>1, EntryTypes DEF Tree
  <2> QED
    BY <1>3, <2>1, <2>3, <2>4, <2>5 DEF EntryFits, LINEAR, KERNEL
<1> QED
  BY <1>2, <1>3

(* Down to the last level, where there is a table for the page.            *)
LEMMA PathUp ==
  ASSUME NEW E, NEW F, NEW H, NEW P, Tree(E, F, H, P),
         NEW r \in Tables, Level(P[r]) = 1, NEW p \in MapPages,
         NEW t \in Tables, P[t] = Down4(r, p)
  PROVE  /\ Look4(E, r, p).present /\ ~Look4(E, r, p).big /\ Look4(E, r, p).user
         /\ Look4(E, r, p) = E[r][p[1]]
         /\ Look3(E, r, p).present /\ ~Look3(E, r, p).big /\ Look3(E, r, p).user
         /\ Look2(E, r, p).present /\ ~Look2(E, r, p).big /\ Look2(E, r, p).user
         /\ Look1(E, r, p) = E[t][p[4]]
<1>1. /\ p \in Pages
      /\ Top(r) \in PlaceSeq /\ Level(Top(r)) = 1
      /\ Down2(r, p) \in PlaceSeq /\ Level(Down2(r, p)) \in 1 .. 3 /\ Level(Down2(r, p)) # 1
      /\ Down3(r, p) \in PlaceSeq /\ Level(Down3(r, p)) \in 1 .. 3 /\ Level(Down3(r, p)) # 1
      /\ p[1] \in Index /\ p[2] \in Index /\ p[3] \in Index /\ p[4] \in Index
  BY PathIsFree, PathPlaces
<1>2. PICK t2 \in Tables : /\ P[t2] = Down3(r, p) /\ E[t2][p[3]].present /\ ~E[t2][p[3]].big
                            /\ E[t2][p[3]].user /\ E[t2][p[3]].address = t
  BY <1>1, Above DEF Down4
<1>3. PICK t3 \in Tables : /\ P[t3] = Down2(r, p) /\ E[t3][p[2]].present /\ ~E[t3][p[2]].big
                            /\ E[t3][p[2]].user /\ E[t3][p[2]].address = t2
  BY <1>1, <1>2, Above DEF Down3
<1>4. /\ E[r][p[1]].present /\ ~E[r][p[1]].big
      /\ E[r][p[1]].user /\ E[r][p[1]].address = t3
  <2>1. p[1] # LINEAR
    BY <1>1, PagesAssumption DEF MapPages, LINEAR, KERNEL
  <2> QED
    BY <1>1, <1>3, <2>1, AboveRoot DEF Down2
<1>5. Look4(E, r, p) = E[r][p[1]]
  BY DEF Look4, Read
<1>6. Look3(E, r, p) = E[t3][p[2]]
  BY <1>4, <1>5 DEF Look3, Read
<1>7. Look2(E, r, p) = E[t2][p[3]]
  BY <1>3, <1>6 DEF Look2, Read
<1>8. Look1(E, r, p) = E[t][p[4]]
  BY <1>2, <1>7 DEF Look1, Read
<1> QED
  BY <1>2, <1>3, <1>4, <1>5, <1>6, <1>7, <1>8

LEMMA TranslatesMapped ==
  ASSUME NEW E, NEW F, NEW H, NEW P, Tree(E, F, H, P),
         NEW r \in Tables, Level(P[r]) = 1, NEW p \in MapPages,
         NEW t, Leads(E, P, r, p, t)
  PROVE  Translation(E, r, p) = Mapping(E[t][p[4]].address, p \in UserPages)
<1>1. t \in Tables /\ P[t] = Down4(r, p) /\ E[t][p[4]].present
  BY DEF Leads
<1>2. Level(P[t]) = 4 /\ p[4] \in Index /\ (UserHalf(P[t]) <=> p \in UserPages)
  BY <1>1, PathIsFree, PathPlaces
<1>3. E[t][p[4]].user <=> p \in UserPages
  BY <1>1, <1>2, WalkLeaf
<1> DEFINE u == Look4(E, r, p).user /\ Look3(E, r, p).user /\ Look2(E, r, p).user
                 /\ Look1(E, r, p).user
<1>4. Translation(E, r, p) = Mapping(Look1(E, r, p).address, u)
  BY <1>1, PathUp DEF Translation
<1>5. u <=> p \in UserPages
  BY <1>1, <1>3, PathUp
<1>6. u = (p \in UserPages)
  BY <1>5
<1> HIDE DEF u
<1>7. Look1(E, r, p) = E[t][p[4]]
  BY <1>1, PathUp
<1> QED
  BY <1>4, <1>6, <1>7

LEMMA TranslatesUnmapped ==
  ASSUME NEW E, NEW F, NEW H, NEW P, Tree(E, F, H, P),
         NEW r \in Tables, Level(P[r]) = 1, NEW p \in MapPages,
         \A t \in Tables : ~Leads(E, P, r, p, t)
  PROVE  Translation(E, r, p) = Unmapped
<1> DEFINE T3 == Look4(E, r, p).address
           T2 == Look3(E, r, p).address
           T1 == Look2(E, r, p).address
<1>1. /\ p \in Pages /\ P[r] = Top(r)
      /\ Level(Down2(r, p)) = 2 /\ Level(Down3(r, p)) = 3
      /\ Down2(r, p) \notin BigPlaces /\ Down3(r, p) \notin BigPlaces
      /\ p[1] \in Index /\ p[2] \in Index /\ p[3] \in Index /\ p[4] \in Index
  BY PathIsFree, PathPlaces DEF Tree, Places
<1>2. \A t \in Tables : \A i : Read(E, t, i) = E[t][i]
  BY DEF Read
<1>3. \A t \in {kernel_linear, kernel_pagedir} : P[t] \in BigPlaces
  BY DEF Tree, Places, BigPlaces
<1>4. ASSUME NEW t \in Tables, NEW i \in Index, Level(P[t]) \in 1 .. 3, P[t] \notin BigPlaces,
             E[t][i].present
      PROVE  ~E[t][i].big /\ E[t][i].address \in Tables /\ P[E[t][i].address] = ChildPlace(P[t], i)
  <2>1. t \notin {kernel_pagedir, kernel_linear} /\ Level(P[t]) # 0 /\ Level(P[t]) # 4
    BY <1>3, <1>4
  <2> QED
    BY <1>4, <2>1, Naming
<1>5. CASE ~Look4(E, r, p).present
  BY <1>5 DEF Translation
<1>6. CASE Look4(E, r, p).present
  <2>1. T3 \in Tables /\ P[T3] = Down2(r, p)
    <3>1. Top(r) \notin BigPlaces
      BY PathIsFree
    <3>2. Level(P[r]) \in 1 .. 3
      OBVIOUS
    <3> QED
      BY <1>1, <1>2, <1>4, <1>6, <3>1, <3>2 DEF Look4, Down2
  <2> HIDE DEF T3
  <2>2. Look3(E, r, p) = E[T3][p[2]]
    BY <1>2, <2>1 DEF Look3, T3
  <2>3. CASE ~Look3(E, r, p).present
    BY <1>6, <2>3 DEF Translation
  <2>4. CASE Look3(E, r, p).present
    <3>1. ~Look3(E, r, p).big /\ T2 \in Tables /\ P[T2] = Down3(r, p)
      <4>1. Level(P[T3]) \in 1 .. 3 /\ P[T3] \notin BigPlaces
        BY <1>1, <2>1
      <4> QED
        BY <1>1, <1>4, <2>1, <2>2, <2>4, <4>1 DEF Down3
    <3> HIDE DEF T2
    <3>2. Look2(E, r, p) = E[T2][p[3]]
      BY <1>2, <3>1 DEF Look2, T2
    <3>3. CASE ~Look2(E, r, p).present
      BY <1>6, <2>4, <3>1, <3>3 DEF Translation
    <3>4. CASE Look2(E, r, p).present
      <4>1. ~Look2(E, r, p).big /\ T1 \in Tables /\ P[T1] = Down4(r, p)
        <5>1. Level(P[T2]) \in 1 .. 3 /\ P[T2] \notin BigPlaces
          BY <1>1, <3>1
        <5> QED
          BY <1>1, <1>4, <3>1, <3>2, <3>4, <5>1 DEF Down4
      <4> HIDE DEF T1
      <4>2. Look1(E, r, p) = E[T1][p[4]]
        BY <1>2, <4>1 DEF Look1, T1
      <4>3. ~Look1(E, r, p).present
        BY <4>1, <4>2 DEF Leads
      <4> QED
        BY <1>6, <2>4, <3>1, <3>4, <4>1, <4>3 DEF Translation
    <3> QED
      BY <3>3, <3>4
  <2> QED
    BY <2>3, <2>4
<1> QED
  BY <1>5, <1>6

(* The kernel image and the linear window, in every space.                 *)
LEMMA TranslatesFixed ==
  ASSUME NEW E, NEW F, NEW H, NEW P, Tree(E, F, H, P),
         NEW r \in Tables, Level(P[r]) = 1, NEW p \in FixedPages
  PROVE  Translation(E, r, p) = Mapping(RAM, FALSE)
<1>1. /\ p \in Pages /\ p[2] \in Index /\ p[3] \in Index
      /\ p[1] = LINEAR \/ (p[1] = KERNEL /\ p[2] = 510 /\ p[3] < 16)
  BY PagesAssumption DEF Pages
<1>2. /\ \A t \in Tables : \A i : Read(E, t, i) = E[t][i]
      /\ BigPage.present /\ BigPage.big /\ BigPage.address = RAM /\ ~BigPage.user
  BY DEF Read, BigPage, Entry
<1>3. CASE p[1] = LINEAR
  <2>1. Look4(E, r, p).present /\ Look4(E, r, p).address = kernel_linear
    BY <1>2, <1>3 DEF Look4, Tree, RootsShare
  <2>2. Look3(E, r, p) = BigPage
    BY <1>1, <1>2, <2>1, KernelPlaces DEF Look3, Tree, BigPages
  <2> DEFINE u == Look4(E, r, p).user /\ Look3(E, r, p).user
  <2>3. Translation(E, r, p) = Mapping(RAM, u)
    BY <1>2, <2>1, <2>2 DEF Translation
  <2>4. u = FALSE
    BY <1>2, <2>2
  <2> HIDE DEF u
  <2> QED
    BY <2>3, <2>4
<1>4. CASE p[1] = KERNEL /\ p[2] = 510 /\ p[3] < 16
  <2>1. Look4(E, r, p).present /\ Look4(E, r, p).address = kernel_pagedirtable
    BY <1>2, <1>4 DEF Look4, Tree, RootsShare
  <2>2. /\ Look3(E, r, p).present /\ ~Look3(E, r, p).big
        /\ Look3(E, r, p).address = kernel_pagedir
    <3>1. PICK v \in Tables : /\ P[v] = ChildPlace(Top(kernel_pml4), KERNEL)
                              /\ E[v][510].present /\ ~E[v][510].big
                              /\ E[v][510].address = kernel_pagedir
      <4>1. Level(ChildPlace(Top(kernel_pml4), KERNEL)) \in 1 .. 3
            /\ Level(ChildPlace(Top(kernel_pml4), KERNEL)) # 1
        BY KernelPlaces
      <4>2. 510 \in Index
        BY PagesAssumption
      <4>3. P[kernel_pagedir] = ChildPlace(ChildPlace(Top(kernel_pml4), KERNEL), 510)
        BY DEF Tree, Places
      <4> QED
        BY <4>1, <4>2, <4>3, KernelPlaces, Above
    <3>2. v = kernel_pagedirtable
      BY <3>1, KernelPlaces DEF Tree, Places
    <3> QED
      BY <1>2, <1>4, <2>1, <3>1, <3>2 DEF Look3
  <2>3. Look2(E, r, p) = BigPage
    BY <1>1, <1>2, <1>4, <2>2, KernelPlaces DEF Look2, Tree, BigPages
  <2> DEFINE u == Look4(E, r, p).user /\ Look3(E, r, p).user /\ Look2(E, r, p).user
  <2>4. Translation(E, r, p) = Mapping(RAM, u)
    BY <1>2, <2>1, <2>2, <2>3 DEF Translation
  <2>5. u = FALSE
    BY <1>2, <2>3
  <2> HIDE DEF u
  <2> QED
    BY <2>4, <2>5
<1> QED
  BY <1>1, <1>3, <1>4

----------------------------------------------------------------------------
(* What changes of the tree do to translations.                            *)

SameWay(E, P, r, E2, P2, s, p) ==
  \A t \in Tables : /\ Leads(E, P, r, p, t) <=> Leads(E2, P2, s, p, t)
                    /\ Leads(E, P, r, p, t) => E2[t][p[4]].address = E[t][p[4]].address

LEMMA SameTranslation ==
  ASSUME NEW E, NEW F, NEW H, NEW P, Tree(E, F, H, P),
         NEW E2, NEW F2, NEW H2, NEW P2, Tree(E2, F2, H2, P2),
         NEW r \in Tables, Level(P[r]) = 1, NEW s \in Tables, Level(P2[s]) = 1,
         NEW p \in Pages, p \in MapPages => SameWay(E, P, r, E2, P2, s, p)
  PROVE  Translation(E2, s, p) = Translation(E, r, p)
<1>1. CASE p \in FixedPages
  BY <1>1, TranslatesFixed
<1>2. CASE p \in MapPages /\ \E t \in Tables : Leads(E, P, r, p, t)
  <2>1. PICK t \in Tables : Leads(E, P, r, p, t)
    BY <1>2
  <2>2. Leads(E2, P2, s, p, t) /\ E2[t][p[4]].address = E[t][p[4]].address
    BY <1>2, <2>1 DEF SameWay
  <2>3. Translation(E, r, p) = Mapping(E[t][p[4]].address, p \in UserPages)
    BY <1>2, <2>1, TranslatesMapped
  <2>4. Translation(E2, s, p) = Mapping(E2[t][p[4]].address, p \in UserPages)
    BY <1>2, <2>2, TranslatesMapped
  <2> QED
    BY <2>2, <2>3, <2>4
<1>3. CASE p \in MapPages /\ \A t \in Tables : ~Leads(E, P, r, p, t)
  <2>1. \A t \in Tables : ~Leads(E2, P2, s, p, t)
    BY <1>3 DEF SameWay
  <2>2. Translation(E, r, p) = Unmapped
    BY <1>3, TranslatesUnmapped
  <2>3. Translation(E2, s, p) = Unmapped
    BY <1>3, <2>1, TranslatesUnmapped
  <2> QED
    BY <2>2, <2>3
<1> QED
  BY <1>1, <1>2, <1>3 DEF Pages

LEMMA PagesStay ==
  ASSUME NEW E, NEW F, NEW H, NEW P, Tree(E, F, H, P),
         NEW E2, NEW F2, NEW H2, NEW P2, Tree(E2, F2, H2, P2),
         SamePages(E, P, E2, P2),
         NEW r \in Tables, Level(P[r]) = 1, NEW p \in Pages
  PROVE  Translation(E2, r, p) = Translation(E, r, p)
<1>1. Level(P2[r]) = 1
  BY DEF SamePages
<1>2. SameWay(E, P, r, E2, P2, r, p)
  <2> SUFFICES ASSUME NEW t \in Tables
               PROVE  /\ Leads(E, P, r, p, t) <=> Leads(E2, P2, r, p, t)
                      /\ Leads(E, P, r, p, t) => E2[t][p[4]].address = E[t][p[4]].address
    BY DEF SameWay
  <2>1. Level(Down4(r, p)) = 4 /\ p[4] \in Index
    BY PathPlaces
  <2>2. /\ Level(P[t]) = 4 /\ E[t][p[4]].present <=> Level(P2[t]) = 4 /\ E2[t][p[4]].present
        /\ Level(P[t]) = 4 /\ E[t][p[4]].present => P2[t] = P[t] /\ E2[t][p[4]] = E[t][p[4]]
    BY <2>1 DEF SamePages
  <2> QED
    BY <2>1, <2>2 DEF Leads
<1> QED
  BY <1>1, <1>2, SameTranslation

(* Walks that end at one entry are of one page, and of one space unless    *)
(* the page is the kernel's.                                               *)
LEMMA SameEnd ==
  ASSUME NEW r \in Tables, NEW p \in Pages, NEW s \in Tables, NEW q \in Pages,
         Down4(r, p) = Down4(s, q), p[4] = q[4]
  PROVE  q = p /\ (s = r \/ p \in KernelPages)
<1>1. /\ Top(r) \in PlaceSeq /\ Level(Top(r)) = 1
      /\ Down2(r, p) \in PlaceSeq /\ Level(Down2(r, p)) = 2
      /\ Down3(r, p) \in PlaceSeq /\ Level(Down3(r, p)) = 3
      /\ p[1] \in Index /\ p[2] \in Index /\ p[3] \in Index
  BY PathPlaces
<1>2. /\ Top(s) \in PlaceSeq /\ Down2(s, q) \in PlaceSeq /\ Down3(s, q) \in PlaceSeq
      /\ q[1] \in Index /\ q[2] \in Index /\ q[3] \in Index
  BY PathPlaces
<1>3. Down3(r, p) = Down3(s, q) /\ p[3] = q[3]
  BY <1>1, <1>2, ChildOnly DEF Down4
<1>4. Down2(r, p) = Down2(s, q) /\ p[2] = q[2]
  BY <1>1, <1>2, <1>3, ChildOnly DEF Down3
<1>5. \/ Top(r) = Top(s) /\ p[1] = q[1]
      \/ p[1] \in {LINEAR, KERNEL} /\ p[1] = q[1]
  BY <1>1, <1>2, <1>4, ChildInjective DEF Down2, Shared
<1>6. q = p
  <2>1. p \in Index \X Index \X Index \X Index /\ q \in Index \X Index \X Index \X Index
    BY PagesAssumption
  <2>2. p = <<p[1], p[2], p[3], p[4]>> /\ q = <<q[1], q[2], q[3], q[4]>>
    BY <2>1
  <2> QED
    BY <1>3, <1>4, <1>5, <2>2
<1> QED
  BY <1>5, <1>6, TopInjective DEF KernelPages

LEMMA KernelWay ==
  ASSUME NEW r \in Tables, NEW s \in Tables, NEW p \in KernelPages
  PROVE  Down4(r, p) = Down4(s, p)
<1>1. Shared(Top(r), p[1]) /\ Shared(Top(s), p[1])
  BY TopFacts DEF Shared, KernelPages
<1>2. Down2(r, p) = Down2(s, p)
  BY <1>1, ChildOfShared DEF Down2
<1> QED
  BY <1>2 DEF Down3, Down4

(* Entry e written where page p of the space r is entered.                 *)
LEMMA WrittenPage ==
  ASSUME NEW E, NEW F, NEW H, NEW P, Tree(E, F, H, P),
         NEW E2, NEW F2, NEW H2, Tree(E2, F2, H2, P),
         NEW r \in Tables, Level(P[r]) = 1, NEW p \in MapPages,
         NEW t \in Tables, P[t] = Down4(r, p), NEW e \in EntryType,
         E2 = Written(E, t, p[4], e)
  PROVE  /\ e.present => Translation(E2, r, p) = Mapping(e.address, p \in UserPages)
         /\ ~e.present => Translation(E2, r, p) = Unmapped
         /\ \A s \in Tables, q \in Pages :
              Level(P[s]) = 1 =>
                Translation(E2, s, q) = IF q = p /\ (s = r \/ p \in KernelPages)
                                        THEN Translation(E2, r, p) ELSE Translation(E, s, q)
<1>1. p \in Pages /\ p[4] \in Index /\ Level(Down4(r, p)) = 4
  BY PathIsFree, PathPlaces
<1>2. \A u \in Tables, j \in Index : E2[u][j] = IF u = t /\ j = p[4] THEN e ELSE E[u][j]
  <2>1. E \in EntryTables
    BY DEF Tree, Types, EntryTables
  <2> QED
    BY <1>1, <2>1, WriteFacts DEF Written
<1>3. \A u \in Tables : P[u] = Down4(r, p) => u = t
  BY <1>1 DEF Tree, Places
<1>4. E2[t][p[4]] = e
  BY <1>1, <1>2
<1>5. ASSUME e.present
      PROVE  Translation(E2, r, p) = Mapping(e.address, p \in UserPages)
  <2>1. Leads(E2, P, r, p, t)
    BY <1>4, <1>5 DEF Leads
  <2> QED
    BY <1>4, <2>1, TranslatesMapped
<1>6. ASSUME ~e.present
      PROVE  Translation(E2, r, p) = Unmapped
  <2>1. \A u \in Tables : ~Leads(E2, P, r, p, u)
    BY <1>3, <1>4, <1>6 DEF Leads
  <2> QED
    BY <2>1, TranslatesUnmapped
<1>7. ASSUME NEW s \in Tables, NEW q \in Pages, Level(P[s]) = 1,
             q = p /\ (s = r \/ p \in KernelPages)
      PROVE  Translation(E2, s, q) = Translation(E2, r, p)
  <2>1. Down4(s, p) = Down4(r, p)
    BY <1>7, KernelWay
  <2>2. SameWay(E2, P, r, E2, P, s, p)
    BY <2>1 DEF SameWay, Leads
  <2> QED
    BY <1>1, <1>7, <2>2, SameTranslation
<1>8. ASSUME NEW s \in Tables, NEW q \in Pages, Level(P[s]) = 1,
             ~(q = p /\ (s = r \/ p \in KernelPages))
      PROVE  Translation(E2, s, q) = Translation(E, s, q)
  <2>1. q[4] \in Index
    BY PathPlaces
  <2>2. ~(Down4(r, p) = Down4(s, q) /\ p[4] = q[4])
    BY <1>1, <1>8, SameEnd
  <2>3. \A u \in Tables : P[u] = Down4(s, q) => E2[u][q[4]] = E[u][q[4]]
    BY <1>2, <2>1, <2>2
  <2>4. SameWay(E, P, s, E2, P, s, q)
    BY <2>3 DEF SameWay, Leads
  <2> QED
    BY <1>8, <2>4, SameTranslation
<1> QED
  BY <1>5, <1>6, <1>7, <1>8

(* A frame that becomes the root of a space.                               *)
LEMMA NewSpace ==
  ASSUME NEW E, NEW F, NEW H, NEW P, Tree(E, F, H, P), NEW f \in F,
         NEW E2, E2 = Filled(E, f, RootTable), NEW P2, P2 = PutAt(P, f, Top(f))
  PROVE  /\ f \in Tables /\ Level(P[f]) = 0
         /\ \A s \in Tables : Level(P2[s]) = 1 <=> Level(P[s]) = 1 \/ s = f
         /\ \A s \in Tables, p \in Pages :
              Level(P[s]) = 1 => Translation(E2, s, p) = Translation(E, s, p)
         /\ \A p \in KernelPages : Translation(E2, f, p) = Translation(E, kernel_pml4, p)
         /\ \A p \in Pages \ KernelPages : Translation(E2, f, p) = Unmapped
<1>1. f \in Tables /\ Level(P[f]) = 0 /\ E \in EntryTables /\ P \in [Tables -> PlaceSeq]
  BY DEF Tree, Types, Places, Tables, EntryTables
<1>2. /\ Tree(E2, F \ {f}, H, P2)
      /\ \A u \in Tables : E2[u] = IF u = f THEN RootTable ELSE E[u]
      /\ \A u \in Tables : P2[u] = IF u = f THEN Top(f) ELSE P[u]
  BY <1>1, CreateKeepsTree, TableTypes DEF Filled, PutAt, EntryTables
<1>3. Level(Top(f)) = 1
  BY <1>1, TopFacts
<1>4. \A s \in Tables : Level(P2[s]) = 1 <=> Level(P[s]) = 1 \/ s = f
  BY <1>1, <1>2, <1>3
<1>5. ASSUME NEW s \in Tables, NEW r \in Tables, NEW p \in Pages,
             Level(P[r]) = 1, Level(P2[s]) = 1, Down4(s, p) = Down4(r, p)
      PROVE  Translation(E2, s, p) = Translation(E, r, p)
  <2>1. Level(Down4(r, p)) = 4
    BY PathPlaces
  <2>2. SameWay(E, P, r, E2, P2, s, p)
    BY <1>1, <1>2, <1>3, <1>5, <2>1 DEF SameWay, Leads
  <2> QED
    BY <1>2, <1>5, <2>2, SameTranslation
<1>6. \A s \in Tables, p \in Pages :
        Level(P[s]) = 1 => Translation(E2, s, p) = Translation(E, s, p)
  BY <1>4, <1>5
<1>7. ASSUME NEW p \in KernelPages
      PROVE  Translation(E2, f, p) = Translation(E, kernel_pml4, p)
  <2>1. Level(P[kernel_pml4]) = 1 /\ kernel_pml4 \in Tables /\ p \in Pages
    BY StaticLevels, KernelPlaces DEF KernelPages
  <2>2. Down4(f, p) = Down4(kernel_pml4, p)
    BY <1>1, <2>1, KernelWay
  <2> QED
    BY <1>1, <1>4, <1>5, <2>1, <2>2
<1>8. ASSUME NEW p \in Pages \ KernelPages
      PROVE  Translation(E2, f, p) = Unmapped
  <2>1. p[1] \in Index /\ p[1] \notin {LINEAR, KERNEL} /\ p \in MapPages
    BY PathPlaces, <1>1, PagesAssumption DEF KernelPages, Pages, MapPages
  <2>2. ~E2[f][p[1]].present
    BY <1>1, <1>2, <2>1, RootTableFacts, EntryTypes
  <2>3. \A t \in Tables : ~Leads(E2, P2, f, p, t)
    <3> SUFFICES ASSUME NEW t \in Tables, Leads(E2, P2, f, p, t) PROVE FALSE
      OBVIOUS
    <3>1. P2[t] = Down4(f, p)
      BY DEF Leads
    <3>2. Look4(E2, f, p).present /\ Look4(E2, f, p) = E2[f][p[1]]
      BY <1>1, <1>2, <1>4, <2>1, <3>1, PathUp
    <3> QED
      BY <2>2, <3>2
  <2> QED
    BY <1>1, <1>2, <1>4, <2>1, <2>3, TranslatesUnmapped
<1> QED
  BY <1>1, <1>4, <1>6, <1>7, <1>8

----------------------------------------------------------------------------
(* Every step is one of VirtualMemory, or changes no translation.          *)

RootsOf(P) == {t \in Tables : Level(P[t]) = 1}

Map == [r \in Roots |-> [p \in Pages |-> Translate(r, p)]]

LEMMA RootsAre ==
  ASSUME NEW E, NEW F, NEW H, NEW P, Tree(E, F, H, P)
  PROVE  {t \in Frames \cup {kernel_pml4} : P[t] = <<t>>} = RootsOf(P)
<1>1. \A t \in Static : Level(P[t]) = 1 => t = kernel_pml4
  BY StaticLevels DEF Static
<1>2. \A t \in Tables : P[t] = Top(t) <=> Level(P[t]) = 1
  BY TopFacts DEF Tree, Places
<1> QED
  BY <1>1, <1>2, KernelPlaces DEF Tables, Top, RootsOf

LEMMA MapIs ==
  ASSUME AInv
  PROVE  /\ Roots = RootsOf(place) /\ DOMAIN Map = RootsOf(place)
         /\ \A r \in RootsOf(place), p \in Pages : Map[r][p] = Translation(entries, r, p)
<1>1. Roots = RootsOf(place)
  BY RootsAre DEF AInv, Roots
<1> QED
  BY <1>1, TranslateIs DEF Map

LEMMA MapWillBe ==
  ASSUME AInv'
  PROVE  /\ Roots' = RootsOf(place') /\ DOMAIN Map' = RootsOf(place')
         /\ Map' = [r \in RootsOf(place') |-> Map'[r]]
         /\ \A r \in RootsOf(place') : Map'[r] = [p \in Pages |-> Map'[r][p]]
         /\ \A r \in RootsOf(place'), p \in Pages : Map'[r][p] = Translation(entries', r, p)
<1>1. Roots' = RootsOf(place')
  BY RootsAre DEF AInv, Roots
<1>2. \A r, p : Translate(r, p)' = Translation(entries', r, p)
  BY DEF Translate, Translation, Look4, Look3, Look2, Look1
<1>3. Map' = [r \in RootsOf(place') |-> [p \in Pages |-> Translation(entries', r, p)]]
  BY <1>1, <1>2 DEF Map
<1> QED
  BY <1>1, <1>3

(* No translation changes when the pages stay.                             *)
LEMMA MapStays ==
  ASSUME AInv, AInv', SamePages(entries, place, entries', place')
  PROVE  Map' = Map
<1>1. RootsOf(place') = RootsOf(place)
  BY DEF SamePages, RootsOf
<1>2. \A r \in RootsOf(place), p \in Pages :
        Translation(entries', r, p) = Translation(entries, r, p)
  BY PagesStay DEF AInv, RootsOf
<1>3. Map = [r \in RootsOf(place) |-> [p \in Pages |-> Map[r][p]]]
  BY MapIs DEF Map
<1>4. Map' = [r \in RootsOf(place) |-> [p \in Pages |-> Map'[r][p]]]
  BY <1>1, MapWillBe
<1>5. \A r \in RootsOf(place), p \in Pages : Map'[r][p] = Map[r][p]
  BY <1>1, <1>2, MapIs, MapWillBe
<1> QED
  BY <1>3, <1>4, <1>5

(* One page changes, in its space or in all.                               *)
LEMMA MapChanges ==
  ASSUME AInv, AInv', NEW r \in RootsOf(place), NEW p \in MapPages,
         NEW E, NEW F, NEW H, NEW P, Tree(E, F, H, P), SamePages(entries, place, E, P),
         NEW t \in Tables, P[t] = Down4(r, p), NEW e \in EntryType,
         entries' = Written(E, t, p[4], e), place' = P
  PROVE  /\ RootsOf(place') = RootsOf(place) /\ p \in Pages
         /\ e.present => Map'[r][p] = Mapping(e.address, p \in UserPages)
         /\ ~e.present => Map'[r][p] = Unmapped
         /\ \A s \in RootsOf(place), q \in Pages :
              Map'[s][q] = IF q = p /\ (s = r \/ p \in KernelPages) THEN Map'[r][p] ELSE Map[s][q]
<1>1. RootsOf(place') = RootsOf(place)
  BY DEF SamePages, RootsOf
<1>2. \A s \in RootsOf(place) : s \in Tables /\ Level(place[s]) = 1 /\ Level(P[s]) = 1
  BY DEF SamePages, RootsOf
<1>3. Tree(entries', free', held', P)
  BY DEF AInv
<1>4. /\ e.present => Translation(entries', r, p) = Mapping(e.address, p \in UserPages)
      /\ ~e.present => Translation(entries', r, p) = Unmapped
      /\ \A s \in Tables, q \in Pages :
            Level(P[s]) = 1 =>
              Translation(entries', s, q) = IF q = p /\ (s = r \/ p \in KernelPages)
                                      THEN Translation(entries', r, p) ELSE Translation(E, s, q)
  BY <1>2, <1>3, WrittenPage
<1>5. \A s \in RootsOf(place), q \in Pages : Translation(E, s, q) = Translation(entries, s, q)
  BY <1>2, PagesStay DEF AInv
<1>6. p \in Pages
  BY PathIsFree, <1>2
<1> QED
  BY <1>1, <1>2, <1>4, <1>5, <1>6, MapIs, MapWillBe

LEMMA CreateImplements ==
  ASSUME AInv, AInv', NEW f \in free,
         entries' = Filled(entries, f, RootTable), place' = PutAt(place, f, Top(f))
  PROVE  Virtual!Create(f) /\ f \in Tables
<1>1. Tree(entries, free, held, place)
  BY DEF AInv
<1>2. /\ f \in Tables /\ Level(place[f]) = 0
      /\ \A s \in Tables : Level(place'[s]) = 1 <=> Level(place[s]) = 1 \/ s = f
      /\ \A s \in Tables, p \in Pages :
            Level(place[s]) = 1 => Translation(entries', s, p) = Translation(entries, s, p)
      /\ \A p \in KernelPages : Translation(entries', f, p) = Translation(entries, kernel_pml4, p)
      /\ \A p \in Pages \ KernelPages : Translation(entries', f, p) = Unmapped
  BY <1>1, NewSpace
<1>3. RootsOf(place') = RootsOf(place) \cup {f} /\ f \notin RootsOf(place)
  BY <1>2 DEF RootsOf
<1>4. kernel_pml4 \in RootsOf(place)
  BY <1>1, StaticLevels, KernelPlaces DEF RootsOf
<1>5. ASSUME NEW r \in RootsOf(place'), NEW p \in Pages
      PROVE  Map'[r][p] = IF r \in RootsOf(place) THEN Map[r][p]
                          ELSE IF p \in KernelPages THEN Map[kernel_pml4][p]
                          ELSE Unmapped
  <2>1. CASE r \in RootsOf(place)
    BY <1>2, <2>1, MapIs, MapWillBe DEF RootsOf
  <2>2. CASE r = f
    BY <1>2, <1>3, <1>4, <2>2, MapIs, MapWillBe
  <2> QED
    BY <1>3, <2>1, <2>2
<1> QED
  BY <1>2, <1>3, <1>5, MapIs, MapWillBe DEF Virtual!Create, Virtual!Spaces, Map, KernelPages

LEMMA MmapImplements ==
  ASSUME AInv, AInv', NEW r \in Roots, NEW p \in MapPages, NEW f \in held,
         ~panicked, MapUnmapped(r, p, f)
  PROVE  \/ Virtual!Mmap(r, p) /\ p \in Pages /\ panicked' = panicked
         \/ panicked' = TRUE /\ Map' = Map
<1>1. PICK c \in resolve_pageentry(r, p) :
        /\ Commit(c, PageEntry(f, p \in UserPages))
        /\ held' = IF c.failed THEN held ELSE held \ {f}
  BY DEF MapUnmapped, mmap
<1>2. /\ Tree(c.entries, c.free, held, c.place) /\ c.failed \in BOOLEAN
      /\ SamePages(entries, place, c.entries, c.place)
      /\ ~c.failed => /\ c.table \in Tables /\ c.index = p[4]
                      /\ c.place[c.table] = Down4(r, p)
  BY ResolvedAt DEF AInv
<1>3. place' = c.place /\ panicked' = c.failed
  BY <1>1 DEF Commit
<1>4. CASE c.failed
  <2>1. entries' = c.entries
    BY <1>1, <1>4 DEF Commit
  <2>2. Map' = Map
    BY <1>2, <1>3, <2>1, MapStays
  <2> QED
    BY <1>2, <1>3, <1>4, <2>2
<1>5. CASE ~c.failed
  <2>0. panicked' = panicked
    BY <1>2, <1>3, <1>5 DEF AInv
  <2> DEFINE e == PageEntry(f, p \in UserPages)
  <2>1. entries' = Written(c.entries, c.table, p[4], e)
    BY <1>1, <1>2, <1>5 DEF Commit, Written
  <2>2. f \in Frames /\ (p \in UserPages) \in BOOLEAN
    BY DEF AInv, Tree, Types
  <2>3. e \in EntryType /\ e.present /\ e.address = f
    BY <2>2, EntryTypes
  <2> HIDE DEF e
  <2>4. r \in RootsOf(place) /\ Roots = RootsOf(place)
    BY MapIs
  <2>5. /\ RootsOf(place') = RootsOf(place) /\ p \in Pages
        /\ Map'[r][p] = Mapping(f, p \in UserPages)
        /\ \A s \in RootsOf(place), q \in Pages :
             Map'[s][q] = IF q = p /\ (s = r \/ p \in KernelPages) THEN Map'[r][p] ELSE Map[s][q]
    BY <1>2, <1>3, <1>5, <2>1, <2>3, <2>4, MapChanges
  <2>6. Map[r][p] = Unmapped
    BY <2>4, <2>5, MapIs, TranslateIs DEF MapUnmapped
  <2>7. Map'[r][p].frame = f /\ Map'[r][p].user = (p \in UserPages)
    BY <2>5 DEF Mapping
  <2>8. p \in UserPages <=> p \notin KernelPages
    BY <2>5, PagesAssumption DEF KernelPages, MapPages, LINEAR, KERNEL
  <2>9. Map'[r][p].user = (p \notin KernelPages)
    BY <2>7, <2>8
  <2>10. Virtual!Remap(r, p)
    BY <2>5, MapIs, MapWillBe DEF Virtual!Remap, Virtual!Spaces, Map, KernelPages
  <2>11. Virtual!Mmap(r, p)
    BY <2>2, <2>6, <2>7, <2>9, <2>10 DEF Virtual!Mmap, Map, KernelPages
  <2> QED
    BY <2>0, <2>5, <2>11
<1> QED
  BY <1>2, <1>4, <1>5

LEMMA MunmapImplements ==
  ASSUME AInv, AInv', NEW r \in Roots, NEW p \in MapPages, ~panicked, munmap(r, p)
  PROVE  \/ Virtual!Munmap(r, p) /\ p \in Pages /\ panicked' = panicked
         \/ panicked' = panicked /\ Map' = Map
         \/ panicked' = TRUE /\ Map' = Map
<1>1. PICK c \in resolve_pageentry(r, p) : Commit(c, Zero)
  BY DEF munmap
<1>2. /\ Tree(c.entries, c.free, held, c.place) /\ c.failed \in BOOLEAN
      /\ SamePages(entries, place, c.entries, c.place)
      /\ ~c.failed => /\ c.table \in Tables /\ c.index = p[4]
                      /\ c.place[c.table] = Down4(r, p)
  BY ResolvedAt DEF AInv
<1>3. place' = c.place /\ panicked' = c.failed
  BY <1>1 DEF Commit
<1>4. CASE c.failed
  <2>1. entries' = c.entries
    BY <1>1, <1>4 DEF Commit
  <2>2. Map' = Map
    BY <1>2, <1>3, <2>1, MapStays
  <2> QED
    BY <1>2, <1>3, <1>4, <2>2
<1>5. CASE ~c.failed
  <2>0. panicked' = panicked
    BY <1>2, <1>3, <1>5 DEF AInv
  <2>1. entries' = Written(c.entries, c.table, p[4], Zero)
    BY <1>1, <1>2, <1>5 DEF Commit, Written
  <2>4. r \in RootsOf(place) /\ Roots = RootsOf(place)
    BY MapIs
  <2>5. /\ RootsOf(place') = RootsOf(place) /\ p \in Pages
        /\ Map'[r][p] = Unmapped
        /\ \A s \in RootsOf(place), q \in Pages :
             Map'[s][q] = IF q = p /\ (s = r \/ p \in KernelPages) THEN Map'[r][p] ELSE Map[s][q]
    BY <1>2, <1>3, <1>5, <2>1, <2>4, EntryTypes, MapChanges
  <2>6. Virtual!Remap(r, p)
    BY <2>5, MapIs, MapWillBe DEF Virtual!Remap, Virtual!Spaces, Map, KernelPages
  <2>7. CASE Map[r][p] # Unmapped
    <3>1. Virtual!Munmap(r, p)
      BY <2>5, <2>6, <2>7 DEF Virtual!Munmap, Map
    <3> QED
      BY <2>0, <2>5, <3>1
  <2>8. CASE Map[r][p] = Unmapped
    <3>1. \A s \in RootsOf(place), q \in Pages : Map'[s][q] = Map[s][q]
      <4>1. ASSUME NEW s \in RootsOf(place), p \in KernelPages
            PROVE  Map[s][p] = Unmapped
        <5>1. SameWay(entries, place, r, entries, place, s, p)
          BY <2>4, <4>1, KernelWay DEF SameWay, Leads, RootsOf
        <5>2. Translation(entries, s, p) = Translation(entries, r, p)
          BY <2>4, <2>5, <5>1, SameTranslation DEF AInv, RootsOf
        <5> QED
          BY <2>4, <2>5, <2>8, <5>2, MapIs
      <4> QED
        BY <2>4, <2>5, <2>8, <4>1
    <3>2. Map = [s \in RootsOf(place) |-> [q \in Pages |-> Map[s][q]]]
      BY MapIs DEF Map
    <3>3. Map' = [s \in RootsOf(place) |-> [q \in Pages |-> Map'[s][q]]]
      BY <2>5, MapWillBe
    <3>4. Map' = Map
      BY <3>1, <3>2, <3>3
    <3> QED
      BY <2>0, <3>4
  <2> QED
    BY <2>7, <2>8
<1> QED
  BY <1>2, <1>4, <1>5

LEMMA StepImplementsMap ==
  ASSUME AInv, AInv', [Next]_vars
  PROVE  Virtual!Next \/ (panicked' = panicked /\ Map' = Map)
<1>1. Candidates(free) \subseteq free
  BY CandidatesAssumption DEF AInv, Tree, Types
<1>2. ASSUME ~panicked, OutOfFrames PROVE Virtual!Next
  BY <1>2 DEF OutOfFrames, Virtual!Next, Roots, Translate
<1>3. CASE FrameAlloc
  <2>1. ASSUME NEW f \in free, entries' = [entries EXCEPT ![f] = Garbage],
               place' = place, panicked' = panicked
        PROVE  panicked' = panicked /\ Map' = Map
    <3>1. Level(place[f]) = 0 /\ entries \in EntryTables
      BY DEF AInv, Tree, Types, Places, EntryTables
    <3>2. \A u \in Tables : Level(place[u]) # 0 => entries'[u] = entries[u]
      BY <2>1, <3>1 DEF EntryTables
    <3>3. SamePages(entries, place, entries', place')
      BY <2>1, <3>2 DEF SamePages
    <3> QED
      BY <2>1, <3>3, MapStays
  <2> QED
    BY <1>1, <1>2, <1>3, <2>1 DEF FrameAlloc
<1>4. ASSUME NEW f \in held, FrameDealloc(f) PROVE panicked' = panicked /\ Map' = Map
  BY <1>4, MapStays DEF FrameDealloc, SamePages
<1>5. CASE create_address_space
  <2>1. ASSUME NEW f \in free, ~panicked, entries' = [entries EXCEPT ![f] = RootTable],
               place' = [place EXCEPT ![f] = <<f>>], panicked' = panicked
        PROVE  Virtual!Next
    <3>1. entries' = Filled(entries, f, RootTable) /\ place' = PutAt(place, f, Top(f))
      BY <2>1 DEF Filled, PutAt, Top
    <3>2. Virtual!Create(f) /\ f \in Tables
      BY <3>1, CreateImplements
    <3> QED
      BY <2>1, <3>2 DEF Virtual!Next, Virtual!Operation
  <2> QED
    BY <1>1, <1>2, <1>5, <2>1 DEF create_address_space
<1>6. ASSUME NEW r \in Roots, NEW p \in MapPages, NEW f \in held, MapUnmapped(r, p, f)
      PROVE  Virtual!Next
  <2>1. ~panicked
    BY <1>6 DEF MapUnmapped, mmap
  <2>2. \/ Virtual!Mmap(r, p) /\ p \in Pages /\ panicked' = panicked
        \/ panicked' = TRUE /\ Map' = Map
    BY <1>6, <2>1, MmapImplements
  <2>3. r \in Virtual!Spaces
    BY DEF Virtual!Spaces
  <2> QED
    BY <2>1, <2>2, <2>3 DEF Virtual!Next, Virtual!Operation, Map
<1>7. ASSUME NEW r \in Roots, NEW p \in MapPages, munmap(r, p)
      PROVE  Virtual!Next \/ (panicked' = panicked /\ Map' = Map)
  <2>1. ~panicked
    BY <1>7 DEF munmap
  <2>2. \/ Virtual!Munmap(r, p) /\ p \in Pages /\ panicked' = panicked
        \/ panicked' = panicked /\ Map' = Map
        \/ panicked' = TRUE /\ Map' = Map
    BY <1>7, <2>1, MunmapImplements
  <2>3. r \in Virtual!Spaces
    BY DEF Virtual!Spaces
  <2> QED
    BY <2>1, <2>2, <2>3 DEF Virtual!Next, Virtual!Operation, Map
<1>8. kernel_pml4 \in Roots
  BY MapIs, StaticLevels, KernelPlaces DEF AInv, RootsOf
<1>9. CASE UNCHANGED vars
  BY <1>9 DEF vars, Map, Roots, Translate
<1> QED
  BY <1>3, <1>4, <1>5, <1>6, <1>7, <1>8, <1>9 DEF Next, MapPages

(* At boot there is the kernel's space, with the kernel and the window in  *)
(* it and nothing else.                                                    *)
LEMMA InitImplementsMap ==
  ASSUME Init
  PROVE  Virtual!Init
<1>1. AInv /\ panicked = FALSE
  BY InitTree DEF Init
<1>2. /\ Level(place[kernel_pml4]) = 1 /\ kernel_pml4 \in Tables
      /\ \A t \in Tables : Level(place[t]) \notin {1, 4} \/ t = kernel_pml4
  <2>1. \A t \in Tables : t \in Frames \/ t \in {kernel_pml4, kernel_pagedirtable,
                                                kernel_pagedir, kernel_linear}
    BY DEF Tables, Static
  <2> QED
    BY <1>1, <2>1, InitPlaces, StaticLevels, KernelPlaces DEF AInv
<1>3. RootsOf(place) = {kernel_pml4}
  BY <1>2 DEF RootsOf
<1>4. ASSUME NEW p \in Pages
      PROVE  Translation(entries, kernel_pml4, p)
               = IF p \in FixedPages THEN Mapping(RAM, FALSE) ELSE Unmapped
  <2>1. CASE p \in FixedPages
    BY <1>1, <1>2, <2>1, TranslatesFixed DEF AInv
  <2>2. CASE p \notin FixedPages
    <3>1. p \in MapPages
      BY <2>2 DEF Pages
    <3>2. \A t \in Tables : ~Leads(entries, place, kernel_pml4, p, t)
      <4>1. Level(Down4(kernel_pml4, p)) = 4
        BY <1>2, PathPlaces
      <4> QED
        BY <1>2, <4>1 DEF Leads
    <3> QED
      BY <1>1, <1>2, <2>2, <3>1, <3>2, TranslatesUnmapped DEF AInv
  <2> QED
    BY <2>1, <2>2
<1>5. Map = [r \in {kernel_pml4} |->
               [p \in Pages |-> IF p \in FixedPages THEN Mapping(RAM, FALSE) ELSE Unmapped]]
  <2>1. Roots = {kernel_pml4}
    BY <1>1, <1>3, MapIs
  <2>2. \A p \in Pages : Translate(kernel_pml4, p)
                            = IF p \in FixedPages THEN Mapping(RAM, FALSE) ELSE Unmapped
    BY <1>4, TranslateIs
  <2> QED
    BY <2>1, <2>2 DEF Map
<1> QED
  BY <1>1, <1>5 DEF Virtual!Init, Map

(***************************************************************************)
(* resolve_pageentry, mmap, munmap and create_address_space, whatever      *)
(* tables they add: what an address means changes for the one page mapped  *)
(* or unmapped, in its space or, of the kernel half, in all of them, and a *)
(* new space starts with the kernel half and nothing else.                 *)
(***************************************************************************)
THEOREM TablesImplementMaps == Spec => VirtualMemorySpec
<1>1. Init => Virtual!Init
  BY InitImplementsMap
<1>2. AInv /\ AInv' /\ [Next]_vars => [Virtual!Next]_<<Map, panicked>>
  BY StepImplementsMap
<1> QED
  BY <1>1, <1>2, TablesFormATree, PTL DEF Spec, VirtualMemorySpec, Virtual!Spec, Map
=============================================================================
