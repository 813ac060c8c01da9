---------------------------- MODULE TemplatesProofs ----------------------------
(***************************************************************************)
(* Proofs about Templates, for any files, includes, threads and bounds: no  *)
(* template is read inside itself, the cache is bounded, failures have      *)
(* reasons, and what is handed out is whole and fresh.                      *)
(*                                                                         *)
(* PlaceInv says where a template being read stands: below those its chain  *)
(* holds, each called by the one before.  A thread about to store counts as *)
(* an entry of the cache (BoundInv).  FrameInv says what a template being   *)
(* read is made of so far, each file as on disk during the call and as on   *)
(* disk now unless torn; KeptInv that a template that is kept is whole, and *)
(* as on disk unless its times tell that it is not.                         *)
(***************************************************************************)
EXTENDS Templates, FiniteSetTheorems, SequenceTheorems, TLAPS

Entry == [key : Chain, template : Template]

TypeInv ==
    /\ auto_reload \in BOOLEAN
    /\ disk \in [File -> Version] /\ writes \in Version
    /\ \A f \in File : disk[f] <= writes
    /\ loaded \in [Name -> Template \cup {NoTemplate}]
    /\ included \in Seq(Entry)
    /\ stack \in [Thread -> Seq(Frame)]
    /\ answer \in [Thread -> Answer]
    /\ torn \in SUBSET File
    /\ seen \in [Thread -> SUBSET (File \X Version)]

\* Only files are read and included, and only the innermost template of a thread
\* is past its includes: one that is kept for the template that includes it.
Kinds(t) ==
    \A i \in DOMAIN stack[t] :
        /\ stack[t][i].step \in {"read", "stat"} \/ i > 1 => stack[t][i].name \in File
        /\ stack[t][i].step \in {"evict", "store"} => i > 1
        /\ i < Len(stack[t]) => stack[t][i].step = "compile"

KindInv ==
    /\ \A t \in Thread : Kinds(t)
    /\ \A i \in DOMAIN included : included[i].template.name \in File

Typed == TypeInv /\ KindInv

\* A template calls, right or through others, all that are read inside it, and
\* those around it are what its chain holds.
Nested(t) ==
    \A i, j \in DOMAIN stack[t] : i < j =>
        LET outer == stack[t][i]
        IN /\ outer.next \in DOMAIN IncludesOf[outer.name]
           /\ stack[t][j].name \in Reach[IncludesOf[outer.name][outer.next]]
           /\ j = i + 1 => stack[t][j].name = IncludesOf[outer.name][outer.next]

Chained(t) ==
    \A i \in DOMAIN stack[t] :
        Within(stack[t][i].chain) = {stack[t][j].name : j \in 1 .. i - 1}

Distinct(t) ==
    \A i, j \in DOMAIN stack[t] : stack[t][i].name = stack[t][j].name => i = j

PlaceInv == \A t \in Thread : Nested(t) /\ Chained(t) /\ Distinct(t)

\* What a thread asked for is the outermost template it reads, and what is on
\* disk meanwhile is noted.
AskedInv ==
    \A t \in Thread : Reading(t) =>
        /\ stack[t][1].name = answer[t].asked
        /\ Now \subseteq seen[t] /\ EveryVersion(torn) \subseteq seen[t]

\* One thread alone finds the entry it is to give up.
VictimInv ==
    \A t \in Thread :
        Thread = {t} /\ Reading(t) /\ Top(t).step = "evict" => Kept(Top(t).victim) # {}

\* The threads about to store count as entries.
Storers == {t \in Thread : Reading(t) /\ Top(t).step = "store"}

BoundInv ==
    Len(included) + Cardinality(Storers) < MaxIncluded + Cardinality(Thread)

\* A template being read is made of itself, once it is read, and of the includes
\* that are done.
FilesOf(pieces) == {piece[1] : piece \in pieces}

Merges(frame) == UNION {Reach[IncludesOf[frame.name][i]] : i \in 1 .. frame.next - 1}

Made(frame) ==
    /\ frame.next \in 1 .. Len(IncludesOf[frame.name]) + 1
    /\ frame.step \in {"read", "stat"} => frame.next = 1
    /\ frame.step \in {"evict", "store"} => frame.next = Len(IncludesOf[frame.name]) + 1
    /\ FilesOf(frame.pieces) =
           (IF frame.step = "read" THEN {} ELSE {frame.name} \cap File) \cup Merges(frame)

\* All a template is made of is noted, at times that were.
Notes(x) ==
    /\ FilesOf(x.pieces) \subseteq FilesOf(x.includes) \cup {x.name}
    /\ \A file \in x.includes : file[2] \in 1 .. writes

Timed(x) == x.name \in File => x.mtime \in 1 .. writes

\* A version that was read is on disk until its file is torn.
Current(piece) == piece[2] # Missing /\ (piece[2] = disk[piece[1]] \/ piece[1] \in torn)

FrameOk(frame, t) ==
    /\ Made(frame) /\ Notes(frame)
    /\ frame.step \notin {"read", "stat"} => Timed(frame)
    /\ \A piece \in frame.pieces : piece \in seen[t] /\ Current(piece)

\* Of a template kept of a file: it is whole, and not current only if changed.
KeptOk(template) ==
    template.name \in File =>
        /\ FilesOf(template.pieces) = Reach[template.name]
        /\ Notes(template) /\ Timed(template)
        /\ \A piece \in template.pieces :
               piece[2] # Missing /\ (Current(piece) \/ Changed(template))

FrameInv == \A t \in Thread : \A i \in DOMAIN stack[t] : FrameOk(stack[t][i], t)

KeptInv ==
    /\ \A n \in Name : loaded[n] # NoTemplate => loaded[n].name = n /\ KeptOk(loaded[n])
    /\ \A i \in DOMAIN included :
           LET entry == included[i]
           IN /\ entry.key # <<>>
              /\ entry.key[Len(entry.key)] = <<entry.template.name, 0>>
              /\ KeptOk(entry.template)

------------------------------------------------------------------------------
(* What a source needs.                                                     *)

LEMMA ReachIs ==
    ASSUME NEW n \in Name
    PROVE  /\ n \in Reach[n] /\ Reach[n] \subseteq Name
           /\ Reach[n] \in Closed
           /\ \A S \in Closed : n \in S => Reach[n] \subseteq S
  <1>1. Reach[n] = {m \in Name : \A S \in Closed : n \in S => m \in S}
    BY DEF Reach
  <1>2. ASSUME NEW m \in Reach[n], NEW i \in DOMAIN IncludesOf[m]
        PROVE  IncludesOf[m][i] \in Reach[n]
    <2>1. m \in Name
      BY <1>1
    <2>2. IncludesOf[m][i] \in Name
      BY <2>1, IncludesAssumption, ElementOfSeq DEF Name
    <2>3. ASSUME NEW S \in Closed, n \in S PROVE IncludesOf[m][i] \in S
      BY <1>1, <2>3 DEF Closed
    <2> QED BY <1>1, <2>2, <2>3
  <1>3. Reach[n] \in Closed
    BY <1>1, <1>2 DEF Closed
  <1> QED BY <1>1, <1>3

LEMMA ReachWithin ==
    ASSUME NEW n \in Name, NEW m \in Reach[n]
    PROVE  m \in Name /\ Reach[m] \subseteq Reach[n]
  <1>1. m \in Name
    BY ReachIs
  <1> QED BY <1>1, ReachIs

LEMMA ReachIncludes ==
    ASSUME NEW n \in Name, NEW i \in DOMAIN IncludesOf[n]
    PROVE  /\ IncludesOf[n][i] \in File /\ IncludesOf[n][i] \in Name
           /\ IncludesOf[n][i] \in Reach[IncludesOf[n][i]]
           /\ Reach[IncludesOf[n][i]] \subseteq Reach[n]
  <1>1. IncludesOf[n][i] \in File /\ IncludesOf[n][i] \in Name
    BY IncludesAssumption, ElementOfSeq DEF Name
  <1>2. IncludesOf[n][i] \in Reach[n]
    BY ReachIs DEF Closed
  <1> QED BY <1>1, <1>2, ReachIs, ReachWithin

\* A source needs itself and what each of its includes needs.
LEMMA ReachParts ==
    ASSUME NEW n \in Name
    PROVE  Reach[n] = {n} \cup UNION {Reach[IncludesOf[n][i]] : i \in DOMAIN IncludesOf[n]}
  <1> DEFINE R == {n} \cup UNION {Reach[IncludesOf[n][i]] : i \in DOMAIN IncludesOf[n]}
  <1>1. R \subseteq Reach[n]
    BY ReachIs, ReachIncludes
  <1>2. R \in SUBSET Name
    BY <1>1, ReachIs
  <1>3. ASSUME NEW m \in R, NEW j \in DOMAIN IncludesOf[m]
        PROVE  IncludesOf[m][j] \in R
    <2>1. CASE m = n
      BY <2>1, ReachIncludes
    <2>2. ASSUME NEW i \in DOMAIN IncludesOf[n], m \in Reach[IncludesOf[n][i]]
          PROVE  IncludesOf[m][j] \in R
      <3>1. Reach[IncludesOf[n][i]] \in Closed
        BY ReachIncludes, ReachIs
      <3>2. IncludesOf[m][j] \in Reach[IncludesOf[n][i]]
        BY <2>2, <3>1 DEF Closed
      <3> QED BY <3>2
    <2> QED BY <1>3, <2>1, <2>2
  <1>4. R \in Closed
    BY <1>2, <1>3 DEF Closed
  <1>5. n \in R
    OBVIOUS
  <1> HIDE DEF R
  <1>6. Reach[n] \subseteq R
    BY <1>4, <1>5, ReachIs
  <1> QED BY <1>1, <1>6 DEF R

\* A file needs files alone.
LEMMA ReachFiles ==
    ASSUME NEW f \in File
    PROVE  f \in Name /\ Reach[f] \subseteq File
  <1>1. File \in Closed
    BY IncludesAssumption, ElementOfSeq DEF Closed, Name
  <1> QED BY <1>1, ReachIs DEF Name

------------------------------------------------------------------------------
(* Frames.                                                                  *)

\* What a frame keeps of another: all but how far it got.
SameFrame(g, f) == g.name = f.name /\ g.chain = f.chain

LEMMA NewFrameIs ==
    ASSUME NEW name \in Name, NEW chain \in Chain
    PROVE  LET f == NewFrame(name, chain)
           IN /\ f \in Frame /\ f.name = name /\ f.chain = chain /\ f.next = 1
              /\ f.pieces = {} /\ f.includes = {}
              /\ f.step = IF name \in File THEN "read" ELSE "compile"
  <1>1. Missing \in Version /\ <<>> \in Chain /\ 1 \in Nat
    BY BoundsAssumption DEF Missing, Version, Chain
  <1> QED BY <1>1 DEF NewFrame, Frame

LEMMA StepFrame ==
    ASSUME NEW f \in Frame, NEW step \in {"read", "stat", "compile", "evict", "store"}
    PROVE  LET g == [f EXCEPT !.step = step]
           IN /\ g \in Frame /\ SameFrame(g, f) /\ g.step = step /\ g.next = f.next
              /\ g.mtime = f.mtime /\ g.pieces = f.pieces /\ g.includes = f.includes
              /\ g.victim = f.victim
  BY DEF Frame, SameFrame

LEMMA ReadFrame ==
    ASSUME NEW f \in Frame, NEW pieces \in SUBSET (File \X Version)
    PROVE  LET g == [f EXCEPT !.step = "stat", !.pieces = pieces]
           IN /\ g \in Frame /\ SameFrame(g, f) /\ g.step = "stat" /\ g.next = f.next
              /\ g.mtime = f.mtime /\ g.pieces = pieces /\ g.includes = f.includes
  <1> DEFINE e == [f EXCEPT !.step = "stat"]
             g == [e EXCEPT !.pieces = pieces]
  <1>1. [f EXCEPT !.step = "stat", !.pieces = pieces] = g
    BY Zenon
  <1>2. e \in Frame /\ SameFrame(e, f) /\ e.step = "stat" /\ e.next = f.next
        /\ e.mtime = f.mtime /\ e.includes = f.includes
    BY StepFrame
  <1> HIDE DEF e
  <1>3. g \in Frame /\ SameFrame(g, e) /\ g.step = e.step /\ g.next = e.next
        /\ g.mtime = e.mtime /\ g.pieces = pieces /\ g.includes = e.includes
    BY <1>2 DEF Frame, SameFrame
  <1> QED BY <1>1, <1>2, <1>3 DEF SameFrame

LEMMA StatFrame ==
    ASSUME NEW f \in Frame, NEW v \in Version
    PROVE  LET g == [f EXCEPT !.step = "compile", !.mtime = v]
           IN /\ g \in Frame /\ SameFrame(g, f) /\ g.step = "compile" /\ g.next = f.next
              /\ g.mtime = v /\ g.pieces = f.pieces /\ g.includes = f.includes
  <1> DEFINE e == [f EXCEPT !.step = "compile"]
             g == [e EXCEPT !.mtime = v]
  <1>1. [f EXCEPT !.step = "compile", !.mtime = v] = g
    BY Zenon
  <1>2. e \in Frame /\ SameFrame(e, f) /\ e.step = "compile" /\ e.next = f.next
        /\ e.pieces = f.pieces /\ e.includes = f.includes
    BY StepFrame
  <1> HIDE DEF e
  <1>3. g \in Frame /\ SameFrame(g, e) /\ g.step = e.step /\ g.next = e.next
        /\ g.mtime = v /\ g.pieces = e.pieces /\ g.includes = e.includes
    BY <1>2 DEF Frame, SameFrame
  <1> QED BY <1>1, <1>2, <1>3 DEF SameFrame

LEMMA EvictFrame ==
    ASSUME NEW f \in Frame, NEW key \in Chain
    PROVE  LET g == [f EXCEPT !.step = "evict", !.victim = key]
           IN /\ g \in Frame /\ SameFrame(g, f) /\ g.step = "evict" /\ g.next = f.next
              /\ g.mtime = f.mtime /\ g.pieces = f.pieces /\ g.includes = f.includes
              /\ g.victim = key
  <1> DEFINE e == [f EXCEPT !.step = "evict"]
             g == [e EXCEPT !.victim = key]
  <1>1. [f EXCEPT !.step = "evict", !.victim = key] = g
    BY Zenon
  <1>2. e \in Frame /\ SameFrame(e, f) /\ e.step = "evict" /\ e.next = f.next
        /\ e.mtime = f.mtime /\ e.pieces = f.pieces /\ e.includes = f.includes
    BY StepFrame
  <1> HIDE DEF e
  <1>3. g \in Frame /\ SameFrame(g, e) /\ g.step = e.step /\ g.next = e.next
        /\ g.mtime = e.mtime /\ g.pieces = e.pieces /\ g.includes = e.includes
        /\ g.victim = key
    BY <1>2 DEF Frame, SameFrame
  <1> QED BY <1>1, <1>2, <1>3 DEF SameFrame

\* What a template notes of the files it was made of.
Noted(template) == template.includes \cup {<<template.name, template.mtime>>}

LEMMA TemplateIs ==
    ASSUME NEW f \in Frame
    PROVE  LET T == TemplateOf(f)
           IN /\ T \in Template /\ T.name = f.name /\ T.mtime = f.mtime
              /\ T.pieces = f.pieces /\ T.includes = f.includes
  BY DEF TemplateOf, Template, Frame

LEMMA MergedFrame ==
    ASSUME NEW f \in Frame, NEW child \in Template, child.name \in File
    PROVE  LET g == Merged(f, child)
               names == {file[1] : file \in Noted(child)}
           IN /\ g \in Frame /\ SameFrame(g, f) /\ g.step = f.step /\ g.next = f.next + 1
              /\ g.mtime = f.mtime /\ g.pieces = f.pieces \cup child.pieces
              /\ g.includes = {file \in f.includes : file[1] \notin names} \cup Noted(child)
  <1> DEFINE names == {file[1] : file \in Noted(child)}
             pieces == f.pieces \cup child.pieces
             includes == {file \in f.includes : file[1] \notin names} \cup Noted(child)
             d == [f EXCEPT !.next = f.next + 1]
             e == [d EXCEPT !.pieces = pieces]
             g == [e EXCEPT !.includes = includes]
  <1>1. pieces \in SUBSET (File \X Version) /\ includes \in SUBSET (File \X Version)
    BY DEF Noted, Frame, Template
  <1>2. Merged(f, child) = g
    BY Zenon DEF Merged, Noted
  <1> HIDE DEF pieces, includes
  <1>3. d \in Frame /\ SameFrame(d, f) /\ d.step = f.step /\ d.next = f.next + 1
        /\ d.mtime = f.mtime
    BY DEF Frame, SameFrame
  <1> HIDE DEF d
  <1>4. e \in Frame /\ SameFrame(e, d) /\ e.step = d.step /\ e.next = d.next
        /\ e.mtime = d.mtime /\ e.pieces = pieces
    BY <1>1, <1>3 DEF Frame, SameFrame
  <1> HIDE DEF e
  <1>5. g \in Frame /\ SameFrame(g, e) /\ g.step = e.step /\ g.next = e.next
        /\ g.mtime = e.mtime /\ g.pieces = e.pieces /\ g.includes = includes
    BY <1>1, <1>4 DEF Frame, SameFrame
  <1> HIDE DEF g
  <1> QED BY <1>2, <1>3, <1>4, <1>5 DEF SameFrame, pieces, includes

------------------------------------------------------------------------------
(* Stacks.                                                                  *)

LEMMA TopIs ==
    ASSUME stack \in [Thread -> Seq(Frame)], NEW t \in Thread, Reading(t)
    PROVE  /\ stack[t] \in Seq(Frame) /\ Len(stack[t]) \in Nat \ {0}
           /\ DOMAIN stack[t] = 1 .. Len(stack[t]) /\ Len(stack[t]) \in DOMAIN stack[t]
           /\ Top(t) = stack[t][Len(stack[t])] /\ Top(t) \in Frame
  <1>1. stack[t] \in Seq(Frame) /\ stack[t] # <<>>
    BY DEF Reading
  <1>2. Len(stack[t]) \in Nat \ {0} /\ DOMAIN stack[t] = 1 .. Len(stack[t])
    BY <1>1, EmptySeq
  <1>3. Top(t) \in Frame
    BY <1>1, <1>2, ElementOfSeq DEF Top
  <1> QED BY <1>1, <1>2, <1>3 DEF Top

LEMMA FramesAre ==
    ASSUME stack \in [Thread -> Seq(Frame)], NEW t \in Thread, NEW i \in DOMAIN stack[t]
    PROVE  /\ stack[t][i] \in Frame /\ stack[t][i].name \in Name
           /\ stack[t][i].chain \in Chain /\ stack[t][i].next \in Nat
  <1>1. stack[t][i] \in Frame
    BY ElementOfSeq
  <1> QED BY <1>1 DEF Frame

\* The stack of a thread is set: those of the others stay.
Stacks(t, new) == stack' = [stack EXCEPT ![t] = new]

LEMMA StacksAre ==
    ASSUME stack \in [Thread -> Seq(Frame)], NEW t \in Thread, NEW new \in Seq(Frame),
           Stacks(t, new)
    PROVE  /\ stack' \in [Thread -> Seq(Frame)] /\ stack'[t] = new
           /\ \A u \in Thread \ {t} : stack'[u] = stack[u]
  BY DEF Stacks

LEMMA Settled ==
    ASSUME stack \in [Thread -> Seq(Frame)], NEW t \in Thread, Reading(t),
           NEW g \in Frame, SetTop(t, g)
    PROVE  /\ stack' \in [Thread -> Seq(Frame)]
           /\ \A u \in Thread \ {t} : stack'[u] = stack[u]
           /\ Len(stack'[t]) = Len(stack[t]) /\ DOMAIN stack'[t] = DOMAIN stack[t]
           /\ stack'[t][Len(stack[t])] = g
           /\ \A i \in DOMAIN stack[t] : i # Len(stack[t]) => stack'[t][i] = stack[t][i]
  <1> DEFINE new == [stack[t] EXCEPT ![Len(stack[t])] = g]
  <1>1. /\ new \in Seq(Frame) /\ Len(new) = Len(stack[t]) /\ DOMAIN new = DOMAIN stack[t]
        /\ new[Len(stack[t])] = g
        /\ \A i \in DOMAIN stack[t] : i # Len(stack[t]) => new[i] = stack[t][i]
    BY TopIs
  <1>2. Stacks(t, new)
    BY DEF SetTop, Stacks
  <1> QED BY <1>1, <1>2, StacksAre

LEMMA Pushed ==
    ASSUME stack \in [Thread -> Seq(Frame)], NEW t \in Thread, NEW g \in Frame,
           Stacks(t, Append(stack[t], g))
    PROVE  /\ stack' \in [Thread -> Seq(Frame)]
           /\ \A u \in Thread \ {t} : stack'[u] = stack[u]
           /\ Len(stack[t]) \in Nat /\ DOMAIN stack[t] = 1 .. Len(stack[t])
           /\ Len(stack'[t]) = Len(stack[t]) + 1 /\ DOMAIN stack'[t] = 1 .. Len(stack[t]) + 1
           /\ stack'[t][Len(stack[t]) + 1] = g
           /\ \A i \in DOMAIN stack[t] : stack'[t][i] = stack[t][i]
  <1> DEFINE new == Append(stack[t], g)
             n == Len(stack[t])
  <1>1. /\ stack[t] \in Seq(Frame) /\ n \in Nat /\ DOMAIN stack[t] = 1 .. n
        /\ new \in Seq(Frame) /\ Len(new) = n + 1 /\ DOMAIN new = 1 .. n + 1
        /\ new[n + 1] = g /\ \A i \in 1 .. n : new[i] = stack[t][i]
    OBVIOUS
  <1> HIDE DEF new
  <1>2. /\ stack' \in [Thread -> Seq(Frame)] /\ stack'[t] = new
        /\ \A u \in Thread \ {t} : stack'[u] = stack[u]
    BY <1>1, StacksAre DEF new
  <1> QED BY <1>1, <1>2

\* The innermost template is read: it goes into the one above it.
LEMMA Returned ==
    ASSUME stack \in [Thread -> Seq(Frame)], NEW t \in Thread, Len(stack[t]) > 1,
           NEW g \in Frame,
           Stacks(t, [SubSeq(stack[t], 1, Len(stack[t]) - 1)
                          EXCEPT ![Len(SubSeq(stack[t], 1, Len(stack[t]) - 1))] = g])
    PROVE  /\ stack' \in [Thread -> Seq(Frame)]
           /\ \A u \in Thread \ {t} : stack'[u] = stack[u]
           /\ Len(stack[t]) \in Nat /\ DOMAIN stack[t] = 1 .. Len(stack[t])
           /\ Len(stack'[t]) = Len(stack[t]) - 1 /\ DOMAIN stack'[t] = 1 .. Len(stack[t]) - 1
           /\ stack'[t][Len(stack[t]) - 1] = g
           /\ \A i \in 1 .. Len(stack[t]) - 2 : stack'[t][i] = stack[t][i]
  <1> DEFINE n == Len(stack[t])
             above == SubSeq(stack[t], 1, n - 1)
             new == [above EXCEPT ![Len(above)] = g]
  <1>1. stack[t] \in Seq(Frame) /\ n \in Nat /\ n > 1 /\ DOMAIN stack[t] = 1 .. n
    OBVIOUS
  <1>2. /\ above \in Seq(Frame) /\ Len(above) = n - 1
        /\ \A i \in 1 .. n - 1 : above[i] = stack[t][i]
    BY <1>1
  <1>3. /\ new \in Seq(Frame) /\ Len(new) = n - 1 /\ new[n - 1] = g
        /\ \A i \in 1 .. n - 2 : new[i] = stack[t][i]
    <2> HIDE DEF above, n
    <2>1. Len(above) = n - 1 /\ n - 1 \in 1 .. Len(above) /\ DOMAIN above = 1 .. n - 1
      BY <1>1, <1>2
    <2>2. new = [above EXCEPT ![n - 1] = g]
      BY <2>1
    <2>3. \A i \in 1 .. n - 2 : i \in 1 .. n - 1 /\ i # n - 1
      BY <1>1
    <2> HIDE DEF new
    <2>4. new \in Seq(Frame) /\ Len(new) = n - 1 /\ new[n - 1] = g
      BY <1>2, <2>1, <2>2
    <2>5. \A i \in 1 .. n - 2 : new[i] = above[i]
      BY <2>1, <2>2, <2>3
    <2> QED BY <1>2, <2>3, <2>4, <2>5
  <1>4. Stacks(t, new)
    OBVIOUS
  <1> HIDE DEF new, n
  <1>5. DOMAIN new = 1 .. n - 1
    BY <1>1, <1>3
  <1>6. stack' \in [Thread -> Seq(Frame)] /\ stack'[t] = new
        /\ \A u \in Thread \ {t} : stack'[u] = stack[u]
    BY <1>3, <1>4, StacksAre
  <1> QED BY <1>1, <1>3, <1>5, <1>6 DEF n

------------------------------------------------------------------------------
(* What the steps of a thread that reads do.                                *)

Still(t) == calls' = calls /\ seen' = seen /\ EngineUnchanged

LEMMA TopKind ==
    ASSUME Typed, NEW t \in Thread, Reading(t)
    PROVE  /\ Top(t) \in Frame /\ Top(t).name \in Name
           /\ Top(t).step \in {"read", "stat"} => Top(t).name \in File
           /\ Top(t).step \in {"evict", "store"} => Len(stack[t]) > 1
           /\ Len(stack[t]) > 1 => Top(t).name \in File
  <1>1. /\ stack[t] \in Seq(Frame) /\ Len(stack[t]) \in Nat \ {0}
        /\ Len(stack[t]) \in DOMAIN stack[t]
        /\ Top(t) = stack[t][Len(stack[t])] /\ Top(t) \in Frame
    BY TopIs DEF Typed, TypeInv
  <1>2. Top(t).name \in Name
    BY <1>1 DEF Frame
  <1> QED BY <1>1, <1>2 DEF Typed, KindInv, Kinds

\* What is on disk of a file is a version.
LEMMA DiskIs ==
    ASSUME TypeInv, NEW f \in File
    PROVE  disk[f] \in Version /\ disk[f] \in Nat
  BY BoundsAssumption DEF TypeInv, Version

LEMMA ReadTextDoes ==
    ASSUME Typed, NEW t \in Thread, ReadText(t)
    PROVE  /\ Reading(t) /\ Top(t).step = "read" /\ Top(t).name \in File
           /\ UNCHANGED <<loaded, included>> /\ Still(t)
           /\ \/ disk[Top(t).name] = Missing /\ Fails(t, "missing")
              \/ \E g \in Frame :
                    /\ disk[Top(t).name] # Missing
                    /\ SetTop(t, g) /\ UNCHANGED answer
                    /\ SameFrame(g, Top(t)) /\ g.step = "stat" /\ g.next = Top(t).next
                    /\ g.pieces = {<<Top(t).name, disk[Top(t).name]>>}
                    /\ g.includes = Top(t).includes
  <1> DEFINE v == disk[Top(t).name]
             pieces == {<<Top(t).name, v>>}
             then == [w \in Version |->
                         [Top(t) EXCEPT !.step = "stat", !.pieces = {<<Top(t).name, w>>}]]
             g == [Top(t) EXCEPT !.step = "stat", !.pieces = pieces]
  <1>1. /\ Reading(t) /\ Top(t).step = "read"
        /\ UNCHANGED <<loaded, included>> /\ Still(t)
        /\ \/ v = Missing /\ Fails(t, "missing")
           \/ v # Missing /\ SetTop(t, then[v]) /\ UNCHANGED answer
    BY DEF ReadText, Look, Still
  <1>2. Top(t).name \in File /\ Top(t) \in Frame
    BY <1>1, TopKind
  <1>3. v \in Version
    BY <1>2, DiskIs DEF Typed
  <1>4. then[v] = g
    BY <1>3
  <1>5. pieces \in SUBSET (File \X Version)
    BY <1>2, <1>3
  <1> HIDE DEF pieces
  <1>6. /\ g \in Frame /\ SameFrame(g, Top(t)) /\ g.step = "stat" /\ g.next = Top(t).next
        /\ g.pieces = pieces /\ g.includes = Top(t).includes
    BY <1>2, <1>5, ReadFrame
  <1> HIDE DEF then, g
  <1> QED BY <1>1, <1>2, <1>4, <1>6 DEF pieces

LEMMA StatDoes ==
    ASSUME Typed, NEW t \in Thread, Stat(t)
    PROVE  /\ Reading(t) /\ Top(t).step = "stat" /\ Top(t).name \in File
           /\ UNCHANGED <<loaded, included>> /\ Still(t)
           /\ \/ disk[Top(t).name] = Missing /\ Fails(t, "missing")
              \/ \E g \in Frame :
                    /\ disk[Top(t).name] # Missing
                    /\ SetTop(t, g) /\ UNCHANGED answer
                    /\ SameFrame(g, Top(t)) /\ g.step = "compile" /\ g.next = Top(t).next
                    /\ g.mtime = disk[Top(t).name]
                    /\ g.pieces = Top(t).pieces /\ g.includes = Top(t).includes
  <1> DEFINE v == disk[Top(t).name]
             then == [w \in Version |-> [Top(t) EXCEPT !.step = "compile", !.mtime = w]]
             g == [Top(t) EXCEPT !.step = "compile", !.mtime = v]
  <1>1. /\ Reading(t) /\ Top(t).step = "stat"
        /\ UNCHANGED <<loaded, included>> /\ Still(t)
        /\ \/ v = Missing /\ Fails(t, "missing")
           \/ v # Missing /\ SetTop(t, then[v]) /\ UNCHANGED answer
    BY DEF Stat, Look, Still
  <1>2. Top(t).name \in File /\ Top(t) \in Frame
    BY <1>1, TopKind
  <1>3. v \in Version
    BY <1>2, DiskIs DEF Typed
  <1>4. then[v] = g
    BY <1>3
  <1>6. /\ g \in Frame /\ SameFrame(g, Top(t)) /\ g.step = "compile" /\ g.next = Top(t).next
        /\ g.mtime = v /\ g.pieces = Top(t).pieces /\ g.includes = Top(t).includes
    BY <1>2, <1>3, StatFrame
  <1> HIDE DEF then, g
  <1> QED BY <1>1, <1>2, <1>4, <1>6

\* The include that comes next, and the chain it is called through.
Called(t) == IncludesOf[Top(t).name][Top(t).next]
Through(t) == Append(Top(t).chain, <<Top(t).name, Top(t).next>>)

LEMMA CalledIs ==
    ASSUME Typed, NEW t \in Thread, Reading(t),
           Top(t).next \in DOMAIN IncludesOf[Top(t).name]
    PROVE  Called(t) \in File /\ Called(t) \in Name /\ Through(t) \in Chain
  <1>1. Top(t) \in Frame /\ Top(t).name \in Name
    BY TopKind
  <1>2. IncludesOf[Top(t).name] \in Seq(File)
    BY <1>1, IncludesAssumption
  <1>3. Called(t) \in File
    BY <1>2, ElementOfSeq DEF Called
  <1>4. Top(t).chain \in Chain /\ Top(t).next \in Nat
    BY <1>1 DEF Frame
  <1> QED BY <1>1, <1>3, <1>4 DEF Through, Chain, Name

LEMMA IncludeDoes ==
    ASSUME Typed, NEW t \in Thread, Include(t)
    PROVE  /\ Reading(t) /\ Top(t).step = "compile"
           /\ Top(t).next \in DOMAIN IncludesOf[Top(t).name]
           /\ UNCHANGED <<loaded, included>> /\ Still(t)
           /\ \/ CallsItself(Top(t), Called(t)) /\ Fails(t, "cycle")
              \/ disk[Called(t)] = Missing /\ Fails(t, "missing")
              \/ \E i \in Kept(Key(Called(t), Through(t))) :
                    /\ ~Changed(included[i].template)
                    /\ SetTop(t, Merged(Top(t), included[i].template))
                    /\ UNCHANGED answer
              \/ \E g \in Frame :
                    /\ ~CallsItself(Top(t), Called(t))
                    /\ Stacks(t, Append(stack[t], g)) /\ UNCHANGED answer
                    /\ g.name = Called(t) /\ g.chain = Through(t) /\ g.next = 1
                    /\ g.pieces = {} /\ g.includes = {} /\ g.step = "read"
  <1>1. /\ Reading(t) /\ Top(t).step = "compile"
        /\ Top(t).next \in DOMAIN IncludesOf[Top(t).name]
        /\ UNCHANGED <<loaded, included>> /\ Still(t)
    BY DEF Include, Still
  <1>2. \/ CallsItself(Top(t), Called(t)) /\ Fails(t, "cycle")
        \/ disk[Called(t)] = Missing /\ Fails(t, "missing")
        \/ \E i \in {i \in Kept(Key(Called(t), Through(t))) :
                        ~Changed(included[i].template)} :
              /\ SetTop(t, Merged(Top(t), included[i].template))
              /\ UNCHANGED answer
        \/ /\ ~CallsItself(Top(t), Called(t))
           /\ stack' = [stack EXCEPT ![t] = Append(stack[t], NewFrame(Called(t), Through(t)))]
           /\ UNCHANGED answer
    BY Zenon DEF Include, Called, Through
  <1>3. Called(t) \in File /\ Called(t) \in Name /\ Through(t) \in Chain
    BY <1>1, CalledIs
  <1> DEFINE g == NewFrame(Called(t), Through(t))
  <1>4. /\ g \in Frame /\ g.name = Called(t) /\ g.chain = Through(t) /\ g.next = 1
        /\ g.pieces = {} /\ g.includes = {} /\ g.step = "read"
    BY <1>3, NewFrameIs
  <1> HIDE DEF g
  <1>5. CASE /\ ~CallsItself(Top(t), Called(t))
             /\ stack' = [stack EXCEPT ![t] = Append(stack[t], NewFrame(Called(t), Through(t)))]
             /\ UNCHANGED answer
    <2>1. Stacks(t, Append(stack[t], g))
      BY <1>5 DEF Stacks, g
    <2> QED BY <1>1, <1>4, <1>5, <2>1
  <1>6. CASE \E i \in {i \in Kept(Key(Called(t), Through(t))) :
                          ~Changed(included[i].template)} :
                /\ SetTop(t, Merged(Top(t), included[i].template))
                /\ UNCHANGED answer
    BY <1>1, <1>6
  <1> QED BY <1>1, <1>2, <1>5, <1>6

LEMMA ChooseVictimDoes ==
    ASSUME Typed, NEW t \in Thread, ChooseVictim(t)
    PROVE  /\ Reading(t) /\ Compiled(t) /\ Len(stack[t]) > 1
           /\ UNCHANGED <<loaded, included, answer>> /\ Still(t)
           /\ \E g \in Frame :
                    /\ SetTop(t, g) /\ SameFrame(g, Top(t)) /\ g.next = Top(t).next
                    /\ \/ IsFull /\ g.step = "evict" /\ g.victim = included[1].key
                       \/ ~IsFull /\ g.step = "store"
                    /\ g.mtime = Top(t).mtime
                    /\ g.pieces = Top(t).pieces /\ g.includes = Top(t).includes
  <1>1. /\ Reading(t) /\ Compiled(t) /\ Len(stack[t]) > 1
        /\ UNCHANGED <<loaded, included, answer>> /\ Still(t)
        /\ \/ /\ IsFull
              /\ SetTop(t, [Top(t) EXCEPT !.step = "evict", !.victim = included[1].key])
           \/ ~IsFull /\ SetTop(t, [Top(t) EXCEPT !.step = "store"])
    BY DEF ChooseVictim, Compiled, Still
  <1>2. Top(t) \in Frame
    BY <1>1, TopKind
  <1>3. CASE /\ IsFull
             /\ SetTop(t, [Top(t) EXCEPT !.step = "evict", !.victim = included[1].key])
    <2>1. Len(included) >= 1 /\ 1 \in DOMAIN included
      BY <1>3, BoundsAssumption DEF IsFull, Typed, TypeInv
    <2>2. included[1] \in Entry
      BY <2>1, ElementOfSeq DEF Typed, TypeInv
    <2>3. included[1].key \in Chain
      BY <2>2 DEF Entry
    <2> DEFINE key == included[1].key
               g == [Top(t) EXCEPT !.step = "evict", !.victim = key]
    <2> HIDE DEF key
    <2>4. /\ g \in Frame /\ SameFrame(g, Top(t)) /\ g.step = "evict" /\ g.next = Top(t).next
          /\ g.mtime = Top(t).mtime /\ g.pieces = Top(t).pieces
          /\ g.includes = Top(t).includes /\ g.victim = key
      BY <1>2, <2>3, EvictFrame DEF key
    <2>5. SetTop(t, g)
      BY <1>3 DEF key
    <2> HIDE DEF g
    <2> QED BY <1>1, <1>3, <2>4, <2>5 DEF key
  <1>4. CASE ~IsFull /\ SetTop(t, [Top(t) EXCEPT !.step = "store"])
    <2> DEFINE g == [Top(t) EXCEPT !.step = "store"]
    <2>1. /\ g \in Frame /\ SameFrame(g, Top(t)) /\ g.step = "store" /\ g.next = Top(t).next
          /\ g.mtime = Top(t).mtime /\ g.pieces = Top(t).pieces
          /\ g.includes = Top(t).includes
      BY <1>2, StepFrame
    <2>2. SetTop(t, g)
      BY <1>4
    <2> HIDE DEF g
    <2> QED BY <1>1, <1>4, <2>1, <2>2
  <1> QED BY <1>1, <1>3, <1>4

LEMMA EvictDoes ==
    ASSUME Typed, NEW t \in Thread, Evict(t)
    PROVE  /\ Reading(t) /\ Top(t).step = "evict"
           /\ loaded' = loaded /\ Still(t)
           /\ \/ Kept(Top(t).victim) = {} /\ Fails(t, "key_error") /\ included' = included
              \/ \E i \in Kept(Top(t).victim) : \E g \in Frame :
                    /\ included' = SubSeq(included, 1, i - 1)
                                   \o SubSeq(included, i + 1, Len(included))
                    /\ SetTop(t, g) /\ SameFrame(g, Top(t)) /\ g.next = Top(t).next
                    /\ g.step = "store" /\ g.mtime = Top(t).mtime
                    /\ g.pieces = Top(t).pieces /\ g.includes = Top(t).includes
                    /\ answer' = answer
  <1> DEFINE g == [Top(t) EXCEPT !.step = "store"]
  <1>1. /\ Reading(t) /\ Top(t).step = "evict"
        /\ loaded' = loaded /\ Still(t)
        /\ \/ Kept(Top(t).victim) = {} /\ Fails(t, "key_error") /\ included' = included
           \/ \E i \in Kept(Top(t).victim) :
                 /\ included' = SubSeq(included, 1, i - 1)
                                \o SubSeq(included, i + 1, Len(included))
                 /\ SetTop(t, g) /\ answer' = answer
    BY DEF Evict, Still
  <1>2. /\ g \in Frame /\ SameFrame(g, Top(t)) /\ g.step = "store" /\ g.next = Top(t).next
        /\ g.mtime = Top(t).mtime /\ g.pieces = Top(t).pieces
        /\ g.includes = Top(t).includes
    BY <1>1, TopKind, StepFrame
  <1> HIDE DEF g
  <1> QED BY <1>1, <1>2, Zenon

\* The entry a thread stores.
Stored(t) == [key |-> Key(Top(t).name, Top(t).chain), template |-> TemplateOf(Top(t))]

LEMMA StoreDoes ==
    ASSUME Typed, NEW t \in Thread, Store(t)
    PROVE  /\ Reading(t) /\ Top(t).step = "store" /\ Len(stack[t]) > 1
           /\ UNCHANGED <<loaded, answer>> /\ Still(t)
           /\ \/ Kept(Stored(t).key) = {} /\ included' = Append(included, Stored(t))
              \/ \E i \in Kept(Stored(t).key) : included' = [included EXCEPT ![i] = Stored(t)]
           /\ Stacks(t, [SubSeq(stack[t], 1, Len(stack[t]) - 1)
                          EXCEPT ![Len(SubSeq(stack[t], 1, Len(stack[t]) - 1))] =
                              Merged(stack[t][Len(stack[t]) - 1], TemplateOf(Top(t)))])
  <1>1. /\ Reading(t) /\ Top(t).step = "store"
        /\ UNCHANGED <<loaded, answer>> /\ Still(t)
    BY DEF Store, Still
  <1>2. Len(stack[t]) > 1 /\ Top(t) \in Frame
    BY <1>1, TopKind
  <1>3. TemplateOf(Top(t)).name = Top(t).name
    BY DEF TemplateOf
  <1>4. \/ Kept(Stored(t).key) = {} /\ included' = Append(included, Stored(t))
        \/ \E i \in Kept(Stored(t).key) : included' = [included EXCEPT ![i] = Stored(t)]
    BY <1>3, Zenon DEF Store, Stored
  <1> DEFINE above == SubSeq(stack[t], 1, Len(stack[t]) - 1)
  <1>5. Stacks(t, [above EXCEPT ![Len(above)] = Merged(above[Len(above)], TemplateOf(Top(t)))])
    BY Zenon DEF Store, Stacks
  <1>6. above[Len(above)] = stack[t][Len(stack[t]) - 1]
    BY <1>1, <1>2, TopIs DEF Typed, TypeInv
  <1> QED BY <1>1, <1>2, <1>4, <1>5, <1>6

LEMMA LoadDoes ==
    ASSUME Typed, NEW t \in Thread, Load(t)
    PROVE  /\ Reading(t) /\ Compiled(t) /\ Len(stack[t]) = 1
           /\ loaded' = [loaded EXCEPT ![Top(t).name] = TemplateOf(Top(t))]
           /\ Ends(t, "template", TemplateOf(Top(t)))
           /\ included' = included /\ Still(t)
  BY DEF Load, Compiled, Still

------------------------------------------------------------------------------
(* Types.                                                                   *)

StacksTyped == stack \in [Thread -> Seq(Frame)] /\ \A t \in Thread : Kinds(t)

LEMMA SettledTyped ==
    ASSUME Typed, NEW t \in Thread, Reading(t), NEW g \in Frame, SetTop(t, g),
           g.name = Top(t).name, g.step \in {"read", "stat"} => g.name \in File,
           g.step \in {"evict", "store"} => Len(stack[t]) > 1
    PROVE  StacksTyped'
  <1>1. /\ stack' \in [Thread -> Seq(Frame)]
        /\ \A u \in Thread \ {t} : stack'[u] = stack[u]
        /\ Len(stack'[t]) = Len(stack[t]) /\ DOMAIN stack'[t] = DOMAIN stack[t]
        /\ stack'[t][Len(stack[t])] = g
        /\ \A i \in DOMAIN stack[t] : i # Len(stack[t]) => stack'[t][i] = stack[t][i]
    BY Settled DEF Typed, TypeInv
  <1>2. Len(stack[t]) \in Nat \ {0} /\ (Len(stack[t]) > 1 => Top(t).name \in File)
    BY TopIs, TopKind DEF Typed, TypeInv
  <1>3. Kinds(t)'
    BY <1>1, <1>2 DEF Typed, KindInv, Kinds
  <1>4. \A u \in Thread : u # t => Kinds(u)'
    BY <1>1 DEF Typed, KindInv, Kinds
  <1> QED BY <1>1, <1>3, <1>4 DEF StacksTyped

LEMMA PushedTyped ==
    ASSUME Typed, NEW t \in Thread, Reading(t), Top(t).step = "compile",
           NEW g \in Frame, Stacks(t, Append(stack[t], g)), g.name \in File, g.step = "read"
    PROVE  StacksTyped'
  <1>1. /\ stack' \in [Thread -> Seq(Frame)]
        /\ \A u \in Thread \ {t} : stack'[u] = stack[u]
        /\ Len(stack[t]) \in Nat /\ DOMAIN stack[t] = 1 .. Len(stack[t])
        /\ Len(stack'[t]) = Len(stack[t]) + 1 /\ DOMAIN stack'[t] = 1 .. Len(stack[t]) + 1
        /\ stack'[t][Len(stack[t]) + 1] = g
        /\ \A i \in DOMAIN stack[t] : stack'[t][i] = stack[t][i]
    BY Pushed DEF Typed, TypeInv
  <1>2. Len(stack[t]) >= 1 /\ Top(t) = stack[t][Len(stack[t])]
    BY TopIs DEF Typed, TypeInv
  <1>3. ASSUME NEW i \in DOMAIN stack'[t]
        PROVE  /\ stack'[t][i].step \in {"read", "stat"} \/ i > 1 => stack'[t][i].name \in File
               /\ stack'[t][i].step \in {"evict", "store"} => i > 1
               /\ i < Len(stack'[t]) => stack'[t][i].step = "compile"
    <2>1. CASE i = Len(stack[t]) + 1
      BY <1>1, <1>2, <2>1
    <2>2. CASE i # Len(stack[t]) + 1
      <3>1. i \in DOMAIN stack[t] /\ stack'[t][i] = stack[t][i]
        BY <1>1, <2>2
      <3>2. i = Len(stack[t]) \/ i < Len(stack[t])
        BY <1>1, <3>1
      <3> QED BY <1>2, <3>1, <3>2 DEF Typed, KindInv, Kinds
    <2> QED BY <2>1, <2>2
  <1>4. Kinds(t)'
    BY <1>3 DEF Kinds
  <1>5. \A u \in Thread : u # t => Kinds(u)'
    BY <1>1 DEF Typed, KindInv, Kinds
  <1> QED BY <1>1, <1>4, <1>5 DEF StacksTyped

LEMMA ReturnedTyped ==
    ASSUME Typed, NEW t \in Thread, Len(stack[t]) > 1, NEW g \in Frame,
           Stacks(t, [SubSeq(stack[t], 1, Len(stack[t]) - 1)
                          EXCEPT ![Len(SubSeq(stack[t], 1, Len(stack[t]) - 1))] = g]),
           SameFrame(g, stack[t][Len(stack[t]) - 1]), g.step = "compile"
    PROVE  StacksTyped'
  <1>1. /\ stack' \in [Thread -> Seq(Frame)]
        /\ \A u \in Thread \ {t} : stack'[u] = stack[u]
        /\ Len(stack[t]) \in Nat /\ DOMAIN stack[t] = 1 .. Len(stack[t])
        /\ Len(stack'[t]) = Len(stack[t]) - 1 /\ DOMAIN stack'[t] = 1 .. Len(stack[t]) - 1
        /\ stack'[t][Len(stack[t]) - 1] = g
        /\ \A i \in 1 .. Len(stack[t]) - 2 : stack'[t][i] = stack[t][i]
    BY Returned DEF Typed, TypeInv
  <1>3. ASSUME NEW i \in DOMAIN stack'[t]
        PROVE  /\ stack'[t][i].step \in {"read", "stat"} \/ i > 1 => stack'[t][i].name \in File
               /\ stack'[t][i].step \in {"evict", "store"} => i > 1
               /\ i < Len(stack'[t]) => stack'[t][i].step = "compile"
    <2>1. CASE i = Len(stack[t]) - 1
      <3>1. i \in DOMAIN stack[t] /\ g.name = stack[t][i].name /\ stack'[t][i] = g
        BY <1>1, <2>1 DEF SameFrame
      <3> QED BY <3>1 DEF Typed, KindInv, Kinds
    <2>2. CASE i # Len(stack[t]) - 1
      <3>1. i \in DOMAIN stack[t] /\ stack'[t][i] = stack[t][i] /\ i < Len(stack[t])
        BY <1>1, <2>2
      <3> QED BY <3>1 DEF Typed, KindInv, Kinds
    <2> QED BY <2>1, <2>2
  <1>4. Kinds(t)'
    BY <1>3 DEF Kinds
  <1>5. \A u \in Thread : u # t => Kinds(u)'
    BY <1>1 DEF Typed, KindInv, Kinds
  <1> QED BY <1>1, <1>4, <1>5 DEF StacksTyped

LEMMA EndedTyped ==
    ASSUME Typed, NEW t \in Thread, NEW outcome \in Outcomes,
           NEW template \in Template \cup {NoTemplate}, Ends(t, outcome, template)
    PROVE  StacksTyped' /\ answer' \in [Thread -> Answer] /\ stack'[t] = <<>>
  <1>1. Stacks(t, <<>>) /\ <<>> \in Seq(Frame)
    BY DEF Ends, Stacks
  <1>2. /\ stack' \in [Thread -> Seq(Frame)] /\ stack'[t] = <<>>
        /\ \A u \in Thread \ {t} : stack'[u] = stack[u]
    BY <1>1, StacksAre DEF Typed, TypeInv
  <1>3. StacksTyped'
    BY <1>2 DEF StacksTyped, Typed, KindInv, Kinds
  <1> DEFINE a == [asked |-> answer[t].asked, outcome |-> outcome, template |-> template]
  <1>4. a \in Answer
    BY DEF Answer, Typed, TypeInv
  <1>5. answer' = [answer EXCEPT ![t] = a]
    BY DEF Ends, Answers
  <1> HIDE DEF a
  <1>6. answer' \in [Thread -> Answer]
    BY <1>4, <1>5 DEF Typed, TypeInv
  <1> QED BY <1>2, <1>3, <1>6

LEMMA FailedTyped ==
    ASSUME Typed, NEW t \in Thread, NEW outcome \in {"missing", "cycle", "key_error"},
           Fails(t, outcome)
    PROVE  StacksTyped' /\ answer' \in [Thread -> Answer] /\ stack'[t] = <<>>
  BY EndedTyped DEF Fails, Outcomes

\* A step of one thread, when the stacks and the caches it leaves are typed.
LEMMA StillTyped ==
    ASSUME Typed, NEW t \in Thread, Still(t), StacksTyped', answer' \in [Thread -> Answer],
           loaded' \in [Name -> Template \cup {NoTemplate}],
           included' \in Seq(Entry),
           \A i \in DOMAIN included' : included'[i].template.name \in File
    PROVE  Typed'
  BY DEF Still, EngineUnchanged, StacksTyped, Typed, TypeInv, KindInv

\* The caches that are left alone.
LEMMA CachesTyped ==
    ASSUME Typed
    PROVE  /\ loaded \in [Name -> Template \cup {NoTemplate}] /\ included \in Seq(Entry)
           /\ answer \in [Thread -> Answer]
           /\ Len(included) \in Nat /\ DOMAIN included = 1 .. Len(included)
           /\ \A i \in DOMAIN included :
                  /\ included[i] \in Entry /\ included[i].template.name \in File
                  /\ included[i].template \in Template /\ included[i].key \in Chain
  <1>1. /\ included \in Seq(Entry)
        /\ Len(included) \in Nat /\ DOMAIN included = 1 .. Len(included)
    BY DEF Typed, TypeInv
  <1>2. \A i \in DOMAIN included : included[i] \in Entry
    BY <1>1, ElementOfSeq
  <1>3. ASSUME NEW e \in Entry PROVE e.template \in Template /\ e.key \in Chain
    BY DEF Entry
  <1> QED BY <1>1, <1>2, <1>3 DEF Typed, TypeInv, KindInv

\* The entry that is stored.
LEMMA StoredIs ==
    ASSUME Typed, NEW t \in Thread, Reading(t), Len(stack[t]) > 1
    PROVE  /\ Stored(t) \in Entry /\ Stored(t).template = TemplateOf(Top(t))
           /\ Stored(t).key = Append(Top(t).chain, <<Top(t).name, 0>>)
           /\ TemplateOf(Top(t)) \in Template /\ TemplateOf(Top(t)).name = Top(t).name
           /\ Top(t).name \in File
  <1>1. Top(t) \in Frame /\ Top(t).name \in File
    BY TopKind
  <1> DEFINE T == TemplateOf(Top(t))
             key == Append(Top(t).chain, <<Top(t).name, 0>>)
  <1>2. T \in Template /\ T.name = Top(t).name
    BY <1>1, TemplateIs
  <1>3. key \in Chain
    BY <1>1 DEF Frame, Chain, Name
  <1>4. Stored(t) = [key |-> key, template |-> T]
    BY DEF Stored, Key
  <1> HIDE DEF T, key
  <1>5. Stored(t) \in Entry /\ Stored(t).template = T /\ Stored(t).key = key
    BY <1>2, <1>3, <1>4 DEF Entry
  <1> QED BY <1>1, <1>2, <1>5 DEF T, key

LEMMA Cut ==
    ASSUME NEW s \in Seq(Entry), NEW i \in DOMAIN s,
           NEW n \in Nat, NEW m \in Nat, NEW l \in Nat,
           n = Len(s), m = i - 1, l = n - i
    PROVE  LET c == SubSeq(s, 1, i - 1) \o SubSeq(s, i + 1, Len(s))
           IN /\ c \in Seq(Entry) /\ Len(c) = n - 1
              /\ \A j \in DOMAIN c : \E k \in DOMAIN s : c[j] = s[k]
  <1> DEFINE a == SubSeq(s, 1, i - 1)
             b == SubSeq(s, i + 1, Len(s))
             c == a \o b
  <1>1. DOMAIN s = 1 .. n /\ i \in Nat /\ 1 <= i /\ i <= n /\ m + l = n - 1
    OBVIOUS
  <1>2. /\ a \in Seq(Entry) /\ Len(a) = m
        /\ \A j \in 1 .. m : a[j] = s[j]
    BY <1>1
  <1>3. /\ b \in Seq(Entry) /\ Len(b) = l
        /\ \A j \in 1 .. l : b[j] = s[j + i]
    <2>1. /\ b \in Seq(Entry) /\ Len(b) = Len(s) - i
          /\ \A j \in 1 .. Len(s) - i : b[j] = s[i + 1 + j - 1]
      <3>1. Len(s) \in Nat /\ DOMAIN s = 1 .. Len(s) /\ i \in 1 .. Len(s)
        OBVIOUS
      <3> QED BY <3>1
    <2>2. Len(s) - i = l /\ \A j \in 1 .. l : i + 1 + j - 1 = j + i
      BY <1>1
    <2> QED BY <2>1, <2>2
  <1> HIDE DEF a, b
  <1>4. /\ c \in Seq(Entry) /\ Len(c) = Len(a) + Len(b)
        /\ \A j \in 1 .. Len(a) + Len(b) :
               c[j] = IF j <= Len(a) THEN a[j] ELSE b[j - Len(a)]
    BY <1>2, <1>3, ConcatProperties, Zenon
  <1>5. DOMAIN c = 1 .. Len(c)
    BY <1>4
  <1>6. /\ c \in Seq(Entry) /\ Len(c) = m + l /\ DOMAIN c = 1 .. m + l
        /\ \A j \in 1 .. m + l : c[j] = IF j <= m THEN a[j] ELSE b[j - m]
    BY <1>2, <1>3, <1>4, <1>5
  <1> HIDE DEF c
  <1>7. ASSUME NEW j \in 1 .. m + l
        PROVE  \E k \in DOMAIN s : c[j] = s[k]
    <2>1. CASE j <= m
      <3>1. j \in 1 .. m /\ j \in 1 .. n
        BY <1>1, <2>1
      <3> QED BY <1>1, <1>2, <1>6, <2>1, <3>1
    <2>2. CASE ~(j <= m)
      <3>1. j - m \in 1 .. l /\ j - m + i \in 1 .. n
        BY <1>1, <2>2
      <3>2. c[j] = b[j - m]
        BY <1>6, <2>2
      <3> QED BY <1>1, <1>3, <3>1, <3>2
    <2> QED BY <2>1, <2>2
  <1>8. c \in Seq(Entry) /\ Len(c) = n - 1 /\ \A j \in DOMAIN c : \E k \in DOMAIN s : c[j] = s[k]
    BY <1>1, <1>6, <1>7, Zenon
  <1> QED BY <1>8 DEF c, a, b

\* What is deleted, and what is stored, of the included templates.
LEMMA Deleted ==
    ASSUME included \in Seq(Entry), NEW i \in DOMAIN included,
           included' = SubSeq(included, 1, i - 1) \o SubSeq(included, i + 1, Len(included))
    PROVE  /\ included' \in Seq(Entry) /\ Len(included) \in Nat
           /\ Len(included') = Len(included) - 1
           /\ \A j \in DOMAIN included' : \E k \in DOMAIN included : included'[j] = included[k]
  <1>1. /\ Len(included) \in Nat /\ i \in 1 .. Len(included)
        /\ i - 1 \in Nat /\ Len(included) - i \in Nat
    OBVIOUS
  <1> QED BY <1>1, Cut

LEMMA Put ==
    ASSUME Typed, NEW e \in Entry,
           \/ included' = Append(included, e)
           \/ \E i \in DOMAIN included : included' = [included EXCEPT ![i] = e]
    PROVE  /\ included' \in Seq(Entry) /\ Len(included) \in Nat
           /\ Len(included') <= Len(included) + 1
           /\ \A j \in DOMAIN included' :
                  included'[j] = e \/ (j \in DOMAIN included /\ included'[j] = included[j])
  <1>1. included \in Seq(Entry) /\ Len(included) \in Nat /\ DOMAIN included = 1 .. Len(included)
    BY CachesTyped
  <1>2. CASE included' = Append(included, e)
    BY <1>1, <1>2
  <1>3. ASSUME NEW i \in DOMAIN included, included' = [included EXCEPT ![i] = e]
        PROVE  /\ included' \in Seq(Entry) /\ Len(included') = Len(included)
               /\ \A j \in DOMAIN included' :
                    included'[j] = e \/ (j \in DOMAIN included /\ included'[j] = included[j])
    <2> DEFINE new == [included EXCEPT ![i] = e]
    <2>1. /\ new \in Seq(Entry) /\ Len(new) = Len(included) /\ DOMAIN new = DOMAIN included
          /\ \A j \in DOMAIN included : new[j] = IF j = i THEN e ELSE included[j]
      BY <1>1
    <2>2. included' = new
      BY <1>3
    <2> HIDE DEF new
    <2> QED BY <2>1, <2>2
  <1> QED BY <1>1, <1>2, <1>3

LEMMA GetDoes ==
    ASSUME Typed, NEW t \in Thread, NEW name \in Name, Get(t, name)
    PROVE  /\ ~Reading(t)
           /\ seen' = [seen EXCEPT ![t] = Now \cup EveryVersion(torn)]
           /\ UNCHANGED <<loaded, included>> /\ EngineUnchanged
           /\ \/ /\ loaded[name] # NoTemplate
                 /\ ~(name \in File /\ auto_reload /\ Changed(loaded[name]))
                 /\ Answers(t, name, "template", loaded[name]) /\ stack' = stack
              \/ /\ name \in File /\ disk[name] = Missing
                 /\ Answers(t, name, "missing", NoTemplate) /\ stack' = stack
              \/ \E f \in Frame :
                    /\ Stacks(t, <<f>>) /\ Answers(t, name, "none", NoTemplate)
                    /\ f.name = name /\ f.chain = <<>> /\ f.next = 1
                    /\ f.pieces = {} /\ f.includes = {}
                    /\ f.step = IF name \in File THEN "read" ELSE "compile"
  <1> DEFINE f == NewFrame(name, <<>>)
  <1>1. <<>> \in Chain
    BY DEF Chain
  <1>2. /\ f \in Frame /\ f.name = name /\ f.chain = <<>> /\ f.next = 1
        /\ f.pieces = {} /\ f.includes = {}
        /\ f.step = IF name \in File THEN "read" ELSE "compile"
    BY <1>1, NewFrameIs
  <1> HIDE DEF f
  <1>3. /\ ~Reading(t)
        /\ seen' = [seen EXCEPT ![t] = Now \cup EveryVersion(torn)]
        /\ UNCHANGED <<loaded, included>> /\ EngineUnchanged
        /\ \/ /\ loaded[name] # NoTemplate
              /\ ~(name \in File /\ auto_reload /\ loaded[name] # NoTemplate /\ Changed(loaded[name]))
              /\ Answers(t, name, "template", loaded[name]) /\ stack' = stack
           \/ /\ name \in File /\ disk[name] = Missing
              /\ Answers(t, name, "missing", NoTemplate) /\ stack' = stack
           \/ Stacks(t, <<f>>) /\ Answers(t, name, "none", NoTemplate)
    BY Zenon DEF Get, Stacks, f
  <1> QED BY <1>2, <1>3

LEMMA TypedInit == Init => Typed
  <1> SUFFICES ASSUME Init PROVE Typed
    OBVIOUS
  <1>1. 1 \in Version /\ <<>> \in Seq(Frame) /\ <<>> \in Seq(Entry)
    BY BoundsAssumption DEF Version
  <1>2. NoAnswer \in Answer
    BY DEF NoAnswer, Answer, Outcomes
  <1>3. TypeInv
    BY <1>1, <1>2 DEF Init, TypeInv
  <1>4. \A t \in Thread : stack[t] = <<>>
    BY DEF Init
  <1> QED BY <1>3, <1>4 DEF Init, Typed, KindInv, Kinds

LEMMA AnsweredTyped ==
    ASSUME Typed, NEW t \in Thread, NEW asked \in Name, NEW outcome \in Outcomes,
           NEW template \in Template \cup {NoTemplate}, Answers(t, asked, outcome, template)
    PROVE  answer' \in [Thread -> Answer]
  <1> DEFINE a == [asked |-> asked, outcome |-> outcome, template |-> template]
  <1>1. a \in Answer
    BY DEF Answer
  <1> HIDE DEF a
  <1> QED BY <1>1 DEF Answers, Typed, TypeInv, a

LEMMA GetTyped ==
    ASSUME Typed, NEW t \in Thread, NEW name \in Name, Get(t, name)
    PROVE  Typed'
  <1>1. /\ seen' = [seen EXCEPT ![t] = Now \cup EveryVersion(torn)]
        /\ UNCHANGED <<loaded, included>> /\ EngineUnchanged /\ ~Reading(t)
    BY GetDoes
  <1>2. seen' \in [Thread -> SUBSET (File \X Version)]
    <2>1. Now \cup EveryVersion(torn) \subseteq File \X Version
      BY DiskIs DEF Now, EveryVersion, Typed, TypeInv
    <2> QED BY <1>1, <2>1 DEF Typed, TypeInv
  <1>3. StacksTyped' /\ answer' \in [Thread -> Answer]
    <2>1. CASE stack' = stack
      <3>1. StacksTyped'
        BY <2>1 DEF StacksTyped, Kinds, Typed, TypeInv, KindInv
      <3>2. loaded[name] \in Template \cup {NoTemplate}
        BY DEF Typed, TypeInv
      <3>3. answer' \in [Thread -> Answer]
        BY <3>2, GetDoes, AnsweredTyped DEF Outcomes
      <3> QED BY <3>1, <3>3
    <2>2. ASSUME NEW f \in Frame, Stacks(t, <<f>>), Answers(t, name, "none", NoTemplate),
                 f.name = name, f.step = IF name \in File THEN "read" ELSE "compile"
          PROVE  StacksTyped' /\ answer' \in [Thread -> Answer]
      <3>1. answer' \in [Thread -> Answer]
        BY <2>2, AnsweredTyped DEF Outcomes
      <3>2. <<f>> \in Seq(Frame) /\ Len(<<f>>) = 1 /\ <<f>>[1] = f /\ DOMAIN <<f>> = {1}
        OBVIOUS
      <3>3. /\ stack' \in [Thread -> Seq(Frame)] /\ stack'[t] = <<f>>
            /\ \A u \in Thread \ {t} : stack'[u] = stack[u]
        BY <2>2, <3>2, StacksAre DEF Typed, TypeInv
      <3>4. Kinds(t)'
        BY <2>2, <3>2, <3>3 DEF Kinds
      <3>5. \A u \in Thread : u # t => Kinds(u)'
        BY <3>3 DEF Typed, KindInv, Kinds
      <3> QED BY <3>1, <3>3, <3>4, <3>5 DEF StacksTyped
    <2> QED BY <2>1, <2>2, GetDoes
  <1> QED BY <1>1, <1>2, <1>3 DEF StacksTyped, Typed, TypeInv, KindInv, EngineUnchanged

LEMMA ReadStepTyped ==
    ASSUME Typed, NEW t \in Thread, ReadStep(t)
    PROVE  Typed'
  <1> USE CachesTyped
  <1>1. CASE ReadText(t)
    <2>1. StacksTyped' /\ answer' \in [Thread -> Answer]
      BY <1>1, ReadTextDoes, FailedTyped, SettledTyped DEF SameFrame
    <2> QED BY <1>1, <2>1, ReadTextDoes, StillTyped
  <1>2. CASE Stat(t)
    <2>1. StacksTyped' /\ answer' \in [Thread -> Answer]
      BY <1>2, StatDoes, FailedTyped, SettledTyped DEF SameFrame
    <2> QED BY <1>2, <2>1, StatDoes, StillTyped
  <1>3. CASE Include(t)
    <2>1. /\ Reading(t) /\ Top(t).step = "compile" /\ Called(t) \in File
      BY <1>3, IncludeDoes, CalledIs
    <2>2. ASSUME NEW i \in Kept(Key(Called(t), Through(t))),
                 SetTop(t, Merged(Top(t), included[i].template)), UNCHANGED answer
          PROVE  StacksTyped' /\ answer' \in [Thread -> Answer]
      <3>1. i \in DOMAIN included
        BY DEF Kept
      <3>2. included[i].template \in Template /\ included[i].template.name \in File
        BY <3>1
      <3>3. Top(t) \in Frame
        BY <2>1, TopKind
      <3> DEFINE g == Merged(Top(t), included[i].template)
      <3>4. g \in Frame /\ SameFrame(g, Top(t)) /\ g.step = "compile"
        BY <2>1, <3>2, <3>3, MergedFrame
      <3> HIDE DEF g
      <3> QED BY <2>1, <2>2, <3>4, SettledTyped DEF SameFrame, g
    <2>3. ASSUME NEW g \in Frame, Stacks(t, Append(stack[t], g)), UNCHANGED answer,
                 g.name = Called(t), g.step = "read"
          PROVE  StacksTyped' /\ answer' \in [Thread -> Answer]
      BY <2>1, <2>3, PushedTyped
    <2>4. StacksTyped' /\ answer' \in [Thread -> Answer]
      BY <1>3, <2>2, <2>3, IncludeDoes, FailedTyped
    <2> QED BY <1>3, <2>4, IncludeDoes, StillTyped
  <1>4. CASE Load(t)
    <2>1. Top(t) \in Frame /\ Top(t).name \in Name
      BY <1>4, LoadDoes, TopKind
    <2>2. TemplateOf(Top(t)) \in Template
      BY <2>1, TemplateIs
    <2>3. StacksTyped' /\ answer' \in [Thread -> Answer]
      BY <1>4, <2>2, LoadDoes, EndedTyped DEF Outcomes
    <2>4. loaded' \in [Name -> Template \cup {NoTemplate}]
      BY <1>4, <2>1, <2>2, LoadDoes
    <2> QED BY <1>4, <2>3, <2>4, LoadDoes, StillTyped
  <1>5. CASE ChooseVictim(t)
    <2>1. StacksTyped'
      BY <1>5, ChooseVictimDoes, SettledTyped DEF SameFrame
    <2> QED BY <1>5, <2>1, ChooseVictimDoes, StillTyped
  <1>6. CASE Evict(t)
    <2>1. Reading(t) /\ Len(stack[t]) > 1
      BY <1>6, EvictDoes, TopKind
    <2>2. StacksTyped' /\ answer' \in [Thread -> Answer]
      BY <1>6, <2>1, EvictDoes, FailedTyped, SettledTyped DEF SameFrame
    <2>3. /\ included' \in Seq(Entry)
          /\ \A j \in DOMAIN included' : included'[j].template.name \in File
      <3>1. CASE included' = included
        BY <3>1
      <3>2. ASSUME NEW i \in Kept(Top(t).victim),
                   included' = SubSeq(included, 1, i - 1)
                               \o SubSeq(included, i + 1, Len(included))
            PROVE  /\ included' \in Seq(Entry)
                   /\ \A j \in DOMAIN included' : included'[j].template.name \in File
        <4>1. i \in DOMAIN included
          BY DEF Kept
        <4> QED BY <3>2, <4>1, Deleted
      <3> QED BY <1>6, <3>1, <3>2, EvictDoes
    <2> QED BY <1>6, <2>2, <2>3, EvictDoes, StillTyped
  <1>7. CASE Store(t)
    <2>1. Reading(t) /\ Len(stack[t]) > 1
      BY <1>7, StoreDoes
    <2>2. /\ Stored(t) \in Entry /\ Stored(t).template = TemplateOf(Top(t))
          /\ TemplateOf(Top(t)) \in Template /\ TemplateOf(Top(t)).name \in File
      BY <2>1, StoredIs
    <2>3. /\ included' \in Seq(Entry)
          /\ \A j \in DOMAIN included' : included'[j].template.name \in File
      BY <1>7, <2>2, StoreDoes, Put DEF Kept
    <2> DEFINE f == stack[t][Len(stack[t]) - 1]
               g == Merged(f, TemplateOf(Top(t)))
    <2>4. f \in Frame /\ f.step = "compile"
      <3>1. stack[t] \in Seq(Frame) /\ Len(stack[t]) - 1 \in DOMAIN stack[t]
            /\ Len(stack[t]) - 1 < Len(stack[t])
        BY <2>1, TopIs DEF Typed, TypeInv
      <3> QED BY <3>1, ElementOfSeq DEF Typed, KindInv, Kinds
    <2>5. g \in Frame /\ SameFrame(g, f) /\ g.step = "compile"
      BY <2>2, <2>4, MergedFrame
    <2>6. StacksTyped'
      BY <1>7, <2>1, <2>5, StoreDoes, ReturnedTyped
    <2> QED BY <1>7, <2>3, <2>6, StoreDoes, StillTyped
  <1> QED BY <1>1, <1>2, <1>3, <1>4, <1>5, <1>6, <1>7 DEF ReadStep

LEMMA ChangeTyped ==
    ASSUME Typed, NEW f \in File, NEW removed \in BOOLEAN, Change(f, removed)
    PROVE  Typed'
  <1>1. /\ writes < MaxWrites /\ writes' = writes + 1
        /\ disk' = [disk EXCEPT ![f] = IF removed THEN Missing ELSE writes + 1]
        /\ torn' \in SUBSET File
        /\ UNCHANGED <<auto_reload, loaded, included, stack, answer>>
    BY DEF Change, Typed, TypeInv
  <1>2. writes \in Nat /\ writes' \in Version /\ Missing \in Version /\ Missing <= writes'
    BY <1>1, BoundsAssumption DEF Typed, TypeInv, Version, Missing
  <1>3. disk' \in [File -> Version] /\ disk'[f] \in Version
    BY <1>1, <1>2 DEF Typed, TypeInv
  <1>4. \A g \in File : disk'[g] <= writes'
    <2>1. ASSUME NEW g \in File PROVE disk'[g] <= writes'
      <3>1. CASE g = f
        BY <1>1, <1>2, <3>1 DEF Typed, TypeInv
      <3>2. CASE g # f
        <4>1. disk'[g] = disk[g] /\ disk[g] <= writes /\ disk[g] \in Nat
          BY <1>1, <3>2, DiskIs DEF Typed, TypeInv
        <4> QED BY <1>1, <1>2, <4>1
      <3> QED BY <3>1, <3>2
    <2> QED BY <2>1
  <1>5. seen' \in [Thread -> SUBSET (File \X Version)]
    <2>1. EveryVersion({f}) \subseteq File \X Version /\ <<f, disk'[f]>> \in File \X Version
      BY <1>3 DEF EveryVersion
    <2>2. seen' = [t \in Thread |->
                    IF Reading(t) THEN seen[t] \cup {<<f, disk'[f]>>} \cup EveryVersion({f})
                    ELSE seen[t]]
      BY DEF Change
    <2> QED BY <2>1, <2>2 DEF Typed, TypeInv
  <1> QED BY <1>1, <1>2, <1>3, <1>4, <1>5 DEF Typed, TypeInv, KindInv, Kinds

LEMMA TypedNext == Typed /\ [Next]_vars => Typed'
  <1> SUFFICES ASSUME Typed, [Next]_vars PROVE Typed'
    OBVIOUS
  <1>1. CASE UNCHANGED vars
    BY <1>1 DEF vars, Typed, TypeInv, KindInv, Kinds
  <1> QED BY <1>1, ReadStepTyped, GetTyped, ChangeTyped DEF Next

LEMMA Ended ==
    ASSUME Typed, NEW t \in Thread, NEW outcome \in Outcomes,
           NEW template \in Template \cup {NoTemplate}, Ends(t, outcome, template)
    PROVE  /\ stack'[t] = <<>> /\ \A u \in Thread \ {t} : stack'[u] = stack[u]
           /\ answer'[t].asked = answer[t].asked /\ answer'[t].outcome = outcome
           /\ answer'[t].template = template
           /\ \A u \in Thread \ {t} : answer'[u] = answer[u]
  <1> DEFINE a == [asked |-> answer[t].asked, outcome |-> outcome, template |-> template]
  <1>1. answer' = [answer EXCEPT ![t] = a] /\ stack' = [stack EXCEPT ![t] = <<>>]
    BY DEF Ends, Answers
  <1>2. a.asked = answer[t].asked /\ a.outcome = outcome /\ a.template = template
    OBVIOUS
  <1> HIDE DEF a
  <1>3. answer'[t] = a /\ stack'[t] = <<>>
        /\ \A u \in Thread \ {t} : answer'[u] = answer[u] /\ stack'[u] = stack[u]
    BY <1>1 DEF Typed, TypeInv
  <1> QED BY <1>2, <1>3

LEMMA Failed ==
    ASSUME Typed, NEW t \in Thread, NEW outcome \in {"missing", "cycle", "key_error"},
           Fails(t, outcome)
    PROVE  /\ stack'[t] = <<>> /\ \A u \in Thread \ {t} : stack'[u] = stack[u]
           /\ answer'[t].asked = answer[t].asked /\ answer'[t].outcome = outcome
           /\ answer'[t].template = NoTemplate
           /\ \A u \in Thread \ {t} : answer'[u] = answer[u]
  BY Ended DEF Fails, Outcomes

\* What is stored goes into the template around it.
LEMMA ReturnsTo ==
    ASSUME Typed, NEW t \in Thread, Store(t)
    PROVE  LET n == Len(stack[t])
               f == stack[t][n - 1]
               g == Merged(f, TemplateOf(Top(t)))
           IN /\ n \in Nat /\ n > 1 /\ DOMAIN stack[t] = 1 .. n /\ Top(t) = stack[t][n]
              /\ f \in Frame /\ f.step = "compile"
              /\ g \in Frame /\ SameFrame(g, f) /\ g.step = "compile"
              /\ \A u \in Thread \ {t} : stack'[u] = stack[u]
              /\ Len(stack'[t]) = n - 1 /\ DOMAIN stack'[t] = 1 .. n - 1
              /\ stack'[t][n - 1] = g
              /\ \A i \in 1 .. n - 2 : stack'[t][i] = stack[t][i]
  <1> DEFINE n == Len(stack[t])
             f == stack[t][n - 1]
             g == Merged(f, TemplateOf(Top(t)))
  <1>1. /\ Reading(t) /\ n > 1
        /\ Stacks(t, [SubSeq(stack[t], 1, Len(stack[t]) - 1)
                          EXCEPT ![Len(SubSeq(stack[t], 1, Len(stack[t]) - 1))] = g])
    BY StoreDoes
  <1>2. /\ n \in Nat /\ DOMAIN stack[t] = 1 .. n /\ Top(t) = stack[t][n]
        /\ n - 1 \in DOMAIN stack[t] /\ n - 1 < n
    BY <1>1, TopIs DEF Typed, TypeInv
  <1>3. f \in Frame /\ f.step = "compile"
    BY <1>2, FramesAre DEF Typed, TypeInv, KindInv, Kinds
  <1>4. g \in Frame /\ SameFrame(g, f) /\ g.step = "compile"
    BY <1>1, <1>3, StoredIs, MergedFrame
  <1> HIDE DEF g
  <1>5. /\ \A u \in Thread \ {t} : stack'[u] = stack[u]
        /\ Len(stack'[t]) = n - 1 /\ DOMAIN stack'[t] = 1 .. n - 1
        /\ stack'[t][n - 1] = g
        /\ \A i \in 1 .. n - 2 : stack'[t][i] = stack[t][i]
    BY <1>1, <1>4, Returned DEF Typed, TypeInv
  <1> QED BY <1>1, <1>2, <1>3, <1>4, <1>5 DEF g

------------------------------------------------------------------------------
(* Places: no template inside itself.                                       *)

Placed(t) == Nested(t) /\ Chained(t) /\ Distinct(t)

\* A stack that keeps its names, or ends earlier, keeps its places.
LEMMA PlacesKept ==
    ASSUME NEW t \in Thread, Placed(t), stack[t] \in Seq(Frame),
           NEW k \in Nat, k <= Len(stack[t]), DOMAIN stack'[t] = 1 .. k,
           \A i \in 1 .. k : SameFrame(stack'[t][i], stack[t][i]),
           \A i \in 1 .. k - 1 : stack'[t][i].next = stack[t][i].next
    PROVE  Placed(t)'
  <1>1. \A i \in 1 .. k : /\ i \in DOMAIN stack[t] /\ stack'[t][i].name = stack[t][i].name
                          /\ stack'[t][i].chain = stack[t][i].chain
    BY DEF SameFrame
  <1>2. Nested(t)'
    <2> SUFFICES ASSUME NEW i \in 1 .. k, NEW j \in 1 .. k, i < j
                 PROVE  LET outer == stack'[t][i]
                        IN /\ outer.next \in DOMAIN IncludesOf[outer.name]
                           /\ stack'[t][j].name \in Reach[IncludesOf[outer.name][outer.next]]
                           /\ j = i + 1 => stack'[t][j].name = IncludesOf[outer.name][outer.next]
      BY DEF Nested
    <2>1. i \in 1 .. k - 1
      OBVIOUS
    <2> QED BY <1>1, <2>1 DEF Placed, Nested
  <1>3. Chained(t)'
    <2> SUFFICES ASSUME NEW i \in 1 .. k
                 PROVE  Within(stack'[t][i].chain) = {stack'[t][j].name : j \in 1 .. i - 1}
      BY DEF Chained
    <2>1. \A j \in 1 .. i - 1 : stack'[t][j].name = stack[t][j].name
      BY <1>1
    <2>2. {stack'[t][j].name : j \in 1 .. i - 1} = {stack[t][j].name : j \in 1 .. i - 1}
      BY <2>1
    <2>3. Within(stack[t][i].chain) = {stack[t][j].name : j \in 1 .. i - 1}
      BY <1>1 DEF Placed, Chained
    <2> QED BY <1>1, <2>2, <2>3
  <1>4. Distinct(t)'
    BY <1>1 DEF Placed, Distinct
  <1> QED BY <1>2, <1>3, <1>4 DEF Placed

LEMMA WithinAppend ==
    ASSUME NEW chain \in Chain, NEW call \in Name \X Nat
    PROVE  Within(Append(chain, call)) = Within(chain) \cup {call[1]}
  <1>1. /\ Len(chain) \in Nat /\ DOMAIN chain = 1 .. Len(chain)
        /\ DOMAIN Append(chain, call) = 1 .. Len(chain) + 1
        /\ \A i \in 1 .. Len(chain) : Append(chain, call)[i] = chain[i]
        /\ Append(chain, call)[Len(chain) + 1] = call
    BY DEF Chain
  <1>2. 1 .. Len(chain) + 1 = (1 .. Len(chain)) \cup {Len(chain) + 1}
    BY <1>1
  <1> QED BY <1>1, <1>2 DEF Within

\* The template that is called is read inside the one that calls it.
LEMMA PlacesPushed ==
    ASSUME Typed, NEW t \in Thread, Placed(t), Reading(t),
           Top(t).next \in DOMAIN IncludesOf[Top(t).name],
           ~CallsItself(Top(t), Called(t)), NEW g \in Frame,
           Stacks(t, Append(stack[t], g)), g.name = Called(t), g.chain = Through(t)
    PROVE  Placed(t)'
  <1> DEFINE n == Len(stack[t])
  <1>1. /\ DOMAIN stack[t] = 1 .. n /\ n \in Nat \ {0} /\ Top(t) = stack[t][n]
        /\ DOMAIN stack'[t] = 1 .. n + 1 /\ stack'[t][n + 1] = g
        /\ \A i \in 1 .. n : stack'[t][i] = stack[t][i]
    BY TopIs, Pushed DEF Typed, TypeInv
  <1>2. /\ Top(t) \in Frame /\ Top(t).name \in Name /\ Top(t).chain \in Chain
        /\ Top(t).next \in Nat
    BY TopKind DEF Frame
  <1>3. \A i \in 1 .. n : stack[t][i].name \in Name
    BY <1>1, FramesAre DEF Typed, TypeInv
  <1> HIDE DEF n
  <1>4. Nested(t)'
    <2> SUFFICES ASSUME NEW i \in 1 .. n + 1, NEW j \in 1 .. n + 1, i < j
                 PROVE  LET outer == stack'[t][i]
                        IN /\ outer.next \in DOMAIN IncludesOf[outer.name]
                           /\ stack'[t][j].name \in Reach[IncludesOf[outer.name][outer.next]]
                           /\ j = i + 1 => stack'[t][j].name = IncludesOf[outer.name][outer.next]
      BY <1>1 DEF Nested
    <2> DEFINE outer == stack[t][i]
    <2>1. i \in 1 .. n /\ stack'[t][i] = outer
      BY <1>1
    <2>2. CASE j \in 1 .. n
      BY <1>1, <2>1, <2>2 DEF Placed, Nested
    <2>3. CASE j = n + 1 /\ i = n
      <3>1. outer = Top(t) /\ stack'[t][j].name = Called(t)
        BY <1>1, <2>3
      <3>2. IncludesOf[outer.name][outer.next] = Called(t)
        BY <3>1 DEF Called
      <3>3. Called(t) \in Reach[Called(t)]
        BY <1>2, ReachIncludes DEF Called
      <3> QED BY <2>1, <3>1, <3>2, <3>3
    <2>4. CASE j = n + 1 /\ i # n
      <3> DEFINE inner == IncludesOf[outer.name][outer.next]
      <3>1. i < n /\ n \in 1 .. n /\ j # i + 1
        BY <1>1, <2>1, <2>4
      <3>2. outer.next \in DOMAIN IncludesOf[outer.name] /\ Top(t).name \in Reach[inner]
        BY <1>1, <2>1, <3>1 DEF Placed, Nested
      <3>3. inner \in Name
        BY <1>3, <2>1, <3>2, ReachIncludes
      <3>4. Reach[Top(t).name] \subseteq Reach[inner]
        BY <3>2, <3>3, ReachWithin
      <3>5. Called(t) \in Reach[Top(t).name]
        BY <1>2, ReachIncludes DEF Called
      <3>6. stack'[t][j].name = Called(t)
        BY <1>1, <2>4
      <3> HIDE DEF inner
      <3>7. Called(t) \in Reach[inner]
        BY <3>4, <3>5
      <3> QED BY <2>1, <3>1, <3>2, <3>6, <3>7 DEF inner
    <2> QED BY <1>1, <2>2, <2>3, <2>4
  <1>5. Within(Through(t)) = {stack[t][j].name : j \in 1 .. n}
    <2>1. Within(Through(t)) = Within(Top(t).chain) \cup {Top(t).name}
      BY <1>2, WithinAppend DEF Through
    <2>2. n \in 1 .. n /\ 1 .. n = (1 .. n - 1) \cup {n}
      BY <1>1
    <2>3. Within(Top(t).chain) = {stack[t][j].name : j \in 1 .. n - 1}
      BY <1>1, <2>2 DEF Placed, Chained
    <2> QED BY <1>1, <2>1, <2>2, <2>3
  <1>6. Chained(t)'
    <2> SUFFICES ASSUME NEW i \in 1 .. n + 1
                 PROVE  Within(stack'[t][i].chain) = {stack'[t][j].name : j \in 1 .. i - 1}
      BY <1>1 DEF Chained
    <2>1. \A j \in 1 .. i - 1 : j \in 1 .. n /\ stack'[t][j].name = stack[t][j].name
      BY <1>1
    <2>2. CASE i \in 1 .. n
      <3>1. {stack'[t][j].name : j \in 1 .. i - 1} = {stack[t][j].name : j \in 1 .. i - 1}
        BY <2>1
      <3>2. Within(stack[t][i].chain) = {stack[t][j].name : j \in 1 .. i - 1}
        BY <1>1, <2>2 DEF Placed, Chained
      <3> QED BY <1>1, <2>2, <3>1, <3>2
    <2>3. CASE i = n + 1
      <3>1. 1 .. i - 1 = 1 .. n
        BY <1>1, <2>3
      <3> QED BY <1>1, <1>5, <2>1, <2>3, <3>1
    <2> QED BY <1>1, <2>2, <2>3
  <1>7. \A i \in 1 .. n : stack[t][i].name # g.name
    <2>1. Within(Through(t)) = Within(Top(t).chain) \cup {Top(t).name}
      BY <1>2, WithinAppend DEF Through
    <2> QED BY <1>5, <2>1 DEF CallsItself
  <1>8. Distinct(t)'
    BY <1>1, <1>7 DEF Placed, Distinct
  <1> QED BY <1>4, <1>6, <1>8 DEF Placed

LEMMA PlacedStill ==
    ASSUME NEW t \in Thread, Placed(t), stack'[t] = stack[t]
    PROVE  Placed(t)'
  BY DEF Placed, Nested, Chained, Distinct

LEMMA PlacesEmpty ==
    ASSUME NEW t \in Thread, stack'[t] = <<>>
    PROVE  Placed(t)'
  BY DEF Placed, Nested, Chained, Distinct

LEMMA PlacesSettled ==
    ASSUME Typed, NEW t \in Thread, Placed(t), Reading(t), NEW g \in Frame, SetTop(t, g),
           SameFrame(g, Top(t))
    PROVE  Placed(t)'
  <1> DEFINE n == Len(stack[t])
  <1>1. /\ stack[t] \in Seq(Frame) /\ n \in Nat \ {0} /\ DOMAIN stack[t] = 1 .. n
        /\ Top(t) = stack[t][n] /\ DOMAIN stack'[t] = 1 .. n /\ stack'[t][n] = g
        /\ \A i \in DOMAIN stack[t] : i # n => stack'[t][i] = stack[t][i]
    BY TopIs, Settled DEF Typed, TypeInv
  <1> HIDE DEF n
  <1>2. \A i \in 1 .. n : SameFrame(stack'[t][i], stack[t][i])
    BY <1>1 DEF SameFrame
  <1>3. \A i \in 1 .. n - 1 : stack'[t][i].next = stack[t][i].next
    BY <1>1
  <1>4. n <= Len(stack[t]) /\ n \in Nat
    BY <1>1 DEF n
  <1> QED BY <1>1, <1>2, <1>3, <1>4, PlacesKept

LEMMA PlacesReturned ==
    ASSUME Typed, NEW t \in Thread, Placed(t), Store(t)
    PROVE  Placed(t)'
  <1> DEFINE n == Len(stack[t])
  <1>1. /\ n \in Nat /\ n > 1 /\ DOMAIN stack[t] = 1 .. n /\ DOMAIN stack'[t] = 1 .. n - 1
        /\ SameFrame(stack'[t][n - 1], stack[t][n - 1])
        /\ \A i \in 1 .. n - 2 : stack'[t][i] = stack[t][i]
    BY ReturnsTo
  <1>2. n - 1 <= Len(stack[t]) /\ n - 1 \in Nat /\ stack[t] \in Seq(Frame)
    BY <1>1 DEF Typed, TypeInv
  <1> HIDE DEF n
  <1>3. \A i \in 1 .. n - 1 : SameFrame(stack'[t][i], stack[t][i])
    BY <1>1 DEF SameFrame
  <1>4. \A i \in 1 .. (n - 1) - 1 : stack'[t][i].next = stack[t][i].next
    BY <1>1
  <1> QED BY <1>1, <1>2, <1>3, <1>4, PlacesKept

\* A step of a thread that reads leaves the others where they are.
LEMMA OthersStay ==
    ASSUME Typed, NEW t \in Thread, ReadStep(t)
    PROVE  /\ Reading(t) /\ Still(t)
           /\ \A u \in Thread \ {t} : stack'[u] = stack[u] /\ answer'[u] = answer[u]
  <1>0. ASSUME NEW g \in Frame, SetTop(t, g), Reading(t)
        PROVE  \A u \in Thread \ {t} : stack'[u] = stack[u]
    BY <1>0, Settled DEF Typed, TypeInv
  <1>1. CASE ReadText(t)
    BY <1>0, <1>1, ReadTextDoes, Failed
  <1>2. CASE Stat(t)
    BY <1>0, <1>2, StatDoes, Failed
  <1>3. CASE Include(t)
    <2>1. Reading(t) /\ Still(t) /\ Top(t) \in Frame
      BY <1>3, IncludeDoes, TopKind
    <2>2. ASSUME NEW i \in Kept(Key(Called(t), Through(t))),
                 SetTop(t, Merged(Top(t), included[i].template))
          PROVE  \A u \in Thread \ {t} : stack'[u] = stack[u]
      <3>1. Merged(Top(t), included[i].template) \in Frame
        BY <2>1, CachesTyped, MergedFrame DEF Kept
      <3> QED BY <1>0, <2>1, <2>2, <3>1
    <2>3. ASSUME NEW g \in Frame, Stacks(t, Append(stack[t], g))
          PROVE  \A u \in Thread \ {t} : stack'[u] = stack[u]
      BY <2>3, Pushed DEF Typed, TypeInv
    <2> QED BY <1>3, <2>1, <2>2, <2>3, IncludeDoes, Failed
  <1>4. CASE Load(t)
    <2>1. TemplateOf(Top(t)) \in Template
      BY <1>4, LoadDoes, TopKind, TemplateIs
    <2> QED BY <1>4, <2>1, LoadDoes, Ended DEF Outcomes
  <1>5. CASE ChooseVictim(t)
    BY <1>0, <1>5, ChooseVictimDoes
  <1>6. CASE Evict(t)
    BY <1>0, <1>6, EvictDoes, Failed
  <1>7. CASE Store(t)
    BY <1>7, StoreDoes, ReturnsTo
  <1> QED BY <1>1, <1>2, <1>3, <1>4, <1>5, <1>6, <1>7 DEF ReadStep

LEMMA PlacesStep ==
    ASSUME Typed, PlaceInv, NEW t \in Thread, ReadStep(t)
    PROVE  PlaceInv'
  <1>0. Placed(t) /\ Reading(t)
    BY OthersStay DEF PlaceInv, Placed
  <1> SUFFICES Placed(t)'
    BY OthersStay, PlacedStill DEF PlaceInv, Placed
  <1>1. CASE ReadText(t)
    BY <1>0, <1>1, ReadTextDoes, Failed, PlacesEmpty, PlacesSettled
  <1>2. CASE Stat(t)
    BY <1>0, <1>2, StatDoes, Failed, PlacesEmpty, PlacesSettled
  <1>3. CASE Include(t)
    <2>1. ASSUME NEW i \in Kept(Key(Called(t), Through(t))),
                 SetTop(t, Merged(Top(t), included[i].template))
          PROVE  Placed(t)'
      <3> DEFINE g == Merged(Top(t), included[i].template)
      <3>1. g \in Frame /\ SameFrame(g, Top(t))
        BY <1>0, TopKind, CachesTyped, MergedFrame DEF Kept
      <3> HIDE DEF g
      <3> QED BY <1>0, <2>1, <3>1, PlacesSettled DEF g
    <2> QED BY <1>0, <1>3, <2>1, IncludeDoes, Failed, PlacesEmpty, PlacesPushed
  <1>4. CASE Load(t)
    <2>1. TemplateOf(Top(t)) \in Template
      BY <1>4, LoadDoes, TopKind, TemplateIs
    <2> QED BY <1>4, <2>1, LoadDoes, Ended, PlacesEmpty DEF Outcomes
  <1>5. CASE ChooseVictim(t)
    BY <1>0, <1>5, ChooseVictimDoes, PlacesSettled
  <1>6. CASE Evict(t)
    BY <1>0, <1>6, EvictDoes, Failed, PlacesEmpty, PlacesSettled
  <1>7. CASE Store(t)
    BY <1>0, <1>7, PlacesReturned
  <1> QED BY <1>1, <1>2, <1>3, <1>4, <1>5, <1>6, <1>7 DEF ReadStep

LEMMA PlacesNext == Typed /\ PlaceInv /\ [Next]_vars => PlaceInv'
  <1> SUFFICES ASSUME Typed, PlaceInv, [Next]_vars PROVE PlaceInv'
    OBVIOUS
  <1>1. CASE stack' = stack
    BY <1>1, PlacedStill DEF PlaceInv, Placed
  <1>2. ASSUME NEW t \in Thread, NEW f \in Frame, Stacks(t, <<f>>), f.chain = <<>>
        PROVE  PlaceInv'
    <2>1. <<f>> \in Seq(Frame) /\ DOMAIN <<f>> = {1} /\ <<f>>[1] = f
      OBVIOUS
    <2>2. stack'[t] = <<f>> /\ \A u \in Thread \ {t} : stack'[u] = stack[u]
      BY <1>2, <2>1, StacksAre DEF Typed, TypeInv
    <2>3. Within(f.chain) = {} /\ 1 .. 1 - 1 = {}
      BY <1>2 DEF Within
    <2>4. Placed(t)'
      BY <2>1, <2>2, <2>3 DEF Placed, Nested, Chained, Distinct
    <2>5. \A u \in Thread \ {t} : Placed(u)'
      BY <2>2, PlacedStill DEF PlaceInv, Placed
    <2> QED BY <2>4, <2>5 DEF PlaceInv, Placed
  <1>3. ASSUME NEW t \in Thread, NEW n \in Name, Get(t, n) PROVE PlaceInv'
    BY <1>1, <1>2, <1>3, GetDoes
  <1>4. ASSUME NEW f \in File, NEW removed \in BOOLEAN, Change(f, removed)
        PROVE  PlaceInv'
    BY <1>1, <1>4 DEF Change
  <1> QED BY <1>1, <1>3, <1>4, PlacesStep DEF Next, vars

LEMMA TypedAlways == Spec => []Typed
  BY TypedInit, TypedNext, PTL DEF Spec

\* No template is read inside itself: what a thread is about to read is none of
\* those its chain holds, and these are the ones around it (MacroTemplate._include).
THEOREM TemplatesAreReadOnce == Spec => []NoTemplateInsideItself
  <1>1. Init => PlaceInv
    BY PlacesEmpty DEF Init, PlaceInv, Nested, Chained, Distinct
  <1>2. PlaceInv => NoTemplateInsideItself
    BY DEF PlaceInv, Distinct, NoTemplateInsideItself
  <1> QED BY <1>1, <1>2, TypedAlways, PlacesNext, PTL DEF Spec

------------------------------------------------------------------------------
(* The bound of the cache.                                                  *)

LEMMA TopSettled ==
    ASSUME Typed, NEW t \in Thread, Reading(t), NEW g \in Frame, SetTop(t, g)
    PROVE  Reading(t)' /\ Top(t)' = g
  <1>1. /\ stack' \in [Thread -> Seq(Frame)] /\ Len(stack[t]) \in Nat \ {0}
        /\ Len(stack'[t]) = Len(stack[t]) /\ stack'[t][Len(stack[t])] = g
    BY TopIs, Settled DEF Typed, TypeInv
  <1>2. stack'[t] # <<>>
    BY <1>1
  <1> QED BY <1>1, <1>2 DEF Reading, Top

LEMMA TopPushed ==
    ASSUME Typed, NEW t \in Thread, NEW g \in Frame, Stacks(t, Append(stack[t], g))
    PROVE  Reading(t)' /\ Top(t)' = g
  <1>1. /\ stack' \in [Thread -> Seq(Frame)] /\ Len(stack[t]) \in Nat
        /\ Len(stack'[t]) = Len(stack[t]) + 1 /\ stack'[t][Len(stack[t]) + 1] = g
    BY Pushed DEF Typed, TypeInv
  <1>2. stack'[t] # <<>>
    BY <1>1
  <1> QED BY <1>1, <1>2 DEF Reading, Top

LEMMA TopReturned ==
    ASSUME Typed, NEW t \in Thread, Store(t)
    PROVE  Reading(t)' /\ Top(t)'.step = "compile"
  <1>1. /\ Len(stack[t]) \in Nat /\ Len(stack[t]) > 1
        /\ Len(stack'[t]) = Len(stack[t]) - 1
        /\ stack'[t][Len(stack[t]) - 1].step = "compile"
    BY ReturnsTo
  <1>2. stack'[t] # <<>>
    BY <1>1
  <1> QED BY <1>1, <1>2 DEF Reading, Top

LEMMA StorersAre ==
    /\ IsFiniteSet(Storers) /\ Cardinality(Storers) \in Nat
    /\ Cardinality(Thread) \in Nat /\ Cardinality(Storers) <= Cardinality(Thread)
  <1>1. Storers \in SUBSET Thread
    BY DEF Storers
  <1> QED BY <1>1, BoundsAssumption, FS_Subset, FS_CardinalityType

\* How the threads about to store change with a step of one.
LEMMA StorersKeep ==
    ASSUME NEW t \in Thread, \A u \in Thread \ {t} : stack'[u] = stack[u]
    PROVE  /\ \A u \in Thread \ {t} : u \in Storers' <=> u \in Storers
           /\ Storers' \subseteq Storers \cup {t}
           /\ t \notin Storers' => Storers' = Storers \ {t}
  <1>1. \A u \in Thread \ {t} : u \in Storers' <=> u \in Storers
    BY DEF Storers, Reading, Top
  <1>2. Storers \subseteq Thread /\ Storers' \subseteq Thread
    BY DEF Storers
  <1> QED BY <1>1, <1>2

LEMMA StorersCount ==
    ASSUME NEW t \in Thread, \A u \in Thread \ {t} : stack'[u] = stack[u]
    PROVE  /\ Cardinality(Storers') \in Nat
           /\ Cardinality(Storers') <= Cardinality(Storers) + 1
           /\ t \notin Storers' => Cardinality(Storers') <= Cardinality(Storers)
           /\ t \notin Storers' /\ t \in Storers =>
                  Cardinality(Storers') = Cardinality(Storers) - 1
  <1>1. IsFiniteSet(Storers) /\ Cardinality(Storers) \in Nat
    BY StorersAre
  <1>2. IsFiniteSet(Storers \cup {t}) /\ Cardinality(Storers \cup {t}) \in Nat
        /\ Cardinality(Storers \cup {t}) <= Cardinality(Storers) + 1
    <2>1. IsFiniteSet(Storers \cup {t}) /\ Cardinality(Storers \cup {t}) =
              IF t \in Storers THEN Cardinality(Storers) ELSE Cardinality(Storers) + 1
      BY <1>1, FS_AddElement
    <2> QED BY <1>1, <2>1
  <1>3. Cardinality(Storers') \in Nat /\ Cardinality(Storers') <= Cardinality(Storers \cup {t})
    BY <1>2, StorersKeep, FS_Subset, FS_CardinalityType
  <1>4. t \notin Storers' => Cardinality(Storers') <= Cardinality(Storers)
    BY <1>1, StorersKeep, FS_Subset
  <1>5. t \notin Storers' /\ t \in Storers => Cardinality(Storers') = Cardinality(Storers) - 1
    BY <1>1, StorersKeep, FS_RemoveElement
  <1> QED BY <1>1, <1>2, <1>3, <1>4, <1>5

LEMMA BoundStep ==
    ASSUME Typed, BoundInv, NEW t \in Thread, ReadStep(t)
    PROVE  BoundInv'
  <1> DEFINE len == Len(included)
             next == Len(included')
             n == Cardinality(Storers)
             m == Cardinality(Storers')
  <1>1. Reading(t) /\ \A u \in Thread \ {t} : stack'[u] = stack[u]
    BY OthersStay
  <1>2. /\ len \in Nat /\ n \in Nat /\ m \in Nat /\ m <= n + 1
        /\ t \notin Storers' => m <= n
        /\ t \notin Storers' /\ t \in Storers => m = n - 1
        /\ len + n < MaxIncluded + Cardinality(Thread)
        /\ Cardinality(Thread) \in Nat /\ MaxIncluded \in Nat \ {0}
    BY <1>1, StorersAre, StorersCount, CachesTyped, BoundsAssumption DEF BoundInv
  <1>3. m <= Cardinality(Thread)
    <2>1. Storers' \in SUBSET Thread
      BY DEF Storers
    <2> QED BY <2>1, BoundsAssumption, FS_Subset
  <1>4. ASSUME stack'[t] = <<>> PROVE t \notin Storers'
    BY <1>4 DEF Storers, Reading
  <1>5. ASSUME NEW g \in Frame, SetTop(t, g), g.step # "store" PROVE t \notin Storers'
    BY <1>1, <1>5, TopSettled DEF Storers
  <1> SUFFICES next + m < MaxIncluded + Cardinality(Thread)
    BY DEF BoundInv
  <1>6. ASSUME t \notin Storers', included' = included
        PROVE  next + m < MaxIncluded + Cardinality(Thread)
    <2>1. next = len
      BY <1>6
    <2> HIDE DEF next, len, m, n
    <2> QED BY <1>2, <1>6, <2>1
  <1>7. CASE ReadText(t)
    BY <1>4, <1>5, <1>6, <1>7, ReadTextDoes, Failed
  <1>8. CASE Stat(t)
    BY <1>4, <1>5, <1>6, <1>8, StatDoes, Failed
  <1>9. CASE Include(t)
    <2>1. ASSUME NEW i \in Kept(Key(Called(t), Through(t))),
                 SetTop(t, Merged(Top(t), included[i].template))
          PROVE  t \notin Storers'
      <3> DEFINE g == Merged(Top(t), included[i].template)
      <3>1. g \in Frame /\ g.step = "compile"
        BY <1>1, <1>9, IncludeDoes, TopKind, CachesTyped, MergedFrame DEF Kept
      <3> HIDE DEF g
      <3> QED BY <2>1, <3>1, <1>5 DEF g
    <2>2. ASSUME NEW g \in Frame, Stacks(t, Append(stack[t], g)), g.step = "read"
          PROVE  t \notin Storers'
      BY <2>2, TopPushed DEF Storers
    <2> QED BY <1>4, <1>6, <1>9, <2>1, <2>2, IncludeDoes, Failed
  <1>10. CASE Load(t)
    <2>1. TemplateOf(Top(t)) \in Template
      BY <1>10, LoadDoes, TopKind, TemplateIs
    <2> QED BY <1>4, <1>6, <1>10, <2>1, LoadDoes, Ended DEF Outcomes
  <1>11. CASE ChooseVictim(t)
    <2>1. PICK g \in Frame : /\ SetTop(t, g) /\ included' = included
                             /\ (g.step = "evict" \/ (~IsFull /\ g.step = "store"))
      BY <1>11, ChooseVictimDoes
    <2>2. CASE g.step = "evict"
      BY <1>5, <1>6, <2>1, <2>2
    <2>3. CASE ~IsFull
      <3>1. len < MaxIncluded /\ next = len
        BY <1>2, <2>1, <2>3 DEF IsFull
      <3> HIDE DEF next, len, m, n
      <3> QED BY <1>2, <1>3, <3>1
    <2> QED BY <2>1, <2>2, <2>3
  <1>12. CASE Evict(t)
    <2>1. CASE Fails(t, "key_error") /\ included' = included
      BY <1>4, <1>6, <2>1, Failed
    <2>2. ASSUME NEW i \in Kept(Top(t).victim),
                 included' = SubSeq(included, 1, i - 1) \o SubSeq(included, i + 1, Len(included))
          PROVE  next + m < MaxIncluded + Cardinality(Thread)
      <3>1. next = len - 1
        BY <2>2, CachesTyped, Deleted DEF Kept
      <3> HIDE DEF next, len, m, n
      <3> QED BY <1>2, <3>1
    <2> QED BY <1>12, <2>1, <2>2, EvictDoes
  <1>13. CASE Store(t)
    <2>1. Reading(t) /\ t \in Storers /\ Stored(t) \in Entry
      BY <1>13, StoreDoes, StoredIs DEF Storers
    <2>2. t \notin Storers'
      BY <1>13, TopReturned DEF Storers
    <2>3. next <= len + 1 /\ next \in Nat
      <3>1. \/ included' = Append(included, Stored(t))
            \/ \E i \in DOMAIN included : included' = [included EXCEPT ![i] = Stored(t)]
        BY <1>13, StoreDoes DEF Kept
      <3>2. included' \in Seq(Entry) /\ Len(included') <= Len(included) + 1
        BY <2>1, <3>1, Put
      <3> QED BY <3>2
    <2> HIDE DEF next, len, m, n
    <2> QED BY <1>2, <2>1, <2>2, <2>3
  <1> QED BY <1>7, <1>8, <1>9, <1>10, <1>11, <1>12, <1>13 DEF ReadStep

LEMMA BoundNext == Typed /\ BoundInv /\ [Next]_vars => BoundInv'
  <1> SUFFICES ASSUME Typed, BoundInv, [Next]_vars PROVE BoundInv'
    OBVIOUS
  <1>1. CASE UNCHANGED <<stack, included>>
    BY <1>1 DEF BoundInv, Storers, Reading, Top
  <1>2. ASSUME NEW t \in Thread, NEW f \in Frame, Stacks(t, <<f>>),
               f.step \in {"read", "compile"}, included' = included
        PROVE  BoundInv'
    <2>1. <<f>> \in Seq(Frame) /\ Len(<<f>>) = 1 /\ <<f>>[1] = f
      OBVIOUS
    <2>2. stack'[t] = <<f>> /\ \A u \in Thread \ {t} : stack'[u] = stack[u]
      BY <1>2, <2>1, StacksAre DEF Typed, TypeInv
    <2>3. t \notin Storers'
      BY <1>2, <2>1, <2>2 DEF Storers, Top
    <2>4. /\ Cardinality(Storers') \in Nat /\ Cardinality(Storers) \in Nat
          /\ Cardinality(Storers') <= Cardinality(Storers) /\ Len(included) \in Nat
          /\ Cardinality(Thread) \in Nat
      BY <2>2, <2>3, StorersCount, StorersAre, CachesTyped
    <2> QED BY <1>2, <2>4, BoundsAssumption DEF BoundInv
  <1>3. ASSUME NEW t \in Thread, NEW n \in Name, Get(t, n) PROVE BoundInv'
    BY <1>1, <1>2, <1>3, GetDoes
  <1>4. ASSUME NEW f \in File, NEW removed \in BOOLEAN, Change(f, removed)
        PROVE  BoundInv'
    BY <1>1, <1>4 DEF Change
  <1> QED BY <1>1, <1>3, <1>4, BoundStep DEF Next, vars

\* Threads that look whether the cache is full, delete and store at once overrun
\* it by less than one entry each: those about to store count as entries
\* (MacroEngine.included).
THEOREM IncludedIsBounded == Spec => []CacheIsBounded
  <1>1. Init => BoundInv
    <2> SUFFICES ASSUME Init PROVE BoundInv
      OBVIOUS
    <2>1. Storers = {} /\ Len(included) = 0
      BY DEF Init, Storers, Reading
    <2>2. Cardinality(Storers) = 0 /\ Cardinality(Thread) \in Nat
      BY <2>1, StorersAre, FS_EmptySet
    <2> QED BY <2>1, <2>2, BoundsAssumption DEF BoundInv
  <1>2. Typed /\ BoundInv => CacheIsBounded
    <2> SUFFICES ASSUME Typed, BoundInv PROVE CacheIsBounded
      OBVIOUS
    <2>1. /\ Len(included) \in Nat /\ Cardinality(Storers) \in Nat
          /\ Cardinality(Thread) \in Nat /\ MaxIncluded \in Nat
      BY CachesTyped, StorersAre, BoundsAssumption
    <2> QED BY <2>1 DEF BoundInv, CacheIsBounded
  <1> QED BY <1>1, <1>2, TypedAlways, BoundNext, PTL DEF Spec

------------------------------------------------------------------------------
(* What was asked for, and why it fails.                                    *)

\* Whoever still reads after a step reads for the call it was asked for.
LEMMA BottomStays ==
    ASSUME Typed, NEW t \in Thread, ReadStep(t), stack'[t] # <<>>
    PROVE  stack'[t][1].name = stack[t][1].name /\ answer'[t] = answer[t]
  <1> DEFINE n == Len(stack[t])
  <1>1. /\ Reading(t) /\ n \in Nat \ {0} /\ DOMAIN stack[t] = 1 .. n
        /\ Top(t) = stack[t][n] /\ Top(t) \in Frame /\ 1 \in DOMAIN stack[t]
    BY OthersStay, TopIs DEF Typed, TypeInv
  <1>2. ASSUME NEW g \in Frame, SetTop(t, g), SameFrame(g, Top(t))
        PROVE  stack'[t][1].name = stack[t][1].name
    <2>1. stack'[t][n] = g /\ \A i \in DOMAIN stack[t] : i # n => stack'[t][i] = stack[t][i]
      BY <1>1, <1>2, Settled DEF Typed, TypeInv
    <2> HIDE DEF n
    <2> QED BY <1>1, <1>2, <2>1 DEF SameFrame
  <1>3. CASE ReadText(t)
    BY <1>2, <1>3, ReadTextDoes, Failed
  <1>4. CASE Stat(t)
    BY <1>2, <1>4, StatDoes, Failed
  <1>5. CASE Include(t)
    <2>1. ASSUME NEW i \in Kept(Key(Called(t), Through(t))),
                 SetTop(t, Merged(Top(t), included[i].template))
          PROVE  stack'[t][1].name = stack[t][1].name
      <3> DEFINE g == Merged(Top(t), included[i].template)
      <3>1. g \in Frame /\ SameFrame(g, Top(t))
        BY <1>1, CachesTyped, MergedFrame DEF Kept
      <3> HIDE DEF g
      <3> QED BY <1>2, <2>1, <3>1 DEF g
    <2>2. ASSUME NEW g \in Frame, Stacks(t, Append(stack[t], g))
          PROVE  stack'[t][1].name = stack[t][1].name
      BY <1>1, <2>2, Pushed DEF Typed, TypeInv
    <2> QED BY <1>5, <2>1, <2>2, IncludeDoes, Failed
  <1>6. CASE Load(t)
    <2>1. TemplateOf(Top(t)) \in Template
      BY <1>1, TemplateIs
    <2> QED BY <1>6, <2>1, LoadDoes, Ended DEF Outcomes
  <1>7. CASE ChooseVictim(t)
    BY <1>2, <1>7, ChooseVictimDoes
  <1>8. CASE Evict(t)
    BY <1>2, <1>8, EvictDoes, Failed
  <1>9. CASE Store(t)
    <2>1. /\ n > 1 /\ SameFrame(stack'[t][n - 1], stack[t][n - 1])
          /\ \A i \in 1 .. n - 2 : stack'[t][i] = stack[t][i]
      BY <1>9, ReturnsTo
    <2>2. answer' = answer
      BY <1>9, StoreDoes
    <2> HIDE DEF n
    <2>3. 1 = n - 1 \/ 1 \in 1 .. n - 2
      BY <1>1, <2>1
    <2> QED BY <2>1, <2>2, <2>3 DEF SameFrame
  <1> QED BY <1>3, <1>4, <1>5, <1>6, <1>7, <1>8, <1>9 DEF ReadStep

\* A thread that starts reading.
LEMMA Started ==
    ASSUME Typed, NEW t \in Thread, NEW name \in Name, Get(t, name)
    PROVE  /\ \A u \in Thread \ {t} : stack'[u] = stack[u] /\ answer'[u] = answer[u]
           /\ answer'[t].asked = name
           /\ \/ stack' = stack
              \/ stack'[t] # <<>> /\ stack'[t][1].name = name
  <1>1. ASSUME NEW outcome, NEW template, Answers(t, name, outcome, template)
        PROVE  answer'[t].asked = name /\ \A u \in Thread \ {t} : answer'[u] = answer[u]
    <2> DEFINE a == [asked |-> name, outcome |-> outcome, template |-> template]
    <2>1. answer' = [answer EXCEPT ![t] = a] /\ a.asked = name
      BY <1>1 DEF Answers
    <2> HIDE DEF a
    <2> QED BY <2>1 DEF Typed, TypeInv
  <1>2. ASSUME NEW f \in Frame, Stacks(t, <<f>>), f.name = name
        PROVE  /\ \A u \in Thread \ {t} : stack'[u] = stack[u]
               /\ stack'[t] # <<>> /\ stack'[t][1].name = name
    <2>1. <<f>> \in Seq(Frame) /\ <<f>>[1] = f /\ <<f>> # <<>>
      OBVIOUS
    <2> QED BY <1>2, <2>1, StacksAre DEF Typed, TypeInv
  <1> QED BY <1>1, <1>2, GetDoes

LEMMA AskedNext == Typed /\ AskedInv /\ [Next]_vars => AskedInv'
  <1> SUFFICES ASSUME Typed, AskedInv, [Next]_vars PROVE AskedInv'
    OBVIOUS
  <1>1. CASE UNCHANGED vars
    BY <1>1 DEF vars, AskedInv, Reading, Now, EveryVersion
  <1>2. ASSUME NEW t \in Thread, ReadStep(t) PROVE AskedInv'
    <2>1. Still(t) /\ Reading(t)
      BY <1>2, OthersStay
    <2>2. ASSUME NEW u \in Thread, stack'[u] # <<>>
          PROVE  stack[u] # <<>> /\ stack'[u][1].name = stack[u][1].name
                 /\ answer'[u] = answer[u]
      BY <1>2, <2>1, <2>2, OthersStay, BottomStays DEF Reading
    <2> QED BY <2>1, <2>2 DEF AskedInv, Reading, Now, EveryVersion, Still, EngineUnchanged
  <1>3. ASSUME NEW t \in Thread, NEW n \in Name, Get(t, n) PROVE AskedInv'
    <2>1. /\ seen' = [seen EXCEPT ![t] = Now \cup EveryVersion(torn)]
          /\ disk' = disk /\ torn' = torn /\ stack[t] = <<>>
      BY <1>3, GetDoes DEF EngineUnchanged, Reading
    <2>2. seen'[t] = Now \cup EveryVersion(torn) /\ \A u \in Thread \ {t} : seen'[u] = seen[u]
      BY <2>1 DEF Typed, TypeInv
    <2>3. Now' = Now /\ EveryVersion(torn)' = EveryVersion(torn)
      BY <2>1 DEF Now, EveryVersion
    <2>4. stack'[t] # <<>> => stack'[t][1].name = answer'[t].asked
      BY <1>3, <2>1, Started
    <2>5. \A u \in Thread \ {t} : stack'[u] = stack[u] /\ answer'[u] = answer[u]
      BY <1>3, Started
    <2> QED BY <2>2, <2>3, <2>4, <2>5 DEF AskedInv, Reading
  <1>4. ASSUME NEW f \in File, NEW removed \in BOOLEAN, Change(f, removed)
        PROVE  AskedInv'
    <2> SUFFICES ASSUME NEW t \in Thread, Reading(t)'
                 PROVE  /\ (stack[t][1].name = answer[t].asked)'
                        /\ Now' \subseteq seen'[t] /\ EveryVersion(torn)' \subseteq seen'[t]
      BY DEF AskedInv
    <2>1. stack' = stack /\ answer' = answer /\ Reading(t)
      BY <1>4 DEF Change, Reading
    <2>2. seen'[t] = seen[t] \cup {<<f, disk'[f]>>} \cup EveryVersion({f})
      BY <1>4, <2>1 DEF Change
    <2>3. \A g \in File : g # f => disk'[g] = disk[g]
      BY <1>4 DEF Change, Typed, TypeInv
    <2>4. torn' \subseteq torn \cup {f}
      BY <1>4 DEF Change
    <2>5. Now' \subseteq seen'[t]
      BY <2>1, <2>2, <2>3 DEF AskedInv, Now
    <2>6. EveryVersion(torn)' \subseteq seen'[t]
      BY <2>1, <2>2, <2>4 DEF AskedInv, EveryVersion
    <2> QED BY <2>1, <2>5, <2>6 DEF AskedInv
  <1> QED BY <1>1, <1>2, <1>3, <1>4 DEF Next

\* A thread comes to give up an entry that it has just found.
LEMMA VictimsAreFound ==
    ASSUME Typed, NEW t \in Thread, ReadStep(t), Reading(t)', Top(t)'.step = "evict"
    PROVE  included' = included /\ Kept(Top(t)'.victim) # {}
  <1>1. stack'[t] # <<>> /\ Reading(t)
    BY OthersStay DEF Reading
  <1>2. ASSUME NEW g \in Frame, SetTop(t, g) PROVE g.step = "evict"
    BY <1>1, <1>2, TopSettled
  <1>3. CASE ReadText(t)
    BY <1>1, <1>2, <1>3, ReadTextDoes, Failed
  <1>4. CASE Stat(t)
    BY <1>1, <1>2, <1>4, StatDoes, Failed
  <1>5. CASE Include(t)
    <2>1. ASSUME NEW i \in Kept(Key(Called(t), Through(t))),
                 SetTop(t, Merged(Top(t), included[i].template))
          PROVE  FALSE
      <3> DEFINE g == Merged(Top(t), included[i].template)
      <3>1. g \in Frame /\ g.step = "compile"
        BY <1>1, <1>5, IncludeDoes, TopKind, CachesTyped, MergedFrame DEF Kept
      <3> HIDE DEF g
      <3> QED BY <2>1, <3>1, <1>2 DEF g
    <2>2. ASSUME NEW g \in Frame, Stacks(t, Append(stack[t], g)), g.step = "read"
          PROVE  FALSE
      BY <2>2, TopPushed
    <2> QED BY <1>1, <1>5, <2>1, <2>2, IncludeDoes, Failed
  <1>6. CASE Load(t)
    <2>1. TemplateOf(Top(t)) \in Template
      BY <1>6, LoadDoes, TopKind, TemplateIs
    <2> QED BY <1>1, <1>6, <2>1, LoadDoes, Ended DEF Outcomes
  <1>7. CASE ChooseVictim(t)
    <2>1. PICK g \in Frame :
              /\ SetTop(t, g) /\ included' = included
              /\ \/ IsFull /\ g.step = "evict" /\ g.victim = included[1].key
                 \/ g.step = "store"
      BY <1>7, ChooseVictimDoes
    <2>2. Top(t)' = g /\ g.step = "evict"
      BY <1>1, <1>2, <2>1, TopSettled
    <2>3. IsFull /\ g.victim = included[1].key
      BY <2>1, <2>2
    <2>4. 1 \in DOMAIN included
      BY <2>3, CachesTyped, BoundsAssumption DEF IsFull
    <2>5. 1 \in Kept(g.victim)
      BY <2>3, <2>4 DEF Kept
    <2> QED BY <2>1, <2>2, <2>5
  <1>8. CASE Evict(t)
    BY <1>1, <1>2, <1>8, EvictDoes, Failed
  <1>9. CASE Store(t)
    BY <1>9, TopReturned
  <1> QED BY <1>3, <1>4, <1>5, <1>6, <1>7, <1>8, <1>9 DEF ReadStep

LEMMA VictimNext == Typed /\ VictimInv /\ [Next]_vars => VictimInv'
  <1> SUFFICES ASSUME Typed, VictimInv, [Next]_vars,
                      NEW t \in Thread, Thread = {t}, Reading(t)', Top(t)'.step = "evict"
               PROVE  Kept(Top(t).victim)' # {}
    BY DEF VictimInv
  <1>1. CASE UNCHANGED <<stack, included>>
    BY <1>1 DEF VictimInv, Reading, Top, Kept
  <1>2. CASE ReadStep(t)
    BY <1>2, VictimsAreFound DEF Kept
  <1>3. ASSUME NEW n \in Name, Get(t, n) PROVE Kept(Top(t).victim)' # {}
    <2>1. CASE stack' = stack
      BY <1>1, <1>3, <2>1, GetDoes
    <2>2. ASSUME NEW f \in Frame, Stacks(t, <<f>>), f.step \in {"read", "compile"}
          PROVE  FALSE
      <3>1. <<f>> \in Seq(Frame) /\ Len(<<f>>) = 1 /\ <<f>>[1] = f
        OBVIOUS
      <3>2. stack'[t] = <<f>>
        BY <2>2, <3>1, StacksAre DEF Typed, TypeInv
      <3> QED BY <2>2, <3>1, <3>2 DEF Top
    <2> QED BY <1>3, <2>1, <2>2, GetDoes
  <1>4. ASSUME NEW f \in File, NEW removed \in BOOLEAN, Change(f, removed)
        PROVE  Kept(Top(t).victim)' # {}
    BY <1>1, <1>4 DEF Change
  <1> QED BY <1>1, <1>2, <1>3, <1>4 DEF Next, vars

\* Every template being read is one that the call needs.
LEMMA NamesAreReached ==
    ASSUME Typed, PlaceInv, AskedInv, NEW t \in Thread, Reading(t)
    PROVE  /\ answer[t].asked \in Name
           /\ \A i \in DOMAIN stack[t] : stack[t][i].name \in Reach[answer[t].asked]
           /\ Top(t).name \in Reach[answer[t].asked]
  <1>1. /\ DOMAIN stack[t] = 1 .. Len(stack[t]) /\ 1 \in DOMAIN stack[t]
        /\ Len(stack[t]) \in DOMAIN stack[t] /\ Top(t) = stack[t][Len(stack[t])]
    BY TopIs DEF Typed, TypeInv
  <1>2. \A i \in DOMAIN stack[t] : stack[t][i].name \in Name
    BY FramesAre DEF Typed, TypeInv
  <1> DEFINE asked == answer[t].asked
             called == IncludesOf[asked][stack[t][1].next]
  <1>3. stack[t][1].name = asked
    BY DEF AskedInv
  <1>4. ASSUME NEW i \in DOMAIN stack[t] PROVE stack[t][i].name \in Reach[asked]
    <2>1. CASE i = 1
      BY <1>1, <1>2, <1>3, <2>1, ReachIs
    <2>2. CASE i # 1
      <3>1. 1 < i
        BY <1>1, <2>2
      <3>2. stack[t][1].next \in DOMAIN IncludesOf[asked] /\ stack[t][i].name \in Reach[called]
        BY <1>1, <1>3, <3>1 DEF PlaceInv, Nested
      <3>3. Reach[called] \subseteq Reach[asked]
        BY <1>1, <1>2, <1>3, <3>2, ReachIncludes
      <3> QED BY <3>2, <3>3
    <2> QED BY <2>1, <2>2
  <1> QED BY <1>1, <1>2, <1>3, <1>4

LEMMA CalledIsReached ==
    ASSUME Typed, PlaceInv, AskedInv, NEW t \in Thread, Reading(t),
           Top(t).next \in DOMAIN IncludesOf[Top(t).name]
    PROVE  Called(t) \in Reach[answer[t].asked] /\ Called(t) \in Reach[Top(t).name]
  <1>1. Top(t).name \in Name /\ Called(t) \in Reach[Top(t).name]
    BY TopKind, ReachIncludes DEF Called
  <1> QED BY <1>1, NamesAreReached, ReachWithin

\* A template that is called inside itself is one that needs itself.
LEMMA CyclesAreReal ==
    ASSUME Typed, PlaceInv, AskedInv, NEW t \in Thread, Reading(t),
           Top(t).next \in DOMAIN IncludesOf[Top(t).name],
           CallsItself(Top(t), Called(t))
    PROVE  \E f \in Reach[answer[t].asked] : \E i \in DOMAIN IncludesOf[f] :
               f \in Reach[IncludesOf[f][i]]
  <1> DEFINE n == Len(stack[t])
  <1>1. /\ DOMAIN stack[t] = 1 .. n /\ n \in Nat \ {0} /\ Top(t) = stack[t][n]
        /\ n \in DOMAIN stack[t]
    BY TopIs DEF Typed, TypeInv
  <1> HIDE DEF n
  <1>2. PICK i \in DOMAIN stack[t] : stack[t][i].name = Called(t)
    <2>1. Within(stack[t][n].chain) = {stack[t][j].name : j \in 1 .. n - 1}
      BY <1>1 DEF PlaceInv, Chained
    <2>2. \A j \in 1 .. n - 1 : j \in DOMAIN stack[t]
      BY <1>1
    <2> QED BY <1>1, <2>1, <2>2 DEF CallsItself
  <1> DEFINE outer == stack[t][i]
             inner == IncludesOf[outer.name][outer.next]
  <1>3. outer.next \in DOMAIN IncludesOf[outer.name] /\ Called(t) \in Reach[inner]
    <2>1. CASE i = n
      BY <1>1, <1>2, <2>1, TopKind, ReachIncludes DEF Called
    <2>2. CASE i # n
      <3>1. i < n
        BY <1>1, <2>2
      <3>2. outer.next \in DOMAIN IncludesOf[outer.name] /\ Top(t).name \in Reach[inner]
        BY <1>1, <3>1 DEF PlaceInv, Nested
      <3>3. outer.name \in Name
        BY FramesAre DEF Typed, TypeInv
      <3>4. inner \in Name
        BY <3>2, <3>3, ReachIncludes
      <3> HIDE DEF outer, inner
      <3> QED BY <3>2, <3>4, CalledIsReached, ReachWithin
    <2> QED BY <2>1, <2>2
  <1>4. Called(t) \in Reach[answer[t].asked]
    BY CalledIsReached
  <1> QED BY <1>2, <1>3, <1>4

\* A failure of a thread's last call has a reason.
Real(t) ==
    /\ answer[t].outcome = "missing" =>
            \E f \in File \cap Reach[answer[t].asked] : <<f, Missing>> \in seen[t]
    /\ answer[t].outcome = "cycle" =>
            \E f \in Reach[answer[t].asked] : \E i \in DOMAIN IncludesOf[f] :
                f \in Reach[IncludesOf[f][i]]
    /\ answer[t].outcome = "key_error" => Cardinality(Thread) > 1

LEMMA RealStays ==
    ASSUME NEW t \in Thread, Real(t), answer'[t] = answer[t], seen[t] \subseteq seen'[t]
    PROVE  Real(t)'
  BY DEF Real

LEMMA MissingIsReal ==
    ASSUME Typed, AskedInv, NEW t \in Thread, Reading(t), Still(t),
           NEW f \in File, f \in Reach[answer[t].asked], disk[f] = Missing,
           Fails(t, "missing")
    PROVE  Real(t)'
  <1>1. answer'[t].asked = answer[t].asked /\ answer'[t].outcome = "missing"
    BY Failed
  <1>2. <<f, Missing>> \in seen'[t]
    BY DEF AskedInv, Now, Still
  <1> QED BY <1>1, <1>2 DEF Real

LEMMA RealStep ==
    ASSUME Typed, PlaceInv, AskedInv, VictimInv, NEW t \in Thread, Real(t), ReadStep(t)
    PROVE  Real(t)'
  <1>1. Reading(t) /\ Still(t) /\ seen' = seen
    BY OthersStay DEF Still
  <1>2. CASE stack'[t] # <<>>
    BY <1>1, <1>2, BottomStays, RealStays
  <1>3. ASSUME ReadText(t) \/ Stat(t), stack'[t] = <<>> PROVE Real(t)'
    <2>1. ASSUME NEW g \in Frame, SetTop(t, g) PROVE FALSE
      BY <1>1, <1>3, <2>1, TopSettled DEF Reading
    <2>2. Top(t).name \in File /\ disk[Top(t).name] = Missing /\ Fails(t, "missing")
      BY <1>3, <2>1, ReadTextDoes, StatDoes
    <2> QED BY <1>1, <2>2, NamesAreReached, MissingIsReal
  <1>4. ASSUME Include(t), stack'[t] = <<>> PROVE Real(t)'
    <2>0. Called(t) \in File /\ Top(t).next \in DOMAIN IncludesOf[Top(t).name]
      BY <1>4, IncludeDoes, CalledIs
    <2>1. CASE CallsItself(Top(t), Called(t)) /\ Fails(t, "cycle")
      <3>1. answer'[t].asked = answer[t].asked /\ answer'[t].outcome = "cycle"
        BY <2>1, Failed
      <3> QED BY <1>1, <2>0, <2>1, <3>1, CyclesAreReal DEF Real
    <2>2. CASE disk[Called(t)] = Missing /\ Fails(t, "missing")
      BY <1>1, <2>0, <2>2, CalledIsReached, MissingIsReal
    <2>3. ASSUME NEW i \in Kept(Key(Called(t), Through(t))),
                 SetTop(t, Merged(Top(t), included[i].template))
          PROVE  FALSE
      <3>1. Merged(Top(t), included[i].template) \in Frame
        BY <1>1, TopKind, CachesTyped, MergedFrame DEF Kept
      <3> QED BY <1>1, <1>4, <2>3, <3>1, TopSettled DEF Reading
    <2>4. ASSUME NEW g \in Frame, Stacks(t, Append(stack[t], g)) PROVE FALSE
      BY <1>4, <2>4, TopPushed DEF Reading
    <2> QED BY <1>4, <2>1, <2>2, <2>3, <2>4, IncludeDoes
  <1>5. CASE Load(t)
    <2>1. TemplateOf(Top(t)) \in Template
      BY <1>5, LoadDoes, TopKind, TemplateIs
    <2>2. answer'[t].outcome = "template"
      BY <1>5, <2>1, LoadDoes, Ended DEF Outcomes
    <2> QED BY <2>2 DEF Real
  <1>6. ASSUME ChooseVictim(t), stack'[t] = <<>> PROVE Real(t)'
    BY <1>1, <1>6, ChooseVictimDoes, TopSettled DEF Reading
  <1>7. ASSUME Evict(t), stack'[t] = <<>> PROVE Real(t)'
    <2>1. ASSUME NEW g \in Frame, SetTop(t, g) PROVE FALSE
      BY <1>1, <1>7, <2>1, TopSettled DEF Reading
    <2>2. Kept(Top(t).victim) = {} /\ Fails(t, "key_error") /\ Top(t).step = "evict"
      BY <1>7, <2>1, EvictDoes
    <2>3. Thread # {t}
      BY <1>1, <2>2 DEF VictimInv
    <2>4. Cardinality(Thread) > 1
      <3>1. Cardinality({t}) = 1 /\ IsFiniteSet({t})
        BY FS_Singleton
      <3>2. {t} \subseteq Thread /\ IsFiniteSet(Thread) /\ Cardinality(Thread) \in Nat
        BY BoundsAssumption, FS_CardinalityType
      <3>3. Cardinality({t}) <= Cardinality(Thread)
            /\ (Cardinality({t}) = Cardinality(Thread) => {t} = Thread)
        BY <3>2, FS_Subset
      <3> QED BY <2>3, <3>1, <3>2, <3>3
    <2>5. answer'[t].outcome = "key_error"
      BY <2>2, Failed
    <2> QED BY <2>4, <2>5 DEF Real
  <1>8. ASSUME Store(t), stack'[t] = <<>> PROVE Real(t)'
    BY <1>8, TopReturned DEF Reading
  <1> QED BY <1>2, <1>3, <1>4, <1>5, <1>6, <1>7, <1>8 DEF ReadStep

LEMMA RealNext ==
    Typed /\ PlaceInv /\ AskedInv /\ VictimInv /\ FailuresAreReal /\ [Next]_vars
        => FailuresAreReal'
  <1> SUFFICES ASSUME Typed, PlaceInv, AskedInv, VictimInv, [Next]_vars,
                      \A t \in Thread : Real(t)
               PROVE  \A t \in Thread : Real(t)'
    BY DEF FailuresAreReal, Real
  <1>1. CASE UNCHANGED vars
    BY <1>1, RealStays DEF vars
  <1>2. ASSUME NEW t \in Thread, ReadStep(t) PROVE \A u \in Thread : Real(u)'
    <2>1. \A u \in Thread \ {t} : answer'[u] = answer[u] /\ seen'[u] = seen[u]
      BY <1>2, OthersStay DEF Still
    <2> QED BY <1>2, <2>1, RealStays, RealStep
  <1>3. ASSUME NEW t \in Thread, NEW n \in Name, Get(t, n) PROVE \A u \in Thread : Real(u)'
    <2>1. seen' = [seen EXCEPT ![t] = Now \cup EveryVersion(torn)]
      BY <1>3, GetDoes
    <2>2. seen'[t] = Now \cup EveryVersion(torn) /\ \A u \in Thread \ {t} : seen'[u] = seen[u]
      BY <2>1 DEF Typed, TypeInv
    <2>3. \A u \in Thread \ {t} : Real(u)'
      BY <1>3, <2>2, Started, RealStays
    <2>4. ASSUME NEW outcome, NEW template, Answers(t, n, outcome, template)
          PROVE  answer'[t].asked = n /\ answer'[t].outcome = outcome
      <3> DEFINE a == [asked |-> n, outcome |-> outcome, template |-> template]
      <3>1. answer' = [answer EXCEPT ![t] = a] /\ a.asked = n /\ a.outcome = outcome
        BY <2>4 DEF Answers
      <3> HIDE DEF a
      <3> QED BY <3>1 DEF Typed, TypeInv
    <2>5. CASE n \in File /\ disk[n] = Missing /\ answer'[t].asked = n
               /\ answer'[t].outcome = "missing"
      <3>1. n \in File \cap Reach[n] /\ <<n, Missing>> \in seen'[t]
        BY <2>2, <2>5, ReachIs DEF Now
      <3>2. Real(t)'
        BY <2>5, <3>1 DEF Real
      <3> QED BY <2>3, <3>2
    <2>6. CASE answer'[t].outcome \in {"none", "template"}
      <3>1. Real(t)'
        BY <2>6 DEF Real
      <3> QED BY <2>3, <3>1
    <2> QED BY <1>3, <2>4, <2>5, <2>6, GetDoes
  <1>4. ASSUME NEW f \in File, NEW removed \in BOOLEAN, Change(f, removed)
        PROVE  \A u \in Thread : Real(u)'
    <2>1. answer' = answer /\ \A u \in Thread : seen[u] \subseteq seen'[u]
      BY <1>4 DEF Change
    <2> QED BY <2>1, RealStays
  <1> QED BY <1>1, <1>2, <1>3, <1>4 DEF Next

\* Every failure has a reason in the files: a template the call needs was not
\* there while it ran, or includes itself; the cache fails a call only when
\* another thread empties it (MacroEngine.get, MacroTemplate._include,
\* MacroEngine.included).
THEOREM FailuresHaveReasons == Spec => []FailuresAreReal
  <1>1. Init => PlaceInv
    BY PlacesEmpty DEF Init, PlaceInv, Nested, Chained, Distinct
  <1>2. Init => AskedInv /\ VictimInv
    BY DEF Init, AskedInv, VictimInv, Reading
  <1>3. Init => FailuresAreReal
    <2>1. NoAnswer.outcome = "none"
      BY DEF NoAnswer
    <2> QED BY <2>1 DEF Init, FailuresAreReal
  <1> QED BY <1>1, <1>2, <1>3, TypedAlways, PlacesNext, AskedNext, VictimNext, RealNext, PTL
          DEF Spec

------------------------------------------------------------------------------
(* What templates are made of.                                              *)

LEMMA FrameOkStill ==
    ASSUME NEW f, NEW u \in Thread, NEW t \in Thread, FrameOk(f, u), Still(t)
    PROVE  FrameOk(f, u)'
  BY DEF FrameOk, Notes, Timed, Current, Still, EngineUnchanged

LEMMA KeptOkStill ==
    ASSUME NEW T, NEW t \in Thread, KeptOk(T), Still(t)
    PROVE  KeptOk(T)'
  BY DEF KeptOk, Notes, Timed, Current, Changed, ChangedItself, Still, EngineUnchanged

LEMMA FrameParts ==
    ASSUME NEW f \in Frame
    PROVE  /\ f.name \in Name /\ f.next \in Nat /\ f.mtime \in Version
           /\ f.pieces \in SUBSET (File \X Version) /\ f.includes \in SUBSET (File \X Version)
           /\ IncludesOf[f.name] \in Seq(File) /\ Len(IncludesOf[f.name]) \in Nat
           /\ DOMAIN IncludesOf[f.name] = 1 .. Len(IncludesOf[f.name])
  <1>1. /\ f.name \in Name /\ f.next \in Nat /\ f.mtime \in Version
        /\ f.pieces \in SUBSET (File \X Version) /\ f.includes \in SUBSET (File \X Version)
    BY DEF Frame
  <1>2. IncludesOf[f.name] \in Seq(File)
    BY <1>1, IncludesAssumption
  <1> QED BY <1>1, <1>2

LEMMA TemplateParts ==
    ASSUME NEW T \in Template
    PROVE  /\ T.name \in Name /\ T.mtime \in Version
           /\ T.pieces \in SUBSET (File \X Version) /\ T.includes \in SUBSET (File \X Version)
  BY DEF Template

\* Only how far a frame got changes: what it is made of stays.
LEMMA SteppedOk ==
    ASSUME NEW f \in Frame, NEW g \in Frame, NEW t \in Thread, FrameOk(f, t),
           f.step \notin {"read", "stat"}, SameFrame(g, f), g.next = f.next,
           g.next = Len(IncludesOf[f.name]) + 1, g.step \in {"evict", "store"},
           g.mtime = f.mtime, g.pieces = f.pieces, g.includes = f.includes
    PROVE  FrameOk(g, t)
  <1>1. f.name = g.name
    BY DEF SameFrame
  <1>2. Merges(g) = Merges(f)
    BY <1>1 DEF Merges
  <1>3. Made(g)
    BY <1>1, <1>2 DEF FrameOk, Made
  <1>4. Notes(g) /\ Timed(g)
    BY <1>1 DEF FrameOk, Notes, Timed
  <1> QED BY <1>3, <1>4 DEF FrameOk

LEMMA NewOk ==
    ASSUME NEW g \in Frame, NEW t \in Thread, g.next = 1, g.pieces = {}, g.includes = {},
           g.step = IF g.name \in File THEN "read" ELSE "compile"
    PROVE  FrameOk(g, t)
  <1>1. Merges(g) = {} /\ FilesOf(g.pieces) = {} /\ FilesOf(g.includes) = {}
    BY DEF Merges, FilesOf
  <1>2. Made(g)
    BY <1>1, FrameParts DEF Made
  <1> QED BY <1>1, <1>2 DEF FrameOk, Notes, Timed

LEMMA ReadOk ==
    ASSUME Typed, AskedInv, NEW t \in Thread, Reading(t),
           NEW f \in Frame, NEW g \in Frame, FrameOk(f, t), f.step = "read", f.name \in File,
           disk[f.name] # Missing, SameFrame(g, f), g.step = "stat", g.next = f.next,
           g.pieces = {<<f.name, disk[f.name]>>}, g.includes = f.includes
    PROVE  FrameOk(g, t)
  <1>1. g.name = f.name /\ f.next = 1
    BY DEF SameFrame, FrameOk, Made
  <1>2. FilesOf(g.pieces) = {g.name}
    BY <1>1 DEF FilesOf
  <1>3. Merges(g) = {}
    BY <1>1 DEF Merges
  <1>4. Made(g)
    <2>1. Len(IncludesOf[g.name]) \in Nat
      BY FrameParts
    <2>2. g.next \in 1 .. Len(IncludesOf[g.name]) + 1
      BY <1>1, <2>1
    <2>3. FilesOf(g.pieces) = ({g.name} \cap File) \cup Merges(g)
      BY <1>1, <1>2, <1>3
    <2> QED BY <1>1, <2>2, <2>3 DEF Made
  <1>5. Notes(g)
    BY <1>2 DEF FrameOk, Notes
  <1>6. <<f.name, disk[f.name]>> \in seen[t]
    BY DEF AskedInv, Now
  <1>7. \A piece \in g.pieces : piece \in seen[t] /\ Current(piece)
    BY <1>6 DEF Current
  <1> QED BY <1>4, <1>5, <1>7 DEF FrameOk

LEMMA StattedOk ==
    ASSUME Typed, NEW t \in Thread,
           NEW f \in Frame, NEW g \in Frame, FrameOk(f, t), f.step = "stat", f.name \in File,
           disk[f.name] # Missing, SameFrame(g, f), g.step = "compile", g.next = f.next,
           g.mtime = disk[f.name], g.pieces = f.pieces, g.includes = f.includes
    PROVE  FrameOk(g, t)
  <1>1. g.name = f.name
    BY DEF SameFrame
  <1>2. Merges(g) = Merges(f)
    BY <1>1 DEF Merges
  <1>3. Made(g)
    BY <1>1, <1>2 DEF FrameOk, Made
  <1>4. Notes(g)
    BY <1>1 DEF FrameOk, Notes
  <1>5. disk[f.name] \in Nat /\ writes \in Nat /\ disk[f.name] <= writes
    BY DiskIs, BoundsAssumption DEF Typed, TypeInv, Version
  <1>6. Timed(g)
    BY <1>5 DEF Timed, Missing
  <1> QED BY <1>3, <1>4, <1>6 DEF FrameOk

\* An included template that is whole goes into the one that includes it.
LEMMA MergedOk ==
    ASSUME NEW t \in Thread, NEW f \in Frame, FrameOk(f, t), f.step = "compile",
           f.next \in DOMAIN IncludesOf[f.name],
           NEW child \in Template, child.name = IncludesOf[f.name][f.next],
           child.name \in File, FilesOf(child.pieces) = Reach[child.name],
           Notes(child), Timed(child),
           \A piece \in child.pieces : piece \in seen[t] /\ Current(piece)
    PROVE  FrameOk(Merged(f, child), t)
  <1> DEFINE g == Merged(f, child)
             names == {file[1] : file \in Noted(child)}
             includes == {file \in f.includes : file[1] \notin names} \cup Noted(child)
             n == Len(IncludesOf[f.name])
  <1>1. /\ SameFrame(g, f) /\ g.step = "compile" /\ g.next = f.next + 1
        /\ g.mtime = f.mtime /\ g.pieces = f.pieces \cup child.pieces
        /\ g.includes = includes
    BY MergedFrame
  <1> HIDE DEF g
  <1>2. g.name = f.name
    BY <1>1 DEF SameFrame
  <1>3. n \in Nat /\ DOMAIN IncludesOf[f.name] = 1 .. n /\ f.next \in 1 .. n
    BY FrameParts
  <1> HIDE DEF n
  <1>4. FilesOf(g.pieces) = FilesOf(f.pieces) \cup FilesOf(child.pieces)
    BY <1>1 DEF FilesOf
  <1>5. Merges(g) = Merges(f) \cup Reach[child.name]
    <2>1. 1 .. g.next - 1 = (1 .. f.next - 1) \cup {f.next}
      BY <1>1, <1>3
    <2> QED BY <1>2, <2>1 DEF Merges
  <1>6. Made(g)
    <2>1. g.next \in 1 .. n + 1
      BY <1>1, <1>3
    <2>2. FilesOf(f.pieces) = ({f.name} \cap File) \cup Merges(f)
      BY DEF FrameOk, Made
    <2>3. FilesOf(g.pieces) = ({g.name} \cap File) \cup Merges(g)
      BY <1>2, <1>4, <1>5, <2>2
    <2> QED BY <1>1, <1>2, <2>1, <2>3 DEF Made, n
  <1>7. names = FilesOf(child.includes) \cup {child.name}
    <2> DEFINE note == <<child.name, child.mtime>>
    <2>1. note[1] = child.name /\ Noted(child) = child.includes \cup {note}
      BY DEF Noted
    <2> HIDE DEF note
    <2> QED BY <2>1 DEF FilesOf
  <1>8. FilesOf(f.includes) \cup names \subseteq FilesOf(includes)
    BY DEF FilesOf
  <1>9. FilesOf(g.pieces) \subseteq FilesOf(g.includes) \cup {g.name}
    <2>1. FilesOf(f.pieces) \subseteq FilesOf(f.includes) \cup {f.name}
      BY DEF FrameOk, Notes
    <2>2. FilesOf(child.pieces) \subseteq names
      BY <1>7 DEF Notes
    <2> HIDE DEF names, includes
    <2> QED BY <1>1, <1>2, <1>4, <1>8, <2>1, <2>2
  <1>10. \A file \in Noted(child) : file[2] \in 1 .. writes
    BY DEF Notes, Timed, Noted
  <1>11. \A file \in g.includes : file[2] \in 1 .. writes
    BY <1>1, <1>10 DEF FrameOk, Notes
  <1>12. Timed(g)
    BY <1>1, <1>2 DEF FrameOk, Timed
  <1>13. \A piece \in g.pieces : piece \in seen[t] /\ Current(piece)
    BY <1>1 DEF FrameOk
  <1> QED BY <1>6, <1>9, <1>11, <1>12, <1>13 DEF FrameOk, Notes, g

\* A template whose includes are all done is whole.
LEMMA WholeOk ==
    ASSUME NEW t \in Thread, NEW f \in Frame, FrameOk(f, t), f.step \notin {"read", "stat"},
           f.next \notin DOMAIN IncludesOf[f.name], f.name \in File
    PROVE  LET T == TemplateOf(f)
           IN /\ T \in Template /\ T.name = f.name
              /\ FilesOf(T.pieces) = Reach[T.name] /\ Notes(T) /\ Timed(T)
              /\ \A piece \in T.pieces : piece \in seen[t] /\ Current(piece)
              /\ KeptOk(T)
  <1> DEFINE T == TemplateOf(f)
             n == Len(IncludesOf[f.name])
  <1>1. /\ T \in Template /\ T.name = f.name /\ T.mtime = f.mtime
        /\ T.pieces = f.pieces /\ T.includes = f.includes
    BY TemplateIs
  <1> HIDE DEF T
  <1>2. n \in Nat /\ DOMAIN IncludesOf[f.name] = 1 .. n
    BY FrameParts
  <1>3. 1 .. f.next - 1 = DOMAIN IncludesOf[f.name]
    BY <1>2 DEF FrameOk, Made
  <1>4. FilesOf(f.pieces) = {f.name} \cup Merges(f)
    BY DEF FrameOk, Made
  <1>5. FilesOf(f.pieces) = Reach[f.name]
    BY <1>3, <1>4, ReachParts, FrameParts DEF Merges
  <1>6. Notes(T) /\ Timed(T)
    BY <1>1 DEF FrameOk, Notes, Timed
  <1>7. \A piece \in T.pieces : piece \in seen[t] /\ Current(piece)
    BY <1>1 DEF FrameOk
  <1>8. KeptOk(T)
    BY <1>1, <1>5, <1>6, <1>7 DEF KeptOk, Current
  <1> QED BY <1>1, <1>5, <1>6, <1>7, <1>8 DEF T

\* A kept template that did not change is as it was on disk while a thread reads.
LEMMA UnchangedIsSeen ==
    ASSUME NEW T \in Template, T.name \in File, KeptOk(T), ~Changed(T),
           NEW all, Now \subseteq all, EveryVersion(torn) \subseteq all
    PROVE  \A piece \in T.pieces : piece \in all /\ Current(piece)
  <1> SUFFICES ASSUME NEW piece \in T.pieces PROVE piece \in all /\ Current(piece)
    OBVIOUS
  <1>1. Current(piece)
    BY DEF KeptOk
  <1>2. PICK f \in File, v \in Version : piece = <<f, v>>
    BY TemplateParts
  <1>3. piece \in Now \cup EveryVersion(torn)
    BY <1>1, <1>2 DEF Current, Now, EveryVersion
  <1> QED BY <1>1, <1>3

\* The frame a thread is at, and the templates that are kept.
LEMMA TopOk ==
    ASSUME Typed, FrameInv, NEW t \in Thread, Reading(t)
    PROVE  FrameOk(Top(t), t) /\ Top(t) \in Frame
  BY TopIs DEF FrameInv, Typed, TypeInv

LEMMA OthersOk ==
    ASSUME Typed, FrameInv, NEW t \in Thread, Still(t),
           \A u \in Thread \ {t} : stack'[u] = stack[u],
           \A i \in DOMAIN stack'[t] : FrameOk(stack[t][i], t)'
    PROVE  FrameInv'
  <1>1. ASSUME NEW u \in Thread \ {t}, NEW i \in DOMAIN stack'[u]
        PROVE  FrameOk(stack[u][i], u)'
    <2>1. stack'[u][i] = stack[u][i] /\ i \in DOMAIN stack[u]
      OBVIOUS
    <2>2. FrameOk(stack[u][i], u)
      BY <2>1 DEF FrameInv
    <2> QED BY <2>1, <2>2, FrameOkStill
  <1> QED BY <1>1 DEF FrameInv

LEMMA SettledOk ==
    ASSUME Typed, FrameInv, NEW t \in Thread, Reading(t), Still(t), NEW g \in Frame,
           SetTop(t, g), FrameOk(g, t)
    PROVE  FrameInv'
  <1> DEFINE n == Len(stack[t])
  <1>1. /\ \A u \in Thread \ {t} : stack'[u] = stack[u]
        /\ DOMAIN stack'[t] = DOMAIN stack[t] /\ stack'[t][n] = g
        /\ \A i \in DOMAIN stack[t] : i # n => stack'[t][i] = stack[t][i]
    BY Settled DEF Typed, TypeInv
  <1> HIDE DEF n
  <1>2. ASSUME NEW i \in DOMAIN stack'[t] PROVE FrameOk(stack[t][i], t)'
    <2>1. CASE i = n
      BY <1>1, <2>1, FrameOkStill
    <2>2. CASE i # n
      <3>1. stack'[t][i] = stack[t][i] /\ FrameOk(stack[t][i], t)
        BY <1>1, <2>2 DEF FrameInv
      <3> QED BY <3>1, FrameOkStill
    <2> QED BY <2>1, <2>2
  <1> QED BY <1>1, <1>2, OthersOk

LEMMA PushedOk ==
    ASSUME Typed, FrameInv, NEW t \in Thread, Still(t), NEW g \in Frame,
           Stacks(t, Append(stack[t], g)), FrameOk(g, t)
    PROVE  FrameInv'
  <1> DEFINE n == Len(stack[t])
  <1>1. /\ \A u \in Thread \ {t} : stack'[u] = stack[u]
        /\ n \in Nat /\ DOMAIN stack[t] = 1 .. n
        /\ DOMAIN stack'[t] = 1 .. n + 1 /\ stack'[t][n + 1] = g
        /\ \A i \in DOMAIN stack[t] : stack'[t][i] = stack[t][i]
    BY Pushed DEF Typed, TypeInv
  <1> HIDE DEF n
  <1>2. ASSUME NEW i \in DOMAIN stack'[t] PROVE FrameOk(stack[t][i], t)'
    <2>1. CASE i = n + 1
      BY <1>1, <2>1, FrameOkStill
    <2>2. CASE i # n + 1
      <3>1. i \in DOMAIN stack[t]
        BY <1>1, <2>2
      <3>2. stack'[t][i] = stack[t][i] /\ FrameOk(stack[t][i], t)
        BY <1>1, <3>1 DEF FrameInv
      <3> QED BY <3>2, FrameOkStill
    <2> QED BY <2>1, <2>2
  <1> QED BY <1>1, <1>2, OthersOk

\* The template that is stored is whole, and the one around it calls it.
LEMMA StoredOk ==
    ASSUME Typed, FrameInv, NEW t \in Thread, Store(t)
    PROVE  LET T == TemplateOf(Top(t))
           IN /\ T \in Template /\ T.name = Top(t).name /\ T.name \in File
              /\ FilesOf(T.pieces) = Reach[T.name] /\ Notes(T) /\ Timed(T)
              /\ \A piece \in T.pieces : piece \in seen[t] /\ Current(piece)
              /\ KeptOk(T)
  <1>1. Reading(t) /\ Top(t).step = "store" /\ Len(stack[t]) > 1
    BY StoreDoes
  <1>2. Top(t) \in Frame /\ Top(t).name \in File /\ FrameOk(Top(t), t)
    BY <1>1, TopKind, TopOk
  <1>3. Top(t).next \notin DOMAIN IncludesOf[Top(t).name]
    <2>1. /\ Len(IncludesOf[Top(t).name]) \in Nat
          /\ DOMAIN IncludesOf[Top(t).name] = 1 .. Len(IncludesOf[Top(t).name])
      BY <1>2, FrameParts
    <2>2. Top(t).next = Len(IncludesOf[Top(t).name]) + 1
      BY <1>1, <1>2 DEF FrameOk, Made
    <2> QED BY <2>1, <2>2
  <1> QED BY <1>1, <1>2, <1>3, WholeOk

LEMMA ReturnedOk ==
    ASSUME Typed, PlaceInv, FrameInv, NEW t \in Thread, Store(t)
    PROVE  FrameInv'
  <1> DEFINE n == Len(stack[t])
             f == stack[t][n - 1]
             child == TemplateOf(Top(t))
             g == Merged(f, child)
  <1>1. /\ n \in Nat /\ n > 1 /\ DOMAIN stack[t] = 1 .. n /\ Top(t) = stack[t][n]
        /\ f \in Frame /\ f.step = "compile"
        /\ \A u \in Thread \ {t} : stack'[u] = stack[u]
        /\ DOMAIN stack'[t] = 1 .. n - 1 /\ stack'[t][n - 1] = g
        /\ \A i \in 1 .. n - 2 : stack'[t][i] = stack[t][i]
    BY ReturnsTo
  <1>2. Still(t)
    BY StoreDoes
  <1> HIDE DEF n
  <1>3. n - 1 \in DOMAIN stack[t] /\ n \in DOMAIN stack[t] /\ n - 1 < n /\ n = (n - 1) + 1
    BY <1>1
  <1>4. FrameOk(f, t)
    BY <1>3 DEF FrameInv
  <1>5. f.next \in DOMAIN IncludesOf[f.name] /\ Top(t).name = IncludesOf[f.name][f.next]
    BY <1>1, <1>3 DEF PlaceInv, Nested
  <1>6. /\ child \in Template /\ child.name = Top(t).name /\ child.name \in File
        /\ FilesOf(child.pieces) = Reach[child.name] /\ Notes(child) /\ Timed(child)
        /\ \A piece \in child.pieces : piece \in seen[t] /\ Current(piece)
    BY StoredOk
  <1> HIDE DEF child, f
  <1>7. FrameOk(g, t)
    BY <1>1, <1>4, <1>5, <1>6, MergedOk
  <1> HIDE DEF g
  <1>8. ASSUME NEW i \in DOMAIN stack'[t] PROVE FrameOk(stack[t][i], t)'
    <2>1. CASE i = n - 1
      BY <1>1, <1>2, <1>7, <2>1, FrameOkStill
    <2>2. CASE i # n - 1
      <3>1. i \in 1 .. n - 2 /\ i \in DOMAIN stack[t]
        BY <1>1, <2>2
      <3>2. stack'[t][i] = stack[t][i] /\ FrameOk(stack[t][i], t)
        BY <1>1, <3>1 DEF FrameInv
      <3> QED BY <1>2, <3>2, FrameOkStill
    <2> QED BY <2>1, <2>2
  <1> QED BY <1>1, <1>2, <1>8, OthersOk

\* The entries kept for an include are those of the template it calls.
LEMMA KeptIs ==
    ASSUME Typed, KeptInv, NEW name \in Name, NEW chain \in Chain,
           NEW i \in Kept(Key(name, chain))
    PROVE  /\ i \in DOMAIN included /\ included[i].template \in Template
           /\ included[i].template.name = name /\ included[i].template.name \in File
           /\ KeptOk(included[i].template)
  <1> DEFINE key == Append(chain, <<name, 0>>)
             T == included[i].template
             last == <<name, 0>>
  <1>1. i \in DOMAIN included /\ included[i].key = key
    BY DEF Kept, Key
  <1>2. key[Len(key)] = last
    BY DEF Chain
  <1>3. included[i].key[Len(included[i].key)] = <<T.name, 0>> /\ KeptOk(T)
    BY <1>1 DEF KeptInv
  <1> HIDE DEF key
  <1>4. last = <<T.name, 0>>
    BY <1>1, <1>2, <1>3
  <1>5. last[1] = name /\ <<T.name, 0>>[1] = T.name
    OBVIOUS
  <1> HIDE DEF last
  <1>6. T.name = name
    BY <1>4, <1>5
  <1> QED BY <1>1, <1>3, <1>6, CachesTyped

LEMMA FramesStep ==
    ASSUME Typed, PlaceInv, AskedInv, FrameInv, KeptInv, NEW t \in Thread, ReadStep(t)
    PROVE  FrameInv'
  <1>1. /\ Reading(t) /\ Still(t) /\ \A u \in Thread \ {t} : stack'[u] = stack[u]
        /\ Top(t) \in Frame /\ FrameOk(Top(t), t)
    BY OthersStay, TopOk
  <1>2. ASSUME stack'[t] = <<>> PROVE FrameInv'
    BY <1>1, <1>2, OthersOk
  <1>3. CASE ReadText(t)
    <2>1. ASSUME NEW g \in Frame, disk[Top(t).name] # Missing, SetTop(t, g),
                 SameFrame(g, Top(t)), g.step = "stat", g.next = Top(t).next,
                 g.pieces = {<<Top(t).name, disk[Top(t).name]>>},
                 g.includes = Top(t).includes
          PROVE  FrameInv'
      <3>1. Top(t).step = "read" /\ Top(t).name \in File
        BY <1>3, ReadTextDoes
      <3>2. FrameOk(g, t)
        BY <1>1, <2>1, <3>1, ReadOk
      <3> QED BY <1>1, <2>1, <3>2, SettledOk
    <2> QED BY <1>2, <1>3, <2>1, ReadTextDoes, Failed
  <1>4. CASE Stat(t)
    <2>1. ASSUME NEW g \in Frame, disk[Top(t).name] # Missing, SetTop(t, g),
                 SameFrame(g, Top(t)), g.step = "compile", g.next = Top(t).next,
                 g.mtime = disk[Top(t).name], g.pieces = Top(t).pieces,
                 g.includes = Top(t).includes
          PROVE  FrameInv'
      <3>1. Top(t).step = "stat" /\ Top(t).name \in File
        BY <1>4, StatDoes
      <3>2. FrameOk(g, t)
        BY <1>1, <2>1, <3>1, StattedOk
      <3> QED BY <1>1, <2>1, <3>2, SettledOk
    <2> QED BY <1>2, <1>4, <2>1, StatDoes, Failed
  <1>5. CASE Include(t)
    <2>0. /\ Top(t).step = "compile" /\ Top(t).next \in DOMAIN IncludesOf[Top(t).name]
          /\ Called(t) \in File /\ Called(t) \in Name /\ Through(t) \in Chain
      BY <1>1, <1>5, IncludeDoes, CalledIs
    <2>1. ASSUME NEW i \in Kept(Key(Called(t), Through(t))), ~Changed(included[i].template),
                 SetTop(t, Merged(Top(t), included[i].template))
          PROVE  FrameInv'
      <3> DEFINE child == included[i].template
                 g == Merged(Top(t), child)
      <3>1. /\ child \in Template /\ child.name = Called(t) /\ child.name \in File
            /\ KeptOk(child)
        BY <2>0, KeptIs
      <3>2. FilesOf(child.pieces) = Reach[child.name] /\ Notes(child) /\ Timed(child)
        BY <3>1 DEF KeptOk
      <3>3. Now \subseteq seen[t] /\ EveryVersion(torn) \subseteq seen[t]
        BY <1>1 DEF AskedInv
      <3>4. \A piece \in child.pieces : piece \in seen[t] /\ Current(piece)
        BY <2>1, <3>1, <3>3, UnchangedIsSeen
      <3> HIDE DEF child
      <3>5. child.name = IncludesOf[Top(t).name][Top(t).next]
        BY <3>1 DEF Called
      <3>6. FrameOk(g, t)
        BY <1>1, <2>0, <3>1, <3>2, <3>4, <3>5, MergedOk
      <3>7. g \in Frame
        BY <1>1, <3>1, MergedFrame
      <3> QED BY <1>1, <2>1, <3>6, <3>7, SettledOk DEF child
    <2>2. ASSUME NEW g \in Frame, Stacks(t, Append(stack[t], g)), g.name = Called(t),
                 g.next = 1, g.pieces = {}, g.includes = {}, g.step = "read"
          PROVE  FrameInv'
      <3>1. FrameOk(g, t)
        BY <2>0, <2>2, NewOk
      <3> QED BY <1>1, <2>2, <3>1, PushedOk
    <2> QED BY <1>2, <1>5, <2>1, <2>2, IncludeDoes, Failed
  <1>6. CASE Load(t)
    <2>1. TemplateOf(Top(t)) \in Template
      BY <1>1, TemplateIs
    <2> QED BY <1>2, <1>6, <2>1, LoadDoes, Ended DEF Outcomes
  <1>7. ASSUME Top(t).step \in {"compile", "evict"},
               Top(t).next = Len(IncludesOf[Top(t).name]) + 1,
               NEW g \in Frame, SetTop(t, g), SameFrame(g, Top(t)), g.next = Top(t).next,
               g.step \in {"evict", "store"}, g.mtime = Top(t).mtime,
               g.pieces = Top(t).pieces, g.includes = Top(t).includes
        PROVE  FrameInv'
    <2>1. FrameOk(g, t)
      BY <1>1, <1>7, SteppedOk
    <2> QED BY <1>1, <1>7, <2>1, SettledOk
  <1>8. CASE ChooseVictim(t)
    <2>1. Top(t).step = "compile" /\ Top(t).next \notin DOMAIN IncludesOf[Top(t).name]
      BY <1>8, ChooseVictimDoes DEF Compiled
    <2>2. Top(t).next = Len(IncludesOf[Top(t).name]) + 1
      BY <1>1, <2>1, FrameParts DEF FrameOk, Made
    <2> QED BY <1>7, <1>8, <2>1, <2>2, ChooseVictimDoes
  <1>9. CASE Evict(t)
    <2>1. Top(t).step = "evict"
      BY <1>9, EvictDoes
    <2>2. Top(t).next = Len(IncludesOf[Top(t).name]) + 1
      BY <1>1, <2>1 DEF FrameOk, Made
    <2> QED BY <1>2, <1>7, <1>9, <2>1, <2>2, EvictDoes, Failed
  <1>10. CASE Store(t)
    BY <1>10, ReturnedOk
  <1> QED BY <1>3, <1>4, <1>5, <1>6, <1>8, <1>9, <1>10 DEF ReadStep

LEMMA KeptStays ==
    ASSUME Typed, KeptInv, NEW t \in Thread, Still(t), loaded' = loaded, included' = included
    PROVE  KeptInv'
  BY KeptOkStill DEF KeptInv

LEMMA KeptStep ==
    ASSUME Typed, FrameInv, KeptInv, NEW t \in Thread, ReadStep(t)
    PROVE  KeptInv'
  <1>1. Reading(t) /\ Still(t)
    BY OthersStay
  <1>3. CASE UNCHANGED <<loaded, included>>
    BY <1>1, <1>3, KeptStays
  <1>4. CASE Load(t)
    <2> DEFINE T == TemplateOf(Top(t))
               name == Top(t).name
    <2>1. /\ Compiled(t) /\ loaded' = [loaded EXCEPT ![name] = T] /\ included' = included
      BY <1>4, LoadDoes
    <2>2. Top(t) \in Frame /\ FrameOk(Top(t), t) /\ name \in Name
      BY <1>1, TopOk, TopKind
    <2>3. T.name = name
      BY <2>2, TemplateIs
    <2>4. KeptOk(T)
      <3>1. CASE name \in File
        BY <2>1, <2>2, <3>1, WholeOk DEF Compiled
      <3>2. CASE name \notin File
        BY <2>3, <3>2 DEF KeptOk
      <3> QED BY <3>1, <3>2
    <2> HIDE DEF T, name
    <2>5. ASSUME NEW n \in Name, loaded'[n] # NoTemplate
          PROVE  loaded'[n].name = n /\ KeptOk(loaded[n])'
      <3>1. CASE n = name
        <4>1. loaded'[n] = T
          BY <2>1, <2>2, <3>1 DEF Typed, TypeInv
        <4> QED BY <1>1, <2>3, <2>4, <3>1, <4>1, KeptOkStill
      <3>2. CASE n # name
        <4>1. loaded'[n] = loaded[n]
          BY <2>1, <2>2, <3>2 DEF Typed, TypeInv
        <4>2. loaded[n].name = n /\ KeptOk(loaded[n])
          BY <2>5, <4>1 DEF KeptInv
        <4> QED BY <1>1, <4>1, <4>2, KeptOkStill
      <3> QED BY <3>1, <3>2
    <2>6. ASSUME NEW i \in DOMAIN included'
          PROVE  LET entry == included'[i]
                 IN /\ entry.key # <<>>
                    /\ entry.key[Len(entry.key)] = <<entry.template.name, 0>>
                    /\ KeptOk(included[i].template)'
      <3>1. included'[i] = included[i] /\ i \in DOMAIN included
        BY <2>1
      <3> QED BY <1>1, <3>1, KeptOkStill DEF KeptInv
    <2> QED BY <2>5, <2>6 DEF KeptInv
  <1> DEFINE EntryOk(entry) == /\ entry.key # <<>>
                               /\ entry.key[Len(entry.key)] = <<entry.template.name, 0>>
                               /\ KeptOk(entry.template)
  <1>5. \A i \in DOMAIN included : EntryOk(included[i])
    BY DEF KeptInv
  <1>6. ASSUME \A i \in DOMAIN included' : \E e \in Entry : included'[i] = e /\ EntryOk(e),
               loaded' = loaded
        PROVE  KeptInv'
    <2>1. ASSUME NEW i \in DOMAIN included'
          PROVE  LET entry == included'[i]
                 IN /\ entry.key # <<>>
                    /\ entry.key[Len(entry.key)] = <<entry.template.name, 0>>
                    /\ KeptOk(included[i].template)'
      <3>1. PICK e \in Entry : included'[i] = e /\ EntryOk(e)
        BY <1>6
      <3> QED BY <1>1, <3>1, KeptOkStill
    <2>2. ASSUME NEW n \in Name, loaded'[n] # NoTemplate
          PROVE  loaded'[n].name = n /\ KeptOk(loaded[n])'
      <3>1. loaded'[n] = loaded[n] /\ loaded[n].name = n /\ KeptOk(loaded[n])
        BY <1>6, <2>2 DEF KeptInv
      <3> QED BY <1>1, <3>1, KeptOkStill
    <2> QED BY <2>1, <2>2 DEF KeptInv
  <1>7. CASE Evict(t)
    <2>1. loaded' = loaded
      BY <1>7, EvictDoes
    <2>2. ASSUME NEW i \in Kept(Top(t).victim),
                 included' = SubSeq(included, 1, i - 1) \o SubSeq(included, i + 1, Len(included))
          PROVE  KeptInv'
      <3>1. \A j \in DOMAIN included' : \E k \in DOMAIN included : included'[j] = included[k]
        BY <2>2, CachesTyped, Deleted DEF Kept
      <3> HIDE DEF EntryOk
      <3>2. \A j \in DOMAIN included' : \E e \in Entry : included'[j] = e /\ EntryOk(e)
        BY <1>5, <3>1, CachesTyped
      <3> QED BY <1>6, <2>1, <3>2
    <2> QED BY <1>3, <1>7, <2>1, <2>2, EvictDoes
  <1>8. CASE Store(t)
    <2>1. loaded' = loaded /\ Reading(t) /\ Len(stack[t]) > 1
      BY <1>8, StoreDoes
    <2>2. /\ Stored(t) \in Entry /\ Stored(t).template = TemplateOf(Top(t))
          /\ Stored(t).key = Append(Top(t).chain, <<Top(t).name, 0>>)
          /\ TemplateOf(Top(t)).name = Top(t).name
      BY <2>1, StoredIs
    <2>3. EntryOk(Stored(t))
      <3>1. Top(t).chain \in Chain /\ Top(t).name \in Name
        BY <2>1, TopKind DEF Frame
      <3> DEFINE key == Append(Top(t).chain, <<Top(t).name, 0>>)
      <3>2. key # <<>> /\ key[Len(key)] = <<Top(t).name, 0>>
        BY <3>1 DEF Chain
      <3> HIDE DEF key
      <3>3. KeptOk(TemplateOf(Top(t)))
        BY <1>8, StoredOk
      <3> QED BY <2>2, <3>2, <3>3 DEF key
    <2>4. \A j \in DOMAIN included' :
              included'[j] = Stored(t) \/ (j \in DOMAIN included /\ included'[j] = included[j])
      <3>1. \/ included' = Append(included, Stored(t))
            \/ \E i \in DOMAIN included : included' = [included EXCEPT ![i] = Stored(t)]
        BY <1>8, StoreDoes DEF Kept
      <3> QED BY <2>2, <3>1, Put
    <2> HIDE DEF EntryOk
    <2>5. \A j \in DOMAIN included' : \E e \in Entry : included'[j] = e /\ EntryOk(e)
      BY <1>5, <2>2, <2>3, <2>4, CachesTyped
    <2> QED BY <1>6, <2>1, <2>5
  <1> QED BY <1>3, <1>4, <1>7, <1>8, ReadTextDoes, StatDoes, IncludeDoes, ChooseVictimDoes
          DEF ReadStep

------------------------------------------------------------------------------
(* Files that change.                                                       *)

LEMMA DiskAfter ==
    ASSUME Typed, NEW f \in File, NEW removed \in BOOLEAN, Change(f, removed)
    PROVE  /\ UNCHANGED <<auto_reload, loaded, included, stack, answer>>
           /\ \A g \in File : g # f => disk'[g] = disk[g]
           /\ disk'[f] \notin 1 .. writes /\ 1 .. writes \subseteq 1 .. writes'
           /\ \A t \in Thread : seen[t] \subseteq seen'[t]
           /\ \A t \in Thread : ~Reading(t) => seen'[t] = seen[t]
           /\ torn \ {f} \subseteq torn'
           /\ \A t \in Thread : Reading(t) => torn' = torn \cup {f}
  <1>1. /\ UNCHANGED <<auto_reload, loaded, included, stack, answer>>
        /\ disk' = [disk EXCEPT ![f] = IF removed THEN Missing ELSE writes + 1]
        /\ writes' = writes + 1
        /\ seen' = [t \in Thread |->
                       IF Reading(t) THEN seen[t] \cup {<<f, disk'[f]>>} \cup EveryVersion({f})
                       ELSE seen[t]]
        /\ torn' = IF \E t \in Thread : Reading(t) THEN torn \cup {f} ELSE torn \ {f}
    BY DEF Change
  <1>2. writes \in Nat
    BY BoundsAssumption DEF Typed, TypeInv, Version
  <1>3. disk'[f] \in {Missing, writes + 1} /\ \A g \in File : g # f => disk'[g] = disk[g]
    BY <1>1 DEF Typed, TypeInv
  <1>4. disk'[f] \notin 1 .. writes /\ 1 .. writes \subseteq 1 .. writes'
    BY <1>1, <1>2, <1>3 DEF Missing
  <1> QED BY <1>1, <1>3, <1>4

\* A template whose files are noted is seen to have changed when one does, and
\* it stays so.
LEMMA ChangedAfter ==
    ASSUME Typed, NEW f \in File, NEW removed \in BOOLEAN, Change(f, removed),
           NEW T \in Template, T.name \in File, Notes(T), Timed(T),
           Changed(T) \/ f = T.name \/ f \in FilesOf(T.includes)
    PROVE  Changed(T)'
  <1>1. /\ \A g \in File : g # f => disk'[g] = disk[g]
        /\ disk'[f] \notin 1 .. writes
    BY DiskAfter
  <1>2. T.mtime \in 1 .. writes /\ \A file \in T.includes : file[2] \in 1 .. writes
    BY DEF Notes, Timed
  <1>3. CASE f = T.name
    BY <1>1, <1>2, <1>3 DEF Changed, ChangedItself
  <1>4. CASE f \in FilesOf(T.includes)
    <2>1. PICK file \in T.includes : file[1] = f
      BY <1>4 DEF FilesOf
    <2>2. disk'[file[1]] # file[2]
      BY <1>1, <1>2, <2>1
    <2> QED BY <2>2 DEF Changed
  <1>5. CASE ChangedItself(T) /\ f # T.name
    BY <1>1, <1>5 DEF Changed, ChangedItself
  <1>6. ASSUME NEW file \in T.includes, disk[file[1]] # file[2], file[1] # f
        PROVE  Changed(T)'
    <2>1. file[1] \in File
      BY TemplateParts
    <2>2. disk'[file[1]] # file[2]
      BY <1>1, <1>6, <2>1
    <2> QED BY <2>2 DEF Changed
  <1>7. ASSUME NEW file \in T.includes, file[1] = f PROVE f \in FilesOf(T.includes)
    BY <1>7 DEF FilesOf
  <1> QED BY <1>3, <1>4, <1>5, <1>6, <1>7 DEF Changed

LEMMA CurrentAfter ==
    ASSUME Typed, NEW f \in File, NEW removed \in BOOLEAN, Change(f, removed),
           NEW piece \in File \X Version, Current(piece), piece[1] # f
    PROVE  Current(piece)'
  BY DiskAfter DEF Current

LEMMA FrameAfter ==
    ASSUME Typed, NEW f \in File, NEW removed \in BOOLEAN, Change(f, removed),
           NEW t \in Thread, Reading(t), NEW frame \in Frame, FrameOk(frame, t)
    PROVE  FrameOk(frame, t)'
  <1>1. /\ 1 .. writes \subseteq 1 .. writes' /\ seen[t] \subseteq seen'[t]
        /\ torn' = torn \cup {f}
    BY DiskAfter
  <1>2. Notes(frame)' /\ (Timed(frame) => Timed(frame)')
    BY <1>1 DEF FrameOk, Notes, Timed
  <1>3. ASSUME NEW piece \in frame.pieces PROVE piece \in seen'[t] /\ Current(piece)'
    <2>1. piece \in seen[t] /\ Current(piece) /\ piece \in File \X Version
      BY FrameParts DEF FrameOk
    <2>2. CASE piece[1] = f
      BY <1>1, <2>1, <2>2 DEF Current
    <2> QED BY <1>1, <2>1, <2>2, CurrentAfter
  <1> QED BY <1>2, <1>3 DEF FrameOk

LEMMA KeptAfter ==
    ASSUME Typed, NEW f \in File, NEW removed \in BOOLEAN, Change(f, removed),
           NEW T \in Template, KeptOk(T)
    PROVE  KeptOk(T)'
  <1> SUFFICES ASSUME T.name \in File PROVE KeptOk(T)'
    BY DEF KeptOk
  <1>1. /\ FilesOf(T.pieces) = Reach[T.name] /\ Notes(T) /\ Timed(T)
        /\ \A piece \in T.pieces : piece[2] # Missing /\ (Current(piece) \/ Changed(T))
    BY DEF KeptOk
  <1>2. Notes(T)' /\ Timed(T)'
    BY <1>1, DiskAfter DEF Notes, Timed
  <1>3. ASSUME NEW piece \in T.pieces PROVE Current(piece)' \/ Changed(T)'
    <2>1. piece \in File \X Version
      BY TemplateParts
    <2>2. CASE piece[1] = f
      <3>1. f \in FilesOf(T.pieces)
        BY <2>2 DEF FilesOf
      <3>2. f \in FilesOf(T.includes) \/ f = T.name
        BY <1>1, <3>1 DEF Notes
      <3> QED BY <1>1, <3>2, ChangedAfter
    <2>3. CASE piece[1] # f
      BY <1>1, <2>1, <2>3, CurrentAfter, ChangedAfter
    <2> QED BY <2>2, <2>3
  <1> QED BY <1>1, <1>2, <1>3 DEF KeptOk

LEMMA MadeAfter ==
    ASSUME Typed, FrameInv, KeptInv, NEW f \in File, NEW removed \in BOOLEAN,
           Change(f, removed)
    PROVE  FrameInv' /\ KeptInv'
  <1>1. stack' = stack /\ loaded' = loaded /\ included' = included
    BY DiskAfter
  <1>2. ASSUME NEW t \in Thread, NEW i \in DOMAIN stack[t] PROVE FrameOk(stack[t][i], t)'
    <2>1. Reading(t) /\ stack[t][i] \in Frame /\ FrameOk(stack[t][i], t)
      BY FramesAre DEF FrameInv, Typed, TypeInv, Reading
    <2> QED BY <1>1, <2>1, FrameAfter
  <1>3. ASSUME NEW n \in Name, loaded[n] # NoTemplate
        PROVE  loaded[n].name = n /\ KeptOk(loaded[n])'
    <2>1. loaded[n] \in Template /\ loaded[n].name = n /\ KeptOk(loaded[n])
      BY <1>3 DEF KeptInv, Typed, TypeInv
    <2> QED BY <1>1, <2>1, KeptAfter
  <1>4. ASSUME NEW i \in DOMAIN included PROVE KeptOk(included[i].template)'
    <2>1. included[i].template \in Template /\ KeptOk(included[i].template)
      BY CachesTyped DEF KeptInv
    <2> QED BY <1>1, <2>1, KeptAfter
  <1> QED BY <1>1, <1>2, <1>3, <1>4 DEF FrameInv, KeptInv

LEMMA MadeNext ==
    Typed /\ PlaceInv /\ AskedInv /\ FrameInv /\ KeptInv /\ [Next]_vars
        => FrameInv' /\ KeptInv'
  <1> SUFFICES ASSUME Typed, PlaceInv, AskedInv, FrameInv, KeptInv, [Next]_vars
               PROVE  FrameInv' /\ KeptInv'
    OBVIOUS
  <1>1. CASE UNCHANGED vars
    <2>1. UNCHANGED <<stack, loaded, included, seen, disk, torn, writes>>
      BY <1>1 DEF vars
    <2>2. FrameInv'
      BY <2>1 DEF FrameInv, FrameOk, Notes, Timed, Current
    <2>3. KeptInv'
      BY <2>1 DEF KeptInv, KeptOk, Notes, Timed, Current, Changed, ChangedItself
    <2> QED BY <2>2, <2>3
  <1>2. ASSUME NEW t \in Thread, ReadStep(t) PROVE FrameInv' /\ KeptInv'
    BY <1>2, FramesStep, KeptStep
  <1>3. ASSUME NEW t \in Thread, NEW name \in Name, Get(t, name)
        PROVE  FrameInv' /\ KeptInv'
    <2>1. /\ seen' = [seen EXCEPT ![t] = Now \cup EveryVersion(torn)]
          /\ UNCHANGED <<loaded, included, auto_reload, disk, writes, torn>> /\ ~Reading(t)
      BY <1>3, GetDoes DEF EngineUnchanged
    <2>2. KeptInv'
      BY <2>1 DEF KeptInv, KeptOk, Notes, Timed, Current, Changed, ChangedItself
    <2>3. \A u \in Thread \ {t} : seen'[u] = seen[u] /\ stack'[u] = stack[u]
      BY <1>3, <2>1, Started DEF Typed, TypeInv
    <2>4. ASSUME NEW u \in Thread \ {t}, NEW i \in DOMAIN stack'[u]
          PROVE  FrameOk(stack[u][i], u)'
      <3>1. FrameOk(stack[u][i], u) /\ stack'[u][i] = stack[u][i]
        BY <2>3 DEF FrameInv
      <3> QED BY <2>1, <2>3, <3>1 DEF FrameOk, Notes, Timed, Current
    <2>5. ASSUME NEW i \in DOMAIN stack'[t] PROVE FrameOk(stack[t][i], t)'
      <3>1. CASE stack' = stack
        BY <2>1, <3>1 DEF Reading
      <3>2. ASSUME NEW f \in Frame, Stacks(t, <<f>>), f.name = name, f.next = 1,
                   f.pieces = {}, f.includes = {},
                   f.step = IF name \in File THEN "read" ELSE "compile"
            PROVE  FrameOk(stack[t][i], t)'
        <4>1. <<f>> \in Seq(Frame) /\ DOMAIN <<f>> = {1} /\ <<f>>[1] = f
          OBVIOUS
        <4>2. stack'[t][i] = f
          BY <3>2, <4>1, StacksAre DEF Typed, TypeInv
        <4>3. Made(f)
          BY <3>2, NewOk DEF FrameOk
        <4>4. FrameOk(f, t)'
          BY <3>2, <4>3 DEF FrameOk, Notes, Timed, FilesOf
        <4> QED BY <4>2, <4>4
      <3> QED BY <1>3, <3>1, <3>2, GetDoes
    <2>6. FrameInv'
      BY <2>4, <2>5 DEF FrameInv
    <2> QED BY <2>2, <2>6
  <1>4. ASSUME NEW f \in File, NEW removed \in BOOLEAN, Change(f, removed)
        PROVE  FrameInv' /\ KeptInv'
    BY <1>4, MadeAfter
  <1> QED BY <1>1, <1>2, <1>3, <1>4 DEF Next

\* What a call that is over hands out.
Given(t) ==
    LET given == answer[t].template
    IN (auto_reload /\ ~Reading(t) /\ given # NoTemplate /\ answer[t].asked \in File)
        => /\ FilesOf(given.pieces) = Reach[answer[t].asked]
           /\ given.pieces \subseteq seen[t]

LEMMA GivenStays ==
    ASSUME NEW t \in Thread, Given(t), answer'[t] = answer[t], stack'[t] = stack[t],
           ~Reading(t) => seen'[t] = seen[t], auto_reload' = auto_reload
    PROVE  Given(t)'
  BY DEF Given, Reading

LEMMA GivenStep ==
    ASSUME Typed, AskedInv, FrameInv, NEW t \in Thread, ReadStep(t)
    PROVE  Given(t)'
  <1>1. Reading(t) /\ Still(t) /\ seen' = seen
    BY OthersStay DEF Still
  <1>2. CASE stack'[t] # <<>>
    BY <1>2 DEF Given, Reading
  <1>3. ASSUME answer'[t].template = NoTemplate PROVE Given(t)'
    BY <1>3 DEF Given
  <1>4. ASSUME NEW g \in Frame, SetTop(t, g) PROVE stack'[t] # <<>>
    BY <1>1, <1>4, TopSettled DEF Reading
  <1>5. CASE ReadText(t)
    BY <1>2, <1>3, <1>4, <1>5, ReadTextDoes, Failed
  <1>6. CASE Stat(t)
    BY <1>2, <1>3, <1>4, <1>6, StatDoes, Failed
  <1>7. CASE Include(t)
    <2>1. ASSUME NEW i \in Kept(Key(Called(t), Through(t))),
                 SetTop(t, Merged(Top(t), included[i].template))
          PROVE  stack'[t] # <<>>
      <3>1. Merged(Top(t), included[i].template) \in Frame
        BY <1>1, TopKind, CachesTyped, MergedFrame DEF Kept
      <3> QED BY <2>1, <3>1, <1>4
    <2>2. ASSUME NEW g \in Frame, Stacks(t, Append(stack[t], g)) PROVE stack'[t] # <<>>
      BY <2>2, TopPushed DEF Reading
    <2> QED BY <1>2, <1>3, <1>7, <2>1, <2>2, IncludeDoes, Failed
  <1>8. CASE Load(t)
    <2> DEFINE T == TemplateOf(Top(t))
    <2>1. Compiled(t) /\ Len(stack[t]) = 1 /\ Ends(t, "template", T)
      BY <1>8, LoadDoes
    <2>2. Top(t) \in Frame /\ FrameOk(Top(t), t) /\ Top(t) = stack[t][1]
      BY <1>1, <2>1, TopOk, TopIs DEF Typed, TypeInv
    <2>3. T \in Template
      BY <2>2, TemplateIs
    <2>4. answer'[t].asked = Top(t).name /\ answer'[t].template = T
      BY <1>1, <2>1, <2>2, <2>3, Ended DEF Outcomes, AskedInv
    <2>5. Top(t).name \in File =>
              FilesOf(T.pieces) = Reach[Top(t).name] /\ T.pieces \subseteq seen[t]
      BY <2>1, <2>2, WholeOk DEF Compiled
    <2> HIDE DEF T
    <2> QED BY <1>1, <2>4, <2>5 DEF Given
  <1>9. CASE ChooseVictim(t)
    BY <1>2, <1>4, <1>9, ChooseVictimDoes
  <1>10. CASE Evict(t)
    BY <1>2, <1>3, <1>4, <1>10, EvictDoes, Failed
  <1>11. CASE Store(t)
    BY <1>2, <1>11, TopReturned DEF Reading
  <1> QED BY <1>5, <1>6, <1>7, <1>8, <1>9, <1>10, <1>11 DEF ReadStep

\* A template that is kept, and did not change, is handed out as it is on disk.
LEMMA GivenAtOnce ==
    ASSUME Typed, KeptInv, NEW t \in Thread, NEW name \in Name, Get(t, name)
    PROVE  Given(t)'
  <1>1. /\ seen' = [seen EXCEPT ![t] = Now \cup EveryVersion(torn)]
        /\ auto_reload' = auto_reload
    BY GetDoes DEF EngineUnchanged
  <1>2. seen'[t] = Now \cup EveryVersion(torn)
    BY <1>1 DEF Typed, TypeInv
  <1>3. ASSUME NEW outcome, NEW template, Answers(t, name, outcome, template)
        PROVE  answer'[t].asked = name /\ answer'[t].template = template
    <2> DEFINE a == [asked |-> name, outcome |-> outcome, template |-> template]
    <2>1. answer' = [answer EXCEPT ![t] = a] /\ a.asked = name /\ a.template = template
      BY <1>3 DEF Answers
    <2> HIDE DEF a
    <2> QED BY <2>1 DEF Typed, TypeInv
  <1>4. CASE answer'[t].template = NoTemplate
    BY <1>4 DEF Given
  <1>5. CASE /\ loaded[name] # NoTemplate
             /\ ~(name \in File /\ auto_reload /\ Changed(loaded[name]))
             /\ Answers(t, name, "template", loaded[name])
    <2> DEFINE T == loaded[name]
    <2>1. T \in Template /\ T.name = name /\ KeptOk(T)
      BY <1>5 DEF KeptInv, Typed, TypeInv
    <2>2. answer'[t].asked = name /\ answer'[t].template = T
      BY <1>3, <1>5
    <2>3. name \in File /\ auto_reload =>
              FilesOf(T.pieces) = Reach[name] /\ T.pieces \subseteq seen'[t]
      <3>1. ASSUME name \in File, auto_reload
            PROVE  FilesOf(T.pieces) = Reach[name] /\ T.pieces \subseteq seen'[t]
        <4>1. ~Changed(T)
          BY <1>5, <3>1
        <4> HIDE DEF T
        <4>2. \A piece \in T.pieces : piece \in seen'[t]
          BY <1>2, <2>1, <3>1, <4>1, UnchangedIsSeen
        <4> QED BY <2>1, <3>1, <4>2 DEF KeptOk
      <3> QED BY <3>1
    <2> HIDE DEF T
    <2> QED BY <1>1, <2>2, <2>3 DEF Given
  <1> QED BY <1>3, <1>4, <1>5, GetDoes

LEMMA GivenNext ==
    Typed /\ AskedInv /\ FrameInv /\ KeptInv /\ FreshTemplates /\ [Next]_vars
        => FreshTemplates'
  <1> SUFFICES ASSUME Typed, AskedInv, FrameInv, KeptInv, [Next]_vars,
                      \A t \in Thread : Given(t)
               PROVE  \A t \in Thread : Given(t)'
    BY DEF FreshTemplates, Given, FilesOf
  <1>1. CASE UNCHANGED vars
    BY <1>1, GivenStays DEF vars
  <1>2. ASSUME NEW t \in Thread, ReadStep(t) PROVE \A u \in Thread : Given(u)'
    <2>1. \A u \in Thread \ {t} : answer'[u] = answer[u] /\ stack'[u] = stack[u]
      BY <1>2, OthersStay
    <2>2. seen' = seen /\ auto_reload' = auto_reload
      BY <1>2, OthersStay DEF Still, EngineUnchanged
    <2> QED BY <1>2, <2>1, <2>2, GivenStays, GivenStep
  <1>3. ASSUME NEW t \in Thread, NEW n \in Name, Get(t, n) PROVE \A u \in Thread : Given(u)'
    <2>1. /\ seen' = [seen EXCEPT ![t] = Now \cup EveryVersion(torn)]
          /\ auto_reload' = auto_reload
      BY <1>3, GetDoes DEF EngineUnchanged
    <2>2. \A u \in Thread \ {t} : seen'[u] = seen[u]
      BY <2>1 DEF Typed, TypeInv
    <2> QED BY <1>3, <2>1, <2>2, Started, GivenStays, GivenAtOnce
  <1>4. ASSUME NEW f \in File, NEW removed \in BOOLEAN, Change(f, removed)
        PROVE  \A u \in Thread : Given(u)'
    BY <1>4, DiskAfter, GivenStays
  <1> QED BY <1>1, <1>2, <1>3, <1>4 DEF Next

\* With auto_reload a call hands out the whole of its file and of those it
\* includes, each as it was on disk during the call: a template that is kept is
\* as on disk, or noted to have changed, whatever changes meanwhile and in
\* whatever order threads read and store (MacroEngine.get, _changed,
\* MacroTemplate._include).
THEOREM TemplatesAreFresh == Spec => []FreshTemplates
  <1>1. Init => PlaceInv
    BY PlacesEmpty DEF Init, PlaceInv, Nested, Chained, Distinct
  <1>2. Init => AskedInv /\ FrameInv /\ KeptInv
    BY DEF Init, AskedInv, FrameInv, KeptInv, Reading
  <1>3. Init => FreshTemplates
    <2>1. NoAnswer.template = NoTemplate
      BY DEF NoAnswer
    <2> QED BY <2>1 DEF Init, FreshTemplates
  <1> QED BY <1>1, <1>2, <1>3, TypedAlways, PlacesNext, AskedNext, MadeNext, GivenNext, PTL
          DEF Spec

================================================================================
