--------------------------- MODULE SavepointsProofs ---------------------------
(***************************************************************************)
(* Proofs about the savepoints of Blocks, on the connection of a            *)
(* transaction: who holds each, and in which order they were taken          *)
(* (OrderInv).  They rest on DataInv, and on the lemmas about the operators *)
(* of SQLAlchemy that it rests on.                                          *)
(***************************************************************************)
EXTENDS BlocksProofs

(***************************************************************************)
(* The tags of a stack rise from its root: a savepoint ranks as the level   *)
(* of the block, or of the session, that took it.                           *)
(***************************************************************************)
Rank(t) == t[2]
Tags(w, c) == {w.stack[c][i].tag : i \in 1 .. Len(w.stack[c])}
Rising(w, c) ==
    \A i, j \in 1 .. Len(w.stack[c]) : i < j => Rank(w.stack[c][i].tag) < Rank(w.stack[c][j].tag)

\* What a session knows of the begin_nested() of block d: that it was entered, and
\* that it is still there.
Entered(x, d) == \E i \in 1 .. Len(x.nested) : x.nested[i].of = d
LiveAt(x, d) == \E i \in 1 .. Len(x.nested) : x.nested[i].of = d /\ x.nested[i].live
Climbs(x) == \A i, j \in 1 .. Len(x.nested) : i < j => x.nested[i].of < x.nested[j].of

\* Session y is session x, told that the objects named in E have ended.
Told(x, y, E) ==
    /\ y.mode = x.mode /\ y.conn = x.conn /\ y.stuck = x.stuck /\ y.commits = x.commits
    /\ y.pending = x.pending
    /\ y.join = IF x.join \in E THEN Gone ELSE x.join
    /\ Len(y.nested) = Len(x.nested)
    /\ \A i \in 1 .. Len(x.nested) :
          /\ y.nested[i].of = x.nested[i].of
          /\ y.nested[i].live <=> (x.nested[i].live /\ BlockTag(x.nested[i].of) \notin E)

\* From v to w nothing changed but connection k, its sessions and its handles.
Only(v, w, k) ==
    /\ \A c \in Level \ {k} : w.stack[c] = v.stack[c]
    /\ \A s \in Level : /\ w.session[s].conn = v.session[s].conn
                        /\ v.session[s].conn # k => w.session[s] = v.session[s]
    /\ \A d \in Level : /\ w.handle[d].conn = v.handle[d].conn
                        /\ v.handle[d].conn # k => w.handle[d] = v.handle[d]

\* From v to w connection c lost its layers from rank r on, and those on it were told
\* that the objects named in E have ended.
Cuts(v, w, c, r, E) ==
    /\ Only(v, w, c)
    /\ Rising(w, c) /\ Tags(w, c) = {t \in Tags(v, c) : Rank(t) < r}
    /\ \A s \in Level : v.session[s].conn = c => Told(v.session[s], w.session[s], E)
    /\ \A d \in Level : v.handle[d].conn = c =>
            w.handle[d].tag = IF v.handle[d].tag \in E THEN Gone ELSE v.handle[d].tag

------------------------------------------------------------------------------
\* Tags tell apart what they name, and rank it.
LEMMA TagsApart ==
    /\ \A d, e : BlockTag(d) = BlockTag(e) => d = e
    /\ \A d, e : BlockTag(d) # SessionTag(e)
    /\ \A d : BlockTag(d) \notin {Root, NoTag, Gone} /\ SessionTag(d) \notin {Root, NoTag, Gone}
    /\ Root # NoTag /\ Root # Gone /\ NoTag # Gone
    /\ Rank(Root) = 0 /\ \A d : Rank(BlockTag(d)) = d /\ Rank(SessionTag(d)) = d
    /\ \A t \in LiveTag : t \notin {NoTag, Gone} /\ Rank(t) \in 0 .. MaxDepth
    /\ Root \in LiveTag /\ \A d \in Level : BlockTag(d) \in LiveTag /\ SessionTag(d) \in LiveTag
<1>1. /\ \A d, e : BlockTag(d) = BlockTag(e) => d = e
      /\ \A d, e : BlockTag(d) # SessionTag(e)
      /\ \A d : BlockTag(d) \notin {Root, NoTag, Gone} /\ SessionTag(d) \notin {Root, NoTag, Gone}
      /\ Root # NoTag /\ Root # Gone /\ NoTag # Gone
  BY DEF BlockTag, SessionTag, Root, NoTag, Gone
<1>2. Rank(Root) = 0 /\ \A d : Rank(BlockTag(d)) = d /\ Rank(SessionTag(d)) = d
  BY DEF Rank, Root, BlockTag, SessionTag
<1>3. Root \in LiveTag /\ \A d \in Level : BlockTag(d) \in LiveTag /\ SessionTag(d) \in LiveTag
  BY DEF LiveTag
<1>4. ASSUME NEW t \in LiveTag PROVE t \notin {NoTag, Gone} /\ Rank(t) \in 0 .. MaxDepth
  <2>1. t = Root \/ \E d \in Level : t = BlockTag(d) \/ t = SessionTag(d)
    BY DEF LiveTag
  <2>. QED
    BY <1>1, <1>2, <2>1, MaxDepthAssumption DEF Level
<1>. QED
  BY <1>1, <1>2, <1>3, <1>4

\* A tag on the stack, and a stack of no layer.
LEMMA TagsAre ==
    ASSUME NEW w \in World, NEW c \in Level
    PROVE  /\ \A t : HasTag(w, c, t) <=> t \in Tags(w, c)
           /\ Tags(w, c) \subseteq LiveTag
           /\ w.stack[c] = <<>> <=> Tags(w, c) = {}
           /\ w.stack[c] # <<>> => Root \in Tags(w, c)
<1>. DEFINE st == w.stack[c]
<1>1. st \in Stack
  BY WorldFields
<1>2. /\ Len(st) \in Nat /\ DOMAIN st = 1 .. Len(st)
      /\ \A i \in 1 .. Len(st) : st[i] \in Layer
      /\ st # <<>> => Len(st) > 0 /\ st[1].tag = Root
      /\ st = <<>> => Len(st) = 0
  BY <1>1 DEF Stack
<1>. HIDE DEF st
<1>3. \A i \in 1 .. Len(st) : st[i].tag \in LiveTag
  BY <1>2 DEF Layer
<1>5. \A t : HasTag(w, c, t) <=> \E i \in DOMAIN st : st[i].tag = t
  BY DEF HasTag, st
<1>6. Tags(w, c) = {st[i].tag : i \in 1 .. Len(st)}
  BY DEF Tags, st
<1>7. \A t : HasTag(w, c, t) <=> t \in Tags(w, c)
  BY <1>2, <1>5, <1>6
<1>8. Tags(w, c) \subseteq LiveTag
  BY <1>3, <1>6
<1>9. /\ st = <<>> <=> Tags(w, c) = {}
      /\ st # <<>> => Root \in Tags(w, c)
  <2>1. CASE st = <<>>
    <3>1. 1 .. Len(st) = {}
      BY <1>2, <2>1
    <3>. QED
      BY <1>6, <2>1, <3>1
  <2>2. CASE st # <<>>
    <3>1. 1 \in 1 .. Len(st) /\ st[1].tag = Root
      BY <1>2, <2>2
    <3>. QED
      BY <1>6, <2>2, <3>1
  <2>. QED
    BY <2>1, <2>2
<1>. QED
  BY <1>7, <1>8, <1>9 DEF st

\* The layers of a stack have tags.
LEMMA LayerTags ==
    ASSUME NEW w \in World, NEW c \in Level
    PROVE  /\ Len(w.stack[c]) \in Nat /\ (w.stack[c] # <<>> => Len(w.stack[c]) > 0)
           /\ \A j \in 1 .. Len(w.stack[c]) : w.stack[c][j].tag \in LiveTag
<1>. DEFINE st == w.stack[c]
<1>1. st \in Stack
  BY WorldFields
<1>2. /\ Len(st) \in Nat /\ (st # <<>> => Len(st) > 0)
      /\ \A i \in 1 .. Len(st) : st[i] \in Layer
  BY <1>1 DEF Stack
<1>. HIDE DEF st
<1>3. \A i \in 1 .. Len(st) : st[i].tag \in LiveTag
  BY <1>2 DEF Layer
<1>. QED
  BY <1>2, <1>3 DEF st

\* What a step does on one connection leaves the others, in one step or two.
LEMMA OnlyTrans ==
    ASSUME NEW v, NEW w, NEW x, NEW k, Only(v, w, k), Only(w, x, k)
    PROVE  Only(v, x, k)
BY DEF Only

LEMMA OnlySelf == ASSUME NEW v, NEW k PROVE Only(v, v, k)
BY DEF Only

\* Forget() tells the sessions and the handles of its connection.
LEMMA ForgetTells ==
    ASSUME NEW w \in World, NEW c \in Level, NEW E
    PROVE  LET u == Forget(w, c, E)
           IN /\ Only(w, u, c) /\ u.stack = w.stack
              /\ \A s \in Level : w.session[s].conn = c => Told(w.session[s], u.session[s], E)
              /\ \A d \in Level : w.handle[d].conn = c =>
                    u.handle[d].tag = IF w.handle[d].tag \in E THEN Gone ELSE w.handle[d].tag
<1>. DEFINE Nested(n) == [n EXCEPT !.live = @ /\ BlockTag(n.of) \notin E]
            All(q) == [i \in DOMAIN q |-> Nested(q[i])]
            Telling(x) == [x EXCEPT !.join = IF @ \in E THEN Gone ELSE @,
                                    !.nested = [i \in DOMAIN @ |-> Nested(@[i])]]
            Joined(x) == IF x.conn # c THEN x ELSE Telling(x)
            Known(h) == IF h.conn = c /\ h.tag \in E THEN [h EXCEPT !.tag = Gone] ELSE h
            ss == [s \in Level |-> Joined(w.session[s])]
            hh == [d \in Level |-> Known(w.handle[d])]
            u == Forget(w, c, E)
<1>1. Forget(w, c, E) = [w EXCEPT !.session = ss, !.handle = hh]
  BY DEF Forget
<1>2. u.stack = w.stack /\ u.session = ss /\ u.handle = hh
  BY <1>1 DEF World
<1>3. ASSUME NEW x \in Session, x.conn = c PROVE Told(x, Telling(x), E)
  <2>. DEFINE j == IF x.join \in E THEN Gone ELSE x.join
              q == All(x.nested)
              y == [[x EXCEPT !.join = j] EXCEPT !.nested = q]
  <2>1. Telling(x) = y
    BY Zenon
  <2>2. x.nested \in Seq(NestedSet) /\ x.join \in Tag
    BY DEF Session, NestedSet
  <2>3. /\ Len(x.nested) \in Nat /\ DOMAIN x.nested = 1 .. Len(x.nested)
        /\ \A i \in 1 .. Len(x.nested) : x.nested[i] \in NestedSet
    BY <2>2
  <2>4. \A n \in NestedSet :
            /\ Nested(n) \in NestedSet /\ Nested(n).of = n.of
            /\ Nested(n).live <=> (n.live /\ BlockTag(n.of) \notin E)
    BY DEF NestedSet
  <2>. HIDE DEF Nested
  <2>5. q \in [1 .. Len(x.nested) -> NestedSet]
    BY <2>3, <2>4
  <2>6. Len(q) = Len(x.nested) /\ \A i \in 1 .. Len(x.nested) : q[i] = Nested(x.nested[i])
    BY <2>3, <2>5
  <2>. HIDE DEF q, j, Telling
  <2>7. /\ y.mode = x.mode /\ y.conn = x.conn /\ y.stuck = x.stuck /\ y.commits = x.commits
        /\ y.pending = x.pending /\ y.join = j /\ y.nested = q
    BY DEF Session
  <2>. HIDE DEF y
  <2>. QED
    BY <2>1, <2>3, <2>4, <2>6, <2>7 DEF Told, j
<1>4. \A s \in Level : w.session[s] \in Session /\ u.session[s] = Joined(w.session[s])
  BY <1>2, WorldFields
<1>5. \A d \in Level : w.handle[d] \in Handle /\ u.handle[d] = Known(w.handle[d])
  BY <1>2, WorldFields
<1>. HIDE DEF Telling, u
<1>6. \A h \in Handle : /\ Known(h).conn = h.conn /\ (h.conn # c => Known(h) = h)
                        /\ h.conn = c => Known(h).tag = IF h.tag \in E THEN Gone ELSE h.tag
  BY DEF Handle
<1>7. \A s \in Level : /\ w.session[s].conn = c => Told(w.session[s], u.session[s], E)
                       /\ w.session[s].conn # c => u.session[s] = w.session[s]
  BY <1>3, <1>4
<1>8. \A s \in Level : u.session[s].conn = w.session[s].conn
  BY <1>7 DEF Told
<1>. HIDE DEF Known, Joined
<1>9. Only(w, u, c)
  BY <1>2, <1>5, <1>6, <1>7, <1>8 DEF Only
<1>. QED
  BY <1>2, <1>5, <1>6, <1>7, <1>9 DEF u

\* A stack replaced by another one, and what it ended told.
LEMMA Rewound ==
    ASSUME NEW v \in World, NEW c \in Level, NEW st \in Stack, NEW E
    PROVE  LET w == Forget([v EXCEPT !.stack[c] = st], c, E)
           IN /\ Only(v, w, c) /\ w.stack[c] = st
              /\ \A s \in Level : v.session[s].conn = c => Told(v.session[s], w.session[s], E)
              /\ \A d \in Level : v.handle[d].conn = c =>
                    w.handle[d].tag = IF v.handle[d].tag \in E THEN Gone ELSE v.handle[d].tag
<1>. DEFINE u == [v EXCEPT !.stack[c] = st]
            w == Forget(u, c, E)
<1>1. /\ u \in World
      /\ u.session = v.session /\ u.handle = v.handle
      /\ u.stack[c] = st /\ \A b \in Level \ {c} : u.stack[b] = v.stack[b]
  BY WithStackIs
<1>. HIDE DEF u
<1>2. /\ Only(u, w, c) /\ w.stack = u.stack
      /\ \A s \in Level : u.session[s].conn = c => Told(u.session[s], w.session[s], E)
      /\ \A d \in Level : u.handle[d].conn = c =>
            w.handle[d].tag = IF u.handle[d].tag \in E THEN Gone ELSE u.handle[d].tag
  BY <1>1, ForgetTells
<1>. HIDE DEF w
<1>3. Only(v, w, c)
  BY <1>1, <1>2 DEF Only
<1>. QED
  BY <1>1, <1>2, <1>3 DEF u, w

\* The lower part of a rising stack.
LEMMA LowerPart ==
    ASSUME NEW v \in World, NEW w \in World, NEW c \in Level, Rising(v, c),
           NEW i \in 1 .. Len(v.stack[c]), Len(w.stack[c]) = i - 1,
           \A j \in 1 .. i - 1 : w.stack[c][j].tag = v.stack[c][j].tag
    PROVE  /\ Rising(w, c)
           /\ Tags(w, c) = {t \in Tags(v, c) : Rank(t) < Rank(v.stack[c][i].tag)}
<1>. DEFINE p == v.stack[c]
            q == w.stack[c]
            n == Len(p)
            T(j) == p[j].tag
            U(j) == q[j].tag
<1>2. n \in Nat /\ \A j \in 1 .. n : T(j) \in LiveTag
  BY LayerTags
<1>3. \A j \in 1 .. n : Rank(T(j)) \in 0 .. MaxDepth
  BY <1>2, TagsApart
<1>4. \A j, k \in 1 .. n : j < k => Rank(T(j)) < Rank(T(k))
  BY DEF Rising
<1>5. Tags(v, c) = {T(j) : j \in 1 .. n} /\ Tags(w, c) = {U(j) : j \in 1 .. i - 1}
  BY DEF Tags
<1>6. Rising(w, c) <=> \A j, k \in 1 .. i - 1 : j < k => Rank(U(j)) < Rank(U(k))
  BY DEF Rising
<1>7. i \in 1 .. n /\ \A j \in 1 .. i - 1 : U(j) = T(j)
  OBVIOUS
<1>. HIDE DEF T, U, n, p, q
<1>8. \A j, k \in 1 .. i - 1 : j < k => Rank(U(j)) < Rank(U(k))
  BY <1>2, <1>4, <1>7
<1>9. \A j \in 1 .. n : Rank(T(j)) < Rank(T(i)) <=> j < i
  BY <1>2, <1>3, <1>4, <1>7, MaxDepthAssumption
<1>10. Tags(w, c) = {t \in Tags(v, c) : Rank(t) < Rank(T(i))}
  <2>1. ASSUME NEW t \in Tags(w, c) PROVE t \in Tags(v, c) /\ Rank(t) < Rank(T(i))
    <3>1. PICK j \in 1 .. i - 1 : t = U(j)
      BY <1>5, <2>1
    <3>. QED
      BY <1>2, <1>5, <1>7, <1>9, <3>1
  <2>2. ASSUME NEW t \in Tags(v, c), Rank(t) < Rank(T(i)) PROVE t \in Tags(w, c)
    <3>1. PICK j \in 1 .. n : t = T(j)
      BY <1>5, <2>2
    <3>2. j \in 1 .. i - 1
      BY <1>2, <1>7, <1>9, <2>2, <3>1
    <3>. QED
      BY <1>5, <1>7, <3>1, <3>2
  <2>. QED
    BY <2>1, <2>2
<1>. QED
  BY <1>6, <1>8, <1>10 DEF T, p

\* ROLLBACK TO and RELEASE touch one connection, and cut its stack there.
LEMMA CutsBack ==
    ASSUME NEW v, Ok(v), NEW c \in Level, NEW t, t # Root
    PROVE  LET w == RollbackTo(v, c, t)
           IN /\ Only(v, w, c)
              /\ Rising(v, c) /\ t \in Tags(v, c) => Cuts(v, w, c, Rank(t), {t})
              /\ t \notin Tags(v, c) => w = v
<1>. DEFINE i == Position(v, c, t)
            st == SubSeq(v.stack[c], 1, i - 1)
            w == RollbackTo(v, c, t)
<1>0. v \in World
  BY DEF Ok
<1>1. HasTag(v, c, t) <=> t \in Tags(v, c)
  BY <1>0, TagsAre
<1>2. CASE t \notin Tags(v, c)
  <2>1. w = v
    BY <1>1, <1>2 DEF RollbackTo
  <2>. QED
    BY <1>2, <2>1, OnlySelf
<1>3. CASE t \in Tags(v, c)
  <2>1. i \in 1 .. Len(v.stack[c]) /\ i > 1 /\ v.stack[c][i].tag = t
    BY <1>0, <1>1, <1>3, PositionIs
  <2>2. w = Forget([v EXCEPT !.stack[c] = st], c, {t})
    BY <1>1, <1>3 DEF RollbackTo
  <2>. HIDE DEF i, w
  <2>3. v.stack[c] \in Stack
    BY <1>0, WorldFields
  <2>4. /\ st \in Stack /\ Len(st) = i - 1
        /\ \A j \in 1 .. i - 1 : st[j] = v.stack[c][j]
    <3>1. v.stack[c] \in Seq(Layer) /\ v.stack[c][1].tag = Root /\ Len(v.stack[c]) \in Nat
      BY <2>1, <2>3 DEF Stack
    <3>2. \A j \in 1 .. i - 1 : v.stack[c][j] \in Layer
      BY <2>1, <3>1
    <3>3. /\ st \in Seq(Layer) /\ Len(st) = i - 1
          /\ \A j \in 1 .. i - 1 : st[j] = v.stack[c][j]
      BY <2>1, <3>1, <3>2
    <3>4. st[1].tag = Root
      BY <2>1, <3>1, <3>3
    <3>. QED
      BY <3>3, <3>4 DEF Stack
  <2>. HIDE DEF st
  <2>5. /\ Only(v, w, c) /\ w.stack[c] = st
        /\ \A s \in Level : v.session[s].conn = c => Told(v.session[s], w.session[s], {t})
        /\ \A d \in Level : v.handle[d].conn = c =>
              w.handle[d].tag = IF v.handle[d].tag \in {t} THEN Gone ELSE v.handle[d].tag
    BY <1>0, <2>2, <2>4, Rewound
  <2>6. w \in World
    BY RollsBackTo DEF Quiet, Works, Ok, w
  <2>7. ASSUME Rising(v, c) PROVE Cuts(v, w, c, Rank(t), {t})
    <3>1. Rising(w, c) /\ Tags(w, c) = {u \in Tags(v, c) : Rank(u) < Rank(t)}
      BY <1>0, <2>1, <2>4, <2>5, <2>6, <2>7, LowerPart
    <3>. QED
      BY <2>5, <3>1 DEF Cuts
  <2>. QED
    BY <1>3, <2>5, <2>7 DEF w
<1>. QED
  BY <1>2, <1>3

LEMMA CutsOff ==
    ASSUME NEW v, Ok(v), NEW c \in Level, NEW t, t # Root
    PROVE  LET w == Release(v, c, t)
           IN /\ Only(v, w, c)
              /\ Rising(v, c) /\ t \in Tags(v, c) => Cuts(v, w, c, Rank(t), {t})
              /\ t \notin Tags(v, c) => w = v
<1>. DEFINE i == Position(v, c, t)
            below == v.stack[c][i - 1]
            merged == [below EXCEPT !.rows = @ \cup RowsFrom(v, c, i)]
            kept == SubSeq(v.stack[c], 1, i - 2)
            st == Append(kept, merged)
            w == Release(v, c, t)
<1>0. v \in World
  BY DEF Ok
<1>1. HasTag(v, c, t) <=> t \in Tags(v, c)
  BY <1>0, TagsAre
<1>2. CASE t \notin Tags(v, c)
  <2>1. w = v
    BY <1>1, <1>2 DEF Release
  <2>. QED
    BY <1>2, <2>1, OnlySelf
<1>3. CASE t \in Tags(v, c)
  <2>1. i \in 1 .. Len(v.stack[c]) /\ i > 1 /\ v.stack[c][i].tag = t
    BY <1>0, <1>1, <1>3, PositionIs
  <2>2. w = Forget([v EXCEPT !.stack[c] = st], c, {t})
    BY <1>1, <1>3 DEF Release
  <2>. HIDE DEF i, w
  <2>3. v.stack[c] \in Stack
    BY <1>0, WorldFields
  <2>4. /\ below \in Layer
        /\ v.stack[c][1].tag = Root
    BY <2>1, <2>3 DEF Stack
  <2>5. RowsFrom(v, c, i) \subseteq Row
    <3>. SUFFICES ASSUME NEW r \in RowsFrom(v, c, i) PROVE r \in Row
      OBVIOUS
    <3>1. PICK j \in i .. Len(v.stack[c]) : r \in v.stack[c][j].rows
      BY DEF RowsFrom
    <3>2. v.stack[c][j] \in Layer
      BY <2>1, <2>3 DEF Stack
    <3>. QED
      BY <3>1, <3>2 DEF Layer
  <2>6. merged \in Layer /\ merged.tag = below.tag
    BY <2>4, <2>5 DEF Layer
  <2>7. /\ kept \in Seq(Layer) /\ Len(kept) = i - 2
        /\ \A j \in 1 .. i - 2 : kept[j] = v.stack[c][j]
    BY <2>1, <2>3 DEF Stack
  <2>. HIDE DEF merged, kept
  <2>8. /\ st \in Seq(Layer) /\ Len(st) = i - 1 /\ st[i - 1] = merged
        /\ \A j \in 1 .. i - 2 : st[j] = v.stack[c][j]
    BY <2>1, <2>6, <2>7
  <2>. HIDE DEF st
  <2>9. \A j \in 1 .. i - 1 : st[j].tag = v.stack[c][j].tag
    <3>. TAKE j \in 1 .. i - 1
    <3>1. CASE j = i - 1
      BY <2>6, <2>8, <3>1
    <3>2. CASE j # i - 1
      BY <2>1, <2>8, <3>2
    <3>. QED
      BY <3>1, <3>2
  <2>10. st \in Stack
    <3>1. st[1].tag = Root
      BY <2>1, <2>4, <2>9
    <3>. QED
      BY <2>8, <3>1 DEF Stack
  <2>11. /\ Only(v, w, c) /\ w.stack[c] = st
         /\ \A s \in Level : v.session[s].conn = c => Told(v.session[s], w.session[s], {t})
         /\ \A d \in Level : v.handle[d].conn = c =>
               w.handle[d].tag = IF v.handle[d].tag \in {t} THEN Gone ELSE v.handle[d].tag
    BY <1>0, <2>2, <2>10, Rewound
  <2>12. w \in World
    BY Releases DEF Quiet, Works, Ok, w
  <2>13. ASSUME Rising(v, c) PROVE Cuts(v, w, c, Rank(t), {t})
    <3>1. Rising(w, c) /\ Tags(w, c) = {u \in Tags(v, c) : Rank(u) < Rank(t)}
      BY <1>0, <2>1, <2>8, <2>9, <2>11, <2>12, <2>13, LowerPart
    <3>. QED
      BY <2>11, <3>1 DEF Cuts
  <2>. QED
    BY <1>3, <2>11, <2>13 DEF w
<1>. QED
  BY <1>2, <1>3

\* The end of a root leaves nothing of its connection.
LEMMA CutsAll ==
    ASSUME NEW v, Ok(v), NEW c \in Level, NEW K
    PROVE  LET w == EndRoot(v, c, K)
           IN Only(v, w, c) /\ w.stack[c] = <<>> /\ Cuts(v, w, c, 0, LiveTag)
<1>. DEFINE f == Forget(v, c, LiveTag)
            w == EndRoot(v, c, K)
<1>0. v \in World
  BY DEF Ok
<1>1. w = [[f EXCEPT !.committed = @ \cup K] EXCEPT !.stack[c] = <<>>]
  BY DEF EndRoot
<1>2. /\ f \in World /\ f.stack = v.stack
      /\ Only(v, f, c)
      /\ \A s \in Level : v.session[s].conn = c => Told(v.session[s], f.session[s], LiveTag)
      /\ \A d \in Level : v.handle[d].conn = c =>
            f.handle[d].tag = IF v.handle[d].tag \in LiveTag THEN Gone ELSE v.handle[d].tag
  BY <1>0, ForgetIs, ForgetTells
<1>. HIDE DEF f
<1>3. /\ w.session = f.session /\ w.handle = f.handle
      /\ w.stack[c] = <<>> /\ \A b \in Level \ {c} : w.stack[b] = f.stack[b]
  BY <1>1, <1>2 DEF World
<1>. HIDE DEF w
<1>4. Only(v, w, c)
  BY <1>2, <1>3 DEF Only
<1>5. 1 .. Len(w.stack[c]) = {}
  BY <1>3
<1>6. Rising(w, c) /\ Tags(w, c) = {}
  BY <1>5 DEF Rising, Tags
<1>7. \A t \in Tags(v, c) : ~(Rank(t) < 0)
  <2>1. Tags(v, c) \subseteq LiveTag
    BY <1>0, TagsAre
  <2>2. \A t \in Tags(v, c) : Rank(t) \in 0 .. MaxDepth
    BY <2>1, TagsApart
  <2>. QED
    BY <2>2, MaxDepthAssumption
<1>8. Tags(w, c) = {t \in Tags(v, c) : Rank(t) < 0}
  BY <1>6, <1>7
<1>9. Cuts(v, w, c, 0, LiveTag)
  BY <1>2, <1>3, <1>4, <1>6, <1>8 DEF Cuts
<1>. QED
  BY <1>3, <1>4, <1>9 DEF w

------------------------------------------------------------------------------
\* Connection c is in a transaction, with the savepoints it had.
Began(v, w, c) ==
    /\ Tags(w, c) = IF Tags(v, c) = {} THEN {Root} ELSE Tags(v, c)
    /\ Rising(v, c) => Rising(w, c)

\* A stack of one layer rises.
LEMMA OneRises ==
    ASSUME NEW w, NEW c, Len(w.stack[c]) = 1, w.stack[c][1].tag = Root
    PROVE  Rising(w, c) /\ Tags(w, c) = {Root}
<1>1. 1 .. Len(w.stack[c]) = {1}
  OBVIOUS
<1>. QED
  BY <1>1 DEF Rising, Tags

\* Autobegin() and the rows of a statement keep the savepoints.
LEMMA BeginsTags ==
    ASSUME NEW v, Ok(v), NEW c \in Level
    PROVE  LET w == Autobegin(v, c)
           IN Only(v, w, c) /\ Began(v, w, c) /\ w.session = v.session /\ w.handle = v.handle
<1>. DEFINE w == Autobegin(v, c)
            st == <<[tag |-> Root, rows |-> {}]>>
<1>0. v \in World
  BY DEF Ok
<1>1. /\ Ok(w) /\ w.session = v.session /\ w.handle = v.handle
      /\ \A b \in Level \ {c} : w.stack[b] = v.stack[b]
      /\ v.stack[c] # <<>> => w = v
  BY Begins DEF Quiet, Works
<1>2. Only(v, w, c)
  BY <1>1 DEF Only
<1>3. v.stack[c] = <<>> <=> Tags(v, c) = {}
  BY <1>0, TagsAre
<1>4. CASE v.stack[c] # <<>>
  BY <1>1, <1>2, <1>3, <1>4 DEF Began
<1>5. CASE v.stack[c] = <<>>
  <2>1. w = [v EXCEPT !.stack[c] = st]
    BY <1>5 DEF Autobegin, InTransaction
  <2>2. w.stack[c] = st
    BY <1>0, <2>1 DEF World
  <2>3. Len(st) = 1 /\ st[1].tag = Root
    OBVIOUS
  <2>. HIDE DEF w, st
  <2>4. Rising(w, c) /\ Tags(w, c) = {Root}
    BY <2>2, <2>3, OneRises
  <2>. QED
    BY <1>1, <1>2, <1>3, <1>5, <2>4 DEF Began, w
<1>. QED
  BY <1>4, <1>5

LEMMA WritesTags ==
    ASSUME NEW v, Ok(v), NEW c \in Level, NEW R \in SUBSET Row
    PROVE  LET w == Write(v, c, R)
           IN Only(v, w, c) /\ Began(v, w, c) /\ w.session = v.session /\ w.handle = v.handle
<1>. DEFINE b == Autobegin(v, c)
            top == Len(b.stack[c])
            w == Write(v, c, R)
<1>1. /\ Only(v, b, c) /\ Began(v, b, c) /\ b.session = v.session /\ b.handle = v.handle
      /\ Ok(b) /\ b \in World /\ b.stack[c] # <<>>
  BY BeginsTags, Begins DEF Quiet, Works, Ok
<1>2. w = IF c \in v.auto THEN [b EXCEPT !.committed = @ \cup R]
          ELSE [b EXCEPT !.stack[c][top].rows = @ \cup R]
  BY DEF Write
<1>. HIDE DEF b, w
<1>3. b.stack[c] \in Seq(Layer) /\ top \in Nat
  BY <1>1, WorldFields DEF Stack
<1>4. /\ w.session = b.session /\ w.handle = b.handle
      /\ \A a \in Level \ {c} : w.stack[a] = b.stack[a]
      /\ Len(w.stack[c]) = top /\ \A j \in 1 .. top : w.stack[c][j].tag = b.stack[c][j].tag
  <2>1. CASE c \in v.auto
    BY <1>1, <1>2, <2>1 DEF World
  <2>2. CASE c \notin v.auto
    <3>. DEFINE l == [b.stack[c][top] EXCEPT !.rows = @ \cup R]
                st == [b.stack[c] EXCEPT ![top] = l]
    <3>1. w = [b EXCEPT !.stack[c] = st]
      BY <1>2, <2>2
    <3>2. top \in 1 .. top /\ DOMAIN b.stack[c] = 1 .. top
      BY <1>1, <1>3
    <3>3. b.stack[c][top] \in Layer
      BY <1>3, <3>2
    <3>4. l.tag = b.stack[c][top].tag /\ l \in Layer
      BY <3>3 DEF Layer
    <3>. HIDE DEF l
    <3>5. /\ DOMAIN st = 1 .. top /\ \A j \in 1 .. top : st[j].tag = b.stack[c][j].tag
      BY <3>2, <3>4
    <3>6. st \in Seq(Layer) /\ Len(st) = top
      BY <1>3, <3>2, <3>4
    <3>. HIDE DEF st
    <3>. QED
      BY <1>1, <3>1, <3>5, <3>6 DEF World
  <2>. QED
    BY <2>1, <2>2
<1>5. Tags(w, c) = Tags(b, c) /\ (Rising(b, c) => Rising(w, c))
  BY <1>4 DEF Tags, Rising
<1>6. Only(v, w, c)
  BY <1>1, <1>4 DEF Only
<1>. QED
  BY <1>1, <1>4, <1>5, <1>6 DEF Began, w

\* A savepoint goes on top of the others.
LEMMA SavepointTags ==
    ASSUME NEW v, Ok(v), NEW c \in Level, NEW t \in LiveTag
    PROVE  LET w == TakeSavepoint(v, c, t)
               b == Autobegin(v, c)
           IN /\ Only(v, w, c) /\ w.session = v.session /\ w.handle = v.handle
              /\ Tags(w, c) = Tags(b, c) \cup {t}
              /\ Rising(v, c) /\ (\A u \in Tags(b, c) : Rank(u) < Rank(t)) => Rising(w, c)
<1>. DEFINE b == Autobegin(v, c)
            l == [tag |-> t, rows |-> {}]
            p == b.stack[c]
            q == Append(p, l)
            w == TakeSavepoint(v, c, t)
<1>1. /\ Only(v, b, c) /\ Began(v, b, c) /\ b.session = v.session /\ b.handle = v.handle
      /\ b \in World
  BY BeginsTags, Begins DEF Quiet, Works, Ok
<1>2. w = [b EXCEPT !.stack[c] = q]
  BY DEF TakeSavepoint
<1>. HIDE DEF b, w
<1>3. p \in Seq(Layer) /\ l \in Layer
  BY <1>1, WorldFields DEF Stack, Layer
<1>4. /\ Len(p) \in Nat /\ Len(q) = Len(p) + 1 /\ q[Len(p) + 1].tag = t
      /\ \A j \in 1 .. Len(p) : q[j] = p[j]
  BY <1>3
<1>5. /\ w.session = b.session /\ w.handle = b.handle /\ w.stack[c] = q
      /\ \A a \in Level \ {c} : w.stack[a] = b.stack[a]
  BY <1>1, <1>2 DEF World
<1>6. Only(v, w, c)
  BY <1>1, <1>5 DEF Only
<1>7. /\ Tags(w, c) = {q[j].tag : j \in 1 .. Len(p) + 1}
      /\ Tags(b, c) = {p[j].tag : j \in 1 .. Len(p)}
  BY <1>4, <1>5 DEF Tags
<1>8. Tags(w, c) = Tags(b, c) \cup {t}
  <2>. HIDE DEF p, q
  <2>1. ASSUME NEW u \in Tags(w, c) PROVE u \in Tags(b, c) \cup {t}
    <3>1. PICK j \in 1 .. Len(p) + 1 : u = q[j].tag
      BY <1>7, <2>1
    <3>2. j = Len(p) + 1 \/ j \in 1 .. Len(p)
      BY <1>4, <3>1
    <3>. QED
      BY <1>4, <1>7, <3>1, <3>2
  <2>2. ASSUME NEW u \in Tags(b, c) \cup {t} PROVE u \in Tags(w, c)
    <3>1. Len(p) + 1 \in 1 .. Len(p) + 1 /\ 1 .. Len(p) \subseteq 1 .. Len(p) + 1
      BY <1>4
    <3>2. t \in Tags(w, c)
      BY <1>4, <1>7, <3>1
    <3>3. ASSUME NEW j \in 1 .. Len(p) PROVE p[j].tag \in Tags(w, c)
      BY <1>4, <1>7, <3>1, <3>3
    <3>. QED
      BY <1>7, <2>2, <3>2, <3>3
  <2>. QED
    BY <2>1, <2>2
<1>9. ASSUME Rising(v, c), \A u \in Tags(b, c) : Rank(u) < Rank(t) PROVE Rising(w, c)
  <2>. DEFINE R(j) == Rank(q[j].tag)
  <2>1. Rising(b, c)
    BY <1>1, <1>9 DEF Began
  <2>2. \A i, j \in 1 .. Len(p) : i < j => R(i) < R(j)
    BY <1>4, <2>1 DEF Rising
  <2>3. \A j \in 1 .. Len(p) : R(j) < R(Len(p) + 1)
    BY <1>4, <1>7, <1>9
  <2>4. Rising(w, c) <=> \A i, j \in 1 .. Len(p) + 1 : i < j => R(i) < R(j)
    BY <1>4, <1>5 DEF Rising
  <2>. HIDE DEF R, p
  <2>5. \A i, j \in 1 .. Len(p) + 1 : i < j => R(i) < R(j)
    <3>. TAKE i, j \in 1 .. Len(p) + 1
    <3>. HAVE i < j
    <3>1. i \in 1 .. Len(p) /\ (j = Len(p) + 1 \/ j \in 1 .. Len(p))
      BY <1>4
    <3>. QED
      BY <2>2, <2>3, <3>1
  <2>. QED
    BY <2>4, <2>5
<1>. QED
  BY <1>1, <1>5, <1>6, <1>8, <1>9 DEF b, w

\* The tag on top ranks above the others.
LEMMA TopIsLast ==
    ASSUME NEW w \in World, NEW c \in Level, w.stack[c] # <<>>
    PROVE  /\ TopTag(w, c) \in Tags(w, c)
           /\ Rising(w, c) => \A t \in Tags(w, c) : Rank(t) <= Rank(TopTag(w, c))
<1>. DEFINE p == w.stack[c]
            n == Len(p)
            R(j) == Rank(p[j].tag)
<1>2. n \in Nat /\ n > 0 /\ \A j \in 1 .. n : p[j].tag \in LiveTag
  BY LayerTags
<1>3. n \in 1 .. n /\ TopTag(w, c) = p[n].tag
  BY <1>2 DEF TopTag
<1>4. \A j \in 1 .. n : R(j) \in 0 .. MaxDepth
  BY <1>2, TagsApart
<1>5. Tags(w, c) = {p[j].tag : j \in 1 .. n}
  BY DEF Tags
<1>6. Rising(w, c) <=> \A i, j \in 1 .. n : i < j => R(i) < R(j)
  BY DEF Rising
<1>. HIDE DEF n, p
<1>7. ASSUME Rising(w, c), NEW t \in Tags(w, c) PROVE Rank(t) <= Rank(TopTag(w, c))
  <2>1. PICK j \in 1 .. n : t = p[j].tag
    BY <1>5, <1>7
  <2>2. R(j) <= R(n)
    <3>1. CASE j = n
      BY <1>3, <1>4, <3>1, MaxDepthAssumption
    <3>2. CASE j < n
      BY <1>3, <1>4, <1>6, <1>7, <2>1, <3>2, MaxDepthAssumption
    <3>. QED
      BY <1>2, <2>1, <3>1, <3>2
  <2>. QED
    BY <1>3, <2>1, <2>2
<1>8. TopTag(w, c) \in Tags(w, c)
  BY <1>3, <1>5
<1>. QED
  BY <1>7, <1>8

\* A change of one session that keeps its connection.
LEMMA OnlySession ==
    ASSUME NEW v, NEW w, NEW s \in Level, w.stack = v.stack, w.handle = v.handle,
           w.session[s].conn = v.session[s].conn,
           \A a \in Level \ {s} : w.session[a] = v.session[a]
    PROVE  Only(v, w, v.session[s].conn)
BY DEF Only

------------------------------------------------------------------------------
(***************************************************************************)
(* A session used its connection: it keeps the transaction it joined, or    *)
(* begins one, or takes a savepoint of its own, or shares the one on top.   *)
(***************************************************************************)
SameButJoin(x, y) == y.mode = x.mode /\ y.conn = x.conn /\ y.stuck = x.stuck /\ y.nested = x.nested

KeepsJoin(v, w, s, c) ==
    /\ v.session[s].join # NoTag
    /\ w.session[s].join = v.session[s].join /\ w.session[s].commits = v.session[s].commits
    /\ Began(v, w, c)

BeginsRoot(v, w, s, c) ==
    /\ v.session[s].join = NoTag /\ Tags(v, c) = {}
    /\ w.session[s].join = Root /\ w.session[s].commits
    /\ Began(v, w, c)

Isolates(v, w, s, c) ==
    /\ v.session[s].join = NoTag /\ Tags(v, c) # {} /\ v.session[s].mode # "rollback_only"
    /\ w.session[s].join = SessionTag(s) /\ w.session[s].commits
    /\ Tags(w, c) = Tags(v, c) \cup {SessionTag(s)}
    /\ Rising(v, c) /\ (\A t \in Tags(v, c) : Rank(t) < s) => Rising(w, c)

SharesTop(v, w, s, c) ==
    /\ v.session[s].join = NoTag /\ Tags(v, c) # {} /\ v.session[s].mode # "create_savepoint"
    /\ ~w.session[s].commits
    /\ w.session[s].join \in Tags(v, c) /\ Tags(w, c) = Tags(v, c)
    /\ Rising(v, c) => Rising(w, c) /\ \A t \in Tags(v, c) : Rank(t) <= Rank(w.session[s].join)

Joins(v, w, s) ==
    LET c == v.session[s].conn
    IN /\ Only(v, w, c)
       /\ w.handle = v.handle /\ \A a \in Level \ {s} : w.session[a] = v.session[a]
       /\ SameButJoin(v.session[s], w.session[s])
       /\ \/ KeepsJoin(v, w, s, c)
          \/ BeginsRoot(v, w, s, c)
          \/ Isolates(v, w, s, c)
          \/ SharesTop(v, w, s, c)

\* The fields JoinSession() writes.
LEMMA JoinWrites ==
    ASSUME NEW x \in Session, NEW t \in Tag
    PROVE  /\ LET y == [x EXCEPT !.begun = TRUE, !.join = t, !.commits = TRUE]
              IN SameButJoin(x, y) /\ y.join = t /\ y.commits = TRUE
           /\ LET y == [x EXCEPT !.begun = TRUE, !.join = t, !.commits = FALSE]
              IN SameButJoin(x, y) /\ y.join = t /\ y.commits = FALSE
<1>. DEFINE a == [x EXCEPT !.begun = TRUE]
            b == [a EXCEPT !.join = t]
            y == [b EXCEPT !.commits = TRUE]
            z == [b EXCEPT !.commits = FALSE]
<1>1. /\ [x EXCEPT !.begun = TRUE, !.join = t, !.commits = TRUE] = y
      /\ [x EXCEPT !.begun = TRUE, !.join = t, !.commits = FALSE] = z
  BY Zenon
<1>2. a \in Session /\ SameButJoin(x, a)
  BY DEF Session, SameButJoin
<1>. HIDE DEF a
<1>3. b \in Session /\ SameButJoin(x, b) /\ b.join = t
  BY <1>2 DEF Session, SameButJoin
<1>. HIDE DEF b
<1>4. SameButJoin(x, y) /\ y.join = t /\ y.commits = TRUE
  BY <1>3 DEF Session, SameButJoin
<1>5. SameButJoin(x, z) /\ z.join = t /\ z.commits = FALSE
  BY <1>3 DEF Session, SameButJoin
<1>. QED
  BY <1>1, <1>4, <1>5

\* A session put in place of another, for an operator that kept all sessions.
LEMMA PutJoined ==
    ASSUME NEW v, NEW u, NEW w, NEW s \in Level, NEW y,
           Only(v, u, v.session[s].conn), u.session = v.session, u.handle = v.handle,
           SameButJoin(v.session[s], y),
           w.stack = u.stack, w.handle = u.handle, w.session[s] = y,
           \A a \in Level \ {s} : w.session[a] = u.session[a]
    PROVE  /\ Only(v, w, v.session[s].conn) /\ w.handle = v.handle
           /\ \A a \in Level \ {s} : w.session[a] = v.session[a]
           /\ w.session[s] = y /\ SameButJoin(v.session[s], w.session[s])
           /\ w.stack = u.stack
<1>1. Only(v, w, v.session[s].conn)
  BY DEF Only, SameButJoin
<1>. QED
  BY <1>1

LEMMA JoinSessionJoins ==
    ASSUME NEW v, Ok(v), NEW s \in Level, v.session[s].conn # 0
    PROVE  Joins(v, JoinSession(v, s), s)
<1>. DEFINE x == v.session[s]
            c == x.conn
            Owns(t) == [x EXCEPT !.begun = TRUE, !.join = t, !.commits = TRUE]
            Shares(t) == [x EXCEPT !.begun = TRUE, !.join = t, !.commits = FALSE]
            isolates == \/ x.mode = "create_savepoint"
                        \/ x.mode = "conditional_savepoint" /\ InNested(v, c)
            w == JoinSession(v, s)
<1>1. v \in World /\ x \in Session
  BY WorldFields DEF Ok
<1>2. c \in Level
  BY <1>1 DEF Session, Level
<1>3. InTransaction(v, c) <=> Tags(v, c) # {}
  BY <1>1, <1>2, TagsAre DEF InTransaction
<1>4. CASE x.join # NoTag
  <2>1. w = Autobegin(v, c)
    BY <1>4 DEF JoinSession
  <2>2. Only(v, w, c) /\ Began(v, w, c) /\ w.session = v.session /\ w.handle = v.handle
    BY <1>2, <2>1, BeginsTags
  <2>. QED
    BY <1>4, <2>2 DEF Joins, KeepsJoin, SameButJoin
<1>5. CASE x.join = NoTag /\ ~InTransaction(v, c)
  <2>. DEFINE u == Autobegin(v, c)
  <2>1. /\ Only(v, u, c) /\ Began(v, u, c) /\ u.session = v.session /\ u.handle = v.handle
        /\ u \in World
    BY <1>2, BeginsTags, Begins DEF Quiet, Works, Ok
  <2>2. w = [u EXCEPT !.session[s] = Owns(Root)]
    BY <1>5, <2>1 DEF JoinSession
  <2>. HIDE DEF u, w
  <2>3. Root \in Tag
    BY DEF Tag, LiveTag
  <2>4. SameButJoin(x, Owns(Root)) /\ Owns(Root).join = Root /\ Owns(Root).commits
    BY <1>1, <2>3, JoinWrites
  <2>. DEFINE y == Owns(Root)
  <2>7. w = [u EXCEPT !.session[s] = y] /\ SameButJoin(x, y)
    BY <2>2, <2>4
  <2>. HIDE DEF y
  <2>5. /\ Only(v, w, c) /\ w.handle = v.handle
        /\ \A a \in Level \ {s} : w.session[a] = v.session[a]
        /\ w.session[s] = y /\ SameButJoin(v.session[s], w.session[s])
        /\ w.stack = u.stack
    <3>1. /\ w.stack = u.stack /\ w.handle = u.handle /\ w.session[s] = y
          /\ \A a \in Level \ {s} : w.session[a] = u.session[a]
      BY <2>1, <2>7 DEF World
    <3>. QED
      BY <2>1, <2>7, <3>1, PutJoined
  <2>6. Began(v, w, c)
    BY <2>1, <2>5 DEF Began, Tags, Rising
  <2>. QED
    BY <1>3, <1>5, <2>4, <2>5, <2>6 DEF Joins, BeginsRoot, w, y
<1>6. CASE x.join = NoTag /\ InTransaction(v, c) /\ isolates
  <2>. DEFINE t == SessionTag(s)
              u == TakeSavepoint(v, c, t)
  <2>1. t \in LiveTag /\ t \in Tag /\ Rank(t) = s
    BY TagsApart DEF Tag
  <2>2. Autobegin(v, c) = v
    BY <1>6 DEF Autobegin
  <2>3. /\ Only(v, u, c) /\ u.session = v.session /\ u.handle = v.handle
        /\ Tags(u, c) = Tags(v, c) \cup {t}
        /\ Rising(v, c) /\ (\A a \in Tags(v, c) : Rank(a) < s) => Rising(u, c)
    BY <1>2, <2>1, <2>2, SavepointTags
  <2>4. u \in World
    BY <1>2, <2>1, Savepoints DEF Quiet, Works, Ok
  <2>5. w = [u EXCEPT !.session[s] = Owns(t)]
    BY <1>6, <2>3 DEF JoinSession
  <2>6. SameButJoin(x, Owns(t)) /\ Owns(t).join = t /\ Owns(t).commits
    BY <1>1, <2>1, JoinWrites
  <2>. DEFINE y == Owns(t)
  <2>. HIDE DEF u, w
  <2>9. /\ w = [u EXCEPT !.session[s] = y] /\ SameButJoin(x, y)
        /\ y.join = t /\ y.commits
    BY <2>5, <2>6
  <2>. HIDE DEF y
  <2>7. /\ Only(v, w, c) /\ w.handle = v.handle
        /\ \A a \in Level \ {s} : w.session[a] = v.session[a]
        /\ w.session[s] = y /\ SameButJoin(v.session[s], w.session[s])
        /\ w.stack = u.stack
    <3>1. /\ w.stack = u.stack /\ w.handle = u.handle /\ w.session[s] = y
          /\ \A a \in Level \ {s} : w.session[a] = u.session[a]
      BY <2>4, <2>9 DEF World
    <3>2. Only(v, u, v.session[s].conn) /\ u.session = v.session /\ u.handle = v.handle
      BY <2>3
    <3>3. SameButJoin(v.session[s], y)
      BY <2>9
    <3>. QED
      BY <3>1, <3>2, <3>3, PutJoined
  <2>10. Tags(w, c) = Tags(u, c) /\ (Rising(u, c) => Rising(w, c))
    BY <2>7 DEF Tags, Rising
  <2>11. x.mode # "rollback_only"
    BY <1>6
  <2>8. Isolates(v, w, s, c)
    BY <1>3, <1>6, <2>3, <2>7, <2>9, <2>10, <2>11 DEF Isolates
  <2>. QED
    BY <2>7, <2>8 DEF Joins, w
<1>7. CASE x.join = NoTag /\ InTransaction(v, c) /\ ~isolates
  <2>. DEFINE t == TopTag(v, c)
  <2>1. w = [v EXCEPT !.session[s] = Shares(t)]
    BY <1>7 DEF JoinSession
  <2>2. /\ t \in Tags(v, c)
        /\ Rising(v, c) => \A a \in Tags(v, c) : Rank(a) <= Rank(t)
    BY <1>1, <1>2, <1>7, TopIsLast DEF InTransaction
  <2>3. t \in Tag
    BY <1>1, <1>2, <2>2, TagsAre DEF Tag
  <2>4. SameButJoin(x, Shares(t)) /\ Shares(t).join = t /\ ~Shares(t).commits
    BY <1>1, <2>3, JoinWrites
  <2>5. Only(v, v, c)
    BY OnlySelf
  <2>. DEFINE y == Shares(t)
  <2>. HIDE DEF t, w
  <2>9. /\ w = [v EXCEPT !.session[s] = y] /\ SameButJoin(x, y)
        /\ y.join = t /\ ~y.commits
    BY <2>1, <2>4
  <2>. HIDE DEF y
  <2>6. /\ Only(v, w, c) /\ w.handle = v.handle
        /\ \A a \in Level \ {s} : w.session[a] = v.session[a]
        /\ w.session[s] = y /\ SameButJoin(v.session[s], w.session[s])
        /\ w.stack = v.stack
    <3>1. /\ w.stack = v.stack /\ w.handle = v.handle /\ w.session[s] = y
          /\ \A a \in Level \ {s} : w.session[a] = v.session[a]
      BY <1>1, <2>9 DEF World
    <3>2. w.session[s].conn = v.session[s].conn
      BY <2>9, <3>1 DEF SameButJoin
    <3>. QED
      BY <2>9, <3>1, <3>2, OnlySession
  <2>7. Tags(w, c) = Tags(v, c) /\ (Rising(v, c) => Rising(w, c))
    BY <2>6 DEF Tags, Rising
  <2>8. SharesTop(v, w, s, c)
    BY <1>3, <1>7, <2>2, <2>6, <2>7, <2>9 DEF SharesTop
  <2>. QED
    BY <2>6, <2>8 DEF Joins, w
<1>. QED
  BY <1>4, <1>5, <1>6, <1>7

\* A flush is such a use, when anything is pending.
LEMMA FlushJoins ==
    ASSUME NEW v, Ok(v), NEW s \in Level
    PROVE  LET w == FlushSession(v, s)
           IN /\ v.session[s].pending = {} => w = v
              /\ v.session[s].pending # {} /\ v.session[s].conn # 0 => Joins(v, w, s)
<1>. DEFINE x == v.session[s]
            c == x.conn
            j == JoinSession(v, s)
            u == Write(j, c, x.pending)
            w == FlushSession(v, s)
<1>1. CASE x.pending = {}
  BY <1>1 DEF FlushSession
<1>2. CASE x.pending # {} /\ c # 0
  <2>24. x \in Session
    BY WorldFields DEF Ok
  <2>1. c \in Level /\ x.pending \in SUBSET Row
    BY <1>2, <2>24 DEF Session, Level
  <2>2. Joins(v, j, s) /\ Ok(j)
    BY <1>2, JoinSessionJoins, JoinsSession DEF Quiet, Works
  <2>. HIDE DEF j
  <2>3. Only(j, u, c) /\ Began(j, u, c) /\ u.session = j.session /\ u.handle = j.handle
    BY <2>1, <2>2, WritesTags
  <2>4. u \in World
    BY <2>1, <2>2, Writes DEF Ok
  <2>5. w = [u EXCEPT !.session[s].pending = {}]
    BY <1>2 DEF FlushSession, j
  <2>. HIDE DEF u, w
  <2>6. /\ Only(v, j, c)
        /\ j.handle = v.handle /\ \A a \in Level \ {s} : j.session[a] = v.session[a]
        /\ SameButJoin(x, j.session[s])
    BY <2>2 DEF Joins
  <2>. DEFINE y == [j.session[s] EXCEPT !.pending = {}]
  <2>7. w = [u EXCEPT !.session[s] = y]
    BY <2>3, <2>5
  <2>8. j.session[s] \in Session
    BY <2>2, WorldFields DEF Ok
  <2>9. SameButJoin(j.session[s], y) /\ y.join = j.session[s].join /\ y.commits = j.session[s].commits
    BY <2>8 DEF SameButJoin, Session
  <2>. HIDE DEF y
  <2>10. c = j.session[s].conn
    BY <2>6 DEF SameButJoin
  <2>11. /\ Only(j, w, c) /\ w.handle = j.handle
         /\ \A a \in Level \ {s} : w.session[a] = j.session[a]
         /\ w.session[s] = y
         /\ w.stack = u.stack
    <3>1. /\ w.stack = u.stack /\ w.handle = u.handle /\ w.session[s] = y
          /\ \A a \in Level \ {s} : w.session[a] = u.session[a]
      BY <2>4, <2>7 DEF World
    <3>. QED
      BY <2>3, <2>9, <2>10, <3>1, PutJoined
  <2>12. Only(v, w, c)
    BY <2>6, <2>11, OnlyTrans
  <2>13. SameButJoin(x, w.session[s])
    BY <2>6, <2>9, <2>11 DEF SameButJoin
  <2>14. Began(j, w, c)
    <3>1. Tags(w, c) = Tags(u, c) /\ (Rising(u, c) => Rising(w, c))
      BY <2>11 DEF Tags, Rising
    <3>. QED
      BY <2>3, <3>1 DEF Began
  <2>15. Tags(j, c) # {} \/ KeepsJoin(v, j, s, c)
    BY <2>2 DEF Joins, BeginsRoot, Isolates, SharesTop, Began
  <2>16. KeepsJoin(v, j, s, c) => KeepsJoin(v, w, s, c)
    BY <2>9, <2>11, <2>14 DEF KeepsJoin, Began
  <2>17. Tags(j, c) # {} => Tags(w, c) = Tags(j, c) /\ (Rising(j, c) => Rising(w, c))
    BY <2>14 DEF Began
  <2>18. BeginsRoot(v, j, s, c) => BeginsRoot(v, w, s, c)
    BY <2>9, <2>11, <2>14 DEF BeginsRoot, Began
  <2>19. Isolates(v, j, s, c) => Isolates(v, w, s, c)
    BY <2>9, <2>11, <2>17 DEF Isolates
  <2>20. SharesTop(v, j, s, c) => SharesTop(v, w, s, c)
    BY <2>9, <2>11, <2>17 DEF SharesTop
  <2>21. \/ KeepsJoin(v, w, s, c) \/ BeginsRoot(v, w, s, c)
         \/ Isolates(v, w, s, c) \/ SharesTop(v, w, s, c)
    BY <2>2, <2>16, <2>18, <2>19, <2>20 DEF Joins
  <2>22. w.handle = v.handle /\ \A a \in Level \ {s} : w.session[a] = v.session[a]
    BY <2>6, <2>11
  <2>23. Joins(v, w, s)
    BY <2>12, <2>13, <2>21, <2>22 DEF Joins
  <2>. QED
    BY <1>2, <2>23 DEF w
<1>. QED
  BY <1>1, <1>2

------------------------------------------------------------------------------
(***************************************************************************)
(* The savepoints of connection c in order, with V the blocks open whose    *)
(* savepoint the session that owns them took.                               *)
(***************************************************************************)

\* The session of the transaction that opened the connection, once it is on it, and
\* whether it takes savepoints there.
Owning(w, c) == IF w.session[c].conn = c THEN w.session[c] ELSE NoSession
Creates(w, c) == Owning(w, c).mode = "create_savepoint"

\* A savepoint on the connection is held: by the session that joined with it, by the
\* block that took it, or by the session it was taken through.
TagHeld(w, c, t) ==
    \/ t = Root
    \/ t = SessionTag(c) /\ Creates(w, c) /\ Owning(w, c).join = t
    \/ \E d \in Level : /\ d > c /\ t = BlockTag(d)
                        /\ \/ w.handle[d].conn = c /\ w.handle[d].tag = t
                           \/ LiveAt(Owning(w, c), d)

\* The savepoint of a block that is no longer open, which its session has not given up.
Stale(w, c, V, t) == \E d \in Level \ V : t = BlockTag(d) /\ Entered(Owning(w, c), d)

\* What a session joined is there, and it is the last savepoint of the blocks around it.
JoinFits(w, c, V, s) ==
    LET x == w.session[s]
    IN x.conn = c /\ x.join \notin {NoTag, Gone} =>
        /\ x.join \in Tags(w, c) \/ Stale(w, c, V, x.join)
        /\ x.join # Root => \A d \in Level : d <= s /\ BlockTag(d) \in Tags(w, c) => d <= Rank(x.join)

\* How a session joins: one alone takes savepoints, the others share what they find or
\* begin a root.
ModeFits(w, c, s) ==
    LET x == w.session[s]
    IN x.conn = c =>
        /\ s = c /\ Creates(w, c) =>
                /\ x.join \in {NoTag, Gone, Root, SessionTag(c)}
                /\ x.join = NoTag <=> ~x.commits
                /\ x.join = NoTag => Len(x.nested) = 0
        /\ ~(s = c /\ Creates(w, c)) =>
                /\ x.mode = "rollback_only" /\ Len(x.nested) = 0
                /\ x.commits => x.join \in {Gone, Root}

\* The savepoints taken through a session: in the order of their blocks, those of open
\* blocks below the others and, when live, on the connection.
NestedFits(w, c, V) ==
    LET x == Owning(w, c)
    IN /\ Climbs(x)
       /\ \A d \in Level : Entered(x, d) =>
            /\ d > c /\ Creates(w, c)
            /\ ~x.stuck => d \in V
            /\ d \in V /\ LiveAt(x, d) => BlockTag(d) \in Tags(w, c)
            /\ \A e \in V : d < e /\ Entered(x, e) => d \in V

\* What a block holds is there; where a session takes the savepoints, it is the root.
HandleFits(w, c, d) ==
    w.handle[d].conn = c /\ w.handle[d].tag # Gone =>
        /\ w.handle[d].tag \in Tags(w, c)
        /\ w.handle[d].tag = IF d = c THEN Root ELSE BlockTag(d)
        /\ Creates(w, c) => d = c

Ordered(w, c, V) ==
    /\ Rising(w, c)
    /\ \A t \in Tags(w, c) : TagHeld(w, c, t)
    /\ \A s \in Level : JoinFits(w, c, V, s) /\ ModeFits(w, c, s)
    /\ NestedFits(w, c, V)
    /\ \A d \in Level : HandleFits(w, c, d)

\* What told, knows of its nested transactions.
LEMMA ToldKnows ==
    ASSUME NEW x, NEW y, NEW E, Told(x, y, E)
    PROVE  /\ \A d : Entered(y, d) <=> Entered(x, d)
           /\ \A d : LiveAt(y, d) => LiveAt(x, d) /\ BlockTag(d) \notin E
           /\ \A d : LiveAt(x, d) /\ BlockTag(d) \notin E => LiveAt(y, d)
           /\ Climbs(x) => Climbs(y)
BY DEF Told, Entered, LiveAt, Climbs

\* A connection cut from some rank on is in order, when those told of what is gone are
\* those who held it.
LEMMA CutKeeps ==
    ASSUME NEW v, Ok(v), NEW w, NEW c \in Level, NEW V, NEW r, NEW E, NoTag \notin E,
           Ordered(v, c, V), Cuts(v, w, c, r, E),
           \A t \in Tags(v, c) : t \in E => ~(Rank(t) < r),
           \A t \in Tags(v, c) : t \in E \/ Stale(v, c, V, t) \/ Rank(t) < r
    PROVE  Ordered(w, c, V)
<1>. DEFINE x == Owning(v, c)
            y == Owning(w, c)
<1>0. v \in World
  BY DEF Ok
<1>1. /\ Only(v, w, c) /\ Rising(w, c)
      /\ Tags(w, c) = {t \in Tags(v, c) : Rank(t) < r}
      /\ \A s \in Level : v.session[s].conn = c => Told(v.session[s], w.session[s], E)
      /\ \A d \in Level : v.handle[d].conn = c =>
            w.handle[d].tag = IF v.handle[d].tag \in E THEN Gone ELSE v.handle[d].tag
  BY DEF Cuts
<1>2. \A d \in Level : w.handle[d].conn = v.handle[d].conn /\ w.session[d].conn = v.session[d].conn
  BY <1>1 DEF Only
<1>3. Told(x, y, E)
  <2>1. CASE v.session[c].conn = c
    BY <1>1, <1>2, <2>1 DEF Owning
  <2>2. CASE v.session[c].conn # c
    <3>1. x = NoSession /\ y = NoSession
      BY <1>2, <2>2 DEF Owning
    <3>2. Told(NoSession, NoSession, E)
      BY DEF Told, NoSession
    <3>. QED
      BY <3>1, <3>2
  <2>. QED
    BY <2>1, <2>2
<1>4. /\ \A d : Entered(y, d) <=> Entered(x, d)
      /\ \A d : LiveAt(y, d) => LiveAt(x, d) /\ BlockTag(d) \notin E
      /\ \A d : LiveAt(x, d) /\ BlockTag(d) \notin E => LiveAt(y, d)
      /\ Climbs(x) => Climbs(y)
  BY <1>3, ToldKnows
<1>5. y.stuck = x.stuck /\ y.join = (IF x.join \in E THEN Gone ELSE x.join) /\ y.mode = x.mode
  BY <1>3 DEF Told
<1>6. Creates(w, c) <=> Creates(v, c)
  BY <1>5 DEF Creates
<1>. HIDE DEF x, y
<1>7. \A t : Stale(w, c, V, t) <=> Stale(v, c, V, t)
  BY <1>4 DEF Stale, x, y
<1>8. ASSUME NEW t \in Tags(w, c) PROVE TagHeld(w, c, t)
  <2>1. t \in Tags(v, c) /\ t \notin E /\ TagHeld(v, c, t)
    BY <1>1, <1>8 DEF Ordered
  <2>2. CASE t = Root
    BY <2>2 DEF TagHeld
  <2>3. CASE t = SessionTag(c) /\ Creates(v, c) /\ x.join = t
    BY <1>5, <1>6, <2>1, <2>3 DEF TagHeld, y
  <2>4. ASSUME NEW d \in Level, d > c, t = BlockTag(d),
               (v.handle[d].conn = c /\ v.handle[d].tag = t) \/ LiveAt(x, d)
        PROVE  TagHeld(w, c, t)
    <3>1. (w.handle[d].conn = c /\ w.handle[d].tag = t) \/ LiveAt(y, d)
      BY <1>1, <1>2, <1>4, <2>1, <2>4
    <3>. QED
      BY <2>4, <3>1 DEF TagHeld, y
  <2>. QED
    BY <2>1, <2>2, <2>3, <2>4 DEF TagHeld, x
<1>9. ASSUME NEW s \in Level PROVE JoinFits(w, c, V, s) /\ ModeFits(w, c, s)
  <2>. SUFFICES ASSUME v.session[s].conn = c PROVE JoinFits(w, c, V, s) /\ ModeFits(w, c, s)
    BY <1>2 DEF JoinFits, ModeFits
  <2>1. JoinFits(v, c, V, s) /\ ModeFits(v, c, s)
    BY DEF Ordered
  <2>2. Told(v.session[s], w.session[s], E)
    BY <1>1
  <2>3. JoinFits(w, c, V, s)
    <3>. SUFFICES ASSUME w.session[s].join \notin {NoTag, Gone}
                  PROVE  /\ w.session[s].join \in Tags(w, c) \/ Stale(w, c, V, w.session[s].join)
                         /\ w.session[s].join # Root => \A d \in Level :
                                d <= s /\ BlockTag(d) \in Tags(w, c) => d <= Rank(w.session[s].join)
      BY DEF JoinFits
    <3>1. w.session[s].join = v.session[s].join /\ v.session[s].join \notin E
      BY <2>2 DEF Told
    <3>. DEFINE t == v.session[s].join
    <3>2. t \in Tags(v, c) \/ Stale(v, c, V, t)
      BY <2>1, <3>1 DEF JoinFits
    <3>3. t \in Tags(w, c) \/ Stale(w, c, V, t)
      BY <1>1, <1>7, <3>1, <3>2
    <3>4. t # Root => \A d \in Level : d <= s /\ BlockTag(d) \in Tags(v, c) => d <= Rank(t)
      BY <2>1, <3>1 DEF JoinFits
    <3>. QED
      BY <1>1, <3>1, <3>3, <3>4
  <2>4. ModeFits(w, c, s)
    <3>1. /\ w.session[s].mode = v.session[s].mode /\ w.session[s].commits = v.session[s].commits
          /\ w.session[s].join = IF v.session[s].join \in E THEN Gone ELSE v.session[s].join
          /\ Len(w.session[s].nested) = Len(v.session[s].nested)
      BY <2>2 DEF Told
    <3>. QED
      BY <1>6, <2>1, <3>1, TagsApart DEF ModeFits
  <2>. QED
    BY <2>3, <2>4
<1>10. NestedFits(w, c, V)
  <2>1. NestedFits(v, c, V)
    BY DEF Ordered
  <2>2. Climbs(y)
    BY <1>4, <2>1 DEF NestedFits, x
  <2>3. ASSUME NEW d \in Level, Entered(y, d)
        PROVE  /\ d > c /\ Creates(w, c)
               /\ ~y.stuck => d \in V
               /\ d \in V /\ LiveAt(y, d) => BlockTag(d) \in Tags(w, c)
               /\ \A e \in V : d < e /\ Entered(y, e) => d \in V
    <3>1. /\ Entered(x, d) /\ d > c /\ Creates(v, c)
          /\ ~x.stuck => d \in V
          /\ d \in V /\ LiveAt(x, d) => BlockTag(d) \in Tags(v, c)
          /\ \A e \in V : d < e /\ Entered(x, e) => d \in V
      BY <1>4, <2>1, <2>3 DEF NestedFits, x
    <3>2. ASSUME d \in V, LiveAt(y, d) PROVE BlockTag(d) \in Tags(w, c)
      <4>1. BlockTag(d) \in Tags(v, c) /\ BlockTag(d) \notin E
        BY <1>4, <3>1, <3>2
      <4>2. ~Stale(v, c, V, BlockTag(d))
        BY <3>2, TagsApart DEF Stale
      <4>. QED
        BY <1>1, <4>1, <4>2
    <3>. QED
      BY <1>4, <1>5, <1>6, <3>1, <3>2
  <2>. QED
    BY <2>2, <2>3 DEF NestedFits, y
<1>11. ASSUME NEW d \in Level PROVE HandleFits(w, c, d)
  <2>. SUFFICES ASSUME v.handle[d].conn = c, w.handle[d].tag # Gone
                PROVE  /\ w.handle[d].tag \in Tags(w, c)
                       /\ w.handle[d].tag = IF d = c THEN Root ELSE BlockTag(d)
                       /\ Creates(w, c) => d = c
    BY <1>2 DEF HandleFits
  <2>1. w.handle[d].tag = v.handle[d].tag /\ v.handle[d].tag \notin E
    BY <1>1
  <2>2. /\ v.handle[d].tag \in Tags(v, c)
        /\ v.handle[d].tag = IF d = c THEN Root ELSE BlockTag(d)
        /\ Creates(v, c) => d = c
    BY <2>1 DEF Ordered, HandleFits
  <2>3. ~Stale(v, c, V, v.handle[d].tag)
    <3>. SUFFICES ASSUME NEW e \in Level \ V, v.handle[d].tag = BlockTag(e), Entered(x, e)
                  PROVE  FALSE
      BY DEF Stale, x
    <3>1. Creates(v, c)
      BY DEF Ordered, NestedFits, x
    <3>. QED
      BY <2>2, <3>1, TagsApart
  <2>. QED
    BY <1>1, <1>6, <2>1, <2>2, <2>3
<1>. QED
  BY <1>1, <1>8, <1>9, <1>10, <1>11 DEF Ordered

\* Two states of the owning session that differ in nothing the savepoints need: it may
\* be stuck from now on, or no longer when it took none but those of open blocks.
Alike(x, y, V) ==
    /\ y.mode = x.mode /\ (x.mode = "create_savepoint" => y.join = x.join)
    /\ (x.stuck => y.stuck) \/ \A d \in Level : Entered(x, d) => d \in V
    /\ Len(y.nested) = Len(x.nested) /\ \A i \in 1 .. Len(x.nested) : y.nested[i] = x.nested[i]

\* A session replaced by another one.
Replaces(v, w, c, s) ==
    /\ w.stack[c] = v.stack[c] /\ w.handle = v.handle
    /\ \A a \in Level \ {s} : w.session[a] = v.session[a]

LEMMA SessionKeeps ==
    ASSUME NEW v, NEW w, NEW c \in Level, NEW V, NEW s \in Level, Ordered(v, c, V),
           Replaces(v, w, c, s), Alike(Owning(v, c), Owning(w, c), V),
           JoinFits(w, c, V, s), ModeFits(w, c, s)
    PROVE  Ordered(w, c, V)
<1>. DEFINE x == Owning(v, c)
            y == Owning(w, c)
<1>1. /\ Tags(w, c) = Tags(v, c) /\ (Rising(w, c) <=> Rising(v, c)) /\ w.handle = v.handle
  BY DEF Replaces, Tags, Rising
<1>2. /\ \A d : Entered(y, d) <=> Entered(x, d)
      /\ \A d : LiveAt(y, d) <=> LiveAt(x, d)
      /\ Climbs(y) <=> Climbs(x)
  BY DEF Alike, Entered, LiveAt, Climbs
<1>3. Creates(w, c) <=> Creates(v, c)
  BY DEF Alike, Creates
<1>4. Creates(v, c) => y.join = x.join
  BY DEF Alike, Creates
<1>5. (x.stuck => y.stuck) \/ \A d \in Level : Entered(x, d) => d \in V
  BY DEF Alike
<1>. HIDE DEF x, y
<1>6. \A t : Stale(w, c, V, t) <=> Stale(v, c, V, t)
  BY <1>2 DEF Stale, x, y
<1>7. \A t \in Tags(w, c) : TagHeld(w, c, t)
  <2>1. \A t : TagHeld(v, c, t) => TagHeld(w, c, t)
    BY <1>1, <1>2, <1>3, <1>4 DEF TagHeld, x, y
  <2>. QED
    BY <1>1, <2>1 DEF Ordered
<1>8. \A a \in Level : JoinFits(w, c, V, a) /\ ModeFits(w, c, a)
  <2>1. ASSUME NEW a \in Level, a # s PROVE JoinFits(w, c, V, a) /\ ModeFits(w, c, a)
    <3>1. w.session[a] = v.session[a] /\ JoinFits(v, c, V, a) /\ ModeFits(v, c, a)
      BY <2>1 DEF Replaces, Ordered
    <3>. QED
      BY <1>1, <1>3, <1>6, <3>1 DEF JoinFits, ModeFits
  <2>. QED
    BY <2>1
<1>9. NestedFits(w, c, V)
  <2>1. NestedFits(v, c, V)
    BY DEF Ordered
  <2>. QED
    BY <1>1, <1>2, <1>3, <1>5, <2>1 DEF NestedFits, x, y
<1>10. \A d \in Level : HandleFits(w, c, d)
  BY <1>1, <1>3 DEF Ordered, HandleFits
<1>. QED
  BY <1>1, <1>7, <1>8, <1>9, <1>10 DEF Ordered

\* A session on the connection, or not, that joined nothing.
Idles(x, c) == x.conn = c => /\ x.join = NoTag /\ ~x.commits /\ Len(x.nested) = 0
                             /\ x.mode = "rollback_only"

LEMMA IdleKeeps ==
    ASSUME NEW v, NEW w, NEW c \in Level, NEW V, NEW s \in Level \ {c}, Ordered(v, c, V),
           Replaces(v, w, c, s), Idles(w.session[s], c)
    PROVE  Ordered(w, c, V)
<1>1. Owning(w, c) = Owning(v, c)
  BY DEF Owning, Replaces
<1>2. Alike(Owning(v, c), Owning(w, c), V)
  BY <1>1 DEF Alike
<1>3. JoinFits(w, c, V, s) /\ ModeFits(w, c, s)
  BY DEF Idles, JoinFits, ModeFits
<1>. QED
  BY <1>2, <1>3, SessionKeeps

\* The fields that matter stay, and it may be stuck from now on.
SameJoined(x, y) ==
    /\ y.mode = x.mode /\ y.conn = x.conn /\ y.join = x.join /\ y.commits = x.commits
    /\ y.nested = x.nested /\ (x.stuck => y.stuck)

LEMMA SameKeeps ==
    ASSUME NEW v, NEW w, NEW c \in Level, NEW V, NEW s \in Level, Ordered(v, c, V),
           Replaces(v, w, c, s), SameJoined(v.session[s], w.session[s])
    PROVE  Ordered(w, c, V)
<1>1. Alike(Owning(v, c), Owning(w, c), V)
  <2>1. CASE s # c
    <3>1. Owning(w, c) = Owning(v, c)
      BY <2>1 DEF Owning, Replaces
    <3>. QED
      BY <3>1 DEF Alike
  <2>2. CASE s = c /\ v.session[c].conn = c
    BY <2>2 DEF Owning, Alike, SameJoined
  <2>3. CASE s = c /\ v.session[c].conn # c
    BY <2>3 DEF Owning, Alike, SameJoined
  <2>. QED
    BY <2>1, <2>2, <2>3
<1>2. Tags(w, c) = Tags(v, c)
  BY DEF Replaces, Tags
<1>3. Creates(w, c) <=> Creates(v, c)
  BY <1>1 DEF Alike, Creates
<1>4. \A t : Stale(v, c, V, t) => Stale(w, c, V, t)
  BY <1>1 DEF Stale, Alike, Entered
<1>5. JoinFits(v, c, V, s) /\ ModeFits(v, c, s)
  BY DEF Ordered
<1>6. JoinFits(w, c, V, s) /\ ModeFits(w, c, s)
  BY <1>2, <1>3, <1>4, <1>5 DEF JoinFits, ModeFits, SameJoined
<1>. QED
  BY <1>1, <1>6, SessionKeeps

\* A session is no longer stuck.
LEMMA UnstuckKeeps ==
    ASSUME NEW v, NEW w, NEW c \in Level, NEW V, Ordered(v, c, V),
           Replaces(v, w, c, c), v.session[c].conn = c, w.session[c].conn = c,
           w.session[c].mode = v.session[c].mode, w.session[c].join = v.session[c].join,
           w.session[c].commits = v.session[c].commits, w.session[c].nested = v.session[c].nested,
           \A d \in Level : Entered(v.session[c], d) => d \in V
    PROVE  Ordered(w, c, V)
<1>1. Owning(v, c) = v.session[c] /\ Owning(w, c) = w.session[c]
  BY DEF Owning
<1>2. Alike(Owning(v, c), Owning(w, c), V)
  BY <1>1 DEF Alike
<1>3. Creates(w, c) <=> Creates(v, c)
  BY <1>2 DEF Alike, Creates
<1>4. Tags(w, c) = Tags(v, c)
  BY DEF Replaces, Tags
<1>5. \A t : Stale(v, c, V, t) => Stale(w, c, V, t)
  BY <1>2 DEF Stale, Alike, Entered
<1>6. JoinFits(w, c, V, c) /\ ModeFits(w, c, c)
  BY <1>3, <1>4, <1>5 DEF Ordered, JoinFits, ModeFits
<1>. QED
  BY <1>2, <1>6, SessionKeeps

\* The owning session gives up nested transactions that are gone, and that no session
\* has joined.
LEMMA NestedCutKeeps ==
    ASSUME NEW v, Ok(v), NEW w, NEW c \in Level, NEW V, Ordered(v, c, V), v.session[c].conn = c,
           Replaces(v, w, c, c), w.session[c].conn = c,
           w.session[c].mode = v.session[c].mode, w.session[c].join = v.session[c].join,
           w.session[c].commits = v.session[c].commits,
           v.session[c].stuck => w.session[c].stuck,
           NEW n \in Nat, n <= Len(v.session[c].nested), Len(w.session[c].nested) = n,
           \A i \in 1 .. n : w.session[c].nested[i] = v.session[c].nested[i],
           \A i \in n + 1 .. Len(v.session[c].nested) :
              /\ BlockTag(v.session[c].nested[i].of) \notin Tags(v, c)
              /\ \A s \in Level : v.session[s].conn = c => v.session[s].join # BlockTag(v.session[c].nested[i].of)
    PROVE  Ordered(w, c, V)
<1>. DEFINE x == v.session[c]
            y == w.session[c]
            m == Len(x.nested)
<1>0. v \in World /\ x \in Session
  BY WorldFields DEF Ok
<1>1. Owning(v, c) = x /\ Owning(w, c) = y
  BY DEF Owning
<1>2. /\ Tags(w, c) = Tags(v, c) /\ (Rising(w, c) <=> Rising(v, c)) /\ w.handle = v.handle
  BY DEF Replaces, Tags, Rising
<1>3. m \in Nat
  BY <1>0 DEF Session
<1>4. Creates(w, c) <=> Creates(v, c)
  BY <1>1 DEF Creates
<1>. HIDE DEF m
<1>5. 1 .. n \subseteq 1 .. m
  BY <1>3 DEF m
<1>6. /\ \A d : Entered(y, d) => Entered(x, d)
      /\ \A d : LiveAt(y, d) => LiveAt(x, d)
  BY <1>5 DEF Entered, LiveAt, m
<1>7. Climbs(x) => Climbs(y)
  BY <1>5 DEF Climbs, m
<1>8. /\ \A d : Entered(x, d) => Entered(y, d) \/ \E i \in n + 1 .. m : x.nested[i].of = d
      /\ \A d : LiveAt(x, d) => LiveAt(y, d) \/ \E i \in n + 1 .. m : x.nested[i].of = d
  <2>1. \A i \in 1 .. m : i \in 1 .. n \/ i \in n + 1 .. m
    BY <1>3
  <2>. QED
    BY <2>1 DEF Entered, LiveAt, m
<1>9. ASSUME NEW t \in Tags(w, c) PROVE TagHeld(w, c, t)
  <2>1. TagHeld(v, c, t)
    BY <1>2, <1>9 DEF Ordered
  <2>2. ASSUME NEW d \in Level, d > c, t = BlockTag(d), LiveAt(x, d) PROVE LiveAt(y, d)
    BY <1>2, <1>8, <1>9, <2>2 DEF m
  <2>. QED
    BY <1>1, <1>2, <1>4, <2>1, <2>2 DEF TagHeld
<1>10. ASSUME NEW s \in Level, v.session[s].conn = c, NEW t, t = v.session[s].join, Stale(v, c, V, t)
       PROVE  Stale(w, c, V, t)
  <2>1. PICK d \in Level \ V : t = BlockTag(d) /\ Entered(x, d)
    BY <1>1, <1>10 DEF Stale
  <2>2. \A i \in n + 1 .. m : v.session[s].join # BlockTag(x.nested[i].of)
    BY <1>10 DEF m
  <2>3. Entered(y, d)
    BY <1>8, <1>10, <2>1, <2>2
  <2>. QED
    BY <1>1, <2>1, <2>3 DEF Stale
<1>11. ASSUME NEW s \in Level PROVE JoinFits(w, c, V, s) /\ ModeFits(w, c, s)
  <2>1. JoinFits(v, c, V, s) /\ ModeFits(v, c, s)
    BY DEF Ordered
  <2>2. /\ w.session[s].conn = v.session[s].conn /\ w.session[s].join = v.session[s].join
        /\ w.session[s].mode = v.session[s].mode /\ w.session[s].commits = v.session[s].commits
        /\ Len(v.session[s].nested) = 0 => Len(w.session[s].nested) = 0
    <3>1. CASE s = c
      BY <3>1
    <3>2. CASE s # c
      BY <3>2 DEF Replaces
    <3>. QED
      BY <3>1, <3>2
  <2>3. JoinFits(w, c, V, s)
    BY <1>2, <1>10, <2>1, <2>2 DEF JoinFits
  <2>4. ModeFits(w, c, s)
    BY <1>4, <2>1, <2>2 DEF ModeFits
  <2>. QED
    BY <2>3, <2>4
<1>12. NestedFits(w, c, V)
  <2>1. NestedFits(v, c, V)
    BY DEF Ordered
  <2>2. Climbs(y)
    BY <1>1, <1>7, <2>1 DEF NestedFits
  <2>. QED
    BY <1>1, <1>2, <1>4, <1>6, <2>1, <2>2 DEF NestedFits
<1>13. \A d \in Level : HandleFits(w, c, d)
  BY <1>2, <1>4 DEF Ordered, HandleFits
<1>. QED
  BY <1>2, <1>9, <1>11, <1>12, <1>13 DEF Ordered

\* The session of the block that opened the connection begins anew, with no savepoint
\* of its own left.
LEMMA OwnerResets ==
    ASSUME NEW v, NEW w, NEW c \in Level, NEW V, Ordered(v, c, V),
           Replaces(v, w, c, c), v.session[c].conn = c, Len(v.session[c].nested) = 0,
           Creates(v, c) => Tags(v, c) \subseteq {Root},
           w.session[c].conn = c, w.session[c].mode = v.session[c].mode,
           w.session[c].join = NoTag, ~w.session[c].commits, Len(w.session[c].nested) = 0
    PROVE  Ordered(w, c, V)
<1>. DEFINE x == v.session[c]
            y == w.session[c]
<1>1. Owning(v, c) = x /\ Owning(w, c) = y
  BY DEF Owning
<1>2. /\ Tags(w, c) = Tags(v, c) /\ (Rising(w, c) <=> Rising(v, c)) /\ w.handle = v.handle
  BY DEF Replaces, Tags, Rising
<1>3. \A d : ~Entered(x, d) /\ ~LiveAt(x, d) /\ ~Entered(y, d) /\ ~LiveAt(y, d)
  BY DEF Entered, LiveAt
<1>4. Creates(w, c) <=> Creates(v, c)
  BY <1>1 DEF Creates
<1>5. ASSUME NEW t \in Tags(w, c) PROVE TagHeld(w, c, t)
  <2>1. TagHeld(v, c, t)
    BY <1>2, <1>5 DEF Ordered
  <2>2. Creates(v, c) => t = Root
    BY <1>2, <1>5
  <2>. QED
    BY <1>1, <1>2, <1>3, <2>1, <2>2 DEF TagHeld
<1>6. ASSUME NEW s \in Level PROVE JoinFits(w, c, V, s) /\ ModeFits(w, c, s)
  <2>1. JoinFits(v, c, V, s) /\ ModeFits(v, c, s)
    BY DEF Ordered
  <2>2. CASE s = c
    <3>1. JoinFits(w, c, V, s)
      BY <2>2 DEF JoinFits
    <3>2. ModeFits(w, c, s)
      BY <1>1, <1>4, <2>1, <2>2 DEF ModeFits
    <3>. QED
      BY <3>1, <3>2
  <2>3. CASE s # c
    <3>1. w.session[s] = v.session[s]
      BY <2>3 DEF Replaces
    <3>2. \A t : ~Stale(v, c, V, t)
      BY <1>1, <1>3 DEF Stale
    <3>. QED
      BY <1>2, <1>4, <2>1, <3>1, <3>2 DEF JoinFits, ModeFits
  <2>. QED
    BY <2>2, <2>3
<1>7. NestedFits(w, c, V)
  <2>1. Climbs(y)
    BY DEF Climbs
  <2>. QED
    BY <1>1, <1>3, <2>1 DEF NestedFits
<1>8. \A d \in Level : HandleFits(w, c, d)
  BY <1>2, <1>4 DEF Ordered, HandleFits
<1>. QED
  BY <1>2, <1>5, <1>6, <1>7, <1>8 DEF Ordered

\* The end of the innermost block whose savepoint a session took.
LEMMA ShrinkKeeps ==
    ASSUME NEW v, NEW c \in Level, NEW V \in SUBSET Level, NEW d \in Level, Ordered(v, c, V),
           \A e \in V : e <= d, Owning(v, c).stuck \/ ~Entered(Owning(v, c), d)
    PROVE  Ordered(v, c, V \ {d})
<1>. DEFINE x == Owning(v, c)
            W == V \ {d}
<1>1. \A t : Stale(v, c, V, t) => Stale(v, c, W, t)
  BY DEF Stale
<1>2. \A s \in Level : JoinFits(v, c, V, s) => JoinFits(v, c, W, s)
  BY <1>1 DEF JoinFits
<1>3. NestedFits(v, c, V)
  BY DEF Ordered
<1>4. ASSUME NEW a \in Level, Entered(x, a)
      PROVE  /\ ~x.stuck => a \in W
             /\ \A e \in W : a < e /\ Entered(x, e) => a \in W
  <2>1. ~x.stuck => a \in V
    BY <1>3, <1>4 DEF NestedFits
  <2>2. ~x.stuck => a # d
    BY <1>4
  <2>3. ASSUME NEW e \in W, a < e, Entered(x, e) PROVE a \in W
    <3>1. a \in V
      BY <1>3, <1>4, <2>3 DEF NestedFits
    <3>2. e <= d /\ a \in Nat /\ e \in Nat /\ d \in Nat
      BY <2>3, MaxDepthAssumption DEF Level
    <3>. QED
      BY <2>3, <3>1, <3>2
  <2>. QED
    BY <2>1, <2>2, <2>3
<1>5. NestedFits(v, c, W)
  BY <1>3, <1>4 DEF NestedFits
<1>. QED
  BY <1>2, <1>5 DEF Ordered

\* A use of the connection by one session.
LEMMA JoinedKeeps ==
    ASSUME NEW v, NEW w, NEW c \in Level, NEW V, NEW s \in Level, Ordered(v, c, V),
           w.handle = v.handle, \A a \in Level \ {s} : w.session[a] = v.session[a],
           SameButJoin(v.session[s], w.session[s]),
           v.session[s].join # NoTag => w.session[s].join = v.session[s].join,
           Rising(w, c), Tags(v, c) \subseteq Tags(w, c),
           \A d \in Level : BlockTag(d) \in Tags(w, c) => BlockTag(d) \in Tags(v, c),
           \A t \in Tags(w, c) \ Tags(v, c) : TagHeld(w, c, t),
           JoinFits(w, c, V, s), ModeFits(w, c, s)
    PROVE  Ordered(w, c, V)
<1>. DEFINE x == Owning(v, c)
            y == Owning(w, c)
<1>1. /\ y.mode = x.mode /\ y.stuck = x.stuck /\ y.nested = x.nested
      /\ x.join # NoTag => y.join = x.join
  <2>1. CASE s # c
    BY <2>1 DEF Owning
  <2>2. CASE s = c
    BY <2>2 DEF Owning, SameButJoin
  <2>. QED
    BY <2>1, <2>2
<1>2. /\ \A d : Entered(y, d) <=> Entered(x, d)
      /\ \A d : LiveAt(y, d) <=> LiveAt(x, d)
      /\ Climbs(y) <=> Climbs(x)
  BY <1>1 DEF Entered, LiveAt, Climbs
<1>3. Creates(w, c) <=> Creates(v, c)
  BY <1>1 DEF Creates
<1>. HIDE DEF x, y
<1>4. \A t : Stale(w, c, V, t) <=> Stale(v, c, V, t)
  BY <1>2 DEF Stale, x, y
<1>5. ASSUME NEW t \in Tags(w, c) PROVE TagHeld(w, c, t)
  <2>1. CASE t \in Tags(v, c)
    <3>1. TagHeld(v, c, t)
      BY <2>1 DEF Ordered
    <3>2. x.join = SessionTag(c) => y.join = SessionTag(c)
      BY <1>1, TagsApart
    <3>. QED
      BY <1>2, <1>3, <3>1, <3>2 DEF TagHeld, x, y
  <2>. QED
    BY <1>5, <2>1
<1>6. ASSUME NEW a \in Level, a # s PROVE JoinFits(w, c, V, a) /\ ModeFits(w, c, a)
  <2>1. JoinFits(v, c, V, a) /\ ModeFits(v, c, a) /\ w.session[a] = v.session[a]
    BY <1>6 DEF Ordered
  <2>. QED
    BY <1>3, <1>4, <2>1 DEF JoinFits, ModeFits
<1>7. NestedFits(w, c, V)
  <2>1. NestedFits(v, c, V)
    BY DEF Ordered
  <2>. QED
    BY <1>1, <1>2, <1>3, <2>1 DEF NestedFits, x, y
<1>8. \A d \in Level : HandleFits(w, c, d)
  BY <1>3 DEF Ordered, HandleFits
<1>. QED
  BY <1>5, <1>6, <1>7, <1>8 DEF Ordered

\* The blocks' savepoints rank above the level that opened the connection.
LEMMA HeldAbove ==
    ASSUME NEW v, NEW c \in Level, NEW V, Ordered(v, c, V)
    PROVE  /\ \A d : BlockTag(d) \in Tags(v, c) => d \in Level /\ d > c
           /\ SessionTag(c) \in Tags(v, c) => Creates(v, c) /\ Owning(v, c).join = SessionTag(c)
           /\ \A t \in Tags(v, c) : \/ t = Root \/ t = SessionTag(c)
                                    \/ \E d \in Level : d > c /\ t = BlockTag(d)
           /\ Creates(v, c) => \A d : BlockTag(d) \in Tags(v, c) => LiveAt(Owning(v, c), d)
<1>1. \A t \in Tags(v, c) : TagHeld(v, c, t)
  BY DEF Ordered
<1>2. ASSUME NEW d, BlockTag(d) \in Tags(v, c)
      PROVE  d \in Level /\ d > c /\ (Creates(v, c) => LiveAt(Owning(v, c), d))
  <2>1. PICK e \in Level : /\ e > c /\ BlockTag(d) = BlockTag(e)
                           /\ \/ v.handle[e].conn = c /\ v.handle[e].tag = BlockTag(d)
                              \/ LiveAt(Owning(v, c), e)
    BY <1>1, <1>2, TagsApart DEF TagHeld
  <2>2. e = d
    BY <2>1, TagsApart
  <2>3. HandleFits(v, c, d)
    BY <2>1, <2>2 DEF Ordered
  <2>4. Creates(v, c) => LiveAt(Owning(v, c), d)
    BY <2>1, <2>2, <2>3, TagsApart, MaxDepthAssumption DEF HandleFits, Level
  <2>. QED
    BY <2>1, <2>2, <2>4
<1>3. SessionTag(c) \in Tags(v, c) => Creates(v, c) /\ Owning(v, c).join = SessionTag(c)
  BY <1>1, TagsApart DEF TagHeld
<1>4. \A t \in Tags(v, c) : \/ t = Root \/ t = SessionTag(c)
                            \/ \E d \in Level : d > c /\ t = BlockTag(d)
  BY <1>1 DEF TagHeld
<1>. QED
  BY <1>2, <1>3, <1>4

LEMMA JoinsKeep ==
    ASSUME NEW v, Ok(v), NEW w, NEW c \in Level, NEW V, NEW s \in Level, Ordered(v, c, V),
           Joins(v, w, s), v.session[s].conn = c
    PROVE  Ordered(w, c, V)
<1>. DEFINE x == v.session[s]
            y == w.session[s]
<1>1. /\ w.handle = v.handle /\ \A a \in Level \ {s} : w.session[a] = v.session[a]
      /\ SameButJoin(x, y)
  BY DEF Joins
<1>2. JoinFits(v, c, V, s) /\ ModeFits(v, c, s) /\ Rising(v, c)
  BY DEF Ordered
<1>3. Creates(w, c) <=> Creates(v, c)
  <2>1. CASE s # c
    BY <1>1, <2>1 DEF Creates, Owning
  <2>2. CASE s = c
    BY <1>1, <2>2 DEF Creates, Owning, SameButJoin
  <2>. QED
    BY <2>1, <2>2
<1>4. \A t : Stale(v, c, V, t) => Stale(w, c, V, t)
  <2>1. CASE s # c
    BY <1>1, <2>1 DEF Stale, Owning
  <2>2. CASE s = c
    BY <1>1, <2>2 DEF Stale, Owning, SameButJoin, Entered
  <2>. QED
    BY <2>1, <2>2
<1>5. y.mode = x.mode /\ y.conn = c /\ y.nested = x.nested
  BY <1>1 DEF SameButJoin
<1>6. v \in World
  BY DEF Ok
<1>7. \A d : BlockTag(d) \notin {Root, SessionTag(c)}
  BY TagsApart
<1>. HIDE DEF x, y
<1>8. CASE KeepsJoin(v, w, s, c)
  <2>1. /\ x.join # NoTag /\ y.join = x.join /\ y.commits = x.commits
        /\ Tags(w, c) = IF Tags(v, c) = {} THEN {Root} ELSE Tags(v, c)
        /\ Rising(w, c)
    BY <1>2, <1>8 DEF KeepsJoin, Began, x, y
  <2>2. /\ Tags(v, c) \subseteq Tags(w, c)
        /\ \A t \in Tags(w, c) \ Tags(v, c) : t = Root
    BY <2>1
  <2>3. \A t \in Tags(w, c) \ Tags(v, c) : TagHeld(w, c, t)
    BY <2>2 DEF TagHeld
  <2>4. \A d \in Level : BlockTag(d) \in Tags(w, c) => BlockTag(d) \in Tags(v, c)
    BY <1>7, <2>2
  <2>5. JoinFits(w, c, V, s)
    BY <1>2, <1>4, <1>5, <2>1, <2>2, <2>4 DEF JoinFits, x, y
  <2>6. ModeFits(w, c, s)
    BY <1>2, <1>3, <1>5, <2>1 DEF ModeFits, x, y
  <2>. QED
    BY <1>1, <2>1, <2>2, <2>3, <2>4, <2>5, <2>6, JoinedKeeps DEF x, y
<1>9. CASE BeginsRoot(v, w, s, c)
  <2>1. /\ x.join = NoTag /\ y.join = Root /\ y.commits
        /\ Tags(v, c) = {} /\ Tags(w, c) = {Root} /\ Rising(w, c)
    BY <1>2, <1>9 DEF BeginsRoot, Began, x, y
  <2>2. \A t \in Tags(w, c) \ Tags(v, c) : TagHeld(w, c, t)
    BY <2>1 DEF TagHeld
  <2>3. \A d \in Level : BlockTag(d) \notin Tags(w, c)
    BY <1>7, <2>1
  <2>4. JoinFits(w, c, V, s)
    BY <2>1, <2>3 DEF JoinFits, y
  <2>5. ModeFits(w, c, s)
    BY <1>2, <1>3, <1>5, <2>1, TagsApart DEF ModeFits, x, y
  <2>. QED
    BY <1>1, <2>1, <2>2, <2>3, <2>4, <2>5, JoinedKeeps DEF x, y
<1>10. CASE Isolates(v, w, s, c)
  <2>1. /\ x.join = NoTag /\ y.join = SessionTag(s) /\ y.commits /\ x.mode # "rollback_only"
        /\ Tags(w, c) = Tags(v, c) \cup {SessionTag(s)}
        /\ (\A t \in Tags(v, c) : Rank(t) < s) => Rising(w, c)
    BY <1>2, <1>10 DEF Isolates, x, y
  <2>2. s = c /\ Creates(v, c)
    BY <1>2, <2>1 DEF ModeFits, x
  <2>3. Owning(v, c) = x /\ Owning(w, c) = y
    BY <1>5, <2>2 DEF Owning, x, y
  <2>4. Len(x.nested) = 0
    BY <1>2, <2>1, <2>2 DEF ModeFits, x
  <2>5. \A t \in Tags(v, c) : t = Root
    <3>. SUFFICES ASSUME NEW t \in Tags(v, c), t # Root PROVE FALSE
      OBVIOUS
    <3>1. t # SessionTag(c)
      BY <2>1, <2>3, HeldAbove, TagsApart
    <3>2. PICK d \in Level : t = BlockTag(d)
      BY <3>1, HeldAbove
    <3>3. LiveAt(x, d)
      BY <2>2, <2>3, <3>2, HeldAbove
    <3>. QED
      BY <2>4, <3>3 DEF LiveAt
  <2>6. Rising(w, c)
    BY <2>1, <2>5, TagsApart, MaxDepthAssumption DEF Level
  <2>7. TagHeld(w, c, SessionTag(c))
    BY <1>3, <2>1, <2>2, <2>3 DEF TagHeld
  <2>8. \A d \in Level : BlockTag(d) \notin Tags(w, c)
    BY <1>7, <2>1, <2>2, <2>5
  <2>9. JoinFits(w, c, V, s)
    BY <2>1, <2>8 DEF JoinFits, y
  <2>10. ModeFits(w, c, s)
    BY <1>3, <2>1, <2>2, TagsApart DEF ModeFits, y
  <2>. QED
    BY <1>1, <2>1, <2>2, <2>6, <2>7, <2>8, <2>9, <2>10, JoinedKeeps DEF x, y
<1>11. CASE SharesTop(v, w, s, c)
  <2>1. /\ x.join = NoTag /\ x.mode # "create_savepoint" /\ ~y.commits
        /\ y.join \in Tags(v, c) /\ Tags(w, c) = Tags(v, c)
        /\ Rising(w, c) /\ \A t \in Tags(v, c) : Rank(t) <= Rank(y.join)
    BY <1>2, <1>11 DEF SharesTop, x, y
  <2>2. ~(s = c /\ Creates(v, c))
    BY <2>1 DEF Creates, Owning, x, NoSession
  <2>3. JoinFits(w, c, V, s)
    <3>1. \A d : Rank(BlockTag(d)) = d
      BY TagsApart
    <3>2. \A d \in Level : BlockTag(d) \in Tags(w, c) => d <= Rank(y.join)
      BY <2>1, <3>1
    <3>. QED
      BY <2>1, <3>2 DEF JoinFits, y
  <2>4. ModeFits(w, c, s)
    BY <1>2, <1>3, <1>5, <2>1, <2>2 DEF ModeFits, x, y
  <2>. QED
    BY <1>1, <2>1, <2>3, <2>4, JoinedKeeps DEF x, y
<1>. QED
  BY <1>8, <1>9, <1>10, <1>11 DEF Joins

------------------------------------------------------------------------------
(***************************************************************************)
(* What each operator of SQLAlchemy leaves in order on the connection of    *)
(* its session; the others it does not touch (Only).                        *)
(***************************************************************************)

\* What is told twice is told of both.
LEMMA CutForgets ==
    ASSUME NEW v, NEW a \in World, NEW c \in Level, NEW r, NEW D, NEW E, Cuts(v, a, c, r, D)
    PROVE  Cuts(v, Forget(a, c, E), c, r, D \cup E)
<1>. DEFINE w == Forget(a, c, E)
<1>1. /\ Only(a, w, c) /\ w.stack = a.stack
      /\ \A s \in Level : a.session[s].conn = c => Told(a.session[s], w.session[s], E)
      /\ \A d \in Level : a.handle[d].conn = c =>
            w.handle[d].tag = IF a.handle[d].tag \in E THEN Gone ELSE a.handle[d].tag
  BY ForgetTells
<1>. HIDE DEF w
<1>2. Only(v, a, c) /\ Only(v, w, c)
  BY <1>1, OnlyTrans DEF Cuts
<1>3. Rising(w, c) /\ Tags(w, c) = {t \in Tags(v, c) : Rank(t) < r}
  BY <1>1 DEF Cuts, Rising, Tags
<1>4. ASSUME NEW s \in Level, v.session[s].conn = c
      PROVE  Told(v.session[s], w.session[s], D \cup E)
  <2>1. Told(v.session[s], a.session[s], D) /\ Told(a.session[s], w.session[s], E)
    BY <1>1, <1>2, <1>4 DEF Cuts, Only
  <2>. QED
    BY <2>1 DEF Told
<1>5. ASSUME NEW d \in Level, v.handle[d].conn = c
      PROVE  w.handle[d].tag = IF v.handle[d].tag \in D \cup E THEN Gone ELSE v.handle[d].tag
  BY <1>1, <1>2, <1>5 DEF Cuts, Only
<1>. QED
  BY <1>2, <1>3, <1>4, <1>5 DEF Cuts, w

\* To cut above all is to cut nothing.
LEMMA CutsNothing ==
    ASSUME NEW v \in World, NEW c \in Level, Rising(v, c)
    PROVE  Cuts(v, v, c, MaxDepth + 1, {})
<1>1. \A t \in Tags(v, c) : Rank(t) \in 0 .. MaxDepth
  BY TagsAre, TagsApart
<1>2. \A t \in Tags(v, c) : Rank(t) < MaxDepth + 1
  BY <1>1, MaxDepthAssumption
<1>3. Tags(v, c) = {t \in Tags(v, c) : Rank(t) < MaxDepth + 1}
  BY <1>2
<1>4. \A s : Told(v.session[s], v.session[s], {})
  BY DEF Told
<1>. QED
  BY <1>3, <1>4, OnlySelf DEF Cuts

\* To end a savepoint is in order when what is above it is stale.
LEMMA EndsInOrder ==
    ASSUME NEW v, Ok(v), NEW c \in Level, NEW V, NEW t, t # Root, t # NoTag, Ordered(v, c, V),
           \A u \in Tags(v, c) : u = t \/ Stale(v, c, V, u) \/ Rank(u) < Rank(t)
    PROVE  \A w \in {RollbackTo(v, c, t), Release(v, c, t)} :
              /\ Ordered(w, c, V)
              /\ t \notin Tags(w, c) /\ Tags(w, c) \subseteq Tags(v, c)
              /\ \A s \in Level : Len(w.session[s].nested) = Len(v.session[s].nested)
<1>. SUFFICES ASSUME NEW w, w = RollbackTo(v, c, t) \/ w = Release(v, c, t)
              PROVE  /\ Ordered(w, c, V)
                     /\ t \notin Tags(w, c) /\ Tags(w, c) \subseteq Tags(v, c)
                     /\ \A s \in Level : Len(w.session[s].nested) = Len(v.session[s].nested)
  OBVIOUS
<1>1. /\ Only(v, w, c)
      /\ Rising(v, c) /\ t \in Tags(v, c) => Cuts(v, w, c, Rank(t), {t})
      /\ t \notin Tags(v, c) => w = v
  BY CutsBack, CutsOff
<1>2. CASE t \notin Tags(v, c)
  BY <1>1, <1>2
<1>3. CASE t \in Tags(v, c)
  <2>1. Cuts(v, w, c, Rank(t), {t})
    BY <1>1, <1>3 DEF Ordered
  <2>2. t \in LiveTag
    BY <1>3, TagsAre DEF Ok
  <2>3. ~(Rank(t) < Rank(t))
    BY <2>2, TagsApart, MaxDepthAssumption
  <2>4. Ordered(w, c, V)
    BY <1>3, <2>1, <2>3, CutKeeps
  <2>5. t \notin Tags(w, c) /\ Tags(w, c) \subseteq Tags(v, c)
    BY <2>1, <2>3 DEF Cuts
  <2>6. \A s \in Level : Len(w.session[s].nested) = Len(v.session[s].nested)
    BY <2>1 DEF Cuts, Only, Told
  <2>. QED
    BY <2>4, <2>5, <2>6
<1>. QED
  BY <1>2, <1>3

\* The end of a root leaves its connection in order.
LEMMA RootEndsInOrder ==
    ASSUME NEW v, Ok(v), NEW c \in Level, NEW V, NEW K, Ordered(v, c, V)
    PROVE  LET w == EndRoot(v, c, K)
           IN /\ Ordered(w, c, V) /\ Tags(w, c) = {}
              /\ \A s \in Level : Len(w.session[s].nested) = Len(v.session[s].nested)
<1>. DEFINE w == EndRoot(v, c, K)
<1>1. Only(v, w, c) /\ w.stack[c] = <<>> /\ Cuts(v, w, c, 0, LiveTag)
  BY CutsAll
<1>. HIDE DEF w
<1>2. Tags(v, c) \subseteq LiveTag
  BY TagsAre DEF Ok
<1>3. \A t \in Tags(v, c) : ~(Rank(t) < 0)
  BY <1>2, TagsApart, MaxDepthAssumption
<1>4. NoTag \notin LiveTag
  BY TagsApart
<1>5. Ordered(w, c, V)
  BY <1>1, <1>2, <1>3, <1>4, CutKeeps
<1>6. Tags(w, c) = {}
  BY <1>1, <1>3 DEF Cuts
<1>7. \A s \in Level : Len(w.session[s].nested) = Len(v.session[s].nested)
  BY <1>1 DEF Cuts, Only, Told
<1>. QED
  BY <1>5, <1>6, <1>7 DEF w

\* A transaction object kept or undone touches its connection alone.
LEMMA EndsOnly ==
    ASSUME NEW v, Ok(v), NEW c, NEW t, c \in Level \/ t \in {NoTag, Gone}
    PROVE  Only(v, Undo(v, c, t), c) /\ (c \in Level => Only(v, Keep(v, c, t), c))
<1>1. ASSUME c \in Level, t = Root PROVE Only(v, Undo(v, c, t), c) /\ Only(v, Keep(v, c, t), c)
  <2>0. t \notin {NoTag, Gone}
    BY <1>1, TagsApart
  <2>1. Undo(v, c, t) = EndRoot(v, c, {})
    BY <1>1, <2>0, Zenon DEF Undo
  <2>3. Keep(v, c, t) = EndRoot(v, c, Uncommitted(v, c))
    BY <1>1, Zenon DEF Keep
  <2>2. Only(v, EndRoot(v, c, {}), c) /\ Only(v, EndRoot(v, c, Uncommitted(v, c)), c)
    BY <1>1, CutsAll
  <2>. QED
    BY <2>1, <2>2, <2>3
<1>2. c \in Level /\ t # Root => Only(v, Keep(v, c, t), c) /\ Only(v, RollbackTo(v, c, t), c)
  BY CutsOff, CutsBack DEF Keep
<1>3. t # Root => Undo(v, c, t) = IF t \in {NoTag, Gone} THEN v ELSE RollbackTo(v, c, t)
  BY DEF Undo
<1>4. Root \notin {NoTag, Gone}
  BY TagsApart
<1>. QED
  BY <1>1, <1>2, <1>3, <1>4, OnlySelf

\* So does what is done to a session alone.
LEMMA ResetsOnly ==
    ASSUME NEW v, Ok(v), NEW s \in Level
    PROVE  LET c == v.session[s].conn
               w == Reset(v, s)
               u == Stuck(v, s)
           IN /\ Only(v, w, c) /\ \A k : Replaces(v, w, k, s)
              /\ w.session[s].mode = v.session[s].mode /\ w.session[s].conn = c
              /\ w.session[s].join = NoTag /\ ~w.session[s].commits
              /\ Len(w.session[s].nested) = 0
              /\ Only(v, u, c) /\ \A k : Replaces(v, u, k, s)
              /\ SameJoined(v.session[s], u.session[s])
              /\ u.session[s].stuck
<1>. DEFINE x == v.session[s]
            y == NewSession(x.mode, x.conn)
            z == [x EXCEPT !.stuck = TRUE]
            w == Reset(v, s)
            u == Stuck(v, s)
<1>1. v \in World /\ x \in Session
  BY WorldFields DEF Ok
<1>2. w = [v EXCEPT !.session[s] = y] /\ u = [v EXCEPT !.session[s] = z]
  BY DEF Reset, Stuck
<1>3. x.mode \in Modes /\ x.conn \in 0 .. MaxDepth
  BY <1>1 DEF Session
<1>4. /\ y \in Session /\ y.mode = x.mode /\ y.conn = x.conn /\ ~y.commits
      /\ y.join = NoTag /\ y.nested = <<>>
  BY <1>3, NewSessionIs
<1>5. z \in Session /\ SameJoined(x, z) /\ z.conn = x.conn /\ z.stuck
  BY <1>1 DEF Session, SameJoined
<1>. HIDE DEF y, z
<1>6. /\ w.stack = v.stack /\ w.handle = v.handle /\ w.session[s] = y
      /\ \A a \in Level \ {s} : w.session[a] = v.session[a]
      /\ u.stack = v.stack /\ u.handle = v.handle /\ u.session[s] = z
      /\ \A a \in Level \ {s} : u.session[a] = v.session[a]
  BY <1>1, <1>2, <1>4, <1>5, WithSessionIs
<1>. HIDE DEF w, u
<1>7. Only(v, w, x.conn) /\ Only(v, u, x.conn)
  BY <1>4, <1>5, <1>6, OnlySession
<1>8. \A k : Replaces(v, w, k, s) /\ Replaces(v, u, k, s)
  BY <1>6 DEF Replaces
<1>9. Len(y.nested) = 0
  BY <1>4
<1>. QED
  BY <1>4, <1>5, <1>6, <1>7, <1>8, <1>9 DEF w, u

LEMMA ResetKeeps ==
    ASSUME NEW v, Ok(v), NEW s \in Level, NEW c \in Level, NEW V, Ordered(v, c, V),
           v.session[s].conn = c,
           s = c => Len(v.session[s].nested) = 0 /\ (Creates(v, c) => Tags(v, c) \subseteq {Root})
    PROVE  Ordered(Reset(v, s), c, V)
<1>. DEFINE w == Reset(v, s)
<1>1. /\ Replaces(v, w, c, s)
      /\ w.session[s].mode = v.session[s].mode /\ w.session[s].conn = c
      /\ w.session[s].join = NoTag /\ ~w.session[s].commits
      /\ Len(w.session[s].nested) = 0
  BY ResetsOnly
<1>. HIDE DEF w
<1>2. CASE s # c
  <2>1. v.session[s].mode = "rollback_only"
    BY <1>2 DEF Ordered, ModeFits
  <2>2. Idles(w.session[s], c)
    BY <1>1, <2>1 DEF Idles
  <2>3. Ordered(w, c, V)
    BY <1>1, <1>2, <2>2, IdleKeeps
  <2>. QED
    BY <2>3 DEF w
<1>3. CASE s = c
  <2>1. Ordered(w, c, V)
    BY <1>1, <1>3, OwnerResets
  <2>. QED
    BY <2>1 DEF w
<1>. QED
  BY <1>2, <1>3

\* With none taken through it, the owning session has its own savepoint at most.
LEMMA OwnTags ==
    ASSUME NEW v, NEW c \in Level, NEW V, Ordered(v, c, V), Creates(v, c),
           Len(v.session[c].nested) = 0
    PROVE  /\ Tags(v, c) \subseteq {Root, SessionTag(c)}
           /\ v.session[c].conn = c
           /\ v.session[c].join # SessionTag(c) => Tags(v, c) \subseteq {Root}
<1>1. Owning(v, c) = v.session[c] /\ v.session[c].conn = c
  BY DEF Creates, Owning, NoSession
<1>2. \A d : BlockTag(d) \notin Tags(v, c)
  BY <1>1, HeldAbove DEF LiveAt
<1>3. Tags(v, c) \subseteq {Root, SessionTag(c)}
  BY <1>2, HeldAbove
<1>. QED
  BY <1>1, <1>3, HeldAbove

\* The fields of a session but its nested transactions, of which it has the first m.
Shortened(x, y, m) ==
    /\ y.mode = x.mode /\ y.conn = x.conn /\ y.stuck = x.stuck
    /\ y.join = x.join /\ y.commits = x.commits
    /\ Len(y.nested) = m /\ \A i \in 1 .. m : y.nested[i].of = x.nested[i].of

\* The owning session gives up its nested transactions from the i-th on, all of them told.
LEMMA GivesUp ==
    ASSUME NEW v, Ok(v), NEW c \in Level, NEW V, Ordered(v, c, V), v.session[c].conn = c,
           NEW i \in 1 .. Len(v.session[c].nested), NEW E,
           E = {BlockTag(v.session[c].nested[j].of) : j \in i .. Len(v.session[c].nested)},
           NEW b, Ok(b), NEW r, Cuts(v, b, c, r, E),
           \A t \in Tags(v, c) : t \in E \/ Rank(t) < r,
           \A t \in Tags(v, c) : t \in E => ~(Rank(t) < r)
    PROVE  LET w == [b EXCEPT !.session[c].nested = SubSeq(@, 1, i - 1)]
           IN Ordered(w, c, V) /\ Shortened(v.session[c], w.session[c], i - 1)
<1>. DEFINE x == v.session[c]
            z == b.session[c]
            n == Len(x.nested)
            q == SubSeq(z.nested, 1, i - 1)
            y == [z EXCEPT !.nested = q]
            w == [b EXCEPT !.session[c] = y]
<1>1. [b EXCEPT !.session[c].nested = SubSeq(@, 1, i - 1)] = w
  OBVIOUS
<1>2. \A t \in E : t \notin {NoTag, Gone, Root, SessionTag(c)}
  BY TagsApart
<1>3. Ordered(b, c, V)
  BY <1>2, CutKeeps
<1>4. Told(x, z, E) /\ b.session[c].conn = c
  BY DEF Cuts, Only
<1>17. \A s \in Level : b.session[s].conn = c => Told(v.session[s], b.session[s], E)
  BY DEF Cuts, Only
<1>5. /\ n \in Nat /\ x \in Session /\ z \in Session /\ Len(z.nested) = n
      /\ \A j \in 1 .. n : z.nested[j] \in NestedSet /\ z.nested[j].of = x.nested[j].of
      /\ z.nested \in Seq(NestedSet)
  BY <1>4, SessionNested DEF Told
<1>6. i \in 1 .. n
  OBVIOUS
<1>. HIDE DEF n
<1>7. i \in 1 .. Len(z.nested)
  BY <1>5, <1>6
<1>8. /\ q \in Seq(NestedSet) /\ Len(q) = i - 1
      /\ \A j \in 1 .. i - 1 : q[j] = z.nested[j]
  BY <1>5, <1>7, PartOfNested, SubSeqProperties
<1>. HIDE DEF q
<1>9. /\ y \in Session /\ y.mode = z.mode /\ y.conn = z.conn /\ y.stuck = z.stuck
      /\ y.join = z.join /\ y.commits = z.commits /\ y.nested = q
  BY <1>5, <1>8 DEF Session, NestedSet
<1>. HIDE DEF y
<1>10. b \in World
  BY DEF Ok
<1>11. /\ w.session[c] = y /\ Replaces(b, w, c, c)
  BY <1>9, <1>10, WithSessionIs DEF Replaces
<1>. HIDE DEF w
<1>12. x.join \notin E
  <2>1. Creates(v, c)
    <3>1. Entered(x, x.nested[i].of) /\ x.nested[i].of \in Level /\ Owning(v, c) = x
      BY <1>5, <1>6 DEF Entered, Owning, NestedSet, n
    <3>. QED
      BY <3>1 DEF Ordered, NestedFits
  <2>2. x.join \in {NoTag, Gone, Root, SessionTag(c)}
    BY <2>1 DEF Ordered, ModeFits
  <2>. QED
    BY <1>2, <2>2
<1>13. /\ z.mode = x.mode /\ z.conn = c /\ z.stuck = x.stuck /\ z.commits = x.commits
       /\ z.join = x.join
  BY <1>4, <1>12 DEF Told
<1>14. ASSUME NEW j \in i .. n
       PROVE  /\ BlockTag(z.nested[j].of) \notin Tags(b, c)
              /\ \A s \in Level : b.session[s].conn = c => b.session[s].join # BlockTag(z.nested[j].of)
  <2>. DEFINE t == BlockTag(x.nested[j].of)
  <2>1. t \in E /\ z.nested[j].of = x.nested[j].of
    BY <1>5, <1>6 DEF n
  <2>. HIDE DEF t
  <2>2. t \notin Tags(b, c)
    BY <2>1 DEF Cuts
  <2>3. ASSUME NEW s \in Level, b.session[s].conn = c PROVE b.session[s].join # t
    <3>1. Told(v.session[s], b.session[s], E)
      BY <1>17, <2>3
    <3>2. b.session[s].join \notin E
      BY <1>2, <3>1 DEF Told
    <3>. QED
      BY <2>1, <3>2
  <2>. QED
    BY <2>1, <2>2, <2>3 DEF t
<1>15. Ordered(w, c, V)
  <2>1. i - 1 \in Nat /\ i - 1 <= Len(z.nested) /\ (i - 1) + 1 .. Len(z.nested) = i .. n
    BY <1>5, <1>6
  <2>2. /\ w.session[c].conn = c /\ w.session[c].mode = z.mode /\ w.session[c].join = z.join
        /\ w.session[c].commits = z.commits /\ w.session[c].stuck = z.stuck
        /\ Len(w.session[c].nested) = i - 1
        /\ \A j \in 1 .. i - 1 : w.session[c].nested[j] = z.nested[j]
    BY <1>8, <1>9, <1>11, <1>13
  <2>. HIDE DEF z
  <2>3. b.session[c] = z
    BY DEF z
  <2>. DEFINE m == i - 1
  <2>4. /\ m \in Nat /\ m <= Len(b.session[c].nested) /\ Len(w.session[c].nested) = m
        /\ \A j \in 1 .. m : w.session[c].nested[j] = b.session[c].nested[j]
    BY <2>1, <2>2, <2>3
  <2>5. \A j \in m + 1 .. Len(b.session[c].nested) :
            /\ BlockTag(b.session[c].nested[j].of) \notin Tags(b, c)
            /\ \A s \in Level : b.session[s].conn = c => b.session[s].join # BlockTag(b.session[c].nested[j].of)
    BY <1>14, <2>1, <2>3
  <2>6. /\ b.session[c].conn = c /\ w.session[c].conn = c
        /\ w.session[c].mode = b.session[c].mode /\ w.session[c].join = b.session[c].join
        /\ w.session[c].commits = b.session[c].commits
        /\ b.session[c].stuck => w.session[c].stuck
    BY <1>4, <2>2, <2>3
  <2>. HIDE DEF m
  <2>. QED
    BY <1>3, <1>11, <2>4, <2>5, <2>6, NestedCutKeeps
<1>16. Shortened(x, w.session[c], i - 1)
  <2>1. \A j \in 1 .. i - 1 : j \in 1 .. n
    BY <1>5, <1>6
  <2>. QED
    BY <1>5, <1>8, <1>9, <1>11, <1>13, <2>1 DEF Shortened
<1>. QED
  BY <1>1, <1>15, <1>16 DEF w

\* What a session with nested transactions finds on its connection: they climb, and each
\* savepoint of a block is a live one of them.
LEMMA NestedTags ==
    ASSUME NEW v, Ok(v), NEW s \in Level, NEW c \in Level, NEW V, Ordered(v, c, V),
           v.session[s].conn = c, Len(v.session[s].nested) # 0
    PROVE  LET x == v.session[s]
               n == Len(x.nested)
           IN /\ s = c /\ Creates(v, c) /\ n \in Nat
              /\ \A j \in 1 .. n : x.nested[j].of \in Level /\ x.nested[j].of > c
              /\ \A j, k \in 1 .. n : j < k => x.nested[j].of < x.nested[k].of
              /\ \A t \in Tags(v, c) : \/ t \in {Root, SessionTag(c)}
                                       \/ \E j \in 1 .. n : t = BlockTag(x.nested[j].of) /\ x.nested[j].live
<1>. DEFINE x == v.session[s]
            n == Len(x.nested)
<1>1. s = c /\ Creates(v, c)
  BY DEF Ordered, ModeFits
<1>2. Owning(v, c) = x /\ NestedFits(v, c, V)
  BY <1>1 DEF Owning, Ordered
<1>3. n \in Nat /\ \A j \in 1 .. n : x.nested[j] \in NestedSet
  BY SessionNested
<1>4. \A j \in 1 .. n : x.nested[j].of \in Level /\ Entered(x, x.nested[j].of)
  BY <1>3 DEF NestedSet, Entered
<1>5. \A j \in 1 .. n : x.nested[j].of > c
  BY <1>2, <1>4 DEF NestedFits
<1>6. \A j, k \in 1 .. n : j < k => x.nested[j].of < x.nested[k].of
  BY <1>2 DEF NestedFits, Climbs
<1>7. ASSUME NEW t \in Tags(v, c), t \notin {Root, SessionTag(c)}
      PROVE  \E j \in 1 .. n : t = BlockTag(x.nested[j].of) /\ x.nested[j].live
  <2>1. PICK d \in Level : t = BlockTag(d)
    BY <1>7, HeldAbove
  <2>2. LiveAt(x, d)
    BY <1>1, <1>2, <1>7, <2>1, HeldAbove
  <2>. QED
    BY <2>1, <2>2 DEF LiveAt
<1>. QED
  BY <1>1, <1>3, <1>4, <1>5, <1>6, <1>7

\* A session that gives up its nested transactions touches its connection alone.
LEMMA NestedOnly ==
    ASSUME NEW v, Ok(v), NEW s \in Level, NEW q \in Seq(NestedSet)
    PROVE  LET w == [v EXCEPT !.session[s].nested = q]
           IN /\ Only(v, w, v.session[s].conn)
              /\ w.session[s].conn = v.session[s].conn
<1>. DEFINE x == v.session[s]
            y == [x EXCEPT !.nested = q]
            w == [v EXCEPT !.session[s] = y]
<1>1. [v EXCEPT !.session[s].nested = q] = w
  OBVIOUS
<1>2. v \in World /\ x \in Session
  BY WorldFields DEF Ok
<1>3. y \in Session /\ y.conn = x.conn
  BY <1>2 DEF Session, NestedSet
<1>. HIDE DEF y
<1>4. /\ w.stack = v.stack /\ w.handle = v.handle /\ w.session[s] = y
      /\ \A a \in Level \ {s} : w.session[a] = v.session[a]
  BY <1>2, <1>3, WithSessionIs
<1>. HIDE DEF w
<1>5. Only(v, w, x.conn)
  BY <1>3, <1>4, OnlySession
<1>. QED
  BY <1>1, <1>3, <1>4, <1>5

\* So do the operators that release or roll back its nested transactions.
LEMMA ReleaseNestedOnly ==
    ASSUME NEW v, Ok(v), NEW s \in Level, NEW i \in 1 .. Len(v.session[s].nested) + 1
    PROVE  Only(v, ReleaseNested(v, s, i), v.session[s].conn)
<1>. DEFINE x == v.session[s]
            n == Len(x.nested)
            t == BlockTag(x.nested[i].of)
            r == Release(v, x.conn, t)
            E == {BlockTag(x.nested[j].of) : j \in i .. n}
            f == Forget(r, x.conn, E)
            q == SubSeq(f.session[s].nested, 1, i - 1)
            w == [f EXCEPT !.session[s].nested = q]
<1>1. n \in Nat /\ (n > 0 => x.conn \in Level)
  BY SessionNested
<1>2. CASE i > n
  <2>1. ReleaseNested(v, s, i) = v
    BY <1>2, Zenon DEF ReleaseNested
  <2>. QED
    BY <2>1, OnlySelf
<1>3. CASE i <= n
  <2>1. ReleaseNested(v, s, i) = w
    <3>1. ~(i > n)
      BY <1>1, <1>3
    <3>. QED
      BY <3>1, Zenon DEF ReleaseNested
  <2>2. x.conn \in Level /\ i \in 1 .. n
    BY <1>1, <1>3 DEF Level
  <2>3. t # Root /\ Root \notin E
    BY DEF BlockTag, Root
  <2>4. Quiet(v, r) /\ NestedKept(v, r) /\ Only(v, r, x.conn)
    BY <2>2, <2>3, Releases, CutsOff
  <2>. HIDE DEF r, E, t
  <2>5. Ok(r)
    BY <2>4 DEF Quiet, Works
  <2>6. Quiet(r, f) /\ NestedKept(r, f) /\ Only(r, f, x.conn)
    BY <2>2, <2>3, <2>5, Forgets, ForgetTells DEF Ok
  <2>. HIDE DEF f
  <2>7. Ok(f) /\ NestedKept(v, f) /\ Only(v, f, x.conn)
    BY <2>4, <2>6, OnlyTrans, KeptTrans DEF Quiet, Works
  <2>8. Len(f.session[s].nested) = n /\ f.session[s].conn = x.conn
    BY <2>7 DEF NestedKept, Only
  <2>9. f.session[s].nested \in Seq(NestedSet)
    BY <2>7, SessionNested
  <2>10. q \in Seq(NestedSet)
    BY <2>2, <2>8, <2>9, PartOfNested
  <2>. HIDE DEF q
  <2>11. Only(f, w, x.conn)
    BY <2>7, <2>8, <2>10, NestedOnly
  <2>. HIDE DEF w
  <2>. QED
    BY <2>1, <2>7, <2>11, OnlyTrans
<1>. QED
  BY <1>1, <1>2, <1>3

LEMMA RollbackFromOnly ==
    ASSUME NEW v, Ok(v), NEW s \in Level, NEW i \in Nat \ {0}
    PROVE  Only(v, RollbackFrom(v, s, i), v.session[s].conn)
<1>. DEFINE x == v.session[s]
            n == Len(x.nested)
            from == i .. n
            there == {j \in from : ~HasEnded(v, s, j)}
            t == BlockTag(x.nested[Min(there)].of)
            r == IF there = {} THEN v ELSE RollbackTo(v, x.conn, t)
            E == {BlockTag(x.nested[j].of) : j \in from}
            f == Forget(r, x.conn, E)
            q == SubSeq(f.session[s].nested, 1, i - 1)
            w == [f EXCEPT !.session[s].nested = q]
<1>1. n \in Nat /\ (n > 0 => x.conn \in Level)
  BY SessionNested
<1>2. CASE i > n
  <2>1. from = {}
    BY <1>1, <1>2
  <2>2. RollbackFrom(v, s, i) = v
    BY <2>1 DEF RollbackFrom
  <2>. QED
    BY <2>2, OnlySelf
<1>3. CASE i <= n
  <2>1. RollbackFrom(v, s, i) = w
    <3>1. from # {}
      BY <1>1, <1>3
    <3>. QED
      BY <3>1, Zenon DEF RollbackFrom
  <2>2. x.conn \in Level /\ i \in 1 .. n
    BY <1>1, <1>3 DEF Level
  <2>3. t # Root /\ Root \notin E
    BY DEF BlockTag, Root
  <2>. HIDE DEF E, t, there
  <2>4. Quiet(v, r) /\ NestedKept(v, r) /\ Only(v, r, x.conn)
    <3>1. CASE there = {}
      BY <3>1, QuietSelf, OnlySelf
    <3>2. CASE there # {}
      BY <2>2, <2>3, <3>2, RollsBackTo, CutsBack
    <3>. QED
      BY <3>1, <3>2
  <2>. HIDE DEF r
  <2>5. Ok(r)
    BY <2>4 DEF Quiet, Works
  <2>6. Quiet(r, f) /\ NestedKept(r, f) /\ Only(r, f, x.conn)
    BY <2>2, <2>3, <2>5, Forgets, ForgetTells DEF Ok
  <2>. HIDE DEF f
  <2>7. Ok(f) /\ NestedKept(v, f) /\ Only(v, f, x.conn)
    BY <2>4, <2>6, OnlyTrans, KeptTrans DEF Quiet, Works
  <2>8. Len(f.session[s].nested) = n /\ f.session[s].conn = x.conn
    BY <2>7 DEF NestedKept, Only
  <2>9. f.session[s].nested \in Seq(NestedSet)
    BY <2>7, SessionNested
  <2>10. q \in Seq(NestedSet)
    BY <2>2, <2>8, <2>9, PartOfNested
  <2>. HIDE DEF q
  <2>11. Only(f, w, x.conn)
    BY <2>7, <2>8, <2>10, NestedOnly
  <2>. HIDE DEF w
  <2>. QED
    BY <2>1, <2>7, <2>11, OnlyTrans
<1>. QED
  BY <1>1, <1>2, <1>3

\* To release the nested transactions from one on that is there leaves the others in order.
LEMMA ReleaseNestedKeeps ==
    ASSUME NEW v, Ok(v), NEW s \in Level, NEW i \in 1 .. Len(v.session[s].nested) + 1,
           NEW c \in Level, NEW V, Ordered(v, c, V), v.session[s].conn = c,
           i <= Len(v.session[s].nested) => ~HasEnded(v, s, i)
    PROVE  LET w == ReleaseNested(v, s, i)
           IN Ordered(w, c, V) /\ Shortened(v.session[s], w.session[s], i - 1)
<1>. DEFINE x == v.session[s]
            n == Len(x.nested)
            t == BlockTag(x.nested[i].of)
            r == Release(v, c, t)
            E == {BlockTag(x.nested[j].of) : j \in i .. n}
            f == Forget(r, c, E)
            w == [f EXCEPT !.session[c].nested = SubSeq(@, 1, i - 1)]
<1>1. n \in Nat
  BY SessionNested
<1>2. CASE i > n
  <2>1. ReleaseNested(v, s, i) = v
    BY <1>2, Zenon DEF ReleaseNested
  <2>2. i - 1 = n
    BY <1>1, <1>2
  <2>3. Shortened(x, x, i - 1)
    BY <2>2 DEF Shortened
  <2>. QED
    BY <2>1, <2>3
<1>3. CASE i <= n
  <2>1. i \in 1 .. n /\ Len(v.session[s].nested) # 0
    BY <1>1, <1>3
  <2>2. /\ s = c
        /\ \A j \in 1 .. n : x.nested[j].of \in Level /\ x.nested[j].of > c
        /\ \A j, k \in 1 .. n : j < k => x.nested[j].of < x.nested[k].of
        /\ \A a \in Tags(v, c) : \/ a \in {Root, SessionTag(c)}
                                 \/ \E j \in 1 .. n : a = BlockTag(x.nested[j].of) /\ x.nested[j].live
    BY <2>1, NestedTags
  <2>3. ReleaseNested(v, s, i) = w
    <3>1. ~(i > n)
      BY <1>1, <1>3
    <3>. QED
      BY <2>2, <3>1, Zenon DEF ReleaseNested
  <2>4. t \in Tags(v, c) /\ t # Root /\ v \in World
    <3>1. HasTag(v, c, t) /\ v \in World
      BY <1>3 DEF HasEnded, Ok
    <3>. QED
      BY <3>1, TagsAre, TagsApart
  <2>5. Cuts(v, r, c, Rank(t), {t})
    BY <2>4, CutsOff DEF Ordered
  <2>6. r \in World /\ Ok(r)
    BY <2>4, Releases DEF Quiet, Works, Ok
  <2>. HIDE DEF r
  <2>7. Cuts(v, f, c, Rank(t), {t} \cup E)
    BY <2>5, <2>6, CutForgets
  <2>8. {t} \cup E = E
    BY <2>1
  <2>9. Ok(f)
    <3>1. Root \notin E
      BY TagsApart
    <3>. HIDE DEF E
    <3>. QED
      BY <2>6, <3>1, Forgets DEF Quiet, Works
  <2>. HIDE DEF f
  <2>10. Rank(t) = x.nested[i].of
    BY TagsApart
  <2>11. ASSUME NEW a \in Tags(v, c) PROVE a \in E \/ Rank(a) < Rank(t)
    <3>1. CASE a \in {Root, SessionTag(c)}
      <4>1. Rank(a) \in {0, c}
        BY <3>1, TagsApart
      <4>. QED
        BY <2>1, <2>2, <2>10, <4>1 DEF Level
    <3>2. ASSUME NEW j \in 1 .. n, a = BlockTag(x.nested[j].of) PROVE a \in E \/ Rank(a) < Rank(t)
      <4>1. CASE j < i
        <5>1. Rank(a) = x.nested[j].of
          BY <3>2, TagsApart
        <5>. QED
          BY <2>1, <2>2, <2>10, <4>1, <5>1
      <4>2. CASE ~(j < i)
        <5>1. j \in i .. n
          BY <1>1, <2>1, <4>2
        <5>. QED
          BY <3>2, <5>1
      <4>. QED
        BY <4>1, <4>2
    <3>. QED
      BY <2>2, <3>1, <3>2
  <2>12. ASSUME NEW a \in Tags(v, c), a \in E PROVE ~(Rank(a) < Rank(t))
    <3>1. PICK j \in i .. n : a = BlockTag(x.nested[j].of)
      BY <2>12
    <3>2. Rank(a) = x.nested[j].of
      BY <3>1, TagsApart
    <3>3. j \in 1 .. n /\ (j = i \/ i < j)
      BY <1>1, <2>1, <3>1
    <3>4. x.nested[i].of \in Level /\ x.nested[j].of \in Level
      BY <2>1, <2>2, <3>3
    <3>5. j = i \/ x.nested[i].of < x.nested[j].of
      BY <2>1, <2>2, <3>3
    <3>. HIDE DEF x
    <3>. QED
      BY <2>10, <3>2, <3>4, <3>5 DEF Level
  <2>. HIDE DEF t
  <2>13. Cuts(v, f, c, Rank(t), E)
    BY <2>7, <2>8
  <2>14. E = {BlockTag(v.session[c].nested[j].of) : j \in i .. Len(v.session[c].nested)}
    BY <2>2
  <2>. HIDE DEF E
  <2>15. Ordered(w, c, V) /\ Shortened(v.session[c], w.session[c], i - 1)
    BY <2>1, <2>2, <2>9, <2>11, <2>12, <2>13, <2>14, GivesUp
  <2>. HIDE DEF w
  <2>. QED
    BY <2>2, <2>3, <2>15
<1>. QED
  BY <1>1, <1>2, <1>3

\* So does the rollback from one on.
LEMMA RollbackFromKeeps ==
    ASSUME NEW v, Ok(v), NEW s \in Level, NEW i \in 1 .. Len(v.session[s].nested) + 1,
           NEW c \in Level, NEW V, Ordered(v, c, V), v.session[s].conn = c
    PROVE  LET w == RollbackFrom(v, s, i)
           IN Ordered(w, c, V) /\ Shortened(v.session[s], w.session[s], i - 1)
<1>. DEFINE x == v.session[s]
            n == Len(x.nested)
            from == i .. n
            there == {j \in from : ~HasEnded(v, s, j)}
            m == Min(there)
            t == BlockTag(x.nested[m].of)
            r == IF there = {} THEN v ELSE RollbackTo(v, c, t)
            E == {BlockTag(x.nested[j].of) : j \in from}
            f == Forget(r, c, E)
            w == [f EXCEPT !.session[c].nested = SubSeq(@, 1, i - 1)]
            rank == IF there = {} THEN MaxDepth + 1 ELSE x.nested[m].of
            D == IF there = {} THEN {} ELSE {t}
<1>1. n \in Nat
  BY SessionNested
<1>2. CASE i > n
  <2>1. RollbackFrom(v, s, i) = v
    <3>1. from = {}
      BY <1>1, <1>2
    <3>. QED
      BY <3>1 DEF RollbackFrom
  <2>2. i - 1 = n
    BY <1>1, <1>2
  <2>3. Shortened(x, x, i - 1)
    BY <2>2 DEF Shortened
  <2>. QED
    BY <2>1, <2>3
<1>3. CASE i <= n
  <2>1. i \in 1 .. n /\ Len(v.session[s].nested) # 0
    BY <1>1, <1>3
  <2>2. /\ s = c
        /\ \A j \in 1 .. n : x.nested[j].of \in Level /\ x.nested[j].of > c
        /\ \A j, k \in 1 .. n : j < k => x.nested[j].of < x.nested[k].of
        /\ \A a \in Tags(v, c) : \/ a \in {Root, SessionTag(c)}
                                 \/ \E j \in 1 .. n : a = BlockTag(x.nested[j].of) /\ x.nested[j].live
    BY <2>1, NestedTags
  <2>3. RollbackFrom(v, s, i) = w
    <3>1. from # {}
      BY <1>1, <1>3
    <3>. QED
      BY <2>2, <3>1, Zenon DEF RollbackFrom
  <2>4. there # {} => m \in there /\ \A j \in there : m <= j
    <3>1. there \in SUBSET (0 .. n)
      BY <1>1, <2>1
    <3>. HIDE DEF there
    <3>. QED
      BY <1>1, <3>1, MinIsFirst
  <2>5. \A j : j \in there <=> /\ j \in from /\ x.nested[j].live
                               /\ BlockTag(x.nested[j].of) \in Tags(v, c)
    <3>1. \A j : HasTag(v, c, BlockTag(x.nested[j].of)) <=> BlockTag(x.nested[j].of) \in Tags(v, c)
      BY TagsAre DEF Ok
    <3>. QED
      BY <3>1 DEF HasEnded
  <2>6. v \in World /\ t # Root
    BY TagsApart DEF Ok
  <2>. HIDE DEF there, m
  <2>7. Cuts(v, r, c, rank, D) /\ Ok(r)
    <3>1. CASE there = {}
      BY <2>6, <3>1, CutsNothing DEF Ordered
    <3>2. CASE there # {}
      <4>1. t \in Tags(v, c)
        BY <2>4, <2>5, <3>2
      <4>2. Cuts(v, RollbackTo(v, c, t), c, Rank(t), {t})
        BY <2>6, <4>1, CutsBack DEF Ordered
      <4>3. Rank(t) = x.nested[m].of
        BY TagsApart
      <4>4. Ok(RollbackTo(v, c, t))
        BY <2>6, RollsBackTo DEF Quiet, Works
      <4>. QED
        BY <3>2, <4>2, <4>3, <4>4
    <3>. QED
      BY <3>1, <3>2
  <2>8. D \cup E = E
    BY <2>4, <2>5
  <2>. HIDE DEF r, D
  <2>9. Cuts(v, f, c, rank, D \cup E)
    BY <2>7, CutForgets DEF Ok
  <2>10. Ok(f)
    <3>1. Root \notin E
      BY TagsApart
    <3>. HIDE DEF E
    <3>. QED
      BY <2>7, <3>1, Forgets DEF Quiet, Works
  <2>. HIDE DEF f
  <2>11. /\ there = {} => rank = MaxDepth + 1
         /\ there # {} => m \in there /\ m \in i .. n /\ m \in 1 .. n /\ rank = x.nested[m].of
    <3>1. there # {} => m \in i .. n
      BY <2>4 DEF there
    <3>2. i .. n \subseteq 1 .. n
      BY <1>1, <2>1
    <3>. QED
      BY <2>4, <3>1, <3>2
  <2>. HIDE DEF rank
  <2>12. ASSUME NEW a \in Tags(v, c) PROVE a \in E \/ Rank(a) < rank
    <3>1. CASE there = {}
      <4>1. Rank(a) \in 0 .. MaxDepth
        BY <2>6, TagsAre, TagsApart
      <4>. QED
        BY <2>11, <3>1, <4>1, MaxDepthAssumption
    <3>2. CASE there # {}
      <4>1. CASE a \in {Root, SessionTag(c)}
        <5>1. Rank(a) \in {0, c}
          BY <4>1, TagsApart
        <5>. QED
          BY <2>2, <2>11, <3>2, <5>1 DEF Level
      <4>2. ASSUME NEW j \in 1 .. n, a = BlockTag(x.nested[j].of) PROVE a \in E \/ Rank(a) < rank
        <5>1. CASE j < i
          <6>1. Rank(a) = x.nested[j].of
            BY <4>2, TagsApart
          <6>2. j < m
            BY <2>1, <2>11, <3>2, <5>1
          <6>. QED
            BY <2>2, <2>11, <3>2, <6>1, <6>2
        <5>2. CASE ~(j < i)
          <6>1. j \in i .. n
            BY <1>1, <2>1, <5>2
          <6>. QED
            BY <4>2, <6>1
        <5>. QED
          BY <5>1, <5>2
      <4>. QED
        BY <2>2, <4>1, <4>2
    <3>. QED
      BY <3>1, <3>2
  <2>13. ASSUME NEW a \in Tags(v, c), a \in E PROVE ~(Rank(a) < rank)
    <3>1. PICK j \in i .. n : a = BlockTag(x.nested[j].of)
      BY <2>13
    <3>2. j \in 1 .. n /\ Rank(a) = x.nested[j].of
      BY <1>1, <2>1, <3>1, TagsApart
    <3>3. PICK k \in 1 .. n : a = BlockTag(x.nested[k].of) /\ x.nested[k].live
      <4>1. a \notin {Root, SessionTag(c)}
        BY <3>1, TagsApart
      <4>. QED
        BY <2>2, <2>13, <4>1
    <3>4. x.nested[k].of = x.nested[j].of
      BY <3>1, <3>3, TagsApart
    <3>5. k = j
      <4>1. x.nested[j].of \in Level /\ x.nested[k].of \in Level
        BY <2>2, <3>2, <3>3
      <4>2. ~(k < j) /\ ~(j < k)
        <5>1. \A p \in Level : ~(p < p)
          BY DEF Level
        <5>. QED
          BY <2>2, <3>2, <3>3, <3>4, <4>1, <5>1
      <4>. QED
        BY <1>1, <3>2, <3>3, <4>2
    <3>6. j \in there
      BY <2>5, <2>13, <3>1, <3>3, <3>5
    <3>7. m \in 1 .. n /\ m <= j /\ rank = x.nested[m].of
      BY <2>4, <2>11, <3>6
    <3>8. m = j \/ x.nested[m].of < x.nested[j].of
      BY <2>2, <3>2, <3>7
    <3>9. x.nested[j].of \in Level /\ x.nested[m].of \in Level
      BY <2>2, <3>2, <3>7
    <3>10. \A p, q \in Level : p = q \/ p < q => ~(q < p)
      BY DEF Level
    <3>11. x.nested[m].of = x.nested[j].of \/ x.nested[m].of < x.nested[j].of
      BY <3>8
    <3>. HIDE DEF x
    <3>. QED
      BY <3>2, <3>7, <3>9, <3>10, <3>11
  <2>14. Cuts(v, f, c, rank, E)
    BY <2>8, <2>9
  <2>15. E = {BlockTag(v.session[c].nested[j].of) : j \in i .. Len(v.session[c].nested)}
    BY <2>2
  <2>. HIDE DEF E
  <2>16. Ordered(w, c, V) /\ Shortened(v.session[c], w.session[c], i - 1)
    BY <2>1, <2>2, <2>10, <2>12, <2>13, <2>14, <2>15, GivesUp
  <2>. HIDE DEF w
  <2>. QED
    BY <2>2, <2>3, <2>16
<1>. QED
  BY <1>1, <1>2, <1>3

\* A flush keeps the order of its connection.
LEMMA FlushKeeps ==
    ASSUME NEW v, Ok(v), NEW s \in Level, v.session[s].conn # 0 \/ v.session[s].pending = {}
    PROVE  LET f == FlushSession(v, s)
           IN /\ Ok(f) /\ Only(v, f, v.session[s].conn)
              /\ SameButJoin(v.session[s], f.session[s])
              /\ \A c \in Level : \A V : v.session[s].conn = c /\ Ordered(v, c, V) => Ordered(f, c, V)
<1>. DEFINE f == FlushSession(v, s)
<1>1. Ok(f)
  BY FlushesSession DEF Works
<1>2. CASE v.session[s].pending = {}
  <2>1. f = v
    BY <1>2, FlushJoins
  <2>. QED
    BY <2>1, OnlySelf DEF SameButJoin
<1>3. CASE v.session[s].pending # {}
  <2>1. Joins(v, f, s)
    BY <1>3, FlushJoins
  <2>. HIDE DEF f
  <2>2. Only(v, f, v.session[s].conn) /\ SameButJoin(v.session[s], f.session[s])
    BY <2>1 DEF Joins
  <2>3. ASSUME NEW c \in Level, NEW V, v.session[s].conn = c, Ordered(v, c, V) PROVE Ordered(f, c, V)
    BY <2>1, <2>3, JoinsKeep
  <2>. QED
    BY <1>1, <2>2, <2>3 DEF f
<1>. QED
  BY <1>2, <1>3

\* commit() raises on the last of the nested transactions that ended behind its back.
LEMMA FailingLast ==
    ASSUME NEW v, Ok(v), NEW s \in Level
    PROVE  \A i \in 1 .. Len(v.session[s].nested) : i > Failing(v, s) => ~HasEnded(v, s, i)
<1>. DEFINE x == v.session[s]
            S == {0} \cup {i \in DOMAIN x.nested : HasEnded(v, s, i)}
<1>1. Failing(v, s) = Max(S)
  BY DEF Failing
<1>2. Len(x.nested) \in Nat /\ DOMAIN x.nested = 1 .. Len(x.nested)
  BY SessionNested
<1>3. S \in SUBSET (0 .. Len(x.nested)) /\ S # {}
  BY <1>2
<1>4. \A i \in 1 .. Len(x.nested) : HasEnded(v, s, i) => i \in S
  BY <1>2
<1>. HIDE DEF S
<1>5. Max(S) \in S /\ \A i \in S : i <= Max(S)
  BY <1>2, <1>3, MaxIsLast
<1>6. Max(S) \in 0 .. Len(x.nested)
  BY <1>3, <1>5
<1>7. ASSUME NEW i \in 1 .. Len(x.nested), i > Max(S) PROVE ~HasEnded(v, s, i)
  <2>1. i \in S => i <= Max(S)
    BY <1>5
  <2>2. ~(i <= Max(S))
    BY <1>2, <1>6, <1>7
  <2>. QED
    BY <1>4, <2>1, <2>2
<1>. QED
  BY <1>1, <1>7

\* Session.commit(): on its connection alone, and in order.
LEMMA CommitKeeps ==
    ASSUME NEW v, Ok(v), NEW s \in Level, v.session[s].conn # 0 \/ v.session[s].pending = {}
    PROVE  LET w == CommitSession(v, s)
           IN /\ Only(v, w, v.session[s].conn)
              /\ \A c \in Level : \A V : v.session[s].conn = c /\ Ordered(v, c, V) => Ordered(w, c, V)
<1>. DEFINE a == v.session[s].conn
            f == FlushSession(v, s)
            k == Failing(f, s)
            inner == ReleaseNested(f, s, k + 1)
            x == inner.session[s]
            z == Keep(inner, x.conn, x.join)
            w == CommitSession(v, s)
<1>1. /\ Ok(f) /\ Only(v, f, a)
      /\ f.session[s].conn = a
      /\ \A c \in Level : \A V : a = c /\ Ordered(v, c, V) => Ordered(f, c, V)
  BY FlushKeeps DEF Only
<1>2. w = CASE k > 0 \/ (x.commits /\ x.join = Gone) -> Stuck(inner, s)
            [] k = 0 /\ x.commits /\ x.join # Gone -> Reset(z, s)
            [] OTHER -> Reset(inner, s)
  BY DEF CommitSession
<1>. HIDE DEF f, w
<1>3. k \in 0 .. Len(f.session[s].nested) /\ Len(f.session[s].nested) \in Nat
  BY <1>1, FailingIs, SessionNested
<1>4. k + 1 \in 1 .. Len(f.session[s].nested) + 1
  BY <1>3
<1>5. k + 1 <= Len(f.session[s].nested) => ~HasEnded(f, s, k + 1)
  <2>1. k + 1 <= Len(f.session[s].nested) => k + 1 \in 1 .. Len(f.session[s].nested) /\ k + 1 > k
    BY <1>3
  <2>. QED
    BY <1>1, <2>1, FailingLast
<1>. HIDE DEF k
<1>6. Ok(inner) /\ Only(f, inner, a)
  BY <1>1, <1>4, ReleasesNested, ReleaseNestedOnly DEF Quiet, Works
<1>7. \A c \in Level : \A V : a = c /\ Ordered(v, c, V) =>
            Ordered(inner, c, V) /\ Len(x.nested) = k
  <2>. SUFFICES ASSUME NEW c \in Level, NEW V, a = c, Ordered(v, c, V)
                PROVE  Ordered(inner, c, V) /\ Len(x.nested) = k
    OBVIOUS
  <2>1. Ordered(f, c, V)
    BY <1>1
  <2>2. Ordered(inner, c, V) /\ Shortened(f.session[s], x, (k + 1) - 1)
    BY <1>1, <1>4, <1>5, <2>1, ReleaseNestedKeeps
  <2>3. (k + 1) - 1 = k
    BY <1>3
  <2>. QED
    BY <2>2, <2>3 DEF Shortened
<1>. HIDE DEF inner
<1>8. x.conn = a /\ SessionOk(x) /\ (x.conn # 0 => x.conn \in Level)
  BY <1>1, <1>6, SessionNested DEF Only, Ok
<1>. HIDE DEF a
<1>9. Only(v, inner, a)
  BY <1>1, <1>6, OnlyTrans
<1>10. CASE k > 0 \/ (x.commits /\ x.join = Gone)
  <2>1. w = Stuck(inner, s)
    BY <1>2, <1>10
  <2>. DEFINE u == Stuck(inner, s)
  <2>2. /\ Only(inner, u, a) /\ \A c : Replaces(inner, u, c, s)
        /\ SameJoined(inner.session[s], u.session[s])
    BY <1>6, <1>8, ResetsOnly
  <2>. HIDE DEF u
  <2>3. ASSUME NEW c \in Level, NEW V, a = c, Ordered(v, c, V) PROVE Ordered(u, c, V)
    BY <1>7, <2>2, <2>3, SameKeeps
  <2>4. Only(v, u, a)
    BY <1>9, <2>2, OnlyTrans
  <2>. QED
    BY <2>1, <2>3, <2>4 DEF u, a, w
<1>11. CASE k = 0 /\ x.commits /\ x.join # Gone
  <2>1. w = Reset(z, s)
    <3>1. ~(k > 0)
      BY <1>11
    <3>. QED
      BY <1>2, <1>11, <3>1
  <2>2. x.conn \in Level
    BY <1>8, <1>11 DEF SessionOk
  <2>3. Ok(z) /\ Only(inner, z, a)
    BY <1>6, <1>8, <2>2, Keeping, EndsOnly DEF Works
  <2>. DEFINE u == Reset(z, s)
  <2>4. z.session[s].conn = a
    BY <1>8, <2>3 DEF Only
  <2>5. Only(z, u, a)
    BY <2>3, <2>4, ResetsOnly
  <2>6. ASSUME NEW c \in Level, NEW V, a = c, Ordered(v, c, V) PROVE Ordered(u, c, V)
    <3>1. Ordered(inner, c, V) /\ Len(x.nested) = 0 /\ x.conn = c
      BY <1>7, <1>8, <1>11, <2>6
    <3>2. CASE x.join = Root
      <4>1. z = EndRoot(inner, c, Uncommitted(inner, c))
        BY <3>1, <3>2, Zenon DEF Keep
      <4>. HIDE DEF z
      <4>3. /\ Ordered(z, c, V) /\ Tags(z, c) = {}
            /\ Len(z.session[s].nested) = Len(inner.session[s].nested)
        BY <1>6, <3>1, <4>1, RootEndsInOrder
      <4>2. /\ Ordered(z, c, V) /\ Tags(z, c) = {} /\ Len(z.session[s].nested) = 0
        BY <3>1, <4>3
      <4>. QED
        BY <2>3, <2>4, <2>6, <4>2, ResetKeeps
    <3>3. CASE x.join # Root
      <4>1. s = c /\ Creates(inner, c) /\ x.join = SessionTag(c)
        BY <1>11, <3>1, <3>3 DEF Ordered, ModeFits
      <4>2. z = Release(inner, c, x.join)
        BY <3>1, <3>3 DEF Keep
      <4>3. Tags(inner, c) \subseteq {Root, SessionTag(c)}
        BY <3>1, <4>1, OwnTags
      <4>4. \A t \in Tags(inner, c) : t = x.join \/ Rank(t) < Rank(x.join)
        BY <4>1, <4>3, TagsApart DEF Level
      <4>5. x.join # NoTag
        BY <4>1, TagsApart
      <4>. HIDE DEF z
      <4>. DEFINE t == x.join
      <4>8. /\ t # Root /\ t # NoTag /\ z = Release(inner, c, t)
            /\ \A b \in Tags(inner, c) : b = t \/ Rank(b) < Rank(t)
        BY <3>3, <4>2, <4>4, <4>5
      <4>. HIDE DEF t
      <4>9. /\ Ordered(z, c, V) /\ t \notin Tags(z, c) /\ Tags(z, c) \subseteq Tags(inner, c)
            /\ Len(z.session[s].nested) = Len(inner.session[s].nested)
        BY <1>6, <3>1, <4>8, EndsInOrder
      <4>6. /\ Ordered(z, c, V) /\ x.join \notin Tags(z, c) /\ Tags(z, c) \subseteq Tags(inner, c)
            /\ Len(z.session[s].nested) = 0
        BY <3>1, <4>9 DEF t
      <4>7. Tags(z, c) \subseteq {Root}
        BY <4>1, <4>3, <4>6
      <4>. QED
        BY <2>3, <2>4, <2>6, <4>6, <4>7, ResetKeeps
    <3>. QED
      BY <3>2, <3>3
  <2>. HIDE DEF u, z
  <2>7. Only(v, u, a)
    BY <1>9, <2>3, <2>5, OnlyTrans
  <2>. QED
    BY <2>1, <2>6, <2>7 DEF u, a, w
<1>12. CASE k = 0 /\ ~x.commits
  <2>1. w = Reset(inner, s)
    <3>1. ~(k > 0)
      BY <1>12
    <3>. QED
      BY <1>2, <1>12, <3>1
  <2>. DEFINE u == Reset(inner, s)
  <2>2. Only(inner, u, a)
    BY <1>6, <1>8, ResetsOnly
  <2>3. ASSUME NEW c \in Level, NEW V, a = c, Ordered(v, c, V) PROVE Ordered(u, c, V)
    <3>1. Ordered(inner, c, V) /\ Len(x.nested) = 0 /\ x.conn = c
      BY <1>7, <1>8, <1>12, <2>3
    <3>2. s = c /\ Creates(inner, c) => Tags(inner, c) \subseteq {Root}
      <4>. SUFFICES ASSUME s = c, Creates(inner, c) PROVE Tags(inner, c) \subseteq {Root}
        OBVIOUS
      <4>1. x.join = NoTag
        BY <1>12, <3>1 DEF Ordered, ModeFits
      <4>2. x.join # SessionTag(c)
        BY <4>1, TagsApart
      <4>. QED
        BY <3>1, <4>2, OwnTags
    <3>. QED
      BY <1>6, <3>1, <3>2, ResetKeeps
  <2>. HIDE DEF u
  <2>4. Only(v, u, a)
    BY <1>9, <2>2, OnlyTrans
  <2>. QED
    BY <2>1, <2>3, <2>4 DEF u, a, w
<1>13. k = 0 \/ k > 0
  BY <1>3
<1>. QED
  BY <1>10, <1>11, <1>12, <1>13

\* No savepoint of an open block is below what session s sees of connection c.
Innermost(w, c, V, s) ==
    \A d \in Level : d > s /\ BlockTag(d) \in Tags(w, c) => Stale(w, c, V, BlockTag(d))

\* What an innermost session joined is the last savepoint there that is not stale.
LEMMA JoinedLast ==
    ASSUME NEW v, NEW s \in Level, NEW c \in Level, NEW V, Ordered(v, c, V),
           v.session[s].conn = c, Innermost(v, c, V, s),
           v.session[s].join \notin {NoTag, Gone, Root},
           NEW u \in Tags(v, c)
    PROVE  u = v.session[s].join \/ Stale(v, c, V, u) \/ Rank(u) < Rank(v.session[s].join)
<1>. DEFINE t == v.session[s].join
<1>1. /\ t \in Tags(v, c) \/ Stale(v, c, V, t)
      /\ \A d \in Level : d <= s /\ BlockTag(d) \in Tags(v, c) => d <= Rank(t)
  BY DEF Ordered, JoinFits
<1>2. t = SessionTag(c) \/ \E e \in Level : e > c /\ t = BlockTag(e)
  <2>1. CASE t \in Tags(v, c)
    BY <2>1, HeldAbove
  <2>2. CASE Stale(v, c, V, t)
    BY <2>2 DEF Stale, Ordered, NestedFits
  <2>. QED
    BY <1>1, <2>1, <2>2
<1>3. Rank(t) \in Level /\ (t = SessionTag(c) \/ (Rank(t) > c /\ t = BlockTag(Rank(t))))
  BY <1>2, TagsApart
<1>. HIDE DEF t
<1>4. CASE u = Root
  <2>1. Rank(u) = 0
    BY <1>4, TagsApart
  <2>2. 0 < Rank(t)
    BY <1>3 DEF Level
  <2>. QED
    BY <2>1, <2>2 DEF t
<1>5. CASE u = SessionTag(c)
  <2>1. Rank(u) = c
    BY <1>5, TagsApart
  <2>. QED
    BY <1>3, <1>5, <2>1 DEF t
<1>6. ASSUME NEW d \in Level, d > c, u = BlockTag(d)
      PROVE  u = t \/ Stale(v, c, V, u) \/ Rank(u) < Rank(t)
  <2>1. Rank(u) = d
    BY <1>6, TagsApart
  <2>2. CASE d > s
    BY <1>6, <2>2 DEF Innermost
  <2>3. CASE ~(d > s)
    <3>1. d <= s
      BY <2>3 DEF Level
    <3>2. d <= Rank(t)
      BY <1>1, <1>6, <3>1
    <3>3. t # SessionTag(c)
      <4>. SUFFICES ASSUME t = SessionTag(c) PROVE FALSE
        OBVIOUS
      <4>1. Rank(t) = c
        BY TagsApart
      <4>. QED
        BY <1>6, <3>2, <4>1 DEF Level
    <3>4. d = Rank(t) \/ d < Rank(t)
      BY <1>3, <3>2 DEF Level
    <3>. QED
      BY <1>3, <1>6, <2>1, <3>3, <3>4
  <2>. QED
    BY <2>2, <2>3
<1>. QED
  BY <1>4, <1>5, <1>6, HeldAbove DEF t

\* Session.rollback(): on its connection alone, and in order when it is innermost there.
LEMMA RollbackKeeps ==
    ASSUME NEW v, Ok(v), NEW s \in Level
    PROVE  LET w == RollbackSession(v, s)
           IN /\ Only(v, w, v.session[s].conn)
              /\ \A c \in Level : \A V :
                    v.session[s].conn = c /\ Ordered(v, c, V) /\ Innermost(v, c, V, s) => Ordered(w, c, V)
<1>. DEFINE x == v.session[s]
            a == x.conn
            inner == RollbackFrom(v, s, 1)
            z == Undo(inner, a, x.join)
            w == Reset(z, s)
<1>1. RollbackSession(v, s) = w
  BY Zenon DEF RollbackSession
<1>2. SessionOk(x) /\ (a # 0 => a \in Level)
  BY SessionNested DEF Ok
<1>3. Ok(inner) /\ Only(v, inner, a)
  BY RollsBackFrom, RollbackFromOnly DEF Quiet, Works
<1>4. \A c \in Level : \A V : a = c /\ Ordered(v, c, V) =>
          /\ Ordered(inner, c, V) /\ Shortened(x, inner.session[s], 0)
          /\ Len(x.nested) = 0 => inner = v
  <2>. SUFFICES ASSUME NEW c \in Level, NEW V, a = c, Ordered(v, c, V)
                PROVE  /\ Ordered(inner, c, V) /\ Shortened(x, inner.session[s], 0)
                       /\ Len(x.nested) = 0 => inner = v
    OBVIOUS
  <2>1. 1 \in 1 .. Len(x.nested) + 1 /\ 1 - 1 = 0
    BY SessionNested
  <2>2. Ordered(inner, c, V) /\ Shortened(x, inner.session[s], 1 - 1)
    BY <2>1, RollbackFromKeeps
  <2>3. ASSUME Len(x.nested) = 0 PROVE inner = v
    <3>1. 1 .. Len(x.nested) = {}
      BY <2>3
    <3>. QED
      BY <3>1 DEF RollbackFrom
  <2>. QED
    BY <2>1, <2>2, <2>3
<1>. HIDE DEF inner
<1>5. Ok(z) /\ Only(inner, z, a)
  BY <1>2, <1>3, Undoes, EndsOnly DEF SessionOk, Quiet, Works
<1>6. \A c \in Level : \A V : a = c /\ Ordered(v, c, V) /\ Innermost(v, c, V, s) =>
          /\ Ordered(z, c, V)
          /\ s = c => Len(z.session[s].nested) = 0 /\ (Creates(z, c) => Tags(z, c) \subseteq {Root})
  <2>. SUFFICES ASSUME NEW c \in Level, NEW V, a = c, Ordered(v, c, V), Innermost(v, c, V, s)
                PROVE  /\ Ordered(z, c, V)
                       /\ s = c => /\ Len(z.session[s].nested) = 0
                                   /\ Creates(z, c) => Tags(z, c) \subseteq {Root}
    OBVIOUS
  <2>1. /\ Ordered(inner, c, V) /\ Shortened(x, inner.session[s], 0)
        /\ Len(x.nested) = 0 => inner = v
    BY <1>4
  <2>2. Len(inner.session[s].nested) = 0 /\ inner.session[s].join = x.join
    BY <2>1 DEF Shortened
  <2>3. inner.session[s].conn = c
    BY <1>3 DEF Only
  <2>4. CASE x.join \in {NoTag, Gone}
    <3>1. z = inner
      <4>1. x.join # Root
        BY <2>4, TagsApart
      <4>. QED
        BY <2>4, <4>1, Zenon DEF Undo
    <3>2. s = c /\ Creates(inner, c) => Tags(inner, c) \subseteq {Root}
      <4>1. x.join # SessionTag(c)
        BY <2>4, TagsApart
      <4>. QED
        BY <2>1, <2>2, <4>1, OwnTags
    <3>. QED
      BY <2>1, <2>2, <3>1, <3>2
  <2>5. CASE x.join = Root
    <3>1. z = EndRoot(inner, c, {})
      <4>1. x.join \notin {NoTag, Gone}
        BY <2>5, TagsApart
      <4>. QED
        BY <2>5, <4>1, Zenon DEF Undo
    <3>. HIDE DEF z
    <3>2. /\ Ordered(z, c, V) /\ Tags(z, c) = {}
          /\ \A e \in Level : Len(z.session[e].nested) = Len(inner.session[e].nested)
      BY <1>3, <2>1, <3>1, RootEndsInOrder
    <3>. QED
      BY <2>2, <3>2
  <2>6. CASE x.join \notin {NoTag, Gone, Root}
    <3>. DEFINE t == x.join
    <3>1. z = RollbackTo(inner, c, t)
      <4>1. t # Root /\ t \notin {NoTag, Gone}
        BY <2>6
      <4>. QED
        BY <4>1, Zenon DEF Undo
    <3>2. ASSUME s = c, Creates(inner, c)
          PROVE  t = SessionTag(c) /\ Tags(inner, c) \subseteq {Root, SessionTag(c)}
      <4>1. t = SessionTag(c)
        BY <2>1, <2>2, <2>3, <2>6, <3>2 DEF Ordered, ModeFits
      <4>. QED
        BY <2>1, <2>2, <3>2, <4>1, OwnTags
    <3>3. \A b \in Tags(inner, c) : b = t \/ Stale(inner, c, V, b) \/ Rank(b) < Rank(t)
      <4>1. CASE s = c /\ Creates(inner, c)
        BY <3>2, <4>1, TagsApart DEF Level
      <4>2. CASE ~(s = c /\ Creates(inner, c))
        <5>1. Len(x.nested) = 0
          <6>1. s = c /\ Creates(v, c) => Creates(inner, c)
            BY <2>1, <2>3 DEF Creates, Owning, Shortened, NoSession
          <6>. QED
            BY <4>2, <6>1 DEF Ordered, ModeFits
        <5>2. inner = v
          BY <2>1, <5>1
        <5>. QED
          BY <2>6, <5>2, JoinedLast
      <4>. QED
        BY <4>1, <4>2
    <3>4. t # Root /\ t # NoTag
      BY <2>6
    <3>. HIDE DEF t, z
    <3>6. /\ Ordered(z, c, V)
          /\ t \notin Tags(z, c) /\ Tags(z, c) \subseteq Tags(inner, c)
          /\ \A e \in Level : Len(z.session[e].nested) = Len(inner.session[e].nested)
      BY <1>3, <2>1, <3>1, <3>3, <3>4, EndsInOrder
    <3>7. inner.session[c].conn = c /\ z.session[c].conn = c /\ Creates(z, c) => Creates(inner, c)
      <4>1. z.session[c].mode = inner.session[c].mode
        BY <1>3, <1>5, Undoes, <1>2 DEF Quiet, Works, Same, z, SessionOk
      <4>. QED
        BY <4>1 DEF Creates, Owning
    <3>8. s = c => z.session[c].conn = c /\ inner.session[c].conn = c
      BY <1>5, <2>3 DEF Only
    <3>. QED
      BY <2>2, <3>2, <3>6, <3>7, <3>8
  <2>. QED
    BY <2>4, <2>5, <2>6
<1>7. z.session[s].conn = a
  BY <1>3, <1>5 DEF Only
<1>. HIDE DEF z
<1>8. Only(z, w, a)
  BY <1>5, <1>7, ResetsOnly
<1>9. \A c \in Level : \A V : a = c /\ Ordered(v, c, V) /\ Innermost(v, c, V, s) => Ordered(w, c, V)
  BY <1>5, <1>6, <1>7, ResetKeeps
<1>. HIDE DEF w
<1>10. Only(v, w, a)
  BY <1>3, <1>5, <1>8, OnlyTrans
<1>. QED
  BY <1>1, <1>9, <1>10

\* Session.close() likewise.
LEMMA CloseKeeps ==
    ASSUME NEW v, Ok(v), NEW s \in Level
    PROVE  LET w == CloseSession(v, s)
           IN /\ Only(v, w, v.session[s].conn)
              /\ \A c \in Level : \A V :
                    v.session[s].conn = c /\ Ordered(v, c, V) /\ Innermost(v, c, V, s) => Ordered(w, c, V)
<1>. DEFINE a == v.session[s].conn
            w == CloseSession(v, s)
<1>1. CASE v.session[s].commits
  <2>1. w = RollbackSession(v, s)
    BY <1>1 DEF CloseSession
  <2>. HIDE DEF w
  <2>. QED
    BY <2>1, RollbackKeeps DEF w
<1>2. CASE ~v.session[s].commits
  <2>1. w = Reset(v, s)
    BY <1>2 DEF CloseSession
  <2>2. Only(v, Reset(v, s), a)
    BY ResetsOnly
  <2>3. ASSUME NEW c \in Level, NEW V, a = c, Ordered(v, c, V) PROVE Ordered(Reset(v, s), c, V)
    <3>1. ASSUME s = c PROVE Len(v.session[s].nested) = 0 /\ (Creates(v, c) => Tags(v, c) \subseteq {Root})
      <4>1. CASE Creates(v, c)
        <5>1. v.session[s].join = NoTag /\ Len(v.session[s].nested) = 0
          BY <1>2, <2>3, <3>1, <4>1 DEF Ordered, ModeFits
        <5>2. v.session[s].join # SessionTag(c)
          BY <5>1, TagsApart
        <5>. QED
          BY <2>3, <3>1, <4>1, <5>1, <5>2, OwnTags
      <4>2. CASE ~Creates(v, c)
        BY <2>3, <4>2 DEF Ordered, ModeFits
      <4>. QED
        BY <4>1, <4>2
    <3>. QED
      BY <2>3, <3>1, ResetKeeps
  <2>. QED
    BY <2>1, <2>2, <2>3
<1>. QED
  BY <1>1, <1>2

\* A savepoint of a new innermost block goes on top, when a block holds every other one.
LEMMA NewSavepointKeeps ==
    ASSUME NEW v, Ok(v), NEW c \in Level, NEW V, NEW d \in Level, Ordered(v, c, V),
           NEW w, Only(v, w, c),
           LET b == Autobegin(v, c) IN Tags(w, c) = Tags(b, c) \cup {BlockTag(d)},
           d > c, \A e \in Level : BlockTag(e) \in Tags(v, c) => e < d,
           (\A u \in Tags(Autobegin(v, c), c) : Rank(u) < Rank(BlockTag(d))) => Rising(w, c)
    PROVE  Rising(w, c) /\ Tags(w, c) \ {BlockTag(d)} \subseteq Tags(v, c) \cup {Root}
           /\ Tags(v, c) \subseteq Tags(w, c)
<1>. DEFINE b == Autobegin(v, c)
<1>1. Began(v, b, c)
  BY BeginsTags
<1>. HIDE DEF b
<1>2. Tags(b, c) \subseteq Tags(v, c) \cup {Root} /\ Tags(v, c) \subseteq Tags(b, c)
  BY <1>1 DEF Began
<1>3. Rank(BlockTag(d)) = d
  BY TagsApart
<1>4. ASSUME NEW u \in Tags(b, c) PROVE Rank(u) < d
  <2>1. CASE u = Root
    BY <2>1, TagsApart DEF Level
  <2>2. CASE u = SessionTag(c)
    <3>1. Rank(u) = c
      BY <2>2, TagsApart
    <3>. QED
      BY <3>1 DEF Level
  <2>3. CASE u \notin {Root, SessionTag(c)}
    <3>1. PICK e \in Level : u = BlockTag(e)
      BY <1>2, <2>3, HeldAbove
    <3>2. BlockTag(e) \in Tags(v, c)
      BY <1>2, <2>3, <3>1
    <3>. QED
      BY <3>1, <3>2, TagsApart
  <2>. QED
    BY <2>1, <2>2, <2>3
<1>. QED
  BY <1>2, <1>3, <1>4 DEF b

\* The savepoint of a block, taken on the connection and held by its handle.
LEMMA HandleTakes ==
    ASSUME NEW v, Ok(v), NEW c \in Level, NEW V, NEW d \in Level, Ordered(v, c, V),
           ~Creates(v, c), d > c,
           \A e \in Level : v.handle[e].conn = c => e < d,
           \A s \in Level : v.session[s].conn = c => s < d
    PROVE  LET w == [TakeSavepoint(v, c, BlockTag(d)) EXCEPT !.handle[d] = [conn |-> c, tag |-> BlockTag(d)]]
           IN Ordered(w, c, V)
<1>. DEFINE t == BlockTag(d)
            u == TakeSavepoint(v, c, t)
            h == [conn |-> c, tag |-> t]
            w == [u EXCEPT !.handle[d] = h]
<1>1. t \in LiveTag /\ t \notin {Root, NoTag, Gone} /\ Rank(t) = d
  BY TagsApart
<1>2. /\ Only(v, u, c) /\ u.session = v.session /\ u.handle = v.handle
      /\ Tags(u, c) = Tags(Autobegin(v, c), c) \cup {t}
      /\ (\A a \in Tags(Autobegin(v, c), c) : Rank(a) < Rank(t)) => Rising(u, c)
  BY <1>1, SavepointTags DEF Ordered
<1>3. Ok(u)
  BY <1>1, Savepoints DEF Quiet, Works
<1>. HIDE DEF u
<1>4. \A e \in Level : ~Entered(Owning(v, c), e) /\ ~LiveAt(Owning(v, c), e)
  BY DEF Ordered, NestedFits, Entered, LiveAt
<1>5. \A e \in Level : BlockTag(e) \in Tags(v, c) => e < d
  <2>. SUFFICES ASSUME NEW e \in Level, BlockTag(e) \in Tags(v, c) PROVE e < d
    OBVIOUS
  <2>1. TagHeld(v, c, BlockTag(e))
    BY DEF Ordered
  <2>2. v.handle[e].conn = c
    BY <1>4, <2>1, TagsApart DEF TagHeld
  <2>. QED
    BY <2>2
<1>6. Rising(u, c) /\ Tags(u, c) \ {t} \subseteq Tags(v, c) \cup {Root} /\ Tags(v, c) \subseteq Tags(u, c)
  <2>. HIDE DEF t
  <2>. QED
    BY <1>2, <1>5, NewSavepointKeeps DEF t
<1>7. /\ w.stack = u.stack /\ w.session = u.session /\ w.handle[d] = h
      /\ \A e \in Level \ {d} : w.handle[e] = u.handle[e]
  BY <1>3 DEF Ok, World
<1>8. h.conn = c /\ h.tag = t
  OBVIOUS
<1>. HIDE DEF h, w
<1>9. Tags(w, c) = Tags(u, c) /\ Rising(w, c) /\ t \in Tags(w, c)
  BY <1>2, <1>6, <1>7 DEF Tags, Rising
<1>. HIDE DEF t
<1>10. Owning(w, c) = Owning(v, c) /\ Creates(w, c) = Creates(v, c)
  BY <1>2, <1>7 DEF Owning, Creates
<1>11. \A a \in Tags(w, c) : TagHeld(w, c, a)
  <2>. SUFFICES ASSUME NEW a \in Tags(w, c) PROVE TagHeld(w, c, a)
    OBVIOUS
  <2>1. CASE a = t
    BY <1>7, <1>8, <2>1 DEF TagHeld, t
  <2>2. CASE a = Root
    BY <2>2 DEF TagHeld
  <2>3. CASE a \in Tags(v, c) /\ a # t
    <3>1. TagHeld(v, c, a)
      BY <2>3 DEF Ordered
    <3>. QED
      BY <1>2, <1>7, <1>10, <2>3, <3>1 DEF TagHeld, t
  <2>. QED
    BY <1>6, <1>9, <2>1, <2>2, <2>3
<1>12. ASSUME NEW s \in Level PROVE JoinFits(w, c, V, s) /\ ModeFits(w, c, s)
  <2>1. w.session[s] = v.session[s]
    BY <1>2, <1>7
  <2>2. JoinFits(v, c, V, s) /\ ModeFits(v, c, s)
    BY DEF Ordered
  <2>3. ASSUME v.session[s].conn = c, NEW e \in Level, e <= s, BlockTag(e) \in Tags(w, c)
        PROVE  BlockTag(e) \in Tags(v, c)
    <3>1. s < d
      BY <2>3
    <3>2. e # d
      BY <2>3, <3>1 DEF Level
    <3>3. BlockTag(e) # t /\ BlockTag(e) # Root
      BY <3>2, TagsApart DEF t
    <3>. QED
      BY <1>6, <1>9, <2>3, <3>3
  <2>4. JoinFits(w, c, V, s)
    BY <1>6, <1>9, <1>10, <2>1, <2>2, <2>3 DEF JoinFits, Stale
  <2>. QED
    BY <1>10, <2>1, <2>2, <2>4 DEF ModeFits
<1>13. NestedFits(w, c, V)
  BY <1>4, <1>10 DEF NestedFits, Ordered
<1>14. ASSUME NEW e \in Level PROVE HandleFits(w, c, e)
  <2>1. CASE e = d
    BY <1>7, <1>8, <1>9, <1>10, <2>1 DEF HandleFits, t, Level
  <2>2. CASE e # d
    <3>1. w.handle[e] = v.handle[e] /\ HandleFits(v, c, e)
      BY <1>2, <1>7, <2>2 DEF Ordered
    <3>. QED
      BY <1>6, <1>9, <1>10, <3>1 DEF HandleFits
  <2>. QED
    BY <2>1, <2>2
<1>. QED
  BY <1>9, <1>11, <1>12, <1>13, <1>14 DEF Ordered, w, h, u, t

\* The savepoint of a block, taken through the session that owns them.
LEMMA NestedTakes ==
    ASSUME NEW v, Ok(v), NEW c \in Level, NEW V \in SUBSET Level, NEW d \in Level,
           Ordered(v, c, V), Creates(v, c), ~v.session[c].stuck, v.session[c].join # NoTag,
           d > c, \A e \in V : e < d, \A s \in Level : v.session[s].conn = c => s < d
    PROVE  LET w == [TakeSavepoint(v, c, BlockTag(d)) EXCEPT
                        !.session[c].nested = Append(@, [of |-> d, live |-> TRUE])]
           IN Ordered(w, c, V \cup {d})
<1>. DEFINE t == BlockTag(d)
            u == TakeSavepoint(v, c, t)
            x == v.session[c]
            m == [of |-> d, live |-> TRUE]
            q == Append(x.nested, m)
            y == [x EXCEPT !.nested = q]
            w == [u EXCEPT !.session[c] = y]
            W == V \cup {d}
<1>1. t \in LiveTag /\ t \notin {Root, NoTag, Gone} /\ Rank(t) = d
  BY TagsApart
<1>2. /\ Only(v, u, c) /\ u.session = v.session /\ u.handle = v.handle
      /\ Tags(u, c) = Tags(Autobegin(v, c), c) \cup {t}
      /\ (\A a \in Tags(Autobegin(v, c), c) : Rank(a) < Rank(t)) => Rising(u, c)
  BY <1>1, SavepointTags DEF Ordered
<1>3. Ok(u)
  BY <1>1, Savepoints DEF Quiet, Works
<1>4. [TakeSavepoint(v, c, BlockTag(d)) EXCEPT
            !.session[c].nested = Append(@, [of |-> d, live |-> TRUE])] = w
  BY <1>2
<1>. HIDE DEF u
<1>5. Owning(v, c) = x /\ x.conn = c
  BY DEF Creates, Owning, NoSession
<1>6. \A e \in Level : Entered(x, e) => e \in V /\ e < d
  BY <1>5 DEF Ordered, NestedFits
<1>7. \A e \in Level : BlockTag(e) \in Tags(v, c) => e < d
  <2>. SUFFICES ASSUME NEW e \in Level, BlockTag(e) \in Tags(v, c) PROVE e < d
    OBVIOUS
  <2>1. LiveAt(x, e)
    BY <1>5, HeldAbove
  <2>. QED
    BY <1>6, <2>1 DEF LiveAt, Entered
<1>8. Rising(u, c) /\ Tags(u, c) \ {t} \subseteq Tags(v, c) \cup {Root} /\ Tags(v, c) \subseteq Tags(u, c)
  <2>. HIDE DEF t
  <2>. QED
    BY <1>2, <1>7, NewSavepointKeeps DEF t
<1>9. /\ x \in Session /\ Len(x.nested) \in Nat /\ x.nested \in Seq(NestedSet)
      /\ \A i \in 1 .. Len(x.nested) : x.nested[i] \in NestedSet
  BY SessionNested
<1>10. m \in NestedSet /\ m.of = d /\ m.live
  BY DEF NestedSet
<1>. HIDE DEF m
<1>11. /\ q \in Seq(NestedSet) /\ Len(q) = Len(x.nested) + 1
       /\ q[Len(x.nested) + 1] = m
       /\ \A i \in 1 .. Len(x.nested) : q[i] = x.nested[i]
  BY <1>9, <1>10, AppendProperties
<1>. HIDE DEF q
<1>12. /\ y \in Session /\ y.nested = q /\ y.mode = x.mode /\ y.conn = x.conn /\ y.stuck = x.stuck
       /\ y.join = x.join /\ y.commits = x.commits
  BY <1>9, <1>11 DEF Session, NestedSet
<1>. HIDE DEF y
<1>13. /\ w.stack = u.stack /\ w.handle = v.handle /\ w.session[c] = y
       /\ \A a \in Level \ {c} : w.session[a] = v.session[a]
  <2>1. u \in World /\ y \in Session
    BY <1>3, <1>12 DEF Ok
  <2>2. /\ w.stack = u.stack /\ w.handle = u.handle /\ w.session[c] = y
        /\ \A a \in Level \ {c} : w.session[a] = u.session[a]
    BY <2>1, WithSessionIs
  <2>. HIDE DEF w
  <2>. QED
    BY <1>2, <2>2
<1>. HIDE DEF w, x
<1>14. Tags(w, c) = Tags(u, c) /\ Rising(w, c) /\ t \in Tags(w, c)
  BY <1>2, <1>8, <1>13 DEF Tags, Rising
<1>. HIDE DEF t
<1>15. Owning(w, c) = y /\ Creates(w, c)
  BY <1>5, <1>12, <1>13 DEF Owning, Creates
<1>16. /\ \A e : Entered(y, e) <=> Entered(x, e) \/ e = d
       /\ \A e : LiveAt(y, e) <=> LiveAt(x, e) \/ e = d
  <2>1. \A i \in 1 .. Len(q) : i = Len(x.nested) + 1 \/ i \in 1 .. Len(x.nested)
    BY <1>9, <1>11
  <2>2. \A i \in 1 .. Len(x.nested) : i \in 1 .. Len(q)
    BY <1>9, <1>11
  <2>3. Len(x.nested) + 1 \in 1 .. Len(q)
    BY <1>9, <1>11
  <2>. QED
    BY <1>10, <1>11, <1>12, <2>1, <2>2, <2>3 DEF Entered, LiveAt
<1>17. \A a \in Tags(w, c) : TagHeld(w, c, a)
  <2>. SUFFICES ASSUME NEW a \in Tags(w, c) PROVE TagHeld(w, c, a)
    OBVIOUS
  <2>1. CASE a = t
    BY <1>15, <1>16, <2>1 DEF TagHeld, t
  <2>2. CASE a = Root
    BY <2>2 DEF TagHeld
  <2>3. CASE a \in Tags(v, c) /\ a # t
    <3>1. TagHeld(v, c, a)
      BY <2>3 DEF Ordered
    <3>. QED
      BY <1>5, <1>12, <1>13, <1>15, <1>16, <2>3, <3>1 DEF TagHeld
  <2>. QED
    BY <1>8, <1>14, <2>1, <2>2, <2>3
<1>18. \A a : ~Stale(v, c, V, a)
  BY <1>5, <1>6 DEF Stale
<1>19. ASSUME NEW s \in Level PROVE JoinFits(w, c, W, s) /\ ModeFits(w, c, s)
  <2>1. /\ w.session[s].conn = v.session[s].conn /\ w.session[s].join = v.session[s].join
        /\ w.session[s].mode = v.session[s].mode /\ w.session[s].commits = v.session[s].commits
        /\ s # c => w.session[s].nested = v.session[s].nested
    BY <1>12, <1>13 DEF x
  <2>2. JoinFits(v, c, V, s) /\ ModeFits(v, c, s)
    BY DEF Ordered
  <2>3. ASSUME v.session[s].conn = c, NEW e \in Level, e <= s, BlockTag(e) \in Tags(w, c)
        PROVE  BlockTag(e) \in Tags(v, c)
    <3>1. s < d
      BY <2>3
    <3>2. e # d
      BY <2>3, <3>1 DEF Level
    <3>3. BlockTag(e) # t /\ BlockTag(e) # Root
      BY <3>2, TagsApart DEF t
    <3>. QED
      BY <1>8, <1>14, <2>3, <3>3
  <2>4. JoinFits(w, c, W, s)
    BY <1>8, <1>14, <1>18, <2>1, <2>2, <2>3 DEF JoinFits
  <2>5. s = c => v.session[s].join # NoTag
    OBVIOUS
  <2>6. ModeFits(w, c, s)
    BY <1>15, <2>1, <2>2, <2>5 DEF ModeFits
  <2>. QED
    BY <2>4, <2>6
<1>20. NestedFits(w, c, W)
  <2>1. NestedFits(v, c, V)
    BY DEF Ordered
  <2>2. Climbs(y)
    <3>1. Climbs(x)
      BY <1>5, <2>1 DEF NestedFits
    <3>2. \A i \in 1 .. Len(x.nested) : x.nested[i].of < d
      <4>1. \A i \in 1 .. Len(x.nested) : Entered(x, x.nested[i].of) /\ x.nested[i].of \in Level
        BY <1>9 DEF Entered, NestedSet
      <4>. QED
        BY <1>6, <4>1
    <3>. SUFFICES ASSUME NEW i \in 1 .. Len(q), NEW j \in 1 .. Len(q), i < j
                  PROVE  q[i].of < q[j].of
      BY <1>12 DEF Climbs
    <3>3. i \in 1 .. Len(x.nested) /\ (j \in 1 .. Len(x.nested) \/ j = Len(x.nested) + 1)
      BY <1>9, <1>11
    <3>4. CASE j \in 1 .. Len(x.nested)
      BY <1>11, <3>1, <3>3, <3>4 DEF Climbs
    <3>5. CASE j = Len(x.nested) + 1
      BY <1>10, <1>11, <3>2, <3>3, <3>5
    <3>. QED
      BY <3>3, <3>4, <3>5
  <2>3. ASSUME NEW e \in Level, Entered(y, e)
        PROVE  /\ e > c
               /\ e \in W
               /\ LiveAt(y, e) => BlockTag(e) \in Tags(w, c)
    <3>1. CASE e = d
      BY <1>14, <3>1 DEF t
    <3>2. CASE e # d
      <4>1. Entered(x, e)
        BY <1>16, <2>3, <3>2
      <4>2. e \in V
        BY <1>6, <4>1
      <4>. QED
        BY <1>5, <1>8, <1>14, <1>16, <2>1, <3>2, <4>1, <4>2 DEF NestedFits
    <3>. QED
      BY <3>1, <3>2
  <2>. QED
    BY <1>15, <2>2, <2>3 DEF NestedFits
<1>21. ASSUME NEW e \in Level PROVE HandleFits(w, c, e)
  <2>1. w.handle[e] = v.handle[e] /\ HandleFits(v, c, e)
    BY <1>13 DEF Ordered
  <2>. QED
    BY <1>8, <1>14, <1>15, <2>1 DEF HandleFits
<1>. QED
  BY <1>4, <1>14, <1>17, <1>19, <1>20, <1>21 DEF Ordered

\* Session.begin_nested(), for a new innermost block.
LEMMA BeginNestedKeeps ==
    ASSUME NEW v, Ok(v), NEW s \in Level, NEW d \in Level, v.session[s].conn # 0
    PROVE  LET w == BeginNested(v, s, d)
           IN /\ Only(v, w, v.session[s].conn)
              /\ \A V \in SUBSET Level :
                    (/\ v.session[s].conn = s /\ Ordered(v, s, V) /\ Creates(v, s) /\ ~v.session[s].stuck
                     /\ d > s /\ \A e \in V : e < d
                     /\ \A a \in Level : v.session[a].conn = s => a < d)
                        => Ordered(w, s, V \cup {d})
<1>. DEFINE k == v.session[s].conn
            f == FlushSession(v, s)
            j == JoinSession(f, s)
            t == TakeSavepoint(j, j.session[s].conn, BlockTag(d))
            e == [of |-> d, live |-> TRUE]
            q == Append(t.session[s].nested, e)
            w == [t EXCEPT !.session[s].nested = q]
<1>1. BeginNested(v, s, d) = w
  BY Zenon DEF BeginNested
<1>2. /\ Ok(f) /\ Only(v, f, k) /\ SameButJoin(v.session[s], f.session[s])
      /\ \A c \in Level : \A V : k = c /\ Ordered(v, c, V) => Ordered(f, c, V)
  BY FlushKeeps
<1>. HIDE DEF f
<1>3. f.session[s].conn = k /\ k \in Level
  BY <1>2, SessionNested DEF Only
<1>4. Joins(f, j, s) /\ Ok(j)
  BY <1>2, <1>3, JoinSessionJoins, JoinsSession DEF Quiet, Works
<1>. HIDE DEF j
<1>5. Only(f, j, k) /\ SameButJoin(f.session[s], j.session[s])
  BY <1>3, <1>4 DEF Joins
<1>6. j.session[s].join # NoTag
  <2>1. Tags(f, k) \subseteq LiveTag
    BY <1>2, <1>3, TagsAre DEF Ok
  <2>2. \/ KeepsJoin(f, j, s, k) \/ BeginsRoot(f, j, s, k)
        \/ Isolates(f, j, s, k) \/ SharesTop(f, j, s, k)
    BY <1>3, <1>4 DEF Joins
  <2>. QED
    BY <2>1, <2>2, TagsApart DEF KeepsJoin, BeginsRoot, Isolates, SharesTop
<1>7. j.session[s].conn = k /\ Only(v, j, k)
  BY <1>2, <1>3, <1>5, OnlyTrans DEF SameButJoin
<1>8. Ok(t) /\ Only(j, t, k) /\ t.session = j.session
  <2>1. BlockTag(d) \in LiveTag
    BY TagsApart
  <2>. QED
    BY <1>3, <1>4, <1>7, <2>1, Savepoints, SavepointTags DEF Quiet, Works
<1>9. Only(v, w, k)
  <2>1. t.session[s].conn = k
    BY <1>7, <1>8
  <2>. HIDE DEF t
  <2>2. q \in Seq(NestedSet)
    <3>1. t.session[s].nested \in Seq(NestedSet)
      BY <1>8, SessionNested
    <3>2. e \in NestedSet
      BY DEF NestedSet
    <3>. HIDE DEF e
    <3>. QED
      BY <3>1, <3>2
  <2>. HIDE DEF q
  <2>3. Only(t, w, k)
    BY <1>8, <2>1, <2>2, NestedOnly
  <2>. HIDE DEF w
  <2>. QED
    BY <1>7, <1>8, <2>3, OnlyTrans
<1>10. ASSUME NEW V \in SUBSET Level,
              k = s, Ordered(v, s, V), Creates(v, s), ~v.session[s].stuck, d > s,
              \A i \in V : i < d, \A a \in Level : v.session[a].conn = s => a < d
       PROVE  Ordered(w, s, V \cup {d})
  <2>1. Ordered(f, s, V)
    BY <1>2, <1>10
  <2>2. Ordered(j, s, V)
    BY <1>2, <1>3, <1>4, <1>10, <2>1, JoinsKeep
  <2>3. Creates(j, s) /\ ~j.session[s].stuck
    <3>1. /\ j.session[s].mode = v.session[s].mode /\ j.session[s].conn = s
          /\ j.session[s].stuck = v.session[s].stuck
      BY <1>2, <1>5, <1>7, <1>10 DEF SameButJoin
    <3>. QED
      BY <1>10, <3>1 DEF Creates, Owning
  <2>4. \A a \in Level : j.session[a].conn = s => a < d
    BY <1>7, <1>10 DEF Only
  <2>5. w = [TakeSavepoint(j, s, BlockTag(d)) EXCEPT
                !.session[s].nested = Append(@, [of |-> d, live |-> TRUE])]
    BY <1>7, <1>10, Zenon
  <2>. HIDE DEF w
  <2>6. Ordered([TakeSavepoint(j, s, BlockTag(d)) EXCEPT
                !.session[s].nested = Append(@, [of |-> d, live |-> TRUE])], s, V \cup {d})
    BY <1>4, <1>6, <1>10, <2>2, <2>3, <2>4, NestedTakes
  <2>. QED
    BY <2>5, <2>6
<1>. HIDE DEF w, k
<1>11. \A V \in SUBSET Level :
          (/\ k = s /\ Ordered(v, s, V) /\ Creates(v, s) /\ ~v.session[s].stuck
           /\ d > s /\ \A i \in V : i < d
           /\ \A a \in Level : v.session[a].conn = s => a < d) => Ordered(w, s, V \cup {d})
  BY <1>10
<1>. QED
  BY <1>1, <1>9, <1>11 DEF k

\* The nested transaction of a block, in the order of the others.
LEMMA NestedAt ==
    ASSUME NEW v, Ok(v), NEW s \in Level, NEW d, HoldsNested(v, s, d)
    PROVE  LET i == NestedPosition(v, s, d)
           IN /\ i \in 1 .. Len(v.session[s].nested) /\ i \in 1 .. Len(v.session[s].nested) + 1
              /\ v.session[s].nested[i].of = d /\ d \in Level
              /\ Entered(v.session[s], d)
              /\ v.session[s].conn \in Level
              /\ \A c \in Level : \A V : v.session[s].conn = c /\ Ordered(v, c, V) =>
                    s = c /\ \A j \in 1 .. i - 1 : v.session[s].nested[j].of < d
<1>. DEFINE x == v.session[s]
            i == NestedPosition(v, s, d)
<1>1. i \in 1 .. Len(x.nested) /\ x.conn \in Level
  BY NestedPositionIs
<1>2. DOMAIN x.nested = 1 .. Len(x.nested) /\ Len(x.nested) \in Nat
      /\ \A j \in 1 .. Len(x.nested) : x.nested[j] \in NestedSet
  BY SessionNested
<1>3. x.nested[i].of = d
  BY DEF HoldsNested, NestedPosition
<1>. HIDE DEF i
<1>4. d \in Level /\ Entered(x, d) /\ i \in 1 .. Len(x.nested) + 1
  BY <1>1, <1>2, <1>3 DEF NestedSet, Entered
<1>5. ASSUME NEW c \in Level, NEW V, x.conn = c, Ordered(v, c, V)
      PROVE  s = c /\ \A j \in 1 .. i - 1 : x.nested[j].of < d
  <2>1. Len(v.session[s].nested) # 0
    BY <1>1
  <2>2. s = c /\ \A j, k \in 1 .. Len(x.nested) : j < k => x.nested[j].of < x.nested[k].of
    BY <1>5, <2>1, NestedTags
  <2>3. \A j \in 1 .. i - 1 : j \in 1 .. Len(x.nested) /\ j < i
    BY <1>1, <1>2
  <2>. QED
    BY <1>1, <1>3, <2>2, <2>3
<1>. QED
  BY <1>1, <1>3, <1>4, <1>5 DEF i

\* Those below it are not of its block.
LEMMA BelowIsOther ==
    ASSUME NEW x, NEW y, NEW i \in Nat, NEW d \in Level, Shortened(x, y, i - 1),
           \A j \in 1 .. i - 1 : x.nested[j].of < d
    PROVE  /\ ~Entered(y, d)
           /\ \A e : Entered(y, e) => e < d /\ \E j \in 1 .. i - 1 : x.nested[j].of = e
<1>1. Len(y.nested) = i - 1 /\ \A j \in 1 .. i - 1 : y.nested[j].of = x.nested[j].of
  BY DEF Shortened
<1>2. \A e : Entered(y, e) => e < d /\ \E j \in 1 .. i - 1 : x.nested[j].of = e
  BY <1>1 DEF Entered
<1>3. ~(d < d)
  BY DEF Level
<1>. QED
  BY <1>2, <1>3

\* The commit of a begin_nested(): on its connection alone and in order, and the session
\* has given it up unless it is stuck.
LEMMA CommitNestedKeeps ==
    ASSUME NEW v, Ok(v), NEW s \in Level, NEW d, HoldsNested(v, s, d)
    PROVE  LET w == CommitNested(v, s, d)
           IN /\ Only(v, w, v.session[s].conn)
              /\ \A c \in Level : \A V : v.session[s].conn = c /\ Ordered(v, c, V) =>
                    Ordered(w, c, V) /\ (w.session[s].stuck \/ ~Entered(w.session[s], d))
<1>. DEFINE a == v.session[s].conn
            f == FlushSession(v, s)
            i == NestedPosition(f, s, d)
            k == Failing(f, s)
            g == ReleaseNested(f, s, k + 1)
            h == ReleaseNested(f, s, i)
            u == Stuck(g, s)
            w == CommitNested(v, s, d)
            G(x) == /\ Only(v, x, a)
                    /\ \A c \in Level : \A V : a = c /\ Ordered(v, c, V) =>
                          Ordered(x, c, V) /\ (x.session[s].stuck \/ ~Entered(x.session[s], d))
<1>1. a \in Level /\ a # 0
  BY NestedAt DEF Level
<1>2. /\ Ok(f) /\ Only(v, f, a) /\ f.session[s].conn = a
      /\ f.session[s].nested = v.session[s].nested
      /\ \A c \in Level : \A V : a = c /\ Ordered(v, c, V) => Ordered(f, c, V)
  BY <1>1, FlushKeeps DEF SameButJoin
<1>3. w = IF k >= i THEN u ELSE h
  BY DEF CommitNested
<1>. HIDE DEF f, w
<1>4. HoldsNested(f, s, d)
  BY <1>2 DEF HoldsNested
<1>5. /\ i \in 1 .. Len(f.session[s].nested) /\ i \in 1 .. Len(f.session[s].nested) + 1
      /\ d \in Level
      /\ \A c \in Level : \A V : a = c /\ Ordered(f, c, V) => \A j \in 1 .. i - 1 : f.session[s].nested[j].of < d
  BY <1>2, <1>4, NestedAt
<1>6. k \in 0 .. Len(f.session[s].nested) /\ Len(f.session[s].nested) \in Nat
  BY <1>2, FailingIs, SessionNested
<1>7. \A j \in 1 .. Len(f.session[s].nested) : j > k => ~HasEnded(f, s, j)
  BY <1>2, FailingLast
<1>. HIDE DEF a, i, k
<1>8. G(u)
  <2>1. k + 1 \in 1 .. Len(f.session[s].nested) + 1
    BY <1>6
  <2>2. k + 1 <= Len(f.session[s].nested) => ~HasEnded(f, s, k + 1)
    BY <1>6, <1>7
  <2>3. Ok(g) /\ Only(f, g, a)
    BY <1>2, <2>1, ReleasesNested, ReleaseNestedOnly DEF Quiet, Works
  <2>4. \A c \in Level : \A V : a = c /\ Ordered(v, c, V) => Ordered(g, c, V)
    BY <1>2, <2>1, <2>2, ReleaseNestedKeeps
  <2>. HIDE DEF g
  <2>5. g.session[s].conn = a /\ Only(v, g, a)
    BY <1>2, <2>3, OnlyTrans DEF Only
  <2>6. /\ Only(g, u, a) /\ \A c : Replaces(g, u, c, s)
        /\ SameJoined(g.session[s], u.session[s]) /\ u.session[s].stuck
    BY <2>3, <2>5, ResetsOnly
  <2>. HIDE DEF u
  <2>7. \A c \in Level : \A V : a = c /\ Ordered(v, c, V) => Ordered(u, c, V)
    BY <2>4, <2>6, SameKeeps
  <2>. QED
    BY <2>5, <2>6, <2>7, OnlyTrans
<1>9. CASE k < i
  <2>1. ~HasEnded(f, s, i)
    BY <1>5, <1>7, <1>9
  <2>2. Only(f, h, a)
    BY <1>2, <1>5, ReleaseNestedOnly
  <2>3. ASSUME NEW c \in Level, NEW V, a = c, Ordered(v, c, V)
        PROVE  Ordered(h, c, V) /\ ~Entered(h.session[s], d)
    <3>1. Ordered(f, c, V)
      BY <1>2, <2>3
    <3>2. Ordered(h, c, V) /\ Shortened(f.session[s], h.session[s], i - 1)
      BY <1>2, <1>5, <2>1, <2>3, <3>1, ReleaseNestedKeeps
    <3>. DEFINE x == f.session[s]
                y == h.session[s]
    <3>3. /\ Shortened(x, y, i - 1) /\ i \in Nat /\ \A j \in 1 .. i - 1 : x.nested[j].of < d
      BY <1>5, <2>3, <3>1, <3>2
    <3>. HIDE DEF x, y
    <3>4. ~Entered(y, d)
      BY <1>5, <3>3, BelowIsOther
    <3>. QED
      BY <3>2, <3>4 DEF y
  <2>. HIDE DEF h, u
  <2>4. G(h)
    BY <1>2, <2>2, <2>3, OnlyTrans
  <2>5. ~(k >= i)
    BY <1>5, <1>6, <1>9
  <2>. QED
    BY <1>3, <2>4, <2>5 DEF w, a
<1>10. CASE ~(k < i)
  <2>1. k >= i
    BY <1>5, <1>6, <1>10
  <2>. HIDE DEF u, h
  <2>. QED
    BY <1>3, <1>8, <2>1 DEF w, a
<1>. QED
  BY <1>9, <1>10

\* The rollback of a begin_nested() likewise; the session is no longer stuck.
LEMMA RollbackNestedKeeps ==
    ASSUME NEW v, Ok(v), NEW s \in Level, NEW d, HoldsNested(v, s, d)
    PROVE  LET w == RollbackNested(v, s, d)
           IN /\ Only(v, w, v.session[s].conn)
              /\ \A c \in Level : \A V : v.session[s].conn = c /\ Ordered(v, c, V) /\ d \in V =>
                    Ordered(w, c, V) /\ ~Entered(w.session[s], d)
<1>. DEFINE a == v.session[s].conn
            i == NestedPosition(v, s, d)
            r == RollbackFrom(v, s, i)
            x == r.session[s]
            y == [x EXCEPT !.pending = {}, !.stuck = FALSE]
            w == [r EXCEPT !.session[s] = y]
<1>1. RollbackNested(v, s, d) = w
  BY Zenon DEF RollbackNested
<1>2. /\ i \in 1 .. Len(v.session[s].nested) /\ i \in 1 .. Len(v.session[s].nested) + 1
      /\ d \in Level /\ Entered(v.session[s], d) /\ a \in Level
      /\ \A c \in Level : \A V : a = c /\ Ordered(v, c, V) =>
            s = c /\ \A j \in 1 .. i - 1 : v.session[s].nested[j].of < d
  BY NestedAt
<1>. HIDE DEF i
<1>3. i \in Nat \ {0}
  BY <1>2, SessionNested
<1>4. Ok(r) /\ Only(v, r, a)
  BY <1>3, RollsBackFrom, RollbackFromOnly DEF Quiet, Works
<1>5. \A c \in Level : \A V : a = c /\ Ordered(v, c, V) =>
          Ordered(r, c, V) /\ Shortened(v.session[s], r.session[s], i - 1)
  BY <1>2, RollbackFromKeeps
<1>. HIDE DEF r
<1>6. x \in Session /\ x.conn = a
  BY <1>4, SessionNested DEF Only
<1>. HIDE DEF x
<1>7. /\ y \in Session /\ y.mode = x.mode /\ y.conn = x.conn
      /\ y.join = x.join /\ y.commits = x.commits /\ y.nested = x.nested
  <2>. DEFINE b == [x EXCEPT !.pending = {}]
              z == [b EXCEPT !.stuck = FALSE]
  <2>1. y = z
    BY Zenon
  <2>3. /\ b \in Session /\ b.mode = x.mode /\ b.conn = x.conn
        /\ b.join = x.join /\ b.commits = x.commits /\ b.nested = x.nested
    BY <1>6 DEF Session
  <2>. HIDE DEF b
  <2>4. /\ z \in Session /\ z.mode = x.mode /\ z.conn = x.conn
        /\ z.join = x.join /\ z.commits = x.commits /\ z.nested = x.nested
    BY <2>3 DEF Session
  <2>. QED
    BY <2>1, <2>4
<1>. HIDE DEF y
<1>8. /\ w.stack = r.stack /\ w.handle = r.handle /\ w.session[s] = y
      /\ \A t \in Level \ {s} : w.session[t] = r.session[t]
  BY <1>4, <1>7, WithSessionIs DEF Ok
<1>. HIDE DEF w
<1>9. Only(r, w, a)
  <2>1. w.session[s].conn = r.session[s].conn /\ r.session[s].conn = a
    BY <1>6, <1>7, <1>8 DEF x
  <2>. QED
    BY <1>8, <2>1, OnlySession
<1>10. ASSUME NEW c \in Level, NEW V, a = c, Ordered(v, c, V), d \in V
       PROVE  Ordered(w, c, V) /\ ~Entered(w.session[s], d)
  <2>1. Ordered(r, c, V) /\ Shortened(v.session[s], x, i - 1)
    BY <1>5, <1>10 DEF x
  <2>2. s = c /\ \A j \in 1 .. i - 1 : v.session[s].nested[j].of < d
    BY <1>2, <1>10
  <2>3. /\ ~Entered(x, d)
        /\ \A e : Entered(x, e) => e < d /\ \E j \in 1 .. i - 1 : v.session[s].nested[j].of = e
    BY <1>2, <1>3, <2>1, <2>2, BelowIsOther
  <2>4. ASSUME NEW e \in Level, Entered(x, e) PROVE e \in V
    <3>1. e < d /\ \E j \in 1 .. i - 1 : v.session[s].nested[j].of = e
      BY <2>3, <2>4
    <3>2. Entered(v.session[s], e)
      BY <1>2, <3>1, SessionNested DEF Entered
    <3>3. Owning(v, c) = v.session[s]
      BY <1>10, <2>2 DEF Owning
    <3>. QED
      BY <1>2, <1>10, <3>1, <3>2, <3>3 DEF Ordered, NestedFits
  <2>5. Replaces(r, w, c, c)
    BY <1>8, <2>2 DEF Replaces
  <2>6. Ordered(w, c, V)
    BY <1>6, <1>7, <1>8, <1>10, <2>1, <2>2, <2>4, <2>5, UnstuckKeeps DEF x
  <2>7. ~Entered(w.session[s], d)
    BY <1>7, <1>8, <2>3 DEF Entered
  <2>. QED
    BY <2>6, <2>7
<1>11. Only(v, w, a)
  BY <1>4, <1>9, OnlyTrans
<1>. QED
  BY <1>1, <1>10, <1>11 DEF a

------------------------------------------------------------------------------
(***************************************************************************)
(* What a step on one connection leaves of the others: their stack, their   *)
(* sessions and their handles.                                              *)
(***************************************************************************)
Spared(v, w, c) ==
    /\ w.stack[c] = v.stack[c]
    /\ \A s \in Level : v.session[s].conn = c \/ w.session[s].conn = c => w.session[s] = v.session[s]
    /\ \A d \in Level : v.handle[d].conn = c \/ w.handle[d].conn = c => w.handle[d] = v.handle[d]

Spares(v, w, k) == \A c \in Level \ {k} : Spared(v, w, c)

\* What touches one connection spares the others.
LEMMA OnlySpares ==
    ASSUME NEW v, NEW w, NEW a, NEW k, Only(v, w, a), a \in {0, k}
    PROVE  Spares(v, w, k)
<1>. SUFFICES ASSUME NEW c \in Level \ {k} PROVE Spared(v, w, c)
  BY DEF Spares
<1>1. c # a
  BY DEF Level
<1>. QED
  BY <1>1 DEF Only, Spared

\* One step after another.
LEMMA SparesTrans ==
    ASSUME NEW v, NEW w, NEW x, NEW k, Spares(v, w, k), Spares(w, x, k)
    PROVE  Spares(v, x, k)
<1>. SUFFICES ASSUME NEW c \in Level \ {k} PROVE Spared(v, x, c)
  BY DEF Spares
<1>1. Spared(v, w, c) /\ Spared(w, x, c)
  BY DEF Spares
<1>. QED
  BY <1>1 DEF Spared

\* Changing a session that is, before and after, on connection k or on none.
LEMMA SessionSpares ==
    ASSUME NEW v, NEW w, NEW s \in Level, NEW k, w.stack = v.stack, w.handle = v.handle,
           \A t \in Level \ {s} : w.session[t] = v.session[t],
           v.session[s].conn \in {0, k}, w.session[s].conn \in {0, k}
    PROVE  Spares(v, w, k)
<1>. SUFFICES ASSUME NEW c \in Level \ {k} PROVE Spared(v, w, c)
  BY DEF Spares
<1>1. c # 0 /\ c # k
  BY DEF Level
<1>. QED
  BY <1>1 DEF Spared

\* What is spared stays in order.
LEMMA SparedKeeps ==
    ASSUME NEW v, NEW w, NEW c \in Level, NEW V, Ordered(v, c, V), Spared(v, w, c)
    PROVE  Ordered(w, c, V)
<1>1. Tags(w, c) = Tags(v, c) /\ (Rising(v, c) => Rising(w, c))
  BY DEF Spared, Tags, Rising
<1>2. Owning(w, c) = Owning(v, c)
  BY DEF Spared, Owning
<1>3. /\ Creates(w, c) <=> Creates(v, c)
      /\ \A t : Stale(w, c, V, t) <=> Stale(v, c, V, t)
  BY <1>2 DEF Creates, Stale
<1>4. \A t \in Tags(w, c) : TagHeld(w, c, t)
  BY <1>1, <1>2, <1>3 DEF Ordered, TagHeld, Spared
<1>5. ASSUME NEW s \in Level PROVE JoinFits(w, c, V, s) /\ ModeFits(w, c, s)
  <2>1. JoinFits(v, c, V, s) /\ ModeFits(v, c, s)
    BY DEF Ordered
  <2>2. CASE w.session[s].conn = c
    <3>1. w.session[s] = v.session[s]
      BY <2>2 DEF Spared
    <3>. QED
      BY <1>1, <1>3, <2>1, <3>1 DEF JoinFits, ModeFits
  <2>3. CASE w.session[s].conn # c
    BY <2>3 DEF JoinFits, ModeFits
  <2>. QED
    BY <2>2, <2>3
<1>6. NestedFits(w, c, V)
  BY <1>1, <1>2, <1>3 DEF Ordered, NestedFits
<1>7. \A d \in Level : HandleFits(w, c, d)
  BY <1>1, <1>3 DEF Ordered, HandleFits, Spared
<1>. QED
  BY <1>1, <1>4, <1>5, <1>6, <1>7 DEF Ordered

\* A statement.
LEMMA WriteKeeps ==
    ASSUME NEW v, Ok(v), NEW c \in Level, NEW R \in SUBSET Row
    PROVE  LET w == Write(v, c, R)
           IN Only(v, w, c) /\ \A V : Ordered(v, c, V) => Ordered(w, c, V)
<1>. DEFINE w == Write(v, c, R)
<1>1. Only(v, w, c) /\ Began(v, w, c) /\ w.session = v.session /\ w.handle = v.handle
  BY WritesTags
<1>. HIDE DEF w
<1>2. ASSUME NEW V, Ordered(v, c, V) PROVE Ordered(w, c, V)
  <2>1. Tags(w, c) \subseteq Tags(v, c) \cup {Root} /\ Tags(v, c) \subseteq Tags(w, c)
    BY <1>1 DEF Began
  <2>2. Rising(w, c)
    BY <1>1, <1>2 DEF Began, Ordered
  <2>3. \A d \in Level : BlockTag(d) \in Tags(w, c) => BlockTag(d) \in Tags(v, c)
    BY <2>1, TagsApart
  <2>4. Owning(w, c) = Owning(v, c)
    BY <1>1 DEF Owning
  <2>5. /\ Creates(w, c) <=> Creates(v, c)
        /\ \A t : Stale(w, c, V, t) <=> Stale(v, c, V, t)
    BY <2>4 DEF Creates, Stale
  <2>6. JoinFits(w, c, V, c) /\ ModeFits(w, c, c)
    <3>1. JoinFits(v, c, V, c) /\ ModeFits(v, c, c)
      BY <1>2 DEF Ordered
    <3>. QED
      BY <1>1, <2>1, <2>3, <2>5, <3>1 DEF JoinFits, ModeFits
  <2>7. SameButJoin(v.session[c], w.session[c]) /\ w.session[c].join = v.session[c].join
    BY <1>1 DEF SameButJoin
  <2>8. \A t \in Tags(w, c) \ Tags(v, c) : TagHeld(w, c, t)
    BY <2>1 DEF TagHeld
  <2>9. \A a \in Level \ {c} : w.session[a] = v.session[a]
    BY <1>1
  <2>. QED
    BY <1>1, <1>2, <2>1, <2>2, <2>3, <2>6, <2>7, <2>8, <2>9, JoinedKeeps
<1>. QED
  BY <1>1, <1>2 DEF w

\* A new session of another block.
LEMMA NewSessionKeeps ==
    ASSUME NEW v, Ok(v), NEW s \in Level, NEW m \in Modes, NEW k \in 0 .. MaxDepth
    PROVE  LET w == [v EXCEPT !.session[s] = NewSession(m, k)]
           IN /\ v.session[s].conn \in {0, k} => Spares(v, w, k)
              /\ \A c \in Level : \A V :
                    Ordered(v, c, V) /\ s # c /\ (k = c => m = "rollback_only") => Ordered(w, c, V)
<1>. DEFINE y == NewSession(m, k)
            w == [v EXCEPT !.session[s] = y]
<1>1. /\ y \in Session /\ y.mode = m /\ y.conn = k /\ ~y.commits /\ y.join = NoTag /\ y.nested = <<>>
  BY NewSessionIs
<1>. HIDE DEF y
<1>2. /\ w.stack = v.stack /\ w.handle = v.handle /\ w.session[s] = y
      /\ \A t \in Level \ {s} : w.session[t] = v.session[t]
  BY <1>1, WithSessionIs DEF Ok
<1>. HIDE DEF w
<1>3. v.session[s].conn \in {0, k} => Spares(v, w, k)
  BY <1>1, <1>2, SessionSpares
<1>4. ASSUME NEW c \in Level, NEW V, Ordered(v, c, V), s # c, k = c => m = "rollback_only"
      PROVE  Ordered(w, c, V)
  <2>1. Replaces(v, w, c, s) /\ Idles(w.session[s], c) /\ s \in Level \ {c}
    BY <1>1, <1>2, <1>4 DEF Replaces, Idles
  <2>. QED
    BY <1>4, <2>1, IdleKeeps
<1>. QED
  BY <1>3, <1>4 DEF w, y

\* A session goes with its block.
LEMMA DropKeeps ==
    ASSUME NEW v, Ok(v), NEW s \in Level
    PROVE  LET w == DropSession(v, s)
           IN /\ \A k : v.session[s].conn \in {0, k} => Spares(v, w, k)
              /\ \A c \in Level : \A V : Ordered(v, c, V) /\ s # c => Ordered(w, c, V)
<1>. DEFINE w == DropSession(v, s)
<1>1. SessionsAs(v, w, s) /\ w.session[s] = NoSession
  BY DropsSession
<1>. HIDE DEF w
<1>2. NoSession.conn = 0
  BY DEF NoSession
<1>3. \A k : v.session[s].conn \in {0, k} => Spares(v, w, k)
  BY <1>1, <1>2, SessionSpares DEF SessionsAs
<1>4. ASSUME NEW c \in Level, NEW V, Ordered(v, c, V), s # c PROVE Ordered(w, c, V)
  <2>1. Replaces(v, w, c, s) /\ Idles(w.session[s], c) /\ s \in Level \ {c}
    BY <1>1, <1>2, <1>4 DEF Replaces, Idles, SessionsAs, Level
  <2>. QED
    BY <1>4, <2>1, IdleKeeps
<1>. QED
  BY <1>3, <1>4 DEF w

\* The session of the transaction that opened the connection, which no block below took
\* a savepoint on.
LEMMA OwnerBegins ==
    ASSUME NEW v, Ok(v), NEW c \in Level, NEW m \in {"create_savepoint", "rollback_only"},
           NEW V, Ordered(v, c, V), v.session[c].conn # c,
           \A d \in Level : v.handle[d].conn = c => d = c
    PROVE  Ordered([v EXCEPT !.session[c] = NewSession(m, c)], c, V)
<1>. DEFINE y == NewSession(m, c)
            w == [v EXCEPT !.session[c] = y]
<1>0. m \in Modes /\ c \in 0 .. MaxDepth
  BY DEF Modes, Level
<1>1. /\ y \in Session /\ y.mode = m /\ y.conn = c /\ ~y.commits /\ y.join = NoTag /\ y.nested = <<>>
  BY <1>0, NewSessionIs
<1>. HIDE DEF y
<1>2. /\ w.stack = v.stack /\ w.handle = v.handle /\ w.session[c] = y
      /\ \A t \in Level \ {c} : w.session[t] = v.session[t]
  <2>1. v \in World /\ c \in Level
    BY DEF Ok
  <2>2. \A s \in Level : \A x \in Session :
            LET u == [v EXCEPT !.session[s] = x]
            IN /\ u.stack = v.stack /\ u.handle = v.handle /\ u.session[s] = x
               /\ \A t \in Level \ {s} : u.session[t] = v.session[t]
    BY <2>1, WithSessionIs
  <2>. QED
    BY <1>1, <2>1, <2>2, Zenon
<1>. HIDE DEF w
<1>3. Owning(v, c) = NoSession /\ Owning(w, c) = y
  BY <1>1, <1>2 DEF Owning
<1>4. /\ ~Creates(v, c) /\ \A d : ~Entered(NoSession, d) /\ ~LiveAt(NoSession, d)
      /\ \A d : ~Entered(y, d) /\ ~LiveAt(y, d)
  BY <1>1, <1>3 DEF NoSession, Creates, Entered, LiveAt
<1>5. Tags(w, c) = Tags(v, c) /\ Rising(w, c)
  BY <1>2 DEF Tags, Rising, Ordered
<1>6. Tags(v, c) \subseteq {Root}
  <2>1. \A t \in Tags(v, c) : TagHeld(v, c, t)
    BY DEF Ordered
  <2>2. \A d \in Level : d > c => d # c
    BY DEF Level
  <2>. QED
    BY <1>3, <1>4, <2>1, <2>2 DEF TagHeld
<1>7. ASSUME NEW s \in Level PROVE JoinFits(w, c, V, s) /\ ModeFits(w, c, s)
  <2>1. CASE s = c
    BY <1>1, <1>2, <1>3, <2>1 DEF JoinFits, ModeFits, Creates
  <2>2. CASE s # c
    <3>1. JoinFits(v, c, V, s) /\ ModeFits(v, c, s) /\ w.session[s] = v.session[s]
      BY <1>2, <2>2 DEF Ordered
    <3>2. \A t : ~Stale(v, c, V, t)
      BY <1>3, <1>4 DEF Stale
    <3>. QED
      BY <1>5, <2>2, <3>1, <3>2 DEF JoinFits, ModeFits
  <2>. QED
    BY <2>1, <2>2
<1>8. NestedFits(w, c, V)
  BY <1>1, <1>3, <1>4 DEF NestedFits, Climbs
<1>9. ASSUME NEW d \in Level PROVE HandleFits(w, c, d)
  BY <1>2, <1>5 DEF Ordered, HandleFits
<1>10. \A t \in Tags(w, c) : TagHeld(w, c, t)
  BY <1>5, <1>6 DEF TagHeld
<1>11. Ordered(w, c, V)
  BY <1>5, <1>7, <1>8, <1>9, <1>10 DEF Ordered
<1>. QED
  BY <1>11 DEF w, y

\* An add() to a session.
LEMMA AddKeeps ==
    ASSUME NEW v, Ok(v), NEW s \in Level, NEW r \in Row
    PROVE  LET w == AddToSession(v, s, r)
           IN /\ Only(v, w, v.session[s].conn)
              /\ \A c \in Level : \A V : Ordered(v, c, V) => Ordered(w, c, V)
<1>. DEFINE x == v.session[s]
            a == [x EXCEPT !.begun = TRUE]
            y == [a EXCEPT !.pending = @ \cup {r}]
            w == [v EXCEPT !.session[s] = y]
<1>1. v \in World /\ x \in Session
  BY WorldFields DEF Ok
<1>2. AddToSession(v, s, r) = w
  BY Zenon DEF AddToSession
<1>3. a \in Session /\ SameJoined(x, a)
  BY <1>1 DEF Session, SameJoined
<1>. HIDE DEF a
<1>4. y \in Session /\ SameJoined(x, y)
  BY <1>3 DEF Session, SameJoined
<1>. HIDE DEF y
<1>5. /\ w.stack = v.stack /\ w.handle = v.handle /\ w.session[s] = y
      /\ \A t \in Level \ {s} : w.session[t] = v.session[t]
  BY <1>1, <1>4, WithSessionIs
<1>. HIDE DEF w
<1>6. Only(v, w, v.session[s].conn)
  BY <1>4, <1>5, OnlySession DEF SameJoined
<1>7. ASSUME NEW c \in Level, NEW V, Ordered(v, c, V) PROVE Ordered(w, c, V)
  <2>1. Replaces(v, w, c, s) /\ SameJoined(v.session[s], w.session[s])
    BY <1>4, <1>5 DEF Replaces
  <2>. QED
    BY <1>7, <2>1, SameKeeps
<1>. QED
  BY <1>2, <1>6, <1>7

\* A transaction begun on a connection of its own.
LEMMA RootBegins ==
    ASSUME NEW v, Ok(v), NEW c \in Level, NEW V, v.stack[c] = <<>>,
           \A s \in Level : v.session[s].conn # c, \A d \in Level \ {c} : v.handle[d].conn # c
    PROVE  Ordered([Autobegin(v, c) EXCEPT !.handle[c] = [conn |-> c, tag |-> Root]], c, V)
<1>. DEFINE b == Autobegin(v, c)
            h == [conn |-> c, tag |-> Root]
            w == [b EXCEPT !.handle[c] = h]
<1>1. /\ Ok(b) /\ b.session = v.session /\ b.handle = v.handle /\ b.stack[c] # <<>>
  BY Begins DEF Quiet, Works
<1>2. Began(v, b, c)
  BY BeginsTags
<1>. HIDE DEF b
<1>3. Tags(v, c) = {}
  BY TagsAre DEF Ok
<1>4. Tags(b, c) = {Root} /\ Rising(b, c)
  <2>1. Rising(v, c)
    BY DEF Rising
  <2>. QED
    BY <1>2, <1>3, <2>1 DEF Began
<1>5. /\ w.session = b.session /\ w.stack = b.stack
      /\ w.handle[c] = h /\ \A e \in Level \ {c} : w.handle[e] = b.handle[e]
  BY <1>1 DEF Ok, World
<1>. HIDE DEF w
<1>6. Tags(w, c) = {Root} /\ Rising(w, c)
  BY <1>4, <1>5 DEF Tags, Rising
<1>7. Owning(w, c) = NoSession
  BY <1>1, <1>5 DEF Owning
<1>8. NestedFits(w, c, V) /\ ~Creates(w, c)
  BY <1>7 DEF NestedFits, Climbs, Entered, NoSession, Creates
<1>9. \A s \in Level : JoinFits(w, c, V, s) /\ ModeFits(w, c, s)
  BY <1>1, <1>5 DEF JoinFits, ModeFits
<1>10. \A d \in Level : HandleFits(w, c, d)
  BY <1>1, <1>5, <1>6, <1>8 DEF HandleFits
<1>11. \A t \in Tags(w, c) : TagHeld(w, c, t)
  BY <1>6 DEF TagHeld
<1>12. Ordered(w, c, V)
  BY <1>6, <1>8, <1>9, <1>10, <1>11 DEF Ordered
<1>. QED
  BY <1>12 DEF w, b

\* A handle goes with its block, when what it held has ended.
LEMMA HandleGoes ==
    ASSUME NEW v, Ok(v), NEW d \in Level
    PROVE  LET w == [v EXCEPT !.handle[d] = NoHandle]
           IN /\ \A k : v.handle[d].conn \in {0, k} => Spares(v, w, k)
              /\ \A c \in Level : \A V :
                    Ordered(v, c, V) /\ (v.handle[d].conn = c => v.handle[d].tag \notin Tags(v, c))
                        => Ordered(w, c, V)
<1>. DEFINE w == [v EXCEPT !.handle[d] = NoHandle]
<1>1. /\ w.session = v.session /\ w.stack = v.stack
      /\ w.handle[d] = NoHandle /\ \A e \in Level \ {d} : w.handle[e] = v.handle[e]
  BY DEF Ok, World
<1>. HIDE DEF w
<1>2. NoHandle.conn = 0
  BY DEF NoHandle
<1>3. ASSUME NEW k, v.handle[d].conn \in {0, k} PROVE Spares(v, w, k)
  <2>. SUFFICES ASSUME NEW c \in Level \ {k} PROVE Spared(v, w, c)
    BY DEF Spares
  <2>1. c # 0 /\ c # k
    BY DEF Level
  <2>. QED
    BY <1>1, <1>2, <1>3, <2>1 DEF Spared
<1>4. ASSUME NEW c \in Level, NEW V, Ordered(v, c, V),
             v.handle[d].conn = c => v.handle[d].tag \notin Tags(v, c)
      PROVE  Ordered(w, c, V)
  <2>1. /\ Tags(w, c) = Tags(v, c) /\ Rising(w, c) /\ Owning(w, c) = Owning(v, c)
    BY <1>1, <1>4 DEF Tags, Rising, Owning, Ordered
  <2>2. /\ Creates(w, c) <=> Creates(v, c)
        /\ \A t : Stale(w, c, V, t) <=> Stale(v, c, V, t)
    BY <2>1 DEF Creates, Stale
  <2>3. ASSUME NEW t \in Tags(w, c) PROVE TagHeld(w, c, t)
    <3>1. TagHeld(v, c, t) /\ t \in Tags(v, c)
      BY <1>4, <2>1 DEF Ordered
    <3>2. ASSUME NEW e \in Level, v.handle[e].conn = c, v.handle[e].tag = t
          PROVE  w.handle[e] = v.handle[e]
      BY <1>1, <1>4, <3>1, <3>2
    <3>. QED
      BY <2>1, <2>2, <3>1, <3>2 DEF TagHeld
  <2>4. \A s \in Level : JoinFits(w, c, V, s) /\ ModeFits(w, c, s)
    BY <1>1, <1>4, <2>1, <2>2 DEF Ordered, JoinFits, ModeFits
  <2>5. NestedFits(w, c, V)
    BY <1>4, <2>1, <2>2 DEF Ordered, NestedFits
  <2>6. ASSUME NEW e \in Level PROVE HandleFits(w, c, e)
    <3>1. HandleFits(v, c, e)
      BY <1>4 DEF Ordered
    <3>2. e = d => w.handle[e].conn # c
      BY <1>1, <1>2 DEF Level
    <3>. QED
      BY <1>1, <2>1, <2>2, <3>1, <3>2 DEF HandleFits
  <2>. QED
    BY <2>1, <2>3, <2>4, <2>5, <2>6 DEF Ordered
<1>. QED
  BY <1>3, <1>4 DEF w

------------------------------------------------------------------------------
(***************************************************************************)
(* The blocks as a tree: those on the connection that a transaction opened. *)
(***************************************************************************)

\* The open transactions that opened their connection.
Owned(bl, n) == {c \in 1 .. n : bl[c].kind = "transaction" /\ bl[c].conn = c}

\* The open blocks whose savepoint is taken through the session of block c.
Taken(bl, n, c) == {d \in 1 .. n : bl[d].ends = "nested" /\ bl[d].owner = c}

\* Block e, on the connection of transaction c, has a transaction there as its outer
\* one; a transaction has the owner of c, and ends a savepoint if anything.
OnTree(bl, c, e) ==
    /\ bl[e].outer # 0 /\ bl[bl[e].outer].conn = c
    /\ bl[e].kind = "transaction" =>
          bl[e].owner = bl[c].owner /\ bl[e].ends \in {"nothing", "nested", "savepoint"}

Tree(bl, n) ==
    /\ \A e \in 1 .. n : bl[e].conn # 0 => bl[bl[e].conn].conn = bl[e].conn
    /\ \A c \in Owned(bl, n) :
          /\ bl[c].owner \in {0, c}
          /\ \A e \in 1 .. n : bl[e].conn = c /\ e # c => OnTree(bl, c, e)

\* What the bindings say of each block, a lazy connection checked out or not.
LEMMA BlocksBind ==
    ASSUME BindingsInv, NEW bl, MayCheckOut(bl), NEW e \in 1 .. depth
    PROVE  /\ e \in Level /\ e \in OpenLevel /\ bl[e].conn \in 0 .. e
           /\ bl[e].conn # 0 => bl[e].conn \in 1 .. depth
           /\ bl[e].kind = "transaction" => bl[e].outer = e /\ bl[e].conn # 0
           /\ bl[e].kind = "transaction" => bl[e].conn = block[e].conn
           /\ bl[e].outer # 0 => /\ bl[e].outer \in 1 .. e /\ bl[e].outer \in 1 .. depth
                                 /\ bl[bl[e].outer].kind = "transaction"
           /\ bl[e].conn # block[e].conn => block[e].conn = 0 /\ bl[e].conn = e
                                            /\ block[e].kind = "session"
           /\ bl[e].ends # "nothing" => bl[e].kind = "transaction"
           /\ bl[e].kind = block[e].kind /\ bl[e].outer = block[e].outer
           /\ bl[e].owner = block[e].owner /\ bl[e].ends = block[e].ends
<1>1. e \in Level /\ e \in OpenLevel /\ depth \in Nat
  BY LevelsFit DEF OpenLevel
<1>2. /\ block[e].conn \in 0 .. e
      /\ block[e].kind = "transaction" => block[e].outer = e /\ block[e].conn # 0
      /\ block[e].outer # 0 => block[e].outer \in 1 .. e /\ block[block[e].outer].kind = "transaction"
      /\ block[e].ends # "nothing" => block[e].kind = "transaction"
      /\ block[e].conn = 0 => block[e].kind = "session"
  <2>1. block[e].conn <= e /\ block[e].conn \in 0 .. MaxDepth
    BY <1>1, LevelsFit
  <2>. QED
    BY <1>1, <2>1, MaxDepthAssumption DEF BindingsInv, TransactionsBind, OuterIsTransaction, EndsRight, Level
<1>3. /\ bl[e].kind = block[e].kind /\ bl[e].outer = block[e].outer
      /\ bl[e].owner = block[e].owner /\ bl[e].ends = block[e].ends
      /\ bl[e].conn \in {block[e].conn, e} /\ (block[e].conn # 0 => bl[e].conn = block[e].conn)
  BY <1>1, CheckOutKeeps
<1>4. block[e].outer # 0 => /\ block[e].outer \in 1 .. depth
                            /\ bl[block[e].outer].kind = block[block[e].outer].kind
  <2>1. \A o \in 1 .. e : o \in 1 .. depth /\ o \in Level
    <3>1. \A o \in 1 .. e : o \in 1 .. depth
      BY <1>1
    <3>. QED
      BY <3>1, LevelsFit
  <2>. QED
    BY <1>2, <2>1, CheckOutKeeps
<1>5. bl[e].conn \in 0 .. e
  BY <1>1, <1>2, <1>3 DEF Level
<1>. QED
  BY <1>1, <1>2, <1>3, <1>4, <1>5

\* A connection checked out is no branch of it.
LEMMA CheckOutTree ==
    ASSUME BindingsInv, Tree(block, depth), NEW bl, MayCheckOut(bl)
    PROVE  /\ Tree(bl, depth)
           /\ Owned(bl, depth) = Owned(block, depth)
           /\ \A c : Taken(bl, depth, c) = Taken(block, depth, c)
<1>1. Owned(bl, depth) = Owned(block, depth)
  BY BlocksBind DEF Owned
<1>2. \A c : Taken(bl, depth, c) = Taken(block, depth, c)
  BY BlocksBind DEF Taken
<1>3. ASSUME NEW e \in 1 .. depth, bl[e].conn # 0 PROVE bl[bl[e].conn].conn = bl[e].conn
  <2>1. CASE bl[e].conn # block[e].conn
    BY <2>1, BlocksBind
  <2>2. CASE bl[e].conn = block[e].conn
    <3>1. block[block[e].conn].conn = block[e].conn /\ block[e].conn \in 1 .. depth
      BY <1>3, <2>2, BlocksBind DEF Tree
    <3>. QED
      BY <1>3, <2>2, <3>1, BlocksBind
  <2>. QED
    BY <2>1, <2>2
<1>4. ASSUME NEW c \in Owned(bl, depth), NEW e \in 1 .. depth, bl[e].conn = c, e # c
      PROVE  OnTree(bl, c, e)
  <2>1. block[e].conn = c
    BY <1>4, BlocksBind
  <2>2. OnTree(block, c, e) /\ c \in 1 .. depth
    BY <1>1, <1>4, <2>1 DEF Tree, Owned
  <2>3. bl[bl[e].outer].conn = block[block[e].outer].conn
    BY <2>2, BlocksBind DEF OnTree
  <2>. QED
    BY <2>2, <2>3, BlocksBind DEF OnTree
<1>5. ASSUME NEW c \in Owned(bl, depth) PROVE bl[c].owner \in {0, c}
  <2>1. c \in Owned(block, depth) /\ c \in 1 .. depth
    BY <1>1 DEF Owned
  <2>. QED
    BY <2>1, BlocksBind DEF Tree
<1>. QED
  BY <1>1, <1>2, <1>3, <1>4, <1>5 DEF Tree

\* The innermost block closes.
LEMMA ExitTree ==
    ASSUME BindingsInv, Tree(block, depth), depth > 0, NEW bl, bl = [block EXCEPT ![depth] = Closed]
    PROVE  /\ Tree(bl, depth - 1)
           /\ Owned(bl, depth - 1) = Owned(block, depth) \ {depth}
           /\ \A c : Taken(bl, depth - 1, c) = Taken(block, depth, c) \ {depth}
           /\ \A e \in 1 .. depth - 1 : bl[e] = block[e]
<1>0. depth \in Nat /\ MayCheckOut(block) /\ block \in [Level -> Block]
  BY LevelsFit DEF MayCheckOut
<1>1. \A e \in 1 .. depth - 1 : bl[e] = block[e] /\ e \in 1 .. depth
  <2>1. \A e \in 1 .. depth - 1 : e \in Level /\ e # depth /\ e \in 1 .. depth
    BY <1>0, LevelsFit
  <2>. QED
    BY <1>0, <2>1
<1>2. \A e \in 1 .. depth : e # depth => e \in 1 .. depth - 1
  BY <1>0
<1>3. Owned(bl, depth - 1) = Owned(block, depth) \ {depth}
  BY <1>0, <1>1, <1>2 DEF Owned
<1>4. \A c : Taken(bl, depth - 1, c) = Taken(block, depth, c) \ {depth}
  BY <1>0, <1>1, <1>2 DEF Taken
<1>5. ASSUME NEW e \in 1 .. depth - 1, NEW o, o # 0, o = bl[e].conn \/ o = bl[e].outer
      PROVE  o \in 1 .. depth - 1 /\ bl[o] = block[o]
  <2>1. bl[e] = block[e] /\ e \in 1 .. depth
    BY <1>1
  <2>2. block[e].conn \in 0 .. e /\ (block[e].outer # 0 => block[e].outer \in 1 .. e)
    BY <1>0, <2>1, BlocksBind
  <2>3. o \in 1 .. e
    BY <1>5, <2>1, <2>2
  <2>. QED
    BY <1>0, <1>1, <2>3
<1>6. ASSUME NEW e \in 1 .. depth - 1, bl[e].conn # 0 PROVE bl[bl[e].conn].conn = bl[e].conn
  BY <1>1, <1>5, <1>6 DEF Tree
<1>7. ASSUME NEW c \in Owned(bl, depth - 1), NEW e \in 1 .. depth - 1, bl[e].conn = c, e # c
      PROVE  OnTree(bl, c, e)
  <2>1. c \in Owned(block, depth) /\ c \in 1 .. depth - 1
    BY <1>3, <1>7 DEF Owned
  <2>2. OnTree(block, c, e)
    BY <1>1, <1>7, <2>1 DEF Tree
  <2>. QED
    BY <1>1, <1>5, <2>1, <2>2 DEF OnTree
<1>8. \A c \in Owned(bl, depth - 1) : bl[c].owner \in {0, c}
  BY <1>1, <1>3 DEF Tree, Owned
<1>. QED
  BY <1>1, <1>3, <1>4, <1>6, <1>7, <1>8 DEF Tree

\* How a new block is placed: on no connection, on its own, on that of the block around
\* it, or on that of the transaction it joins.
NewOnTree(bl, b) ==
    \/ b.conn = 0
    \/ b.conn = depth + 1 /\ (b.kind = "transaction" => b.owner \in {0, depth + 1})
    \/ /\ depth > 0 /\ b.conn = bl[depth].conn /\ b.conn # 0
       /\ \/ Outer = 0
          \/ b.kind # "transaction" /\ b.outer = Outer
    \/ /\ OuterToJoin # 0 /\ b.conn = block[OuterToJoin].conn
       /\ \/ b.kind # "transaction" /\ b.outer = OuterToJoin
          \/ /\ b.kind = "transaction" /\ b.outer = depth + 1
             /\ b.owner = block[OuterToJoin].owner
             /\ b.ends \in {"nothing", "nested", "savepoint"}

\* What a block on the connection of a transaction finds as its outer one is there too.
LEMMA OuterOnTree ==
    ASSUME BindingsInv, Tree(block, depth), depth > 0, NEW bl, MayCheckOut(bl),
           NEW c \in Owned(bl, depth), bl[depth].conn = c
    PROVE  Outer # 0 /\ block[Outer].conn = c
<1>1. depth \in 1 .. depth /\ MayCheckOut(block)
  BY LevelsFit DEF MayCheckOut
<1>2. Outer = bl[depth].outer
  BY <1>1, BlocksBind DEF Outer
<1>3. Outer # 0 /\ bl[Outer].conn = c
  <2>1. CASE c = depth
    <3>1. bl[depth].kind = "transaction"
      BY <2>1 DEF Owned
    <3>. QED
      BY <1>1, <1>2, <2>1, <3>1, BlocksBind
  <2>2. CASE c # depth
    <3>1. OnTree(bl, c, depth)
      BY <1>1, <2>2, CheckOutTree DEF Tree
    <3>. QED
      BY <1>2, <3>1 DEF OnTree
  <2>. QED
    BY <2>1, <2>2
<1>4. bl[Outer].conn = block[Outer].conn
  <2>1. Outer \in 1 .. depth /\ bl[Outer].kind = "transaction"
    BY <1>1, <1>2, <1>3, BlocksBind
  <2>. QED
    BY <2>1, BlocksBind
<1>. QED
  BY <1>3, <1>4

\* The tree with a new block b on top.
TreeGrows(bl, b, nb) ==
    /\ Tree(nb, depth + 1)
    /\ Owned(nb, depth + 1) = Owned(block, depth) \cup
          (IF b.kind = "transaction" /\ b.conn = depth + 1 THEN {depth + 1} ELSE {})
    /\ \A c : Taken(nb, depth + 1, c) = Taken(block, depth, c) \cup
          (IF b.ends = "nested" /\ b.owner = c THEN {depth + 1} ELSE {})
    /\ \A e \in 1 .. depth : nb[e] = bl[e]
    /\ nb[depth + 1] = b

\* A new block, where it is placed so.
LEMMA OpenTree ==
    ASSUME BindingsInv, Tree(block, depth), depth < MaxDepth, NEW bl, MayCheckOut(bl),
           NEW b \in Block, NewOnTree(bl, b), NEW nb, nb = [bl EXCEPT ![depth + 1] = b]
    PROVE  TreeGrows(bl, b, nb)
<1>. DEFINE n == depth + 1
<1>1. depth \in Nat /\ n \in Level /\ bl \in [Level -> Block] /\ n \in 1 .. n
  BY LevelsFit, CheckOutKeeps DEF Level
<1>2. /\ \A e \in 1 .. depth : e \in Level /\ e # n /\ e \in 1 .. n
      /\ \A e \in 1 .. n : e # n => e \in 1 .. depth
  BY <1>1, LevelsFit
<1>3. (\A e \in 1 .. depth : nb[e] = bl[e]) /\ nb[n] = b
  BY <1>1, <1>2
<1>4. /\ Tree(bl, depth) /\ Owned(bl, depth) = Owned(block, depth)
      /\ \A c : Taken(bl, depth, c) = Taken(block, depth, c)
  BY CheckOutTree
<1>5. Owned(nb, n) = Owned(bl, depth) \cup
                 (IF b.kind = "transaction" /\ b.conn = n THEN {n} ELSE {})
  BY <1>1, <1>2, <1>3 DEF Owned
<1>6. \A c : Taken(nb, n, c) = Taken(bl, depth, c) \cup
                 (IF b.ends = "nested" /\ b.owner = c THEN {n} ELSE {})
  BY <1>1, <1>2, <1>3 DEF Taken
<1>7. ASSUME OuterToJoin # 0
      PROVE  /\ OuterToJoin = Outer /\ Outer \in 1 .. depth
             /\ block[Outer].kind = "transaction"
             /\ bl[Outer].conn = block[Outer].conn /\ bl[Outer].owner = block[Outer].owner
             /\ bl[Outer].conn \in 1 .. depth
  <2>1. OuterToJoin = Outer /\ Outer # 0 /\ depth # 0
    BY <1>7 DEF OuterToJoin, Outer
  <2>2. depth \in 1 .. depth /\ MayCheckOut(block)
    BY <1>1, <2>1 DEF MayCheckOut
  <2>3. Outer = block[depth].outer
    BY <2>1 DEF Outer
  <2>4. Outer \in 1 .. depth /\ block[Outer].kind = "transaction"
    BY <2>1, <2>2, <2>3, BlocksBind
  <2>. QED
    BY <2>1, <2>4, BlocksBind
<1>8. ASSUME b.conn # 0 PROVE nb[b.conn].conn = b.conn
  <2>1. CASE b.conn = n
    BY <1>3, <2>1
  <2>2. CASE b.conn # n
    <3>1. PICK e \in 1 .. depth : bl[e].conn = b.conn
      <4>1. CASE OuterToJoin # 0 /\ b.conn = block[OuterToJoin].conn
        BY <1>7, <4>1
      <4>2. CASE depth > 0 /\ b.conn = bl[depth].conn
        BY <1>1, <4>2
      <4>. QED
        BY <1>8, <2>2, <4>1, <4>2 DEF NewOnTree
    <3>2. bl[e].conn \in 1 .. depth /\ bl[bl[e].conn].conn = bl[e].conn
      BY <1>4, <1>8, <3>1, BlocksBind DEF Tree
    <3>. QED
      BY <1>3, <3>1, <3>2
  <2>. QED
    BY <2>1, <2>2
<1>9. ASSUME NEW e \in 1 .. n, nb[e].conn # 0 PROVE nb[nb[e].conn].conn = nb[e].conn
  <2>1. CASE e = n
    BY <1>3, <1>8, <1>9, <2>1
  <2>2. CASE e # n
    <3>1. e \in 1 .. depth /\ nb[e] = bl[e]
      BY <1>2, <1>3, <2>2
    <3>2. bl[e].conn \in 1 .. depth /\ bl[bl[e].conn].conn = bl[e].conn
      BY <1>4, <1>9, <3>1, BlocksBind DEF Tree
    <3>. QED
      BY <1>3, <3>1, <3>2
  <2>. QED
    BY <2>1, <2>2
<1>10. ASSUME NEW c \in Owned(nb, n) PROVE nb[c].owner \in {0, c}
  <2>1. CASE c \in Owned(bl, depth)
    <3>1. c \in 1 .. depth /\ bl[c].owner \in {0, c}
      BY <1>4, <2>1 DEF Tree, Owned
    <3>. QED
      BY <1>3, <3>1
  <2>2. CASE c \notin Owned(bl, depth)
    <3>1. c = n /\ b.kind = "transaction" /\ b.conn = n
      BY <1>5, <1>10, <2>2
    <3>2. \A e \in 1 .. depth : bl[e].conn \in 0 .. e /\ n \notin 0 .. e
      BY <1>1, <1>2, BlocksBind
    <3>3. depth > 0 => depth \in 1 .. depth
      BY <1>1
    <3>4. b.owner \in {0, n}
      BY <1>1, <1>7, <3>1, <3>2, <3>3 DEF NewOnTree
    <3>. QED
      BY <1>3, <3>1, <3>4
  <2>. QED
    BY <2>1, <2>2
<1>11. ASSUME NEW c \in Owned(nb, n), NEW e \in 1 .. n, nb[e].conn = c, e # c
       PROVE  OnTree(nb, c, e)
  <2>1. CASE e # n
    <3>1. e \in 1 .. depth /\ nb[e] = bl[e] /\ bl[e].conn = c
      BY <1>2, <1>3, <1>11, <2>1
    <3>2. c \in Owned(bl, depth) /\ c \in 1 .. depth
      <4>1. c \in 1 .. e
        BY <1>11, <3>1, BlocksBind DEF Owned
      <4>2. c # n
        BY <1>1, <3>1, <4>1
      <4>. QED
        BY <1>5, <1>11, <4>2 DEF Owned
    <3>3. OnTree(bl, c, e)
      BY <1>4, <1>11, <3>1, <3>2 DEF Tree
    <3>4. bl[e].outer \in 1 .. depth
      BY <3>1, <3>3, BlocksBind DEF OnTree
    <3>. QED
      BY <1>3, <3>1, <3>2, <3>3, <3>4 DEF OnTree
  <2>2. CASE e = n
    <3>1. b.conn = c /\ c # n /\ c \in Owned(bl, depth) /\ c # 0 /\ c \in 1 .. depth
      <4>1. b.conn = c /\ c # n
        BY <1>3, <1>11, <2>2
      <4>2. c \in Owned(bl, depth)
        BY <1>5, <1>11, <4>1
      <4>. QED
        BY <4>1, <4>2 DEF Owned
    <3>2. CASE OuterToJoin # 0 /\ c = block[OuterToJoin].conn
      <4>1. bl[Outer].owner = bl[c].owner
        <5>1. CASE Outer = c
          BY <5>1
        <5>2. CASE Outer # c
          <6>1. OnTree(bl, c, Outer)
            BY <1>4, <1>7, <3>1, <3>2, <5>2 DEF Tree
          <6>. QED
            BY <1>7, <3>2, <6>1, BlocksBind DEF OnTree
        <5>. QED
          BY <5>1, <5>2
      <4>2. CASE b.kind # "transaction" /\ b.outer = OuterToJoin
        BY <1>3, <1>7, <2>2, <3>1, <3>2, <4>2 DEF OnTree
      <4>3. CASE b.kind = "transaction" /\ b.outer = n /\ b.owner = block[OuterToJoin].owner
                 /\ b.ends \in {"nothing", "nested", "savepoint"}
        BY <1>1, <1>3, <1>7, <2>2, <3>1, <3>2, <4>1, <4>3 DEF OnTree
      <4>4. CASE depth > 0 /\ b.conn = bl[depth].conn
                 /\ b.kind # "transaction" /\ b.outer = Outer
        BY <1>3, <1>7, <2>2, <3>1, <3>2, <4>4 DEF OnTree
      <4>. QED
        BY <1>7, <3>1, <3>2, <4>2, <4>3, <4>4 DEF NewOnTree
    <3>3. CASE depth > 0 /\ c = bl[depth].conn
      <4>1. Outer # 0 /\ block[Outer].conn = c
        BY <3>1, <3>3, OuterOnTree
      <4>2. bl[Outer].conn = c /\ Outer \in 1 .. depth
        <5>1. depth \in 1 .. depth /\ MayCheckOut(block) /\ Outer = block[depth].outer
          BY <1>1, <3>3 DEF MayCheckOut, Outer
        <5>2. Outer \in 1 .. depth /\ block[Outer].kind = "transaction"
          BY <4>1, <5>1, BlocksBind
        <5>. QED
          BY <4>1, <5>2, BlocksBind
      <4>3. CASE b.kind # "transaction" /\ b.outer = Outer
        BY <1>3, <2>2, <3>1, <4>1, <4>2, <4>3 DEF OnTree
      <4>4. CASE OuterToJoin # 0 /\ c = block[OuterToJoin].conn
        BY <3>2, <4>4
      <4>. QED
        BY <3>1, <4>1, <4>3, <4>4 DEF NewOnTree
    <3>. QED
      BY <3>1, <3>2, <3>3 DEF NewOnTree
  <2>. QED
    BY <2>1, <2>2
<1>12. Tree(nb, n)
  BY <1>9, <1>10, <1>11 DEF Tree
<1>. QED
  BY <1>3, <1>4, <1>5, <1>6, <1>12 DEF TreeGrows

\* The session of a block on the tree of a transaction: one may take savepoints.
LEMMA JoinModeOnTree ==
    ASSUME NEW bl, NEW n, Tree(bl, n), NEW c \in Owned(bl, n), bl[c].outer = c, c # 0,
           NEW e \in 1 .. n, e # 0, bl[e].conn = c,
           bl[e].outer # 0 => bl[e].outer \in 1 .. n /\ bl[bl[e].outer].kind = "transaction"
    PROVE  JoinMode(bl, e) = IF e = c /\ bl[c].owner = c THEN "create_savepoint" ELSE "rollback_only"
<1>. DEFINE o == bl[e].outer
<1>1. bl[c].conn = c /\ bl[c].owner \in {0, c}
  BY DEF Owned, Tree
<1>2. CASE e = c
  <2>1. o = c /\ bl[o].conn = bl[e].conn /\ o # 0 /\ bl[o].owner = bl[c].owner
    BY <1>1, <1>2
  <2>2. CASE bl[c].owner = c
    BY <1>2, <2>1, <2>2 DEF JoinMode
  <2>3. CASE bl[c].owner # c
    BY <1>2, <2>1, <2>3 DEF JoinMode
  <2>. QED
    BY <2>2, <2>3
<1>3. CASE e # c
  <2>1. o # 0 /\ bl[o].conn = bl[e].conn
    BY <1>3 DEF Tree, OnTree
  <2>2. bl[o].owner = bl[c].owner
    <3>1. CASE o = c
      BY <3>1
    <3>2. CASE o # c
      <4>1. OnTree(bl, c, o) /\ bl[o].kind = "transaction"
        BY <2>1, <3>2 DEF Tree
      <4>. QED
        BY <4>1 DEF OnTree
    <3>. QED
      BY <3>1, <3>2
  <2>3. bl[o].owner # e
    BY <1>1, <1>3, <2>2
  <2>. QED
    BY <1>3, <2>1, <2>3 DEF JoinMode
<1>. QED
  BY <1>2, <1>3

------------------------------------------------------------------------------
(***************************************************************************)
(* The inductive invariant: the tree, and on each connection that an open   *)
(* transaction opened the savepoints in order.                              *)
(***************************************************************************)

\* A handle is on the connection of its block, where the block holds one.
HandlesOn(w, bl, n) ==
    \A d \in Level : w.handle[d].conn =
        IF d <= n /\ bl[d].ends \in {"root", "savepoint"} THEN bl[d].conn ELSE 0

\* Nothing is begun on a connection that no block opened.
IdleStacks(w, bl, n) == \A c \in Level : (c <= n /\ bl[c].conn = c) \/ w.stack[c] = <<>>

\* The session of the transaction that opened the connection takes savepoints there when
\* it owns them.
OwnerMode(w, bl, c) ==
    w.session[c].mode \in {"none", IF bl[c].owner = c THEN "create_savepoint" ELSE "rollback_only"}

InOrder(w, bl, n) ==
    \A c \in Owned(bl, n) : OwnerMode(w, bl, c) /\ Ordered(w, c, Taken(bl, n, c))

OrderInv ==
    /\ Tree(block, depth)
    /\ HandlesOn(sa, block, depth)
    /\ IdleStacks(sa, block, depth)
    /\ InOrder(sa, block, depth)

\* The code of the user, on connection k or on none.
LEMMA UsesInOrder ==
    ASSUME DataInv, OrderInv, NEW bl, MayCheckOut(bl), NEW w, NEW k,
           block' = bl, depth' = depth, sa' = w,
           Spares(sa, w, k), HandlesKept(sa, w),
           k = 0 \/ (k \in 1 .. depth /\ bl[k].conn = k),
           \A c \in Owned(block, depth) :
              w.session[c].mode = sa.session[c].mode \/ w.session[c].mode = JoinMode(block, c),
           k \in Owned(block, depth) => Ordered(w, k, Taken(block, depth, k))
    PROVE  OrderInv'
<1>1. /\ BindingsInv /\ Tree(block, depth) /\ HandlesOn(sa, block, depth)
      /\ IdleStacks(sa, block, depth) /\ InOrder(sa, block, depth) /\ MayCheckOut(block)
  BY DEF DataInv, OrderInv, MayCheckOut
<1>2. /\ Tree(bl, depth) /\ Owned(bl, depth) = Owned(block, depth)
      /\ \A c : Taken(bl, depth, c) = Taken(block, depth, c)
  BY <1>1, CheckOutTree
<1>3. \A e \in Level : e <= depth => e \in 1 .. depth
  BY <1>1, LevelsFit DEF Level
<1>4. HandlesOn(w, bl, depth)
  <2>. SUFFICES ASSUME NEW d \in Level
                PROVE  w.handle[d].conn =
                          IF d <= depth /\ bl[d].ends \in {"root", "savepoint"} THEN bl[d].conn ELSE 0
    BY DEF HandlesOn
  <2>1. w.handle[d].conn =
            IF d <= depth /\ block[d].ends \in {"root", "savepoint"} THEN block[d].conn ELSE 0
    BY <1>1 DEF HandlesOn, HandlesKept
  <2>2. ASSUME d <= depth
        PROVE  bl[d].ends = block[d].ends /\ (bl[d].ends # "nothing" => bl[d].conn = block[d].conn)
    BY <1>1, <1>3, <2>2, BlocksBind
  <2>. QED
    BY <2>1, <2>2
<1>5. IdleStacks(w, bl, depth)
  <2>. SUFFICES ASSUME NEW c \in Level, ~(c <= depth /\ bl[c].conn = c)
                PROVE  w.stack[c] = <<>>
    BY DEF IdleStacks
  <2>1. c # k
    <3>1. k # 0 => k <= depth
      BY <1>1, LevelsFit
    <3>. QED
      BY <3>1 DEF Level
  <2>2. w.stack[c] = sa.stack[c]
    BY <2>1 DEF Spares, Spared
  <2>3. ~(c <= depth /\ block[c].conn = c)
    <3>1. ASSUME c <= depth, block[c].conn = c PROVE bl[c].conn = c
      <4>1. c \in 1 .. depth /\ c # 0
        BY <1>3, <3>1 DEF Level
      <4>. QED
        BY <1>1, <3>1, <4>1, BlocksBind
    <3>. QED
      BY <3>1
  <2>. QED
    BY <1>1, <2>2, <2>3 DEF IdleStacks
<1>6. InOrder(w, bl, depth)
  <2>. SUFFICES ASSUME NEW c \in Owned(block, depth)
                PROVE  OwnerMode(w, bl, c) /\ Ordered(w, c, Taken(block, depth, c))
    BY <1>2 DEF InOrder
  <2>1. /\ c \in 1 .. depth /\ c \in Level /\ c # 0 /\ block[c].conn = c
        /\ block[c].kind = "transaction" /\ block[c].outer = c
    BY <1>1, BlocksBind DEF Owned, Level
  <2>2. bl[c].owner = block[c].owner
    BY <1>1, <2>1, BlocksBind
  <2>3. OwnerMode(sa, block, c) /\ Ordered(sa, c, Taken(block, depth, c))
    BY <1>1 DEF InOrder
  <2>4. JoinMode(block, c) = IF c = c /\ block[c].owner = c THEN "create_savepoint" ELSE "rollback_only"
    BY <1>1, <2>1, JoinModeOnTree
  <2>5. OwnerMode(w, bl, c)
    BY <2>2, <2>3, <2>4 DEF OwnerMode
  <2>6. c # k => Ordered(w, c, Taken(block, depth, c))
    BY <2>1, <2>3, SparedKeeps DEF Spares
  <2>. QED
    BY <2>5, <2>6
<1>. QED
  BY <1>2, <1>4, <1>5, <1>6 DEF OrderInv

\* What a step has left so far, on connection k.
Ready(u, k) ==
    /\ Ok(u) /\ Spares(sa, u, k) /\ HandlesKept(sa, u)
    /\ \A t \in Level : u.session[t].mode = sa.session[t].mode \/ u.session[t].mode = JoinMode(block, t)
    /\ k \in Owned(block, depth) => Ordered(u, k, Taken(block, depth, k))

\* A step goes on, on that connection or on none.
LEMMA ReadyMore ==
    ASSUME DataInv, NEW k, NEW u, NEW w, NEW a, NEW N, Ready(u, k), Works(u, w, a, N) \/ Quiet(u, w),
           Only(u, w, a), a \in {0, k},
           a = k /\ k \in Owned(block, depth) /\ Ordered(u, k, Taken(block, depth, k))
               => Ordered(w, k, Taken(block, depth, k))
    PROVE  Ready(w, k)
<1>1. Ok(w) /\ Same(u, w)
  BY DEF Works, Quiet
<1>2. Spares(sa, w, k)
  BY OnlySpares, SparesTrans DEF Ready
<1>3. HandlesKept(sa, w)
  BY <1>1 DEF Ready, HandlesKept, Same
<1>4. ASSUME k \in Owned(block, depth) PROVE Ordered(w, k, Taken(block, depth, k))
  <2>1. k \in Level /\ Ordered(u, k, Taken(block, depth, k))
    BY <1>4, LevelsFit DEF Ready, Owned, DataInv
  <2>2. CASE a = 0
    <3>1. Spares(u, w, 0) /\ k # 0
      BY <2>1, <2>2, OnlySpares DEF Level
    <3>2. Spared(u, w, k)
      BY <2>1, <3>1 DEF Spares
    <3>. QED
      BY <2>1, <3>2, SparedKeeps
  <2>. QED
    BY <1>4, <2>1, <2>2
<1>. QED
  BY <1>1, <1>2, <1>3, <1>4 DEF Ready, Same

\* Every step starts so.
LEMMA ReadySelf ==
    ASSUME DataInv, OrderInv, NEW k
    PROVE  Ready(sa, k)
<1>1. Spares(sa, sa, k) /\ HandlesKept(sa, sa)
  BY DEF Spares, Spared, HandlesKept
<1>. QED
  BY <1>1 DEF Ready, DataInv, OrderInv, InOrder

\* The connection a block uses is one that a block opened.
LEMMA UsesConnection ==
    ASSUME DataInv, OrderInv, NEW s \in 1 .. depth
    PROVE  LET k == ConnectionOf(s)
           IN /\ k \in 1 .. s /\ k \in 1 .. depth /\ k \in Level /\ k # 0
              /\ CheckedOut(s)[k].conn = k /\ CheckedOut(s)[s].conn = k
              /\ block[s].conn # 0 => block[k].conn = k /\ CheckedOut(s) = block
              /\ k \in Owned(block, depth) => block[s].conn = k
              /\ sa.session[s].conn \in {0, k}
              /\ block[s].conn = 0 => k = s
<1>. DEFINE k == ConnectionOf(s)
<1>1. /\ BindingsInv /\ Tree(block, depth) /\ MayCheckOut(block) /\ MayCheckOut(CheckedOut(s))
      /\ s \in Level /\ block \in [Level -> Block] /\ block[s] \in Block
      /\ depth \in Nat /\ 1 .. depth \subseteq Level
  BY LevelsFit DEF DataInv, OrderInv, MayCheckOut, OpenLevel
<1>2. CheckedOut(s) = [block EXCEPT ![s] = [block[s] EXCEPT !.conn = k]]
  BY <1>1 DEF CheckedOut
<1>3. CASE block[s].conn = 0
  <2>1. k = s /\ s # 0 /\ s \in 1 .. s
    BY <1>1, <1>3 DEF ConnectionOf, Level
  <2>2. CheckedOut(s)[s].conn = s
    BY <1>1, <1>2, <2>1 DEF Block
  <2>3. s \notin Owned(block, depth)
    BY <1>3, <2>1 DEF Owned
  <2>. QED
    BY <1>1, <1>3, <2>1, <2>2, <2>3, ConnectionIs
<1>4. CASE block[s].conn # 0
  <2>1. k = block[s].conn
    BY <1>4 DEF ConnectionOf
  <2>2. block[s].conn \in 0 .. s /\ block[s].conn \in 1 .. depth
    BY <1>1, <1>4, BlocksBind
  <2>3. k \in 1 .. s /\ k \in Level /\ k # 0
    BY <1>1, <1>4, <2>1, <2>2
  <2>4. block[k].conn = k
    BY <1>1, <1>4, <2>1 DEF Tree
  <2>5. CheckedOut(s) = block
    BY <1>1, <1>2, <2>1 DEF Block
  <2>. QED
    BY <1>4, <2>1, <2>2, <2>3, <2>4, <2>5, ConnectionIs
<1>. QED
  BY <1>3, <1>4

\* The connection a lazy block takes is its own.
LEMMA BoundReady ==
    ASSUME DataInv, OrderInv, NEW s \in 1 .. depth
    PROVE  Ready(Bound(s), ConnectionOf(s))
<1>. DEFINE k == ConnectionOf(s)
            w == Bound(s)
<1>1. /\ Ok(w) /\ w.stack = sa.stack /\ w.handle = sa.handle
      /\ \A t \in Level : w.session[t].mode = sa.session[t].mode
      /\ \A t \in Level \ {s} : w.session[t] = sa.session[t]
      /\ sa.session[s].mode # "none" => w.session[s].conn = ConnectionOf(s)
      /\ sa.session[s].conn # 0 => w = sa
  BY Prepared DEF Nets
<1>2. /\ k \in Owned(block, depth) => block[s].conn = k
      /\ sa.session[s].conn \in {0, k} /\ k # 0 /\ s \in Level
      /\ sa.session[s].mode # "none" => sa.session[s].conn = block[s].conn
  <2>1. s \in Level
    BY ConnectionIs
  <2>2. sa.session[s].mode # "none" => sa.session[s].conn = block[s].conn
    BY <2>1 DEF DataInv, SessionsFit
  <2>. QED
    BY <2>1, <2>2, UsesConnection
<1>3. sa.session[s].mode = "none" => w = sa
  BY DEF Bound
<1>. HIDE DEF k, w
<1>4. w.session[s].conn \in {0, k}
  BY <1>1, <1>2, <1>3 DEF k
<1>5. Spares(sa, w, k) /\ HandlesKept(sa, w)
  BY <1>1, <1>2, <1>4, SessionSpares DEF HandlesKept
<1>6. k \in Owned(block, depth) => w = sa
  BY <1>1, <1>2, <1>3
<1>7. k \in Owned(block, depth) => Ordered(w, k, Taken(block, depth, k))
  BY <1>6 DEF OrderInv, InOrder
<1>. QED
  BY <1>1, <1>5, <1>7 DEF Ready, k, w

\* A handle on a connection is that of an open block there.
LEMMA HandleOnBlock ==
    ASSUME NEW w, NEW bl, NEW n, HandlesOn(w, bl, n), NEW d \in Level, NEW k, k # 0,
           w.handle[d].conn = k
    PROVE  d <= n /\ bl[d].conn = k /\ bl[d].ends \in {"root", "savepoint"}
<1>1. w.handle[d].conn = IF d <= n /\ bl[d].ends \in {"root", "savepoint"} THEN bl[d].conn ELSE 0
  BY DEF HandlesOn
<1>. QED
  BY <1>1

\* The session of a block, created when it is first read.
LEMMA WithSessionReady ==
    ASSUME DataInv, OrderInv, NEW s \in 1 .. depth, sa.session[s].mode # "none" \/ s = depth
    PROVE  Ready(WithSession(s), ConnectionOf(s))
<1>. DEFINE k == ConnectionOf(s)
            m == JoinMode(block, s)
            w == WithSession(s)
<1>1. CASE sa.session[s].mode # "none"
  <2>1. w = Bound(s)
    BY <1>1 DEF WithSession
  <2>. QED
    BY <2>1, BoundReady
<1>2. CASE sa.session[s].mode = "none"
  <2>1. /\ Ok(w) /\ w.stack = sa.stack /\ w.handle = sa.handle
        /\ \A t \in Level \ {s} : w.session[t] = sa.session[t]
        /\ w.session[s].conn = k
    BY PreparedWithSession DEF Nets
  <2>2. /\ s \in Level /\ sa.session[s].conn = 0 /\ block[s].conn # 0 /\ k = block[s].conn
        /\ k \in Level /\ k \in 1 .. s /\ s <= depth /\ k \in 1 .. depth /\ k \in 0 .. MaxDepth
        /\ depth \in Nat
    <3>1. s \in Level /\ s <= depth /\ depth \in Nat /\ Level \subseteq 0 .. MaxDepth
      BY LevelsFit DEF DataInv, Level
    <3>2. sa.session[s].conn = 0 /\ block[s].conn # 0
      BY <1>2, <3>1 DEF DataInv, SessionsFit
    <3>3. k = block[s].conn
      BY <3>2 DEF ConnectionOf
    <3>. QED
      BY <3>1, <3>2, <3>3, UsesConnection
  <2>3. w = [sa EXCEPT !.session[s] = NewSession(m, k)]
    BY <1>2, <2>2 DEF WithSession
  <2>4. m \in Modes /\ s = depth
    BY <1>2, SessionModeIs DEF Modes
  <2>5. Spares(sa, w, k) /\ HandlesKept(sa, w)
    BY <2>1, <2>2, SessionSpares DEF HandlesKept
  <2>6. w.session[s].mode = m
    <3>1. NewSession(m, k).mode = m /\ NewSession(m, k) \in Session
      BY <2>2, <2>4, NewSessionIs
    <3>2. sa \in World
      BY DEF DataInv, Ok
    <3>. HIDE DEF m, k, w
    <3>. QED
      BY <2>2, <2>3, <3>1, <3>2 DEF World
  <2>7. ASSUME k \in Owned(block, depth) PROVE Ordered(w, k, Taken(block, depth, k))
    <3>1. /\ Ordered(sa, k, Taken(block, depth, k)) /\ Tree(block, depth)
      BY <2>7 DEF OrderInv, InOrder
    <3>2. /\ block[k].outer = k /\ k # 0 /\ s # 0
          /\ block[s].outer # 0 => block[s].outer \in 1 .. depth /\ block[block[s].outer].kind = "transaction"
      <4>1. MayCheckOut(block) /\ BindingsInv /\ block[k].kind = "transaction"
        BY <2>7 DEF MayCheckOut, DataInv, Owned
      <4>. QED
        BY <2>2, <4>1, BlocksBind DEF Level
    <3>3. m = IF s = k /\ block[k].owner = k THEN "create_savepoint" ELSE "rollback_only"
      BY <2>2, <2>7, <3>1, <3>2, JoinModeOnTree
    <3>. HIDE DEF m, k, w
    <3>4. CASE s # k
      BY <2>2, <2>3, <2>4, <3>1, <3>3, <3>4, NewSessionKeeps DEF DataInv
    <3>5. CASE s = k
      <4>1. m \in {"create_savepoint", "rollback_only"}
        BY <3>3
      <4>2. ASSUME NEW d \in Level, sa.handle[d].conn = k PROVE d = k
        <5>1. d <= depth /\ block[d].conn = k
          BY <2>2, <4>2, HandleOnBlock DEF OrderInv
        <5>2. d \in 1 .. depth /\ block[d].conn <= d
          BY <5>1, LevelsFit DEF DataInv, Level
        <5>. QED
          BY <2>2, <2>4, <3>5, <5>1, <5>2
      <4>3. sa.session[k].conn # k /\ Ok(sa)
        BY <2>2, <3>2, <3>5 DEF DataInv
      <4>4. Ordered([sa EXCEPT !.session[k] = NewSession(m, k)], k, Taken(block, depth, k))
        BY <2>2, <3>1, <4>1, <4>2, <4>3, OwnerBegins
      <4>. QED
        BY <2>3, <3>5, <4>4
    <3>. QED
      BY <3>4, <3>5
  <2>. HIDE DEF m, k, w
  <2>8. \A t \in Level : w.session[t].mode = sa.session[t].mode \/ w.session[t].mode = JoinMode(block, t)
    BY <2>1, <2>6 DEF m
  <2>9. Ready(w, k)
    BY <2>1, <2>5, <2>7, <2>8 DEF Ready
  <2>. QED
    BY <2>9 DEF w, k
<1>. QED
  BY <1>1, <1>2

\* The code of the user has used a block on its connection, or on none.
LEMMA ReadyUses ==
    ASSUME DataInv, OrderInv, NEW s \in 1 .. depth, NEW bl, bl = block \/ bl = CheckedOut(s),
           NEW w, NEW k, Ready(w, k), k = 0 \/ (k = ConnectionOf(s) /\ bl[k].conn = k),
           block' = bl, depth' = depth, sa' = w
    PROVE  OrderInv'
<1>1. MayCheckOut(bl)
  BY DEF MayCheckOut, OpenLevel
<1>2. k = 0 \/ (k \in 1 .. depth /\ bl[k].conn = k)
  BY UsesConnection
<1>3. \A c \in Owned(block, depth) :
         w.session[c].mode = sa.session[c].mode \/ w.session[c].mode = JoinMode(block, c)
  <2>1. 1 .. depth \subseteq Level
    BY LevelsFit DEF DataInv
  <2>. QED
    BY <2>1 DEF Ready, Owned
<1>. QED
  BY <1>1, <1>2, <1>3, UsesInOrder DEF Ready

\* A statement.
LEMMA ExecuteInOrder == ASSUME DataInv, OrderInv, Execute PROVE OrderInv'
<1>. DEFINE k == ConnectionOf(depth)
            u == Bound(depth)
            w == Write(u, k, {NextRow})
<1>1. /\ block' = CheckedOut(depth) /\ depth' = depth /\ sa' = w
      /\ depth > 0 /\ Unused # {}
  BY DEF Execute, Uses, Moves
<1>2. /\ depth \in 1 .. depth /\ NextRow \in Row /\ NextRow \notin used
  BY <1>1, NextRowIs, LevelsFit DEF DataInv
<1>3. Ready(u, k) /\ k \in Level /\ CheckedOut(depth)[k].conn = k
  BY <1>2, BoundReady, UsesConnection
<1>4. \A t \in Level : u.session[t].pending = sa.session[t].pending
  BY <1>2, Prepared
<1>. HIDE DEF k, u
<1>5. \A t \in Level : u.session[t].pending \cap {NextRow} = {}
  BY <1>2, <1>4 DEF DataInv, RowsInv
<1>6. Works(u, w, k, {NextRow})
  BY <1>2, <1>3, <1>5, WritesWork DEF Ready
<1>7. Only(u, w, k) /\ \A V : Ordered(u, k, V) => Ordered(w, k, V)
  BY <1>2, <1>3, WriteKeeps DEF Ready
<1>. HIDE DEF w
<1>8. Ready(w, k)
  BY <1>3, <1>6, <1>7, ReadyMore
<1>. QED
  BY <1>1, <1>2, <1>3, <1>8, ReadyUses DEF k

\* A query.
LEMMA QueryInOrder == ASSUME DataInv, OrderInv, NEW s \in 1 .. depth, Query(s) PROVE OrderInv'
<1>. DEFINE k == ConnectionOf(s)
            u == WithSession(s)
            f == FlushSession(u, s)
            w == JoinSession(f, s)
<1>1. /\ block' = CheckedOut(s) /\ depth' = depth /\ sa' = w
      /\ sa.session[s].mode # "none" \/ s = depth
  BY DEF Query, Uses, Moves, MayUse
<1>2. Ready(u, k) /\ k \in Level /\ k # 0 /\ CheckedOut(s)[k].conn = k /\ s \in Level
  BY <1>1, WithSessionReady, UsesConnection, ConnectionIs
<1>3. u.session[s].conn = k
  BY PreparedWithSession
<1>. HIDE DEF k, u
<1>4. Works(u, f, k, u.session[s].pending)
  BY <1>2, <1>3, FlushesSession DEF Ready
<1>5. /\ Ok(f) /\ Only(u, f, k) /\ f.session[s].conn = k
      /\ \A V : Ordered(u, k, V) => Ordered(f, k, V)
  BY <1>2, <1>3, FlushKeeps DEF Ready, SameButJoin
<1>. HIDE DEF f
<1>6. Ready(f, k)
  BY <1>2, <1>4, <1>5, ReadyMore
<1>7. Quiet(f, w) /\ Joins(f, w, s)
  BY <1>2, <1>5, JoinsSession, JoinSessionJoins
<1>. HIDE DEF w
<1>8. Only(f, w, k) /\ \A V : Ordered(f, k, V) => Ordered(w, k, V)
  <2>1. Only(f, w, k)
    BY <1>5, <1>7 DEF Joins
  <2>2. ASSUME NEW V, Ordered(f, k, V) PROVE Ordered(w, k, V)
    BY <1>2, <1>5, <1>7, <2>2, JoinsKeep
  <2>. QED
    BY <2>1, <2>2
<1>9. Ready(w, k)
  BY <1>6, <1>7, <1>8, ReadyMore
<1>. QED
  BY <1>1, <1>2, <1>9, ReadyUses DEF k

\* A commit of a session.
LEMMA CommitInOrder == ASSUME DataInv, OrderInv, NEW s \in 1 .. depth, Commit(s) PROVE OrderInv'
<1>. DEFINE k == ConnectionOf(s)
            flushes == sa.session[s].pending # {}
            u == IF flushes THEN WithSession(s) ELSE sa
            bl == IF flushes THEN CheckedOut(s) ELSE block
            w == CommitSession(u, s)
            a == u.session[s].conn
            N == u.session[s].pending
<1>1. /\ block' = bl /\ depth' = depth /\ sa' = w
  BY DEF Commit, Uses, Moves
<1>2. k \in Level /\ k # 0 /\ s \in Level /\ k \in 1 .. depth /\ CheckedOut(s)[k].conn = k
      /\ (block[s].conn # 0 => block[k].conn = k)
  BY UsesConnection, ConnectionIs
<1>3. CASE flushes
  <2>1. u = WithSession(s) /\ bl = CheckedOut(s)
    BY <1>3
  <2>2. sa.session[s].mode # "none"
    BY <1>3, ConnectionIs
  <2>3. Ready(u, k) /\ a = k
    BY <2>1, <2>2, WithSessionReady, PreparedWithSession
  <2>. HIDE DEF u, k
  <2>4. Works(u, w, k, N) /\ Only(u, w, k) /\ \A V : Ordered(u, k, V) => Ordered(w, k, V)
    BY <1>2, <2>3, CommitsSession, CommitKeeps DEF Ready
  <2>. HIDE DEF w
  <2>5. Ready(w, k)
    BY <2>3, <2>4, ReadyMore
  <2>. QED
    BY <1>1, <1>2, <2>1, <2>5, ReadyUses DEF k
<1>4. CASE ~flushes
  <2>1. u = sa /\ bl = block /\ N = {}
    BY <1>4
  <2>2. a = 0 \/ (a = k /\ block[k].conn = k)
    <3>1. sa.session[s].mode # "none" => sa.session[s].conn = block[s].conn
      BY <1>2 DEF DataInv, SessionsFit
    <3>2. sa.session[s].mode = "none" => sa.session[s].conn = 0
      BY <1>2 DEF DataInv, SessionsFit
    <3>. QED
      BY <1>2, <2>1, <3>1, <3>2, ConnectionIs
  <2>3. Ready(u, a) /\ a \in Level \cup {0}
    BY <1>2, <2>1, <2>2, ReadySelf
  <2>. HIDE DEF u, k
  <2>4. Works(u, w, a, N) /\ Only(u, w, a) /\ (a \in Level => \A V : Ordered(u, a, V) => Ordered(w, a, V))
    BY <1>2, <2>1, <2>3, CommitsSession, CommitKeeps DEF Ready
  <2>5. a \in Owned(block, depth) => a \in Level
    BY LevelsFit DEF DataInv, Owned
  <2>. HIDE DEF w, a
  <2>6. Ready(w, a)
    BY <2>3, <2>4, <2>5, ReadyMore
  <2>. QED
    BY <1>1, <2>1, <2>2, <2>6, ReadyUses DEF k
<1>. QED
  BY <1>3, <1>4

\* An add() to a session.
LEMMA AddInOrder == ASSUME DataInv, OrderInv, NEW s \in 1 .. depth, Add(s) PROVE OrderInv'
<1>. DEFINE k == ConnectionOf(s)
            u == IF sa.session[s].mode = "none" THEN WithSession(s) ELSE sa
            w == AddToSession(u, s, NextRow)
            a == u.session[s].conn
<1>1. /\ block' = block /\ depth' = depth /\ sa' = w /\ Unused # {}
      /\ sa.session[s].mode # "none" \/ s = depth
  BY DEF Add, Uses, Moves, MayUse
<1>2. /\ s \in Level /\ NextRow \in Row /\ NextRow \notin used
      /\ sa.session[s].mode # "none" => sa.session[s].conn = block[s].conn
      /\ sa.session[s].mode = "none" => block[s].conn # 0
      /\ block[s].conn # 0 => k = block[s].conn /\ block[k].conn = k
      /\ k \in Level
  <2>1. s \in Level /\ s <= depth
    BY LevelsFit DEF DataInv
  <2>2. k \in Level /\ (block[s].conn # 0 => block[k].conn = k)
    BY UsesConnection
  <2>3. /\ sa.session[s].mode # "none" => sa.session[s].conn = block[s].conn
        /\ sa.session[s].mode = "none" => block[s].conn # 0
    BY <2>1 DEF DataInv, SessionsFit
  <2>. QED
    BY <1>1, <2>1, <2>2, <2>3, NextRowIs DEF ConnectionOf
<1>3. /\ Ready(u, a) /\ (a = 0 \/ (a = k /\ block[k].conn = k))
      /\ \A t \in Level : u.session[t].pending = sa.session[t].pending
  <2>1. CASE sa.session[s].mode = "none"
    <3>1. u = WithSession(s)
      BY <2>1
    <3>2. a = k /\ block[k].conn = k /\ \A t \in Level : u.session[t].pending = sa.session[t].pending
      BY <1>2, <2>1, <3>1, PreparedWithSession
    <3>3. Ready(u, k)
      BY <1>1, <3>1, WithSessionReady
    <3>. QED
      BY <3>2, <3>3
  <2>2. CASE sa.session[s].mode # "none"
    <3>1. u = sa /\ a = block[s].conn
      BY <1>2, <2>2
    <3>. QED
      BY <1>2, <3>1, ReadySelf
  <2>. QED
    BY <2>1, <2>2
<1>. HIDE DEF u, k
<1>4. Ok(u) /\ \A t \in Level : NextRow \notin u.session[t].pending
  BY <1>2, <1>3 DEF Ready, DataInv, RowsInv
<1>5. /\ Ok(w) /\ SessionsAs(u, w, s) /\ w.session[s].mode = u.session[s].mode
  BY <1>2, <1>4, AddsToSession
<1>6. Only(u, w, a) /\ \A c \in Level : \A V : Ordered(u, c, V) => Ordered(w, c, V)
  BY <1>2, <1>4, AddKeeps
<1>. HIDE DEF w, a
<1>7. Spares(sa, w, a)
  BY <1>3, <1>6, OnlySpares, SparesTrans DEF Ready
<1>8. /\ HandlesKept(sa, w)
      /\ \A t \in Level : w.session[t].mode = u.session[t].mode
  BY <1>3, <1>5 DEF Ready, HandlesKept, SessionsAs
<1>9. a \in Owned(block, depth) => Ordered(w, a, Taken(block, depth, a))
  <2>. SUFFICES ASSUME a \in Owned(block, depth) PROVE Ordered(w, a, Taken(block, depth, a))
    OBVIOUS
  <2>1. a \in Level
    BY LevelsFit DEF Owned, DataInv
  <2>2. Ordered(u, a, Taken(block, depth, a))
    BY <1>3 DEF Ready
  <2>. QED
    BY <1>6, <2>1, <2>2
<1>10. Ready(w, a)
  BY <1>3, <1>5, <1>7, <1>8, <1>9 DEF Ready
<1>. QED
  BY <1>1, <1>3, <1>10, ReadyUses DEF k

\* What a session sees, when no block below has its savepoint on the connection.
LEMMA InnermostIs ==
    ASSUME NEW w, NEW c \in Level, NEW V, Ordered(w, c, V), NEW s,
           \A d \in Level : d > s => w.handle[d].conn # c /\ d \notin V
    PROVE  Innermost(w, c, V, s)
<1>. SUFFICES ASSUME NEW d \in Level, d > s, BlockTag(d) \in Tags(w, c)
              PROVE  Stale(w, c, V, BlockTag(d))
  BY DEF Innermost
<1>1. TagHeld(w, c, BlockTag(d))
  BY DEF Ordered
<1>2. w.handle[d].conn = c \/ LiveAt(Owning(w, c), d)
  BY <1>1, TagsApart DEF TagHeld
<1>3. Entered(Owning(w, c), d)
  BY <1>2 DEF LiveAt, Entered
<1>. QED
  BY <1>3 DEF Stale

\* A rollback of the session of the innermost block.
LEMMA RollbackInOrder ==
    ASSUME DataInv, OrderInv, NEW s \in 1 .. depth, Rollback(s), "rollback" \notin KeptOps
    PROVE  OrderInv'
<1>. DEFINE w == RollbackSession(sa, s)
            a == sa.session[s].conn
            V == Taken(block, depth, a)
<1>1. block' = block /\ depth' = depth /\ sa' = w /\ s = depth
  BY DEF Rollback, Uses, Moves, MayUse
<1>2. /\ s \in Level /\ Ok(sa) /\ depth \in Nat /\ 1 .. depth \subseteq Level
      /\ \A d \in Level : d > depth => ~(d <= depth) /\ d \notin 1 .. depth
  BY LevelsFit DEF DataInv, Level
<1>3. a = 0 \/ (a = ConnectionOf(s) /\ block[ConnectionOf(s)].conn = ConnectionOf(s))
  <2>1. s <= depth
    BY <1>2
  <2>2. a \in {0, block[s].conn} /\ (block[s].conn # 0 => block[ConnectionOf(s)].conn = ConnectionOf(s))
    BY <1>2, <2>1, UsesConnection DEF DataInv, SessionsFit
  <2>. QED
    BY <2>2 DEF ConnectionOf
<1>4. Ready(sa, a)
  BY ReadySelf
<1>5. Quiet(sa, w) /\ Only(sa, w, a)
  BY <1>2, RollsSessionBack, RollbackKeeps
<1>6. ASSUME a \in Owned(block, depth), Ordered(sa, a, V) PROVE Ordered(w, a, V)
  <2>1. a \in Level /\ a # 0 /\ HandlesOn(sa, block, depth)
    BY <1>2, <1>6 DEF Owned, OrderInv, Level
  <2>2. \A d \in Level : d > depth => sa.handle[d].conn # a /\ d \notin V
    BY <1>2, <2>1 DEF HandlesOn, Taken
  <2>. HIDE DEF V, a, w
  <2>3. Innermost(sa, a, V, s)
    BY <1>1, <1>6, <2>1, <2>2, InnermostIs
  <2>. QED
    BY <1>2, <1>6, <2>1, <2>3, RollbackKeeps DEF w, a
<1>. HIDE DEF w, a
<1>7. Ready(w, a)
  BY <1>4, <1>5, <1>6, ReadyMore
<1>. QED
  BY <1>1, <1>3, <1>7, ReadyUses

\* Whatever the code inside a block does, but a rollback of a session kept from further out.
LEMMA UseInOrder == ASSUME DataInv, OrderInv, Use, "rollback" \notin KeptOps PROVE OrderInv'
BY ExecuteInOrder, AddInOrder, QueryInOrder, CommitInOrder, RollbackInOrder DEF Use

\* A new block, placed where it may be, on connection k or on none.
LEMMA OpensInOrder ==
    ASSUME DataInv, OrderInv, depth < MaxDepth, NEW bl, MayCheckOut(bl), NEW b \in Block,
           NewOnTree(bl, b), NEW w, NEW k,
           block' = [bl EXCEPT ![depth + 1] = b], depth' = depth + 1, sa' = w,
           Spares(sa, w, k),
           k = 0 \/ (k \in 1 .. depth /\ bl[k].conn = k) \/ (k = depth + 1 /\ b.conn = k),
           \A e \in Level \ {depth + 1} : w.handle[e].conn = sa.handle[e].conn,
           w.handle[depth + 1].conn = IF b.ends \in {"root", "savepoint"} THEN b.conn ELSE 0,
           \A c \in Owned(block, depth) : w.session[c].mode = sa.session[c].mode,
           b.ends = "nested" => \A c \in Owned(block, depth) : b.owner = c <=> c = k,
           k \in Owned(block, depth) =>
              Ordered(w, k, Taken(block, depth, k) \cup (IF b.ends = "nested" THEN {depth + 1} ELSE {})),
           b.kind = "transaction" /\ b.conn = depth + 1 =>
              /\ w.session[depth + 1].mode = "none" /\ b.ends # "nested"
              /\ Ordered(w, depth + 1, Taken(block, depth, depth + 1))
    PROVE  OrderInv'
<1>. DEFINE n == depth + 1
            nb == [bl EXCEPT ![n] = b]
<1>1. /\ BindingsInv /\ Tree(block, depth) /\ HandlesOn(sa, block, depth)
      /\ IdleStacks(sa, block, depth) /\ InOrder(sa, block, depth) /\ MayCheckOut(block)
  BY DEF DataInv, OrderInv, MayCheckOut
<1>0. nb = [bl EXCEPT ![depth + 1] = b]
  OBVIOUS
<1>. HIDE DEF nb
<1>2. /\ Tree(nb, n)
      /\ Owned(nb, n) = Owned(block, depth) \cup
            (IF b.kind = "transaction" /\ b.conn = n THEN {n} ELSE {})
      /\ \A c : Taken(nb, n, c) = Taken(block, depth, c) \cup
            (IF b.ends = "nested" /\ b.owner = c THEN {n} ELSE {})
      /\ \A e \in 1 .. depth : nb[e] = bl[e]
      /\ nb[n] = b
  <2>1. BindingsInv /\ Tree(block, depth) /\ depth < MaxDepth /\ MayCheckOut(bl) /\ b \in Block /\ NewOnTree(bl, b)
    BY <1>1
  <2>2. TreeGrows(bl, b, nb)
    BY ONLY <1>0, <2>1, OpenTree, Zenon
  <2>. QED
    BY <2>2 DEF TreeGrows
<1>3. /\ \A e \in Level : e <= depth => e \in 1 .. depth /\ e <= n
      /\ \A e \in Level : e # n /\ e <= n => e <= depth
      /\ n \in Level /\ ~(n <= depth) /\ n <= n /\ depth \in Nat /\ 1 .. depth \subseteq Level
      /\ n \notin 1 .. depth
  BY <1>1, LevelsFit DEF Level
<1>4. HandlesOn(w, nb, n)
  <2>. SUFFICES ASSUME NEW d \in Level
                PROVE  w.handle[d].conn =
                          IF d <= n /\ nb[d].ends \in {"root", "savepoint"} THEN nb[d].conn ELSE 0
    BY DEF HandlesOn
  <2>1. CASE d = n
    BY <1>2, <1>3, <2>1
  <2>2. CASE d # n
    <3>1. w.handle[d].conn =
            IF d <= depth /\ block[d].ends \in {"root", "savepoint"} THEN block[d].conn ELSE 0
      BY <1>1, <2>2 DEF HandlesOn
    <3>2. d <= n <=> d <= depth
      BY <1>3, <2>2
    <3>3. ASSUME d <= depth
          PROVE  /\ nb[d].ends = block[d].ends
                 /\ nb[d].ends # "nothing" => nb[d].conn = block[d].conn
      BY <1>1, <1>2, <1>3, <3>3, BlocksBind
    <3>. QED
      BY <3>1, <3>2, <3>3
  <2>. QED
    BY <2>1, <2>2
<1>5. IdleStacks(w, nb, n)
  <2>. SUFFICES ASSUME NEW c \in Level, ~(c <= n /\ nb[c].conn = c)
                PROVE  w.stack[c] = <<>>
    BY DEF IdleStacks
  <2>1. c # k
    <3>1. CASE k = 0
      BY <3>1 DEF Level
    <3>2. CASE k \in 1 .. depth /\ bl[k].conn = k
      BY <1>2, <1>3, <3>2
    <3>3. CASE k = n /\ b.conn = k
      BY <1>2, <1>3, <3>3
    <3>. QED
      BY <3>1, <3>2, <3>3
  <2>2. w.stack[c] = sa.stack[c]
    BY <2>1 DEF Spares, Spared
  <2>3. ~(c <= depth /\ block[c].conn = c)
    <3>1. ASSUME c <= depth, block[c].conn = c PROVE FALSE
      <4>1. c \in 1 .. depth /\ c # 0 /\ c <= n
        BY <1>3, <3>1 DEF Level
      <4>2. bl[c].conn = c
        BY <1>1, <3>1, <4>1, BlocksBind
      <4>. QED
        BY <1>2, <4>1, <4>2
    <3>. QED
      BY <3>1
  <2>. QED
    BY <1>1, <2>2, <2>3 DEF IdleStacks
<1>6. InOrder(w, nb, n)
  <2>1. ASSUME NEW c \in Owned(block, depth)
        PROVE  OwnerMode(w, nb, c) /\ Ordered(w, c, Taken(nb, n, c))
    <3>1. c \in 1 .. depth /\ c \in Level /\ c # 0
      BY <1>3 DEF Owned, Level
    <3>2. nb[c].owner = block[c].owner
      BY <1>1, <1>2, <3>1, BlocksBind
    <3>3. OwnerMode(sa, block, c) /\ Ordered(sa, c, Taken(block, depth, c))
      BY <1>1 DEF InOrder
    <3>4. OwnerMode(w, nb, c)
      BY <3>2, <3>3 DEF OwnerMode
    <3>5. CASE c = k
      <4>1. Taken(nb, n, k) = Taken(block, depth, k) \cup (IF b.ends = "nested" THEN {n} ELSE {})
        BY <1>2, <3>5
      <4>. QED
        BY <3>4, <3>5, <4>1
    <3>6. CASE c # k
      <4>1. Taken(nb, n, c) = Taken(block, depth, c)
        BY <1>2, <3>6
      <4>2. Ordered(w, c, Taken(block, depth, c))
        BY <3>1, <3>3, <3>6, SparedKeeps DEF Spares
      <4>. QED
        BY <3>4, <4>1, <4>2
    <3>. QED
      BY <3>5, <3>6
  <2>2. ASSUME b.kind = "transaction", b.conn = n
        PROVE  OwnerMode(w, nb, n) /\ Ordered(w, n, Taken(nb, n, n))
    <3>1. Taken(nb, n, n) = Taken(block, depth, n)
      BY <1>2, <2>2
    <3>. QED
      BY <2>2, <3>1 DEF OwnerMode
  <2>. QED
    BY <1>2, <2>1, <2>2 DEF InOrder
<1>7. block' = nb
  BY <1>0
<1>. QED
  BY <1>2, <1>4, <1>5, <1>6, <1>7 DEF OrderInv

\* A level that is not open has no session and no handle.
LEMMA NothingYet ==
    ASSUME DataInv, OrderInv, depth < MaxDepth
    PROVE  /\ depth + 1 \in Level /\ depth \in Nat /\ 1 .. depth \subseteq Level
           /\ depth + 1 \notin 1 .. depth
           /\ sa.handle[depth + 1].conn = 0
           /\ sa.session[depth + 1].mode = "none" /\ sa.session[depth + 1].conn = 0
<1>1. /\ depth + 1 \in Level /\ depth \in Nat /\ 1 .. depth \subseteq Level
      /\ ~(depth + 1 <= depth) /\ depth + 1 \notin 1 .. depth
  BY LevelsFit DEF DataInv, Level
<1>2. sa.handle[depth + 1].conn = 0
  BY <1>1 DEF OrderInv, HandlesOn
<1>3. SessionsFit(sa, block, depth)
  BY DEF DataInv
<1>. QED
  BY <1>1, <1>2, <1>3, NoSessionYet

\* A new block that takes no transaction object of its own.
LEMMA OpensPlain ==
    ASSUME DataInv, OrderInv, depth < MaxDepth, NEW bl, MayCheckOut(bl), NEW b \in Block,
           NewOnTree(bl, b), NEW w, NEW k,
           block' = [bl EXCEPT ![depth + 1] = b], depth' = depth + 1, sa' = w,
           b.ends \in {"nothing", "lender"}, b.kind = "transaction" => b.conn # depth + 1,
           Spares(sa, w, k), HandlesKept(sa, w),
           k = 0 \/ (k \in 1 .. depth /\ bl[k].conn = k),
           \A c \in Owned(block, depth) : w.session[c].mode = sa.session[c].mode,
           k \in Owned(block, depth) => Ordered(w, k, Taken(block, depth, k))
    PROVE  OrderInv'
<1>1. \A e \in Level : w.handle[e].conn = sa.handle[e].conn
  BY DEF HandlesKept
<1>2. w.handle[depth + 1].conn = IF b.ends \in {"root", "savepoint"} THEN b.conn ELSE 0
  BY <1>1, NothingYet
<1>3. k \in Owned(block, depth) =>
         Ordered(w, k, Taken(block, depth, k) \cup (IF b.ends = "nested" THEN {depth + 1} ELSE {}))
  <2>1. Taken(block, depth, k) \cup (IF b.ends = "nested" THEN {depth + 1} ELSE {}) = Taken(block, depth, k)
    OBVIOUS
  <2>. QED
    BY <2>1
<1>4. b.ends # "nested"
  OBVIOUS
<1>5. ~(b.kind = "transaction" /\ b.conn = depth + 1)
  OBVIOUS
<1>. QED
  BY <1>1, <1>2, <1>3, <1>4, <1>5, OpensInOrder

\* The block around a new one, on the connection it is bound to.
LEMMA ReusesConnection ==
    ASSUME DataInv, OrderInv, NEW s, s # 0, s \in {0, ScopeToReuse}
    PROVE  LET k == ConnectionOf(s)
               bl == CheckedOut(s)
           IN /\ s = depth /\ depth > 0 /\ depth \in 1 .. depth /\ MayCheckOut(bl)
              /\ bl[depth].conn = k /\ k # 0 /\ k \in 1 .. depth /\ k \in Level /\ bl[k].conn = k
              /\ Ready(Bound(s), k)
<1>1. s = depth /\ depth \in 1 .. depth /\ depth > 0 /\ 1 .. depth \subseteq Level
  BY OuterInOpen, LevelsFit DEF DataInv
<1>2. MayCheckOut(CheckedOut(s))
  BY <1>1 DEF MayCheckOut, OpenLevel
<1>. QED
  BY <1>1, <1>2, UsesConnection, BoundReady

\* The session of another block is no session of the new one.
LEMMA BoundModes ==
    ASSUME DataInv, NEW s \in 1 .. depth
    PROVE  \A t \in Level : Bound(s).session[t].mode = sa.session[t].mode
BY Prepared

\* connect().
LEMMA OpenConnectInOrder == ASSUME DataInv, OrderInv, OpenConnect PROVE OrderInv'
<1>1. /\ depth < MaxDepth /\ Outer \in 0 .. MaxDepth /\ depth + 1 \in Level /\ "connect" \in Kinds
      /\ depth + 1 # 0 /\ 1 .. depth \subseteq Level /\ Level \subseteq 0 .. MaxDepth
  BY OuterInOpen, LevelsFit DEF OpenConnect, DataInv, Level, Kinds
<1>2. ASSUME NEW c \in Level
      PROVE  LET b == NewBlock("connect", c, Outer)
             IN b \in Block /\ b.conn = c /\ b.outer = Outer /\ b.kind = "connect" /\ b.ends = "nothing"
  BY <1>1, NewBlockIsBlock
<1>3. CASE ScopeToReuse # 0
  <2>. DEFINE s == ScopeToReuse
              k == ConnectionOf(s)
              b == NewBlock("connect", k, Outer)
              bl == CheckedOut(s)
              u == Bound(s)
  <2>1. Opens(bl, b) /\ Moves(u, 0)
    BY <1>3 DEF OpenConnect
  <2>2. /\ s = depth /\ depth > 0 /\ depth \in 1 .. depth /\ MayCheckOut(bl)
        /\ bl[depth].conn = k /\ k # 0 /\ k \in 1 .. depth /\ k \in Level /\ bl[k].conn = k
        /\ Ready(u, k)
    BY <1>3, ReusesConnection
  <2>3. /\ b \in Block /\ b.conn = k /\ b.outer = Outer /\ b.kind = "connect" /\ b.ends = "nothing"
    BY <1>2, <2>2
  <2>4. \A t \in Level : u.session[t].mode = sa.session[t].mode
    BY <2>2, BoundModes
  <2>. HIDE DEF s, k, b, bl, u
  <2>5. NewOnTree(bl, b)
    BY <2>2, <2>3 DEF NewOnTree
  <2>6. /\ block' = [bl EXCEPT ![depth + 1] = b] /\ depth' = depth + 1 /\ sa' = u
    BY <2>1 DEF Opens, Moves
  <2>7. \A c \in Owned(block, depth) : u.session[c].mode = sa.session[c].mode
    BY <1>1, <2>4 DEF Owned
  <2>. QED
    BY <1>1, <2>2, <2>3, <2>5, <2>6, <2>7, OpensPlain DEF Ready
<1>4. CASE ScopeToReuse = 0
  <2>. DEFINE b == NewBlock("connect", depth + 1, Outer)
  <2>1. Opens(block, b) /\ Moves(sa, 0)
    BY <1>4 DEF OpenConnect
  <2>2. b \in Block /\ b.conn = depth + 1 /\ b.kind = "connect" /\ b.ends = "nothing"
    BY <1>1, <1>2
  <2>. HIDE DEF b
  <2>3. NewOnTree(block, b) /\ MayCheckOut(block) /\ Ready(sa, 0)
    BY <2>2, ReadySelf DEF NewOnTree, MayCheckOut
  <2>4. /\ block' = [block EXCEPT ![depth + 1] = b] /\ depth' = depth + 1 /\ sa' = sa
    BY <2>1 DEF Opens, Moves
  <2>. QED
    BY <1>1, <2>2, <2>3, <2>4, OpensPlain DEF Ready
<1>. QED
  BY <1>3, <1>4

\* The session of a new block that runs in a transaction shares what it finds.
LEMMA NewModeOnTree ==
    ASSUME DataInv, OrderInv, depth < MaxDepth, NEW bl, MayCheckOut(bl), NEW b \in Block,
           NewOnTree(bl, b), NEW nb, nb = [bl EXCEPT ![depth + 1] = b],
           b.kind # "transaction", b.outer = Outer, b.conn \in Owned(block, depth)
    PROVE  JoinMode(nb, depth + 1) = "rollback_only"
<1>. DEFINE n == depth + 1
            c == b.conn
<1>1. BindingsInv /\ Tree(block, depth)
  BY DEF DataInv, OrderInv
<1>2. TreeGrows(bl, b, nb)
  BY <1>1, OpenTree
<1>3. n \in 1 .. n /\ n # 0 /\ n \notin 1 .. depth /\ 1 .. depth \subseteq 1 .. n
  BY <1>1, LevelsFit
<1>4. /\ Tree(nb, n) /\ c \in Owned(nb, n) /\ nb[n] = b
      /\ \A e \in 1 .. depth : nb[e] = bl[e]
  BY <1>2 DEF TreeGrows
<1>5. c \in 1 .. depth /\ c # 0 /\ c # n /\ block[c].kind = "transaction"
  BY <1>3 DEF Owned
<1>6. bl[c].outer = c
  BY <1>1, <1>5, BlocksBind
<1>7. Outer # 0 => Outer \in 1 .. n /\ nb[Outer].kind = "transaction"
  <2>. SUFFICES ASSUME Outer # 0 PROVE Outer \in 1 .. n /\ nb[Outer].kind = "transaction"
    OBVIOUS
  <2>1. depth \in 1 .. depth /\ Outer = block[depth].outer
    BY <1>1, LevelsFit DEF Outer
  <2>2. bl[depth].outer = block[depth].outer
    BY <1>1, <2>1, BlocksBind
  <2>3. Outer \in 1 .. depth /\ bl[Outer].kind = "transaction"
    BY <1>1, <2>1, <2>2, BlocksBind
  <2>. QED
    BY <1>3, <1>4, <2>3
<1>8. JoinMode(nb, n) = IF n = c /\ nb[c].owner = c THEN "create_savepoint" ELSE "rollback_only"
  <2>1. nb[c].outer = c /\ nb[n].conn = c /\ nb[n].outer = Outer
    BY <1>4, <1>5, <1>6
  <2>2. nb[n].outer # 0 => nb[n].outer \in 1 .. n /\ nb[nb[n].outer].kind = "transaction"
    BY <1>7, <2>1
  <2>3. /\ Tree(nb, n) /\ c \in Owned(nb, n) /\ nb[c].outer = c /\ c # 0
        /\ n \in 1 .. n /\ n # 0 /\ nb[n].conn = c
    BY <1>3, <1>4, <1>5, <2>1
  <2>. HIDE DEF c, n
  <2>. QED
    BY ONLY <2>2, <2>3, JoinModeOnTree, Zenon
<1>. QED
  BY <1>5, <1>8

\* A new block with its session, that shares what it finds in a transaction.
LEMMA OpensWithSession ==
    ASSUME DataInv, OrderInv, depth < MaxDepth, NEW bl, MayCheckOut(bl), NEW b \in Block,
           NewOnTree(bl, b), NEW u, NEW k \in 0 .. MaxDepth, NEW m \in Modes,
           block' = [bl EXCEPT ![depth + 1] = b], depth' = depth + 1,
           sa' = [u EXCEPT !.session[depth + 1] = NewSession(m, k)],
           b.ends = "nothing", b.kind # "transaction", Ready(u, k),
           \A t \in Level : u.session[t].mode = sa.session[t].mode,
           u.session[depth + 1].conn \in {0, k},
           k = 0 \/ (k \in 1 .. depth /\ bl[k].conn = k),
           k \in Owned(block, depth) => m = "rollback_only"
    PROVE  OrderInv'
<1>. DEFINE n == depth + 1
            w == [u EXCEPT !.session[n] = NewSession(m, k)]
<1>1. n \in Level /\ n \notin 1 .. depth /\ 1 .. depth \subseteq Level /\ Ok(u)
  BY NothingYet DEF Ready
<1>2. /\ Ok(w) /\ SessionsAs(u, w, n)
  BY <1>1, PutsSession
<1>3. /\ u.session[n].conn \in {0, k} => Spares(u, w, k)
      /\ \A c \in Level : \A V :
            Ordered(u, c, V) /\ n # c /\ (k = c => m = "rollback_only") => Ordered(w, c, V)
  BY <1>1, NewSessionKeeps
<1>4. sa' = w
  OBVIOUS
<1>. HIDE DEF w
<1>5. Spares(sa, w, k)
  BY <1>3, SparesTrans DEF Ready
<1>6. HandlesKept(sa, w)
  BY <1>2 DEF Ready, HandlesKept, SessionsAs
<1>7. \A c \in Owned(block, depth) : w.session[c].mode = sa.session[c].mode
  <2>1. \A c \in Owned(block, depth) : c \in Level /\ c # n
    BY <1>1 DEF Owned
  <2>. QED
    BY <1>2, <2>1 DEF SessionsAs
<1>8. ASSUME k \in Owned(block, depth) PROVE Ordered(w, k, Taken(block, depth, k))
  <2>1. k \in Level /\ k # n
    BY <1>1, <1>8 DEF Owned
  <2>. QED
    BY <1>3, <1>8, <2>1 DEF Ready
<1>. QED
  BY <1>4, <1>5, <1>6, <1>7, <1>8, OpensPlain

\* session_factory().
LEMMA OpenSessionInOrder == ASSUME DataInv, OrderInv, OpenSession PROVE OrderInv'
<1>1. /\ depth < MaxDepth /\ Outer \in 0 .. MaxDepth /\ depth + 1 \in Level /\ "session" \in Kinds
      /\ depth + 1 # 0 /\ 1 .. depth \subseteq Level /\ Level \subseteq 0 .. MaxDepth
      /\ 0 \in 0 .. MaxDepth
  BY OuterInOpen, LevelsFit DEF OpenSession, DataInv, Level, Kinds
<1>2. ASSUME NEW c \in 0 .. MaxDepth
      PROVE  LET b == NewBlock("session", c, Outer)
             IN b \in Block /\ b.conn = c /\ b.outer = Outer /\ b.kind = "session" /\ b.ends = "nothing"
  BY <1>1, NewBlockIsBlock
<1>3. CASE ScopeToReuse # 0
  <2>. DEFINE s == ScopeToReuse
              k == ConnectionOf(s)
              b == NewBlock("session", k, Outer)
              bl == CheckedOut(s)
              u == Bound(s)
              m == JoinMode(block', depth + 1)
  <2>1. Opens(bl, b) /\ Moves([u EXCEPT !.session[depth + 1] = NewSession(m, k)], 0)
    BY <1>3 DEF OpenSession
  <2>2. /\ s = depth /\ depth > 0 /\ depth \in 1 .. depth /\ MayCheckOut(bl)
        /\ bl[depth].conn = k /\ k # 0 /\ k \in 1 .. depth /\ k \in Level /\ bl[k].conn = k
        /\ Ready(u, k)
    BY <1>3, ReusesConnection
  <2>3. /\ b \in Block /\ b.conn = k /\ b.outer = Outer /\ b.kind = "session" /\ b.ends = "nothing"
        /\ k \in 0 .. MaxDepth
    BY <1>1, <1>2, <2>2
  <2>4. \A t \in Level : u.session[t].mode = sa.session[t].mode
    BY <2>2, BoundModes
  <2>5. m \in Modes
    BY SessionModeIs DEF Modes
  <2>6. u.session[depth + 1].conn \in {0, k}
    <3>1. /\ depth + 1 \in Level \ {s} /\ sa.session[depth + 1].conn = 0
      BY <1>1, <2>2, NothingYet
    <3>2. \A t \in Level \ {s} : u.session[t] = sa.session[t]
      BY <2>2, Prepared
    <3>. QED
      BY <3>1, <3>2
  <2>. HIDE DEF s, k, b, bl, u, m
  <2>7. NewOnTree(bl, b)
    BY <2>2, <2>3 DEF NewOnTree
  <2>8. /\ block' = [bl EXCEPT ![depth + 1] = b] /\ depth' = depth + 1
        /\ sa' = [u EXCEPT !.session[depth + 1] = NewSession(m, k)]
    BY <2>1 DEF Opens, Moves
  <2>9. k \in Owned(block, depth) => m = "rollback_only"
    <3>. DEFINE nb == block'
    <3>1. nb = [bl EXCEPT ![depth + 1] = b] /\ m = JoinMode(nb, depth + 1)
      BY <2>8 DEF m
    <3>. HIDE DEF nb
    <3>. QED
      BY <1>1, <2>2, <2>3, <2>7, <3>1, NewModeOnTree
  <2>. QED
    BY <1>1, <2>2, <2>3, <2>4, <2>5, <2>6, <2>7, <2>8, <2>9, OpensWithSession
<1>4. CASE ScopeToReuse = 0
  <2>. DEFINE b == NewBlock("session", 0, Outer)
              m == "conditional_savepoint"
  <2>1. Opens(block, b) /\ Moves([sa EXCEPT !.session[depth + 1] = NewSession(m, 0)], 0)
    BY <1>4 DEF OpenSession
  <2>2. b \in Block /\ b.conn = 0 /\ b.kind = "session" /\ b.ends = "nothing"
    BY <1>1, <1>2
  <2>3. m \in Modes /\ 0 \notin Owned(block, depth)
    BY DEF Modes, Owned
  <2>. HIDE DEF b, m
  <2>4. NewOnTree(block, b) /\ MayCheckOut(block) /\ Ready(sa, 0) /\ sa.session[depth + 1].conn = 0
    BY <1>1, <2>2, ReadySelf, NothingYet DEF NewOnTree, MayCheckOut
  <2>5. /\ block' = [block EXCEPT ![depth + 1] = b] /\ depth' = depth + 1
        /\ sa' = [sa EXCEPT !.session[depth + 1] = NewSession(m, 0)]
    BY <2>1 DEF Opens, Moves
  <2>. QED
    BY <1>1, <2>2, <2>3, <2>4, <2>5, OpensWithSession
<1>. QED
  BY <1>3, <1>4

\* autocommit().
LEMMA OpenAutocommitInOrder == ASSUME DataInv, OrderInv, OpenAutocommit PROVE OrderInv'
<1>. DEFINE n == depth + 1
<1>1. /\ depth < MaxDepth /\ Outer \in 0 .. MaxDepth /\ n \in Level /\ "autocommit" \in Kinds
      /\ OuterToJoin \in {0, Outer} /\ n # 0 /\ n \in 0 .. MaxDepth /\ 0 \in 0 .. MaxDepth
      /\ Level \subseteq 0 .. MaxDepth
  BY OuterInOpen, LevelsFit DEF OpenAutocommit, DataInv, Level, Kinds
<1>2. Ready(sa, 0) /\ MayCheckOut(block) /\ Ok(sa) /\ 0 \notin Owned(block, depth)
  BY ReadySelf DEF MayCheckOut, DataInv, Owned
<1>3. CASE OuterToJoin # 0
  <2>. DEFINE c == block[OuterToJoin].conn
              b == NewBlock("autocommit", c, Outer)
  <2>1. c \in Level
    BY <1>1, <1>3, OuterInOpen, LevelsFit DEF DataInv, BindingsInv, TransactionsBind, OuterIsTransaction,
       OpenLevel, OuterToJoin, Outer, Level
  <2>2. b \in Block /\ b.conn = c /\ b.kind = "autocommit" /\ b.ends = "nothing" /\ b.outer = Outer
    <3>1. c \in 0 .. MaxDepth
      BY <1>1, <2>1
    <3>. HIDE DEF c
    <3>. QED
      BY <1>1, <3>1, NewBlockIsBlock
  <2>3. Opens(block, b) /\ Moves(sa, 0)
    BY <1>3 DEF OpenAutocommit
  <2>. HIDE DEF b
  <2>4. NewOnTree(block, b)
    BY <1>1, <1>3, <2>2 DEF NewOnTree
  <2>5. /\ block' = [block EXCEPT ![depth + 1] = b] /\ depth' = depth + 1 /\ sa' = sa
    BY <2>3 DEF Opens, Moves
  <2>. QED
    BY <1>1, <1>2, <2>2, <2>4, <2>5, OpensPlain DEF Ready
<1>4. CASE OuterToJoin = 0
  <2>. DEFINE a == NewBlock("autocommit", n, 0)
              b == [a EXCEPT !.autocommit = TRUE]
              w == [sa EXCEPT !.auto = @ \cup {n}]
  <2>1. a \in Block /\ a.conn = n /\ a.ends = "nothing" /\ a.kind = "autocommit"
    BY <1>1, NewBlockIsBlock
  <2>2. Opens(block, b) /\ Moves(w, 0)
    BY <1>4 DEF OpenAutocommit
  <2>. HIDE DEF a
  <2>3. b \in Block /\ b.conn = n /\ b.ends = "nothing" /\ b.kind = "autocommit"
    BY <2>1 DEF Block
  <2>4. w.session = sa.session /\ w.stack = sa.stack /\ w.handle = sa.handle
    BY <1>1, <1>2, AutoAdds
  <2>. HIDE DEF b, w
  <2>5. NewOnTree(block, b)
    BY <2>3 DEF NewOnTree
  <2>6. /\ block' = [block EXCEPT ![depth + 1] = b] /\ depth' = depth + 1 /\ sa' = w
    BY <2>2 DEF Opens, Moves
  <2>7. Spares(sa, w, 0) /\ HandlesKept(sa, w)
    BY <2>4 DEF Spares, Spared, HandlesKept
  <2>. QED
    BY <1>1, <1>2, <2>3, <2>4, <2>5, <2>6, <2>7, OpensPlain
<1>. QED
  BY <1>3, <1>4

\* A handle set on connection k, or on none.
LEMMA HandleSpares ==
    ASSUME NEW v, NEW w, NEW n \in Level, NEW k, w.stack = v.stack, w.session = v.session,
           \A e \in Level \ {n} : w.handle[e] = v.handle[e],
           v.handle[n].conn \in {0, k}, w.handle[n].conn \in {0, k}
    PROVE  Spares(v, w, k)
<1>. SUFFICES ASSUME NEW c \in Level \ {k} PROVE Spared(v, w, c)
  BY DEF Spares
<1>1. c # 0 /\ c # k
  BY DEF Level
<1>. QED
  BY <1>1 DEF Spared

\* What is on a connection is of an open block.
LEMMA OnOpenBlocks ==
    ASSUME DataInv, OrderInv, NEW c \in Level
    PROVE  /\ \A s \in Level : sa.session[s].conn = c => s <= depth /\ c <= s
           /\ \A d \in Level : sa.handle[d].conn = c => d <= depth /\ c <= d
<1>1. /\ c # 0 /\ BindingsInv /\ SessionsFit(sa, block, depth) /\ HandlesOn(sa, block, depth)
      /\ \A e \in Level : e <= depth => e \in 1 .. depth
      /\ \A e \in 1 .. depth : block[e].conn <= e
  BY LevelsFit DEF DataInv, OrderInv, Level
<1>2. ASSUME NEW s \in Level, sa.session[s].conn = c PROVE s <= depth /\ c <= s
  <2>1. sa.session[s].mode # "none"
    BY <1>1, <1>2 DEF SessionsFit
  <2>2. s <= depth /\ block[s].conn = c
    BY <1>1, <1>2, <2>1 DEF SessionsFit
  <2>. QED
    BY <1>1, <2>2
<1>3. ASSUME NEW d \in Level, sa.handle[d].conn = c PROVE d <= depth /\ c <= d
  <2>1. d <= depth /\ block[d].conn = c
    BY <1>1, <1>3, HandleOnBlock
  <2>. QED
    BY <1>1, <2>1
<1>. QED
  BY <1>2, <1>3

\* The session that takes savepoints on the connection of a transaction is that of the
\* block that opened it.
LEMMA OwnerOnTree ==
    ASSUME DataInv, OrderInv, NEW o \in 1 .. depth, block[o].kind = "transaction",
           NEW c \in Owned(block, depth), block[o].conn = c
    PROVE  /\ block[o].owner = block[c].owner /\ block[c].owner \in {0, c}
           /\ Creates(sa, c) => block[o].owner = c /\ sa.session[c].mode # "none"
           /\ block[o].owner = c /\ sa.session[c].mode # "none" => sa.session[c].conn = c /\ Creates(sa, c)
<1>1. Tree(block, depth) /\ c \in 1 .. depth /\ c \in Level /\ block[c].conn = c /\ c # 0
  BY LevelsFit DEF OrderInv, Owned, DataInv, Level
<1>2. block[o].owner = block[c].owner /\ block[c].owner \in {0, c}
  <2>1. CASE o = c
    BY <1>1, <2>1 DEF Tree
  <2>2. CASE o # c
    BY <1>1, <2>2 DEF Tree, OnTree
  <2>. QED
    BY <2>1, <2>2
<1>3. /\ sa.session[c].mode # "none" => sa.session[c].conn = block[c].conn
      /\ sa.session[c].mode = "create_savepoint" => block[c].owner = c
  BY <1>1 DEF DataInv, SessionsFit
<1>4. Creates(sa, c) => sa.session[c].mode = "create_savepoint"
  BY DEF Creates, Owning, NoSession
<1>5. OwnerMode(sa, block, c)
  BY DEF OrderInv, InOrder
<1>. QED
  BY <1>1, <1>2, <1>3, <1>4, <1>5 DEF OwnerMode, Creates, Owning

\* A new block whose savepoint is taken through the session of another.
LEMMA OpensNested ==
    ASSUME DataInv, OrderInv, depth < MaxDepth, NEW r \in Block, NewOnTree(block, r), NEW w,
           NEW k \in 1 .. depth, block[k].conn = k, r.conn = k, r.ends = "nested",
           block' = [block EXCEPT ![depth + 1] = r], depth' = depth + 1, sa' = w,
           Spares(sa, w, k), HandlesKept(sa, w),
           \A c \in Owned(block, depth) : w.session[c].mode = sa.session[c].mode,
           \A c \in Owned(block, depth) : r.owner = c <=> c = k,
           k \in Owned(block, depth) => Ordered(w, k, Taken(block, depth, k) \cup {depth + 1})
    PROVE  OrderInv'
<1>1. \A e \in Level : w.handle[e].conn = sa.handle[e].conn
  BY DEF HandlesKept
<1>2. w.handle[depth + 1].conn = IF r.ends \in {"root", "savepoint"} THEN r.conn ELSE 0
  BY <1>1, NothingYet
<1>3. k \in Owned(block, depth) =>
         Ordered(w, k, Taken(block, depth, k) \cup (IF r.ends = "nested" THEN {depth + 1} ELSE {}))
  OBVIOUS
<1>4. ~(r.kind = "transaction" /\ r.conn = depth + 1)
  BY NothingYet
<1>5. MayCheckOut(block)
  BY DEF MayCheckOut
<1>6. \A e \in Level \ {depth + 1} : w.handle[e].conn = sa.handle[e].conn
  BY <1>1
<1>7. k = 0 \/ (k \in 1 .. depth /\ block[k].conn = k) \/ (k = depth + 1 /\ r.conn = k)
  OBVIOUS
<1>8. r.ends = "nested" => \A c \in Owned(block, depth) : r.owner = c <=> c = k
  OBVIOUS
<1>9. r.kind = "transaction" /\ r.conn = depth + 1 =>
              /\ w.session[depth + 1].mode = "none" /\ r.ends # "nested"
              /\ Ordered(w, depth + 1, Taken(block, depth, depth + 1))
  BY <1>4
<1>. QED
  BY <1>2, <1>3, <1>5, <1>6, <1>7, <1>8, <1>9, OpensInOrder, ZenonT(60)

\* A new block that takes a transaction object of its own, on connection k.
LEMMA OpensWithHandle ==
    ASSUME DataInv, OrderInv, depth < MaxDepth, NEW bl, MayCheckOut(bl), NEW r \in Block,
           NewOnTree(bl, r), NEW v, Ok(v), NEW k \in Level, NEW t \in LiveTag,
           t = IF r.ends = "root" THEN Root ELSE BlockTag(depth + 1),
           k = depth + 1 \/ (k \in 1 .. depth /\ bl[k].conn = k),
           r.conn = k, r.ends \in {"root", "savepoint"}, r.kind = "transaction",
           block' = [bl EXCEPT ![depth + 1] = r], depth' = depth + 1,
           sa' = [v EXCEPT !.handle[depth + 1] = [conn |-> k, tag |-> t]],
           Spares(sa, v, k), HandlesKept(sa, v),
           \A c \in Level : v.session[c].mode = sa.session[c].mode,
           k \in Owned(block, depth) \/ k = depth + 1 => Ordered(sa', k, Taken(block, depth, k))
    PROVE  OrderInv'
<1>. DEFINE w == [v EXCEPT !.handle[depth + 1] = [conn |-> k, tag |-> t]]
<1>1. depth + 1 \in Level /\ depth + 1 \notin 1 .. depth /\ sa.handle[depth + 1].conn = 0
      /\ sa.session[depth + 1].mode = "none"
      /\ \A e \in Owned(block, depth) : e \in Level
  BY NothingYet DEF Owned
<1>2. w.session = v.session /\ w.stack = v.stack
  BY DEF Ok, World
<1>3. /\ w.handle[depth + 1] = [conn |-> k, tag |-> t]
      /\ \A e \in Level \ {depth + 1} : w.handle[e] = v.handle[e]
  BY <1>1 DEF Ok, World
<1>4. sa' = w
  OBVIOUS
<1>. HIDE DEF w
<1>5. w.handle[depth + 1].conn = k /\ v.handle[depth + 1].conn = 0
  BY <1>1, <1>3 DEF HandlesKept
<1>6. Spares(v, w, k)
  BY <1>1, <1>2, <1>3, <1>5, HandleSpares
<1>7. Spares(sa, w, k)
  BY <1>6, SparesTrans
<1>8. \A e \in Level \ {depth + 1} : w.handle[e].conn = sa.handle[e].conn
  BY <1>3 DEF HandlesKept
<1>9. w.handle[depth + 1].conn = IF r.ends \in {"root", "savepoint"} THEN r.conn ELSE 0
  BY <1>5
<1>10. \A c \in Owned(block, depth) : w.session[c].mode = sa.session[c].mode
  BY <1>1, <1>2
<1>11. k \in Owned(block, depth) =>
         Ordered(w, k, Taken(block, depth, k) \cup (IF r.ends = "nested" THEN {depth + 1} ELSE {}))
  <2>1. Taken(block, depth, k) \cup (IF r.ends = "nested" THEN {depth + 1} ELSE {}) = Taken(block, depth, k)
    OBVIOUS
  <2>. QED
    BY <1>4, <2>1
<1>12. r.kind = "transaction" /\ r.conn = depth + 1 =>
              /\ w.session[depth + 1].mode = "none" /\ r.ends # "nested"
              /\ Ordered(w, depth + 1, Taken(block, depth, depth + 1))
  BY <1>1, <1>2, <1>4
<1>13. r.ends = "nested" => \A c \in Owned(block, depth) : r.owner = c <=> c = k
  OBVIOUS
<1>14. k = 0 \/ (k \in 1 .. depth /\ bl[k].conn = k) \/ (k = depth + 1 /\ r.conn = k)
  OBVIOUS
<1>15. block' = [bl EXCEPT ![depth + 1] = r] /\ depth' = depth + 1
  OBVIOUS
<1>16. DataInv /\ OrderInv /\ depth < MaxDepth /\ MayCheckOut(bl) /\ r \in Block /\ NewOnTree(bl, r)
  OBVIOUS
<1>. QED
  BY ONLY <1>4, <1>7, <1>8, <1>9, <1>10, <1>11, <1>12, <1>13, <1>14, <1>15, <1>16, OpensInOrder, ZenonT(60)

\* transaction() in one it joins.
LEMMA JoinInOrder ==
    ASSUME DataInv, OrderInv, depth < MaxDepth, OuterToJoin # 0, NEW opt \in Options,
           NEW savepoint, savepoint \in BOOLEAN, block[OuterToJoin].savepoint => savepoint,
           JoinTransaction(OuterToJoin, opt, savepoint)
    PROVE  OrderInv'
<1>. DEFINE n == depth + 1
            o == OuterToJoin
            c == block[o].conn
            V == Taken(block, depth, c)
            holder == SavepointOwner(o)
            owner == IF OwnsSavepoints(o, savepoint) THEN n ELSE block[o].owner
            b(ends) == TransactionBlock(c, opt, savepoint, owner, ends)
<1>1. /\ n \in Level /\ o \in 1 .. depth /\ o \in OpenLevel /\ n \in 0 .. MaxDepth
      /\ block[o].kind = "transaction" /\ o \in Level /\ 1 .. depth \subseteq Level
      /\ \A e \in 1 .. depth : e < n
      /\ \A e \in Level : e <= depth => e < n
      /\ depth \in Nat
  BY OuterInOpen, LevelsFit DEF DataInv, OpenLevel, Level, BindingsInv, OuterIsTransaction,
     OuterToJoin, Outer
<1>2. /\ c \in Level /\ c \in 0 .. MaxDepth /\ block[o].owner \in 0 .. MaxDepth /\ c # 0
      /\ c \in 1 .. depth /\ c # n /\ block[c].conn = c /\ c < n
  <2>1. MayCheckOut(block) /\ BindingsInv /\ Tree(block, depth)
    BY DEF MayCheckOut, DataInv, OrderInv
  <2>2. c # 0 /\ c \in 1 .. depth
    BY <1>1, <2>1, BlocksBind
  <2>3. block[c].conn = c
    BY <1>1, <2>1, <2>2 DEF Tree
  <2>. QED
    BY <1>1, <2>1, <2>2, <2>3, LevelsFit DEF Block, Level
<1>3. owner \in 0 .. MaxDepth /\ owner = block[o].owner
  <2>1. block[o].owner # 0 => block[o].savepoint
    BY <1>1 DEF DataInv, BindingsInv, OwnersBelow
  <2>2. o # 0 /\ (block[o].owner # 0 => savepoint)
    BY <2>1
  <2>. QED
    BY <1>2, <2>2 DEF OwnsSavepoints
<1>4. \/ /\ ~savepoint
         /\ Opens(block, b("nothing"))
         /\ Moves(sa, c)
      \/ /\ savepoint /\ holder # 0 /\ ~sa.session[holder].stuck
         /\ Opens(block, b("nested"))
         /\ Moves(BeginNested(sa, holder, n), c)
      \/ /\ savepoint /\ holder = 0
         /\ Opens(block, b("savepoint"))
         /\ Moves([TakeSavepoint(sa, c, BlockTag(n)) EXCEPT
                        !.handle[n] = [conn |-> c, tag |-> BlockTag(n)]], c)
  BY DEF JoinTransaction
<1>5. \A ends \in Ends : /\ b(ends) \in Block /\ b(ends).conn = c /\ b(ends).ends = ends
                         /\ b(ends).kind = "transaction" /\ b(ends).outer = n /\ b(ends).owner = block[o].owner
  BY <1>2, <1>3, TransactionBlockIsBlock DEF DataInv
<1>6. MayCheckOut(block) /\ Ok(sa) /\ n \notin Owned(block, depth)
  BY <1>1 DEF MayCheckOut, DataInv, Owned
<1>. HIDE DEF b, owner
<1>7. \A ends \in {"nothing", "nested", "savepoint"} : ends \in Ends /\ NewOnTree(block, b(ends))
  BY <1>5 DEF NewOnTree, Ends
<1>8. V \in SUBSET Level /\ \A e \in V : e < n
  BY <1>1 DEF Taken
<1>9. /\ \A s \in Level : sa.session[s].conn = c => s < n
      /\ \A e \in Level : sa.handle[e].conn = c => e < n
  BY <1>1, <1>2, OnOpenBlocks
<1>10. c \in Owned(block, depth) => Ordered(sa, c, V)
  BY DEF OrderInv, InOrder
<1>. HIDE DEF V
<1>11. CASE Opens(block, b("nothing")) /\ Moves(sa, c)
  <2>. DEFINE r == b("nothing")
  <2>1. /\ block' = [block EXCEPT ![depth + 1] = r] /\ depth' = depth + 1 /\ sa' = sa
        /\ r \in Block /\ r.ends = "nothing" /\ r.conn = c /\ NewOnTree(block, r)
    BY <1>5, <1>7, <1>11 DEF Opens, Moves
  <2>2. Ready(sa, 0) /\ 0 \notin Owned(block, depth)
    BY ReadySelf DEF Owned
  <2>. HIDE DEF r
  <2>. QED
    BY <1>2, <1>6, <2>1, <2>2, OpensPlain DEF Ready
<1>12. CASE /\ holder # 0 /\ ~sa.session[holder].stuck
            /\ Opens(block, b("nested")) /\ Moves(BeginNested(sa, holder, n), c)
  <2>. DEFINE w == BeginNested(sa, holder, n)
              r == b("nested")
  <2>1. holder = block[o].owner /\ sa.session[holder].mode # "none"
    BY <1>12 DEF SavepointOwner
  <2>2. holder \in 1 .. o /\ block[holder].conn = c
    BY <1>1, <1>12, <2>1 DEF DataInv, BindingsInv, OwnersBelow
  <2>3. holder \in Level
    BY <1>1, <2>2, LevelsFit DEF DataInv, Level
  <2>4. sa.session[holder].conn = c
    BY <1>2, <2>1, <2>2, <2>3 DEF DataInv, SessionsFit, Level
  <2>5. /\ block' = [block EXCEPT ![depth + 1] = r] /\ depth' = depth + 1 /\ sa' = w
        /\ r \in Block /\ r.ends = "nested" /\ r.conn = c /\ NewOnTree(block, r) /\ r.owner = holder
    BY <1>5, <1>7, <1>12, <2>1 DEF Opens, Moves
  <2>6. ~sa.session[holder].stuck
    BY <1>12
  <2>. HIDE DEF holder, r
  <2>7. Works(sa, w, c, sa.session[holder].pending)
    BY <1>1, <1>2, <1>6, <2>3, <2>4, BeginsNested
  <2>8. Only(sa, w, c)
    BY <1>1, <1>2, <1>6, <2>3, <2>4, BeginNestedKeeps
  <2>9. ASSUME NEW a \in Owned(block, depth) PROVE holder = a <=> a = c
    <3>1. a = c => holder \in {0, c}
      BY <1>1, <2>1, <2>9, OwnerOnTree
    <3>2. holder = a => a = c
      BY <2>2, <2>9 DEF Owned
    <3>. QED
      BY <2>3, <3>1, <3>2 DEF Level
  <2>10. ASSUME c \in Owned(block, depth) PROVE Ordered(w, c, V \cup {n})
    <3>1. holder = c
      BY <2>9, <2>10
    <3>2. Creates(sa, c)
      BY <1>1, <2>1, <2>10, <3>1, OwnerOnTree
    <3>3. \A W \in SUBSET Level :
                     (/\ sa.session[holder].conn = holder /\ Ordered(sa, holder, W) /\ Creates(sa, holder)
                      /\ ~sa.session[holder].stuck
                      /\ n > holder /\ \A e \in W : e < n
                      /\ \A a \in Level : sa.session[a].conn = holder => a < n)
                        => Ordered(w, holder, W \cup {n})
      BY <1>1, <1>2, <1>6, <2>3, <2>4, BeginNestedKeeps
    <3>. HIDE DEF w
    <3>. QED
      BY <1>2, <1>8, <1>9, <1>10, <2>4, <2>6, <2>10, <3>1, <3>2, <3>3
  <2>. HIDE DEF w
  <2>11. Spares(sa, w, c)
    BY <2>8, OnlySpares
  <2>12. /\ \A e \in Level : w.handle[e].conn = sa.handle[e].conn
         /\ \A a \in Level : w.session[a].mode = sa.session[a].mode
    BY <2>7 DEF Works, Same
  <2>13. c \in 1 .. depth /\ block[c].conn = c /\ HandlesKept(sa, w)
    BY <1>2, <2>7 DEF HandlesKept, Works, Same
  <2>14. \A a \in Owned(block, depth) : w.session[a].mode = sa.session[a].mode
    BY <1>1, <2>12 DEF Owned
  <2>15. c \in Owned(block, depth) => Ordered(w, c, Taken(block, depth, c) \cup {depth + 1})
    BY <2>10 DEF V
  <2>16. \A a \in Owned(block, depth) : r.owner = a <=> a = c
    BY <2>5, <2>9
  <2>17. r \in Block /\ NewOnTree(block, r) /\ r.conn = c /\ r.ends = "nested" /\ Spares(sa, w, c)
         /\ block' = [block EXCEPT ![depth + 1] = r] /\ depth' = depth + 1 /\ sa' = w
    BY <2>5, <2>11
  <2>18. DataInv /\ OrderInv /\ depth < MaxDepth
    OBVIOUS
  <2>. HIDE DEF c
  <2>. QED
    BY ONLY <2>13, <2>14, <2>15, <2>16, <2>17, <2>18, OpensNested, ZenonT(60)
<1>13. CASE /\ holder = 0 /\ Opens(block, b("savepoint"))
            /\ Moves([TakeSavepoint(sa, c, BlockTag(n)) EXCEPT
                        !.handle[n] = [conn |-> c, tag |-> BlockTag(n)]], c)
  <2>. DEFINE t == BlockTag(n)
              v == TakeSavepoint(sa, c, t)
              w == [v EXCEPT !.handle[n] = [conn |-> c, tag |-> t]]
              r == b("savepoint")
  <2>1. t \in LiveTag /\ t \in Tag /\ t # Root
    BY <1>1 DEF LiveTag, Tag, BlockTag, Root
  <2>2. /\ block' = [block EXCEPT ![depth + 1] = r] /\ depth' = depth + 1 /\ sa' = w
        /\ r \in Block /\ r.ends = "savepoint" /\ r.conn = c /\ NewOnTree(block, r)
    BY <1>5, <1>7, <1>13 DEF Opens, Moves
  <2>3. Ok(v) /\ v.session = sa.session /\ v.handle = sa.handle
    BY <1>2, <1>6, <2>1, Savepoints DEF Quiet, Works
  <2>4. Only(sa, v, c)
    BY <1>2, <1>6, <2>1, SavepointTags
  <2>5. ASSUME c \in Owned(block, depth) PROVE Ordered(w, c, V)
    <3>1. ~Creates(sa, c)
      <4>1. Creates(sa, c) => block[o].owner = c /\ sa.session[c].mode # "none"
        BY <1>1, <2>5, OwnerOnTree
      <4>2. block[o].owner = c /\ sa.session[c].mode # "none" => holder = c
        BY <1>2 DEF SavepointOwner
      <4>. QED
        BY <1>2, <1>13, <4>1, <4>2
    <3>2. Ordered([TakeSavepoint(sa, c, BlockTag(n)) EXCEPT !.handle[n] = [conn |-> c, tag |-> BlockTag(n)]], c, V)
      <4>1. n > c
        BY <1>2
      <4>. HIDE DEF c, n
      <4>. QED
        BY <1>1, <1>2, <1>6, <1>9, <1>10, <2>5, <3>1, <4>1, HandleTakes
    <3>. QED
      BY <3>2
  <2>6. t = BlockTag(n) /\ t = IF r.ends = "root" THEN Root ELSE BlockTag(n)
    BY <2>2
  <2>7. r.kind = "transaction"
    BY <1>5, <1>7
  <2>8. \A a \in Level : v.session[a].mode = sa.session[a].mode
    BY <2>3
  <2>9. Spares(sa, v, c) /\ HandlesKept(sa, v)
    BY <2>3, <2>4, OnlySpares DEF HandlesKept
  <2>10. sa' = [v EXCEPT !.handle[depth + 1] = [conn |-> c, tag |-> t]]
    BY <2>2
  <2>11. c \in Owned(block, depth) \/ c = depth + 1 => Ordered(sa', c, Taken(block, depth, c))
    BY <1>2, <2>2, <2>5 DEF V
  <2>12. /\ r \in Block /\ NewOnTree(block, r) /\ Ok(v) /\ c \in Level /\ t \in LiveTag
         /\ t = IF r.ends = "root" THEN Root ELSE BlockTag(depth + 1)
         /\ c = depth + 1 \/ (c \in 1 .. depth /\ block[c].conn = c)
         /\ r.conn = c /\ r.ends \in {"root", "savepoint"}
         /\ block' = [block EXCEPT ![depth + 1] = r] /\ depth' = depth + 1
    BY <1>2, <2>1, <2>2, <2>3, <2>6
  <2>13. DataInv /\ OrderInv /\ depth < MaxDepth /\ MayCheckOut(block)
    BY <1>6
  <2>. HIDE DEF c, t, v, r
  <2>. QED
    BY ONLY <2>7, <2>8, <2>9, <2>10, <2>11, <2>12, <2>13, OpensWithHandle, ZenonT(60)
<1>. QED
  BY <1>4, <1>11, <1>12, <1>13

\* A block that borrows the connection of the one around it, when it finds no transaction
\* to join: no transaction opened that connection.
LEMMA BorrowsConnection ==
    ASSUME DataInv, OrderInv, OuterToJoin = 0, NEW s, s # 0, s = ScopeToBorrow
    PROVE  LET k == ConnectionOf(s)
               bl == CheckedOut(s)
           IN /\ s \in {0, ScopeToReuse} /\ Outer = 0
              /\ k \in Level /\ k # 0 /\ k \in 1 .. depth /\ bl[k].conn = k /\ MayCheckOut(bl)
              /\ depth > 0 /\ bl[depth].conn = k /\ Ready(Bound(s), k)
              /\ k \notin Owned(block, depth)
<1>. DEFINE k == ConnectionOf(s)
            bl == CheckedOut(s)
<1>1. s = ScopeToReuse
  BY DEF ScopeToBorrow
<1>2. Outer = 0
  BY <1>1 DEF ScopeToReuse, OuterToJoin
<1>3. /\ depth > 0 /\ MayCheckOut(bl) /\ bl[depth].conn = k /\ k # 0 /\ k \in 1 .. depth
      /\ k \in Level /\ bl[k].conn = k /\ Ready(Bound(s), k)
  BY <1>1, ReusesConnection
<1>4. BindingsInv /\ Tree(block, depth)
  BY DEF DataInv, OrderInv
<1>. HIDE DEF k, bl
<1>5. k \notin Owned(bl, depth)
  BY <1>2, <1>3, <1>4, OuterOnTree
<1>6. Owned(bl, depth) = Owned(block, depth)
  BY <1>3, <1>4, CheckOutTree
<1>7. k \notin Owned(block, depth)
  BY <1>5, <1>6
<1>8. s \in {0, ScopeToReuse}
  BY <1>1
<1>. QED
  BY <1>2, <1>3, <1>7, <1>8 DEF k, bl

\* transaction() with none to join.
LEMMA BeginInOrder ==
    ASSUME DataInv, OrderInv, depth < MaxDepth, OuterToJoin = 0, NEW opt \in Options,
           NEW savepoint, savepoint \in BOOLEAN, BeginTransaction(opt, savepoint)
    PROVE  OrderInv'
<1>. DEFINE n == depth + 1
            s == ScopeToBorrow
            c == IF s # 0 THEN ConnectionOf(s) ELSE n
            owner == IF OwnsSavepoints(0, savepoint) THEN n ELSE 0
            b(ends) == TransactionBlock(c, opt, savepoint, owner, ends)
            v == IF s # 0 THEN Bound(s) ELSE sa
            bl == IF s # 0 THEN CheckedOut(s) ELSE block
<1>1. /\ n \in Level /\ depth \in Nat /\ 1 .. depth \subseteq Level /\ n \notin 1 .. depth
      /\ sa.session[n].mode = "none" /\ sa.session[n].conn = 0 /\ sa.handle[n].conn = 0
      /\ n \in 0 .. MaxDepth /\ BindingsInv /\ n # 0
      /\ Level \subseteq 0 .. MaxDepth
  BY NothingYet DEF Level, DataInv
<1>2. \/ /\ s # 0 /\ sa.session[s].begun
         /\ Opens(bl, b("lender"))
         /\ Moves(v, c)
      \/ /\ s = 0 \/ (s # 0 /\ ~sa.session[s].begun)
         /\ Opens(bl, b("root"))
         /\ Moves([Autobegin(v, c) EXCEPT !.handle[n] = [conn |-> c, tag |-> Root]], c)
  BY DEF BeginTransaction
<1>3. CASE s # 0
  <2>1. /\ Outer = 0 /\ c \in Level /\ c # 0 /\ c \in 1 .. depth /\ bl[c].conn = c
        /\ MayCheckOut(bl) /\ depth > 0 /\ bl[depth].conn = c /\ Ready(v, c)
        /\ c \notin Owned(block, depth) /\ s \in 1 .. depth
    BY <1>3, BorrowsConnection, ReusesConnection
  <2>2. \A ends \in Ends : /\ b(ends) \in Block /\ b(ends).conn = c /\ b(ends).ends = ends
                           /\ b(ends).kind = "transaction"
    <3>1. c \in 0 .. MaxDepth /\ owner \in 0 .. MaxDepth
      BY <1>1, <2>1, MaxDepthAssumption DEF OwnsSavepoints
    <3>. QED
      BY <1>1, <3>1, TransactionBlockIsBlock
  <2>3. \A e \in Level : v.session[e].mode = sa.session[e].mode
    BY <1>3, <2>1, BoundModes
  <2>4. Ok(v) /\ Spares(sa, v, c) /\ HandlesKept(sa, v)
    BY <2>1 DEF Ready
  <2>5. DataInv /\ OrderInv /\ depth < MaxDepth /\ MayCheckOut(bl)
    BY <2>1
  <2>. HIDE DEF b, v, bl, c, s
  <2>6. CASE Opens(bl, b("lender")) /\ Moves(v, c)
    <3>. DEFINE r == b("lender")
    <3>1. /\ block' = [bl EXCEPT ![depth + 1] = r] /\ depth' = depth + 1 /\ sa' = v
          /\ r \in Block /\ r.conn = c /\ r.ends = "lender" /\ r.ends \in {"nothing", "lender"}
      BY <2>2, <2>6 DEF Opens, Moves, Ends
    <3>. HIDE DEF r
    <3>2. NewOnTree(bl, r)
      BY <2>1, <3>1 DEF NewOnTree
    <3>3. \A e \in Owned(block, depth) : v.session[e].mode = sa.session[e].mode
      BY <1>1, <2>3 DEF Owned
    <3>. QED
      BY <1>1, <2>1, <2>4, <3>1, <3>2, <3>3, OpensPlain
  <2>7. CASE /\ Opens(bl, b("root"))
             /\ Moves([Autobegin(v, c) EXCEPT !.handle[n] = [conn |-> c, tag |-> Root]], c)
    <3>. DEFINE r == b("root")
                u == Autobegin(v, c)
                t == Root
    <3>1. /\ block' = [bl EXCEPT ![depth + 1] = r] /\ depth' = depth + 1
          /\ sa' = [u EXCEPT !.handle[depth + 1] = [conn |-> c, tag |-> t]]
          /\ r \in Block /\ r.conn = c /\ r.ends = "root" /\ r.kind = "transaction"
          /\ r.ends \in {"root", "savepoint"}
      BY <2>2, <2>7 DEF Opens, Moves, Ends
    <3>2. Ok(u) /\ u.session = v.session /\ u.handle = v.handle /\ Only(v, u, c)
      BY <2>1, <2>4, Begins, BeginsTags DEF Quiet, Works
    <3>3. t \in LiveTag /\ t = IF r.ends = "root" THEN Root ELSE BlockTag(depth + 1)
      BY <3>1 DEF LiveTag, Root
    <3>. HIDE DEF r, u, t
    <3>4. NewOnTree(bl, r)
      BY <2>1, <3>1 DEF NewOnTree
    <3>5. Spares(sa, u, c) /\ HandlesKept(sa, u)
      BY <2>4, <3>2, OnlySpares, SparesTrans DEF HandlesKept
    <3>6. \A e \in Level : u.session[e].mode = sa.session[e].mode
      BY <2>3, <3>2
    <3>7. c \in Owned(block, depth) \/ c = depth + 1 => Ordered(sa', c, Taken(block, depth, c))
      BY <1>1, <2>1
    <3>8. /\ c \in Level /\ (c = depth + 1 \/ (c \in 1 .. depth /\ bl[c].conn = c))
          /\ depth' = depth + 1
      BY <2>1, <3>1
    <3>. QED
      BY ONLY <2>5, <3>1, <3>2, <3>3, <3>4, <3>5, <3>6, <3>7, <3>8, OpensWithHandle, ZenonT(60)
  <2>. QED
    BY <1>2, <1>3, <2>6, <2>7 DEF s
<1>4. CASE s = 0
  <2>. DEFINE r == TransactionBlock(n, opt, savepoint, owner, "root")
              u == Autobegin(sa, n)
              t == Root
  <2>1. /\ block' = [block EXCEPT ![depth + 1] = r] /\ depth' = depth + 1
        /\ sa' = [u EXCEPT !.handle[depth + 1] = [conn |-> n, tag |-> t]]
    BY <1>2, <1>4 DEF Opens, Moves
  <2>2. owner \in {0, n} /\ owner \in 0 .. MaxDepth
    BY <1>1, MaxDepthAssumption DEF OwnsSavepoints
  <2>3. /\ r \in Block /\ r.conn = n /\ r.ends = "root" /\ r.kind = "transaction"
        /\ r.owner = owner /\ r.ends \in {"root", "savepoint"}
    BY <1>1, <2>2, TransactionBlockIsBlock DEF Ends
  <2>4. Ok(sa) /\ MayCheckOut(block) /\ DataInv /\ OrderInv /\ depth < MaxDepth
    BY DEF DataInv, MayCheckOut
  <2>. HIDE DEF r
  <2>5. NewOnTree(block, r)
    BY <2>2, <2>3 DEF NewOnTree
  <2>6. Ok(u) /\ u.session = sa.session /\ u.handle = sa.handle /\ Only(sa, u, n)
    BY <1>1, <2>4, Begins, BeginsTags DEF Quiet, Works
  <2>7. t \in LiveTag /\ t = IF r.ends = "root" THEN Root ELSE BlockTag(depth + 1)
    BY <2>3 DEF LiveTag, Root
  <2>8. Spares(sa, u, n) /\ HandlesKept(sa, u)
    BY <2>6, OnlySpares DEF HandlesKept
  <2>9. \A e \in Level : u.session[e].mode = sa.session[e].mode
    BY <2>6
  <2>10. Ordered(sa', n, Taken(block, depth, n))
    <3>1. sa.stack[n] = <<>>
      BY <1>1 DEF OrderInv, IdleStacks
    <3>2. /\ \A e \in Level : sa.session[e].conn = n => e <= depth /\ n <= e
          /\ \A e \in Level : sa.handle[e].conn = n => e <= depth /\ n <= e
      BY <1>1, OnOpenBlocks
    <3>3. \A e \in Level : ~(e <= depth /\ n <= e)
      BY <1>1 DEF Level
    <3>4. sa' = [Autobegin(sa, n) EXCEPT !.handle[n] = [conn |-> n, tag |-> Root]]
      BY <2>1
    <3>5. /\ \A e \in Level : sa.session[e].conn # n
          /\ \A e \in Level \ {n} : sa.handle[e].conn # n
      BY <3>2, <3>3
    <3>. HIDE DEF n
    <3>6. Ordered([Autobegin(sa, n) EXCEPT !.handle[n] = [conn |-> n, tag |-> Root]], n, Taken(block, depth, n))
      BY <1>1, <2>4, <3>1, <3>5, RootBegins
    <3>. QED
      BY <3>4, <3>6
  <2>11. /\ n \in Level /\ (n = depth + 1 \/ (n \in 1 .. depth /\ block[n].conn = n))
         /\ n \in Owned(block, depth) \/ n = depth + 1 => Ordered(sa', n, Taken(block, depth, n))
    BY <1>1, <2>10
  <2>. HIDE DEF u, t, n
  <2>. QED
    BY ONLY <2>1, <2>3, <2>4, <2>5, <2>6, <2>7, <2>8, <2>9, <2>11, OpensWithHandle, ZenonT(60)
<1>. QED
  BY <1>3, <1>4

\* transaction().
LEMMA OpenTransactionInOrder ==
    ASSUME DataInv, OrderInv, NEW opt \in Options, OpenTransaction(opt)
    PROVE  OrderInv'
<1>. DEFINE o == OuterToJoin
            savepoint == opt.savepoint \/ opt.rollback \/ (o # 0 /\ block[o].savepoint)
<1>1. /\ depth < MaxDepth
      /\ \/ o # 0 /\ JoinTransaction(o, opt, savepoint)
         \/ o = 0 /\ BeginTransaction(opt, savepoint)
  BY DEF OpenTransaction
<1>2. savepoint \in BOOLEAN /\ (o # 0 /\ block[o].savepoint => savepoint)
  BY DEF Options
<1>. HIDE DEF savepoint
<1>3. CASE o # 0 /\ JoinTransaction(o, opt, savepoint)
  BY <1>1, <1>2, <1>3, JoinInOrder
<1>4. CASE o = 0 /\ BeginTransaction(opt, savepoint)
  BY <1>1, <1>2, <1>4, BeginInOrder
<1>. QED
  BY <1>1, <1>3, <1>4

\* A block opens.
LEMMA OpenInOrder == ASSUME DataInv, OrderInv, OpenBlock PROVE OrderInv'
<1>1. \A opt \in TransactionOptions : opt \in Options
  BY OptionsAssumption
<1>. QED
  BY <1>1, OpenConnectInOrder, OpenSessionInOrder, OpenAutocommitInOrder, OpenTransactionInOrder
     DEF OpenBlock

\* The innermost block is gone: its session, its handle and, if it opened one, what was
\* on its connection.
LEMMA ClosesInOrder ==
    ASSUME DataInv, OrderInv, depth > 0, NEW w, NEW k, k = block[depth].conn,
           block' = [block EXCEPT ![depth] = Closed], depth' = depth - 1, sa' = w,
           Spares(sa, w, k), w.handle[depth].conn = 0,
           \A e \in Level \ {depth} : /\ w.handle[e].conn = sa.handle[e].conn
                                      /\ w.session[e].mode = sa.session[e].mode,
           k \in Owned(block, depth) \ {depth} => Ordered(w, k, Taken(block, depth, k) \ {depth}),
           k = depth => w.stack[k] = <<>>
    PROVE  OrderInv'
<1>. DEFINE D == depth
            nb == [block EXCEPT ![D] = Closed]
<1>1. /\ BindingsInv /\ Tree(block, D) /\ HandlesOn(sa, block, D)
      /\ IdleStacks(sa, block, D) /\ InOrder(sa, block, D)
  BY DEF DataInv, OrderInv
<1>2. /\ D \in 1 .. D /\ D \in Level /\ D \in OpenLevel /\ 1 .. D \subseteq Level /\ D \in Nat
      /\ 1 .. D \subseteq OpenLevel
      /\ k # 0 => k \in Level
      /\ \A e \in Level : e <= D => e \in 1 .. D
      /\ \A e \in Level \ {D} : e <= D => e <= D - 1 /\ e \in 1 .. D - 1
      /\ \A e \in Level : e <= D - 1 => e \in 1 .. D - 1 /\ e <= D
      /\ ~(D <= D - 1)
  BY ClosingLevel, LevelsFit DEF DataInv, OpenLevel, Level
<1>3. nb = [block EXCEPT ![D] = Closed] /\ block' = nb
  OBVIOUS
<1>. HIDE DEF nb
<1>4. /\ Tree(nb, D - 1)
      /\ Owned(nb, D - 1) = Owned(block, D) \ {D}
      /\ \A c : Taken(nb, D - 1, c) = Taken(block, D, c) \ {D}
      /\ \A e \in 1 .. D - 1 : nb[e] = block[e]
  BY <1>1, <1>3, ExitTree
<1>5. HandlesOn(w, nb, D - 1)
  <2>. SUFFICES ASSUME NEW d \in Level
                PROVE  w.handle[d].conn =
                          IF d <= D - 1 /\ nb[d].ends \in {"root", "savepoint"} THEN nb[d].conn ELSE 0
    BY DEF HandlesOn
  <2>1. CASE d = D
    BY <1>2, <2>1
  <2>2. CASE d # D
    <3>1. sa.handle[d].conn = IF d <= D /\ block[d].ends \in {"root", "savepoint"} THEN block[d].conn ELSE 0
      BY <1>1 DEF HandlesOn
    <3>2. w.handle[d].conn = sa.handle[d].conn
      BY <2>2
    <3>3. d <= D - 1 <=> d <= D
      BY <1>2, <2>2
    <3>4. d <= D - 1 => nb[d] = block[d]
      BY <1>2, <1>4
    <3>. QED
      BY <3>1, <3>2, <3>3, <3>4
  <2>. QED
    BY <2>1, <2>2
<1>6. IdleStacks(w, nb, D - 1)
  <2>. SUFFICES ASSUME NEW c \in Level, ~(c <= D - 1 /\ nb[c].conn = c)
                PROVE  w.stack[c] = <<>>
    BY DEF IdleStacks
  <2>1. CASE c = k /\ k = D
    BY <2>1
  <2>2. CASE c = k /\ k # D
    <3>1. k # 0 /\ k \in 1 .. D
      BY <1>1, <1>2, <2>2, BlocksBind DEF MayCheckOut, Level
    <3>2. block[k].conn = k
      BY <1>1, <1>2, <3>1 DEF Tree
    <3>3. k \in 1 .. D - 1 /\ k <= D - 1
      BY <1>2, <2>2, <3>1
    <3>. QED
      BY <1>4, <2>2, <3>2, <3>3
  <2>3. CASE c # k
    <3>1. w.stack[c] = sa.stack[c]
      BY <2>3 DEF Spares, Spared
    <3>2. ASSUME c <= D, block[c].conn = c PROVE FALSE
      <4>1. c # D
        BY <2>3, <3>2
      <4>2. c <= D - 1 /\ nb[c] = block[c]
        BY <1>2, <1>4, <3>2, <4>1
      <4>. QED
        BY <3>2, <4>2
    <3>. QED
      BY <1>1, <3>1, <3>2 DEF IdleStacks
  <2>. QED
    BY <2>1, <2>2, <2>3
<1>7. InOrder(w, nb, D - 1)
  <2>. SUFFICES ASSUME NEW c \in Owned(block, D), c # D
                PROVE  OwnerMode(w, nb, c) /\ Ordered(w, c, Taken(block, D, c) \ {D})
    BY <1>4 DEF InOrder
  <2>1. c \in 1 .. D /\ c \in Level /\ block[c].conn = c /\ c \in 1 .. D - 1
    BY <1>2 DEF Owned
  <2>2. OwnerMode(sa, block, c) /\ Ordered(sa, c, Taken(block, D, c))
    BY <1>1 DEF InOrder
  <2>3. OwnerMode(w, nb, c)
    BY <1>4, <2>1, <2>2 DEF OwnerMode
  <2>4. CASE c = k
    BY <2>3, <2>4
  <2>5. CASE c # k
    <3>1. D \notin Taken(block, D, c)
      <4>. SUFFICES ASSUME block[D].ends = "nested", block[D].owner = c PROVE FALSE
        BY DEF Taken
      <4>1. block[D].owner # 0
        BY <1>1, <1>2 DEF BindingsInv, EndsRight
      <4>2. block[c].conn = block[D].conn
        BY <1>1, <1>2, <4>1 DEF BindingsInv, OwnersBelow
      <4>. QED
        BY <2>1, <2>5, <4>2
    <3>2. Taken(block, D, c) \ {D} = Taken(block, D, c)
      BY <3>1
    <3>3. Ordered(w, c, Taken(block, D, c))
      BY <2>1, <2>2, <2>5, SparedKeeps DEF Spares
    <3>. QED
      BY <2>3, <3>2, <3>3
  <2>. QED
    BY <2>4, <2>5
<1>. QED
  BY <1>3, <1>4, <1>5, <1>6, <1>7 DEF OrderInv

\* What a closing block has left so far of the other blocks and, on its connection, of
\* the savepoints taken through the session of the transaction that opened it.
Leaves(w, V) ==
    LET k == block[depth].conn
    IN /\ Spares(sa, w, k)
       /\ k \in Owned(block, depth) \ {depth} => Ordered(w, k, V)

\* Its session is the last on the connection.
LEMMA LastSession ==
    ASSUME DataInv, OrderInv, depth > 0, NEW c \in Level
    PROVE  \A d \in Level : d > depth => sa.handle[d].conn # c /\ d \notin Taken(block, depth, c)
<1>1. /\ \A d \in Level : d > depth => ~(d <= depth) /\ d \notin 1 .. depth
      /\ c # 0
  BY LevelsFit DEF DataInv, Level
<1>2. \A d \in Level : d > depth => sa.handle[d].conn = 0
  BY <1>1 DEF OrderInv, HandlesOn
<1>. QED
  BY <1>1, <1>2 DEF Taken

\* The end of the session of the block.
LEMMA SessionLeaves ==
    ASSUME DataInv, OrderInv, depth > 0, NEW exc, NEW commits, NEW flush, NEW fails,
           commits => block[depth].conn # 0
    PROVE  Leaves(CloseOwnSession(depth, exc, commits, flush, fails).sa,
                  Taken(block, depth, block[depth].conn))
<1>. DEFINE D == depth
            k == block[D].conn
            V == Taken(block, D, k)
            r == CloseOwnSession(D, exc, commits, flush, fails)
            joined == JoinSession(Bound(D), D)
            q == sa.session[D].conn
<1>1. /\ D \in 1 .. D /\ D \in Level /\ Ok(sa) /\ q \in {0, k} /\ (q = 0 => sa.session[D].mode = "none" \/ k = 0)
      /\ sa.session[D].mode = "none" => q = 0
      /\ 1 .. D \subseteq Level
  BY ClosingLevel
<1>2. PICK v : /\ r.sa = DropSession(v, D)
               /\ \/ v = sa
                  \/ v = CloseSession(sa, D)
                  \/ v = RollbackSession(sa, D)
                  \/ commits /\ v = RollbackSession(joined, D) /\ sa.session[D].mode # "none"
                  \/ commits /\ v = CommitSession(Bound(D), D) /\ sa.session[D].mode # "none"
  BY OwnSessionIs
<1>. HIDE DEF r
<1>3. commits /\ sa.session[D].mode # "none" => q # 0 /\ Bound(D) = sa
  BY <1>1, Prepared
<1>9. ASSUME commits, sa.session[D].mode # "none"
      PROVE  /\ q # 0 /\ Joins(sa, joined, D) /\ Ok(joined) /\ Only(sa, joined, q)
             /\ joined.session[D].conn = q
  <2>1. joined = JoinSession(sa, D) /\ q # 0
    BY <1>3, <1>9
  <2>. HIDE DEF joined
  <2>2. Joins(sa, joined, D) /\ Ok(joined)
    BY <1>1, <2>1, JoinSessionJoins, JoinsSession DEF Quiet, Works
  <2>. QED
    BY <1>1, <2>1, <2>2 DEF Joins, Only
<1>. HIDE DEF joined
<1>4. Ok(v) /\ Only(sa, v, q)
  <2>1. CASE v = sa
    BY <1>1, <2>1 DEF Only
  <2>2. CASE v = CloseSession(sa, D)
    BY <1>1, <2>2, ClosesSession, CloseKeeps DEF Quiet, Works
  <2>3. CASE v = RollbackSession(sa, D)
    BY <1>1, <2>3, RollsSessionBack, RollbackKeeps DEF Quiet, Works
  <2>4. CASE v = CommitSession(sa, D) /\ q # 0
    BY <1>1, <2>4, CommitsSession, CommitKeeps DEF Works
  <2>5. CASE commits /\ v = RollbackSession(joined, D) /\ sa.session[D].mode # "none"
    <3>1. Ok(v) /\ Only(joined, v, q)
      BY <1>1, <1>9, <2>5, RollsSessionBack, RollbackKeeps DEF Quiet, Works
    <3>. QED
      BY <1>9, <2>5, <3>1, OnlyTrans
  <2>. QED
    BY <1>2, <1>3, <2>1, <2>2, <2>3, <2>4, <2>5
<1>5. ASSUME k \in Owned(block, D) \ {D} PROVE Ordered(v, k, V)
  <2>1. k \in Level /\ k # 0 /\ Ordered(sa, k, V)
    BY <1>1, <1>5 DEF Owned, OrderInv, InOrder, Level
  <2>5. \A d \in Level : d > D => sa.handle[d].conn # k /\ d \notin V
    BY <2>1, LastSession
  <2>. HIDE DEF V, k
  <2>2. Innermost(sa, k, V, D)
    BY <2>1, <2>5, InnermostIs
  <2>. HIDE DEF q
  <2>3. CASE q # k
    <3>1. Spared(sa, v, k)
      BY <1>4, <2>1, <2>3, OnlySpares DEF Spares
    <3>. QED
      BY <2>1, <3>1, SparedKeeps
  <2>4. CASE q = k
    <3>1. CASE v = sa
      BY <2>1, <3>1
    <3>2. CASE v = CloseSession(sa, D)
      BY <1>1, <2>1, <2>2, <2>4, <3>2, CloseKeeps DEF q
    <3>3. CASE v = RollbackSession(sa, D)
      BY <1>1, <2>1, <2>2, <2>4, <3>3, RollbackKeeps DEF q
    <3>4. CASE v = CommitSession(sa, D) /\ q # 0
      BY <1>1, <2>1, <2>4, <3>4, CommitKeeps DEF q
    <3>5. CASE commits /\ v = RollbackSession(joined, D) /\ sa.session[D].mode # "none"
      <4>1. Ordered(joined, k, V) /\ Joins(sa, joined, D) /\ joined.session[D].conn = k
        BY <1>1, <1>9, <2>1, <2>4, <3>5, JoinsKeep DEF q
      <4>2. Innermost(joined, k, V, D)
        <5>1. \A d \in Level : d > D => joined.handle[d].conn # k /\ d \notin V
          BY <2>5, <4>1 DEF Joins
        <5>. QED
          BY <1>1, <2>1, <4>1, <5>1, InnermostIs
      <4>. QED
        BY <1>1, <1>9, <2>1, <3>5, <4>1, <4>2, RollbackKeeps
    <3>. QED
      BY <1>2, <1>3, <3>1, <3>2, <3>3, <3>4, <3>5
  <2>. QED
    BY <2>3, <2>4
<1>6. Spares(sa, v, k) /\ v.session[D].conn \in {0, k}
  <2>1. v.session[D].conn = q
    BY <1>1, <1>4 DEF Only
  <2>2. Spares(sa, v, q)
    BY <1>4, OnlySpares
  <2>3. q = 0 => Spares(sa, v, k)
    BY <2>2 DEF Spares, Level
  <2>. QED
    BY <1>1, <2>1, <2>2, <2>3
<1>. HIDE DEF V, k
<1>7. Spares(sa, r.sa, k)
  <2>1. Spares(v, r.sa, k)
    BY <1>1, <1>2, <1>4, <1>6, DropKeeps
  <2>. QED
    BY <1>6, <2>1, SparesTrans
<1>8. k \in Owned(block, D) \ {D} => Ordered(r.sa, k, V)
  <2>1. k \in Owned(block, D) => k \in Level
    BY <1>1 DEF Owned
  <2>. QED
    BY <1>1, <1>2, <1>4, <1>5, <2>1, DropKeeps
<1>. QED
  BY <1>7, <1>8 DEF Leaves, r, V, k

\* On the connection of a transaction, the savepoint of the innermost block that took one
\* there itself is the last.
LEMMA LastSavepoint ==
    ASSUME NEW w, NEW c \in Level, NEW V, Ordered(w, c, V), NEW d \in Level, d > c,
           w.handle[d].conn = c, w.handle[d].tag # Gone,
           \A e \in Level : w.handle[e].conn = c => e <= d
    PROVE  LET t == w.handle[d].tag
           IN t = BlockTag(d) /\ \A u \in Tags(w, c) : u = t \/ Rank(u) < Rank(t)
<1>1. HandleFits(w, c, d) /\ ModeFits(w, c, c)
  BY DEF Ordered
<1>2. w.handle[d].tag = BlockTag(d) /\ ~Creates(w, c)
  <2>1. d # c
    BY DEF Level
  <2>. QED
    BY <1>1, <2>1 DEF HandleFits
<1>3. Len(Owning(w, c).nested) = 0
  BY <1>1, <1>2 DEF ModeFits, Owning, NoSession
<1>4. \A e : ~LiveAt(Owning(w, c), e)
  BY <1>3 DEF LiveAt
<1>5. ASSUME NEW u \in Tags(w, c) PROVE u = BlockTag(d) \/ Rank(u) < Rank(BlockTag(d))
  <2>1. TagHeld(w, c, u)
    BY DEF Ordered
  <2>2. \/ u = Root
        \/ \E e \in Level : u = BlockTag(e) /\ w.handle[e].conn = c
    BY <1>2, <1>4, <2>1 DEF TagHeld
  <2>3. CASE u = Root
    BY <2>3 DEF Rank, Root, BlockTag, Level
  <2>4. ASSUME NEW e \in Level, u = BlockTag(e), w.handle[e].conn = c
        PROVE  u = BlockTag(d) \/ Rank(u) < Rank(BlockTag(d))
    <3>1. e = d \/ e < d
      BY <2>4 DEF Level
    <3>. QED
      BY <2>4, <3>1 DEF Rank, BlockTag
  <2>. QED
    BY <2>2, <2>3, <2>4
<1>. QED
  BY <1>2, <1>5

\* The end of the transaction of the block, after that of its session.
LEMMA FinishLeaves ==
    ASSUME DataInv, OrderInv, depth > 0, NEW r, Gives(r.sa, block[depth].conn),
           Leaves(r.sa, Taken(block, depth, block[depth].conn))
    PROVE  LET f == Finish(r, depth).sa
               k == block[depth].conn
           IN /\ Leaves(f, Taken(block, depth, k) \ {depth})
              /\ k \in Owned(block, depth) \ {depth} /\ f.handle[depth].conn = k =>
                    f.handle[depth].tag \notin Tags(f, k)
<1>. DEFINE D == depth
            b == block[D]
            k == b.conn
            V == Taken(block, D, k)
            w == r.sa
            f == Finish(r, D).sa
            t == w.handle[D].tag
            o == b.owner
            q == w.session[D - 1].conn
<1>1. /\ D \in Level /\ D \in OpenLevel /\ Ok(sa) /\ Ok(w) /\ (k # 0 => k \in Level)
      /\ 1 .. D \subseteq Level /\ b.ends \in Ends /\ 1 .. D \subseteq OpenLevel
      /\ D \in 1 .. D /\ HandlesKept(sa, w) /\ BindingsInv /\ Tree(block, D)
      /\ \A e \in Level : e <= D => e \in 1 .. D
  BY ClosingLevel, LevelsFit DEF Gives, Nets, OpenLevel, DataInv, Block, OrderInv, Level
<1>2. /\ b.ends # "nothing" => k # 0 /\ b.kind = "transaction"
      /\ b.ends = "lender" => D > 1 /\ block[D - 1].conn = k
      /\ b.ends = "nested" => o # 0 /\ o \in 1 .. D /\ block[o].conn = k
  BY <1>1, LevelsFit DEF BindingsInv, EndsRight, OwnersBelow
<1>3. \/ b.ends = "nothing" /\ f = w
      \/ b.ends = "lender" /\ f \in {CommitSession(w, D - 1), RollbackSession(w, D - 1)}
      \/ b.ends = "nested" /\ ~HoldsNested(w, o, D) /\ f = w
      \/ /\ b.ends = "nested" /\ HoldsNested(w, o, D)
         /\ f \in {CommitNested(w, o, D), RollbackNested(w, o, D)}
      \/ b.ends \in {"root", "savepoint"} /\ t = Gone /\ f = w
      \/ b.ends \in {"root", "savepoint"} /\ t # Gone /\ f \in {Undo(w, k, t), Keep(w, k, t)}
  <2>1. CASE b.ends = "nothing"
    BY <2>1 DEF Finish
  <2>2. CASE b.ends = "lender"
    BY <2>2 DEF Finish
  <2>3. CASE b.ends \in {"root", "savepoint", "nested"} /\ ~Active(w, D)
    <3>1. f = w
      BY <2>3 DEF Finish
    <3>. HIDE DEF f
    <3>2. IF b.ends = "nested" THEN ~HoldsNested(w, o, D) ELSE t = Gone
      BY <2>3 DEF Active
    <3>. QED
      BY <2>3, <3>1, <3>2
  <2>4. CASE b.ends = "nested" /\ Active(w, D)
    <3>1. HoldsNested(w, b.owner, D)
      BY <2>4 DEF Active
    <3>2. f \in {CommitNested(w, b.owner, D), RollbackNested(w, b.owner, D)}
      BY <2>4 DEF Finish
    <3>. QED
      BY <2>4, <3>1, <3>2
  <2>5. CASE b.ends \in {"root", "savepoint"} /\ Active(w, D)
    <3>1. t # Gone
      BY <2>5 DEF Active
    <3>2. f \in {Undo(w, k, t), Keep(w, k, t)}
      BY <2>5 DEF Finish
    <3>. QED
      BY <2>5, <3>1, <3>2
  <2>. QED
    BY <1>1, <2>1, <2>2, <2>3, <2>4, <2>5 DEF Ends
<1>. HIDE DEF f
<1>4. b.ends = "nested" =>
        /\ o \in Level /\ w.session[o].conn \in {0, k}
        /\ HoldsNested(w, o, D) => w.session[o].conn = k
  <2>. SUFFICES ASSUME b.ends = "nested"
                PROVE  /\ o \in Level /\ w.session[o].conn \in {0, k}
                       /\ HoldsNested(w, o, D) => w.session[o].conn = k
    OBVIOUS
  <2>1. o \in Level
    BY <1>1, <1>2
  <2>2. sa.session[o].conn \in {0, block[o].conn}
    BY <2>1 DEF DataInv, SessionsFit
  <2>3. w.session[o].conn \in {0, k}
    BY <1>2, <2>1, <2>2 DEF Gives
  <2>4. HoldsNested(w, o, D) => w.session[o].conn # 0
    BY <1>1, <2>1, NestedPositionIs DEF Level
  <2>. QED
    BY <2>1, <2>3, <2>4
<1>5. b.ends = "lender" => /\ D - 1 \in Level /\ q \in {0, k}
                           /\ q # 0 \/ w.session[D - 1].pending = {}
  <2>. SUFFICES ASSUME b.ends = "lender"
                PROVE  D - 1 \in Level /\ q \in {0, k} /\ (q # 0 \/ w.session[D - 1].pending = {})
    OBVIOUS
  <2>. DEFINE s == D - 1
  <2>1. s \in Level /\ s # D /\ s \in 1 .. D
    BY <1>1, <1>2, LevelsFit
  <2>2. q = sa.session[s].conn /\ w.session[s].pending \subseteq sa.session[s].pending
    BY <2>1 DEF Gives, Nets, Moved
  <2>3. /\ sa.session[s].mode # "none" => sa.session[s].conn = block[s].conn
        /\ sa.session[s].mode = "none" => sa.session[s].conn = 0 /\ sa.session[s].pending = {}
    BY <2>1 DEF DataInv, SessionsFit
  <2>. QED
    BY <1>2, <2>1, <2>2, <2>3
<1>6. Spares(sa, w, k) /\ (k \in Owned(block, D) \ {D} => Ordered(w, k, V))
  BY DEF Leaves
<1>7. b.ends # "nothing" => k \in Level
  BY <1>1, <1>2
<1>8. Spares(sa, f, k) /\ \A e \in Level : f.handle[e].conn = w.handle[e].conn
  <2>1. CASE f = w
    BY <1>6, <2>1
  <2>2. ASSUME NEW a, a \in {0, k}, Only(w, f, a)
        PROVE  Spares(sa, f, k) /\ \A e \in Level : f.handle[e].conn = w.handle[e].conn
    <3>1. Spares(w, f, k)
      BY <2>2, OnlySpares
    <3>2. Spares(sa, f, k)
      <4>. HIDE DEF w, k
      <4>. QED
        BY <1>6, <3>1, SparesTrans
    <3>. QED
      BY <2>2, <3>2 DEF Only
  <2>3. CASE b.ends = "lender" /\ f \in {CommitSession(w, D - 1), RollbackSession(w, D - 1)}
    <3>. DEFINE s == D - 1
    <3>1. s \in Level /\ w.session[s].conn \in {0, k}
          /\ (w.session[s].conn # 0 \/ w.session[s].pending = {})
      BY <1>5, <2>3
    <3>. HIDE DEF s
    <3>2. Only(w, CommitSession(w, s), w.session[s].conn) /\ Only(w, RollbackSession(w, s), w.session[s].conn)
      BY <1>1, <3>1, CommitKeeps, RollbackKeeps
    <3>3. Only(w, f, w.session[s].conn)
      BY <2>3, <3>2 DEF s
    <3>. QED
      BY <2>2, <3>1, <3>3
  <2>4. CASE b.ends = "nested" /\ HoldsNested(w, o, D) /\ f \in {CommitNested(w, o, D), RollbackNested(w, o, D)}
    <3>1. Only(w, f, k)
      BY <1>1, <1>4, <2>4, CommitNestedKeeps, RollbackNestedKeeps
    <3>. QED
      BY <2>2, <3>1
  <2>5. CASE b.ends \in {"root", "savepoint"} /\ f \in {Undo(w, k, t), Keep(w, k, t)}
    <3>1. Only(w, f, k)
      BY <1>1, <1>7, <2>5, EndsOnly
    <3>. QED
      BY <2>2, <3>1
  <2>. QED
    BY <1>3, <2>1, <2>3, <2>4, <2>5
<1>9. ASSUME k \in Owned(block, D) \ {D}
      PROVE  Ordered(f, k, V \ {D}) /\ (f.handle[D].conn = k => f.handle[D].tag \notin Tags(f, k))
  <2>1. k \in Level /\ k # 0 /\ D # k /\ D > k /\ k \in 1 .. D
    BY <1>1, <1>9 DEF Owned, Level
  <2>2. Ordered(w, k, V)
    BY <1>6, <1>9
  <2>3. /\ b.kind = "transaction" => /\ b.ends \in {"nothing", "nested", "savepoint"}
                                     /\ o = block[k].owner
        /\ block[k].owner \in {0, k}
    BY <1>1, <1>9, <2>1 DEF Tree, OnTree
  <2>4. b.ends \in {"nothing", "nested", "savepoint"} /\ (b.ends = "nested" => o = k)
    BY <1>2, <2>3
  <2>5. /\ f.handle[D].conn = IF b.ends \in {"root", "savepoint"} THEN k ELSE 0
        /\ w.handle[D].conn = IF b.ends \in {"root", "savepoint"} THEN k ELSE 0
        /\ \A e \in Level : w.handle[e].conn = k => e <= D
    <3>1. HandlesOn(sa, block, D) /\ \A e \in Level : w.handle[e].conn = sa.handle[e].conn
      BY <1>1 DEF OrderInv, HandlesKept
    <3>. QED
      BY <1>1, <1>8, <2>1, <3>1 DEF HandlesOn
  <2>6. V \in SUBSET Level /\ (\A e \in V : e <= D) /\ (D \in V => b.ends = "nested")
    BY <1>1 DEF Taken
  <2>. HIDE DEF V
  <2>7. CASE b.ends = "nothing"
    <3>1. f = w /\ V \ {D} = V
      BY <1>3, <2>6, <2>7
    <3>. QED
      BY <2>1, <2>2, <2>5, <2>7, <3>1
  <2>8. CASE b.ends = "nested"
    <3>1. o = k /\ D \in V
      BY <1>1, <2>4, <2>8 DEF V, Taken
    <3>2. f.handle[D].conn # k
      BY <2>1, <2>5, <2>8
    <3>3. \A x \in {w, f} : x.session[k].conn \in {0, k}
      <4>1. w.session[k].conn \in {0, k}
        BY <1>4, <2>8, <3>1
      <4>2. f = w \/ Only(w, f, k)
        <5>1. HoldsNested(w, o, D) /\ f \in {CommitNested(w, o, D), RollbackNested(w, o, D)} => Only(w, f, k)
          BY <1>1, <1>4, <2>8, CommitNestedKeeps, RollbackNestedKeeps
        <5>. QED
          BY <1>3, <2>8, <5>1
      <4>. QED
        BY <2>1, <4>1, <4>2 DEF Only
    <3>4. Ordered(f, k, V) /\ (Owning(f, k).stuck \/ ~Entered(Owning(f, k), D))
      <4>1. CASE ~HoldsNested(w, o, D) /\ f = w
        <5>1. ~Entered(w.session[k], D)
          <6>1. DOMAIN w.session[k].nested = 1 .. Len(w.session[k].nested)
            BY <1>1, <2>1, SessionNested
          <6>. QED
            BY <3>1, <4>1, <6>1, Zenon DEF HoldsNested, Entered
        <5>2. ~Entered(NoSession, D)
          BY DEF Entered, NoSession
        <5>3. ~Entered(Owning(f, k), D)
          BY <4>1, <5>1, <5>2, Zenon DEF Owning
        <5>. QED
          BY <2>2, <4>1, <5>3
      <4>2. CASE HoldsNested(w, o, D) /\ f \in {CommitNested(w, o, D), RollbackNested(w, o, D)}
        <5>1. w.session[k].conn = k
          BY <1>4, <2>8, <3>1, <4>2
        <5>2. Ordered(f, k, V) /\ (f.session[k].stuck \/ ~Entered(f.session[k], D))
          BY <1>1, <2>1, <2>2, <3>1, <4>2, <5>1, CommitNestedKeeps, RollbackNestedKeeps
        <5>3. ~Entered(NoSession, D)
          BY DEF Entered, NoSession
        <5>. QED
          BY <5>2, <5>3 DEF Owning
      <4>. QED
        BY <1>3, <2>8, <4>1, <4>2
    <3>. QED
      BY <1>1, <2>1, <2>6, <3>2, <3>4, ShrinkKeeps
  <2>9. CASE b.ends = "savepoint"
    <3>1. V \ {D} = V /\ w.handle[D].conn = k
      BY <2>5, <2>6, <2>9
    <3>2. CASE t = Gone /\ f = w
      <4>1. Gone \notin Tags(w, k)
        BY <1>1, <2>1, TagsAre, TagsApart DEF Ok
      <4>. QED
        BY <2>2, <3>1, <3>2, <4>1
    <3>3. CASE t # Gone /\ f \in {Undo(w, k, t), Keep(w, k, t)}
      <4>1. t = BlockTag(D) /\ \A u \in Tags(w, k) : u = t \/ Rank(u) < Rank(t)
        BY <1>1, <2>1, <2>2, <2>5, <3>1, <3>3, LastSavepoint
      <4>2. t # Root /\ t # NoTag /\ t # Gone
        BY <4>1, TagsApart
      <4>3. f \in {RollbackTo(w, k, t), Release(w, k, t)}
        BY <3>3, <4>2 DEF Undo, Keep
      <4>4. f.handle[D].tag \in {t, Gone}
        <5>1. Works(w, Undo(w, k, t), 0, {}) /\ Works(w, Keep(w, k, t), k, {})
          BY <1>1, <2>1, Undoes, Keeping DEF Quiet
        <5>. QED
          BY <1>1, <3>3, <5>1, Zenon DEF Works, Same
      <4>. HIDE DEF t, w
      <4>5. Ordered(f, k, V) /\ t \notin Tags(f, k) /\ Tags(f, k) \subseteq Tags(w, k)
        BY <1>1, <2>1, <2>2, <4>1, <4>2, <4>3, EndsInOrder
      <4>6. Gone \notin Tags(w, k)
        BY <1>1, <2>1, TagsAre, TagsApart DEF Ok
      <4>. QED
        BY <3>1, <4>4, <4>5, <4>6
    <3>. QED
      BY <1>3, <2>9, <3>2, <3>3
  <2>. QED
    BY <2>4, <2>7, <2>8, <2>9
<1>10. Leaves(f, V \ {D})
  BY <1>8, <1>9 DEF Leaves
<1>. QED
  BY <1>9, <1>10 DEF f

\* What ends a connection leaves nothing begun there.
LEMMA ConnectionGoes ==
    ASSUME NEW v, Ok(v), NEW c \in Level
    PROVE  LET w == CloseConnection(v, c)
           IN Spares(v, w, c) /\ w.stack[c] = <<>>
<1>. DEFINE u == EndRoot(v, c, {})
            w == [u EXCEPT !.auto = @ \ {c}]
<1>1. CloseConnection(v, c) = w
  BY DEF CloseConnection
<1>2. Ok(u) /\ Only(v, u, c) /\ u.stack[c] = <<>>
  <2>1. Quiet(v, u)
    BY EndsRoot
  <2>2. Only(v, u, c) /\ u.stack[c] = <<>>
    BY CutsAll
  <2>. HIDE DEF u
  <2>. QED
    BY <2>1, <2>2 DEF Quiet, Works
<1>. HIDE DEF u
<1>3. w.session = u.session /\ w.handle = u.handle /\ w.stack = u.stack
  BY <1>2 DEF Ok, World
<1>. HIDE DEF w
<1>4. Spares(v, u, c)
  BY <1>2, OnlySpares
<1>5. Spares(v, w, c) /\ w.stack[c] = <<>>
  BY <1>2, <1>3, <1>4 DEF Spares, Spared
<1>. QED
  BY <1>1, <1>5

\* The block is gone, and the connection it opened.
LEMMA PopsInOrder ==
    ASSUME DataInv, OrderInv, depth > 0, NEW r, Pops(r), Gives(r.sa, block[depth].conn),
           Leaves(r.sa, Taken(block, depth, block[depth].conn) \ {depth}),
           block[depth].conn \in Owned(block, depth) \ {depth} /\ r.sa.handle[depth].conn = block[depth].conn
              => r.sa.handle[depth].tag \notin Tags(r.sa, block[depth].conn)
    PROVE  OrderInv'
<1>. DEFINE D == depth
            k == block[D].conn
            V == Taken(block, D, k) \ {D}
            v == r.sa
            u == IF k = D THEN CloseConnection(v, D) ELSE v
            w == [u EXCEPT !.handle[D] = NoHandle]
<1>1. /\ D \in Level /\ Ok(v) /\ HandlesKept(sa, v) /\ 1 .. D \subseteq Level /\ D # 0
      /\ (k # 0 => k \in Level)
  BY ClosingLevel DEF Gives, Nets, Level
<1>2. depth' = D - 1 /\ block' = [block EXCEPT ![D] = Closed] /\ sa' = w
  BY DEF Pops, Moves
<1>3. /\ Ok(u) /\ Spares(v, u, k) /\ (k = D => u.stack[k] = <<>>) /\ (k # D => u = v)
      /\ \A s \in Level : u.session[s].mode = v.session[s].mode
      /\ \A e \in Level : u.handle[e].conn = v.handle[e].conn
  <2>1. CASE k = D
    <3>. DEFINE x == CloseConnection(v, D)
    <3>1. /\ Ok(x) /\ Spares(v, x, D) /\ x.stack[D] = <<>>
          /\ \A s \in Level : x.session[s].mode = v.session[s].mode
          /\ \A e \in Level : x.handle[e].conn = v.handle[e].conn
      BY <1>1, ConnectionGoes, ClosesConnection
    <3>. HIDE DEF x
    <3>2. u = x
      BY <2>1 DEF x
    <3>. HIDE DEF u, k, v
    <3>. QED
      BY <2>1, <3>1, <3>2
  <2>2. CASE k # D
    <3>1. u = v
      BY <2>2
    <3>2. Spares(v, v, k)
      BY DEF Spares, Spared
    <3>. HIDE DEF u, k, v
    <3>. QED
      BY <1>1, <2>2, <3>1, <3>2
  <2>. QED
    BY <2>1, <2>2
<1>4. /\ Spares(sa, v, k) /\ (k \in Owned(block, D) \ {D} => Ordered(v, k, V))
      /\ k \in Owned(block, D) \ {D} /\ v.handle[D].conn = k => v.handle[D].tag \notin Tags(v, k)
  BY DEF Leaves
<1>5. v.handle[D].conn \in {0, k}
  BY <1>1 DEF HandlesKept, OrderInv, HandlesOn
<1>. HIDE DEF u
<1>6. /\ w.session = u.session /\ w.stack = u.stack /\ w.handle[D] = NoHandle
      /\ \A e \in Level \ {D} : w.handle[e] = u.handle[e]
  BY <1>1, <1>3 DEF Ok, World
<1>7. /\ Spares(u, w, k)
      /\ k \in Owned(block, D) \ {D} => Ordered(w, k, V)
  <2>1. u.handle[D].conn \in {0, k}
    BY <1>1, <1>3, <1>5
  <2>2. Spares(u, w, k)
    BY <1>1, <1>3, <2>1, HandleGoes
  <2>3. ASSUME k \in Owned(block, D) \ {D} PROVE Ordered(w, k, V)
    <3>1. u = v /\ k \in Level
      BY <1>1, <1>3, <2>3 DEF Owned
    <3>2. Ordered(u, k, V) /\ (u.handle[D].conn = k => u.handle[D].tag \notin Tags(u, k))
      BY <1>4, <2>3, <3>1
    <3>. HIDE DEF V, k, v
    <3>. QED
      BY <1>1, <1>3, <3>1, <3>2, HandleGoes
  <2>. QED
    BY <2>2, <2>3
<1>. HIDE DEF w
<1>8. Spares(sa, w, k)
  BY <1>3, <1>4, <1>7, SparesTrans
<1>9. \A e \in Level \ {D} : /\ w.handle[e].conn = sa.handle[e].conn
                             /\ w.session[e].mode = sa.session[e].mode
  BY <1>1, <1>3, <1>6 DEF Gives, HandlesKept
<1>10. w.handle[D].conn = 0 /\ (k = D => w.stack[k] = <<>>)
  BY <1>3, <1>6 DEF NoHandle
<1>. QED
  BY <1>2, <1>7, <1>8, <1>9, <1>10, ClosesInOrder

\* A block that ends no transaction is done once its session is.
LEMMA NothingFinishes ==
    ASSUME DataInv, depth > 0, NEW v, HandlesKept(sa, v), OrderInv, block[depth].kind # "transaction",
           Leaves(v, Taken(block, depth, block[depth].conn))
    PROVE  /\ Leaves(v, Taken(block, depth, block[depth].conn) \ {depth})
           /\ block[depth].conn \in Owned(block, depth) => v.handle[depth].conn # block[depth].conn
<1>1. depth \in Level /\ depth \in OpenLevel /\ BindingsInv /\ 1 .. depth \subseteq Level
  BY ClosingLevel DEF DataInv
<1>2. block[depth].ends = "nothing"
  BY <1>1 DEF BindingsInv, EndsRight
<1>3. Taken(block, depth, block[depth].conn) \ {depth} = Taken(block, depth, block[depth].conn)
  BY <1>2 DEF Taken
<1>4. v.handle[depth].conn = 0
  BY <1>1, <1>2 DEF HandlesKept, OrderInv, HandlesOn
<1>. QED
  BY <1>1, <1>3, <1>4 DEF Owned, Level

\* A block closes.
LEMMA ExitInOrder == ASSUME DataInv, OrderInv, Exit PROVE OrderInv'
<1>1. ASSUME depth > 0, block[depth].kind \in {"autocommit", "transaction"} PROVE block[depth].conn # 0
  BY <1>1, ClosingLevel DEF DataInv, BindingsInv, EndsRight
<1>. PICK exc \in Exits :
        \/ ExitConnect(exc)
        \/ \E flush \in Flushes : \/ ExitAutocommit(exc, flush)
                                 \/ \E fails \in Failures : ExitTransaction(exc, flush, fails)
  BY DEF Exit
<1>2. ASSUME NEW e, NEW commits, NEW fl, NEW fa, depth > 0, commits => block[depth].conn # 0,
             block[depth].kind # "transaction", Pops(CloseOwnSession(depth, e, commits, fl, fa))
      PROVE  OrderInv'
  <2>. DEFINE r == CloseOwnSession(depth, e, commits, fl, fa)
              k == block[depth].conn
  <2>1. Gives(r.sa, k) /\ Leaves(r.sa, Taken(block, depth, k))
    BY <1>2, ClosesOwnSession, SessionLeaves
  <2>2. Pops(r)
    BY <1>2
  <2>. HIDE DEF r
  <2>3. HandlesKept(sa, r.sa)
    BY <2>1 DEF Gives, Nets
  <2>4. /\ Leaves(r.sa, Taken(block, depth, k) \ {depth})
        /\ k \in Owned(block, depth) => r.sa.handle[depth].conn # k
    BY <1>2, <2>1, <2>3, NothingFinishes
  <2>. QED
    BY <1>2, <2>1, <2>2, <2>4, PopsInOrder
<1>3. CASE ExitConnect(exc)
  <2>1. /\ depth > 0 /\ Pops(CloseOwnSession(depth, exc, FALSE, "done", "failure"))
        /\ block[depth].kind # "transaction"
    BY <1>3 DEF ExitConnect
  <2>. QED
    BY <1>2, <2>1
<1>4. ASSUME NEW flush \in Flushes, ExitAutocommit(exc, flush) PROVE OrderInv'
  <2>. DEFINE commits == exc = "none"
  <2>1. /\ depth > 0 /\ block[depth].kind = "autocommit"
        /\ Pops(CloseOwnSession(depth, exc, commits, flush, "failure"))
    BY <1>4 DEF ExitAutocommit
  <2>. HIDE DEF commits
  <2>. QED
    BY <1>1, <1>2, <2>1
<1>5. ASSUME NEW flush \in Flushes, NEW fails \in Failures, ExitTransaction(exc, flush, fails)
      PROVE  OrderInv'
  <2>. DEFINE commits == Keeps(exc)
              r == CloseOwnSession(depth, exc, commits, flush, fails)
              k == block[depth].conn
              f == Finish(r, depth)
  <2>1. depth > 0 /\ block[depth].kind = "transaction" /\ Pops(f)
    BY <1>5 DEF ExitTransaction
  <2>2. Gives(r.sa, k) /\ Leaves(r.sa, Taken(block, depth, k))
    <3>. HIDE DEF commits
    <3>. QED
      BY <1>1, <2>1, ClosesOwnSession, SessionLeaves
  <2>. HIDE DEF r
  <2>3. /\ Gives(f.sa, k) /\ Leaves(f.sa, Taken(block, depth, k) \ {depth})
        /\ k \in Owned(block, depth) \ {depth} /\ f.sa.handle[depth].conn = k
              => f.sa.handle[depth].tag \notin Tags(f.sa, k)
    BY <2>1, <2>2, Finishes, FinishLeaves
  <2>. HIDE DEF f
  <2>. QED
    BY <2>1, <2>3, PopsInOrder
<1>. QED
  BY <1>3, <1>4, <1>5

\* Nothing is open and nothing is begun at the start.
LEMMA InitInOrder == Init => OrderInv
<1>. SUFFICES ASSUME Init PROVE OrderInv
  OBVIOUS
<1>1. /\ depth = 0 /\ \A c \in Level : sa.stack[c] = <<>> /\ sa.handle[c].conn = 0
      /\ 1 .. depth = {} /\ \A d \in Level : ~(d <= depth)
  BY DEF Init, Fresh, NoHandle, Level
<1>2. Owned(block, depth) = {}
  BY <1>1 DEF Owned
<1>. QED
  BY <1>1, <1>2 DEF OrderInv, Tree, HandlesOn, IdleStacks, InOrder

\* Every step keeps the savepoints in order, but a rollback of a session kept from further out.
LEMMA NextInOrder ==
    ASSUME DataInv, OrderInv, [Next]_vars, "rollback" \notin KeptOps
    PROVE  OrderInv'
<1>1. CASE Next
  BY <1>1, OpenInOrder, UseInOrder, ExitInOrder DEF Next
<1>2. CASE UNCHANGED vars
  BY <1>2 DEF vars, OrderInv, Tree, OnTree, HandlesOn, IdleStacks, InOrder, Owned, Taken
<1>. QED
  BY <1>1, <1>2

\* The inductive invariant says what the run asks.
LEMMA OrderShows == ASSUME DataInv, OrderInv PROVE SavepointsInOrder
<1>. SUFFICES ASSUME NEW d \in 1 .. depth, NEW c, c = block[d].conn, c # 0,
                     block[c].kind = "transaction",
                     block[c].owner # 0 => ~sa.session[block[c].owner].stuck
              PROVE  LET x == sa.session[d]
                     IN /\ (block[d].ends = "savepoint" /\ sa.handle[d].tag # Gone)
                              => HasTag(sa, c, BlockTag(d))
                        /\ x.join \notin {NoTag, Gone} => HasTag(sa, c, x.join)
                        /\ \A i \in DOMAIN x.nested :
                              x.nested[i].live => HasTag(sa, c, BlockTag(x.nested[i].of))
  BY DEF SavepointsInOrder
<1>. DEFINE x == sa.session[d]
            V == Taken(block, depth, c)
<1>1. /\ BindingsInv /\ Tree(block, depth) /\ MayCheckOut(block) /\ Ok(sa) /\ sa \in World
      /\ 1 .. depth \subseteq Level /\ d \in Level /\ depth \in Nat
      /\ \A e \in Level : e <= depth => e \in 1 .. depth
      /\ \A e \in 1 .. depth : e <= depth
  BY LevelsFit DEF DataInv, OrderInv, MayCheckOut, Ok, Level
<1>2. c \in 1 .. depth /\ c \in Level
  BY <1>1, BlocksBind
<1>3. c \in Owned(block, depth)
  BY <1>1, <1>2 DEF Tree, Owned
<1>4. OwnerMode(sa, block, c) /\ Ordered(sa, c, V)
  BY <1>3 DEF OrderInv, InOrder
<1>5. \A t : HasTag(sa, c, t) <=> t \in Tags(sa, c)
  BY <1>1, <1>2, TagsAre
<1>. HIDE DEF V
<1>6. Creates(sa, c) => Owning(sa, c) = sa.session[c] /\ ~sa.session[c].stuck
  <2>. SUFFICES ASSUME Creates(sa, c) PROVE Owning(sa, c) = sa.session[c] /\ ~sa.session[c].stuck
    OBVIOUS
  <2>1. Owning(sa, c) = sa.session[c] /\ sa.session[c].mode = "create_savepoint"
    BY DEF Creates, Owning, NoSession
  <2>2. block[c].owner = c
    BY <1>2, <2>1 DEF DataInv, SessionsFit
  <2>. QED
    BY <1>2, <2>1, <2>2 DEF Level
<1>7. \A e \in Level : Entered(Owning(sa, c), e) =>
         Creates(sa, c) /\ e \in V /\ (LiveAt(Owning(sa, c), e) => BlockTag(e) \in Tags(sa, c))
  BY <1>4, <1>6 DEF Ordered, NestedFits
<1>8. ASSUME block[d].ends = "savepoint", sa.handle[d].tag # Gone
      PROVE  HasTag(sa, c, BlockTag(d))
  <2>1. sa.handle[d].conn = c
    BY <1>1, <1>8 DEF OrderInv, HandlesOn
  <2>2. HandleFits(sa, c, d)
    BY <1>1, <1>4 DEF Ordered
  <2>3. sa.handle[d].tag # Root
    BY <1>8 DEF DataInv, HandlesFit
  <2>. QED
    BY <1>5, <1>8, <2>1, <2>2, <2>3 DEF HandleFits
<1>9. x.conn # 0 => x.conn = c
  BY <1>1 DEF DataInv, SessionsFit
<1>10. ASSUME x.join \notin {NoTag, Gone} PROVE HasTag(sa, c, x.join)
  <2>1. x.conn = c
    BY <1>1, <1>9, <1>10 DEF Ok, SessionOk
  <2>2. JoinFits(sa, c, V, d)
    BY <1>1, <1>4 DEF Ordered
  <2>3. ~Stale(sa, c, V, x.join)
    BY <1>7 DEF Stale
  <2>. QED
    BY <1>5, <1>10, <2>1, <2>2, <2>3 DEF JoinFits
<1>11. ASSUME NEW i \in DOMAIN x.nested, x.nested[i].live
       PROVE  HasTag(sa, c, BlockTag(x.nested[i].of))
  <2>1. /\ i \in 1 .. Len(x.nested) /\ Len(x.nested) > 0 /\ x.nested[i].of \in Level
        /\ x.conn = c
    <3>1. /\ DOMAIN x.nested = 1 .. Len(x.nested) /\ Len(x.nested) \in Nat
          /\ \A j \in 1 .. Len(x.nested) : x.nested[j] \in NestedSet
          /\ Len(x.nested) > 0 => x.conn \in Level
      BY <1>1, SessionNested
    <3>2. i \in 1 .. Len(x.nested) /\ Len(x.nested) > 0
      BY <1>11, <3>1
    <3>3. x.nested[i].of \in Level
      BY <3>1, <3>2 DEF NestedSet
    <3>. QED
      BY <1>9, <3>1, <3>2, <3>3 DEF Level
  <2>2. ModeFits(sa, c, d)
    BY <1>1, <1>4 DEF Ordered
  <2>3. d = c /\ Creates(sa, c)
    BY <2>1, <2>2 DEF ModeFits
  <2>4. Owning(sa, c) = x
    BY <1>6, <2>3
  <2>5. Entered(x, x.nested[i].of) /\ LiveAt(x, x.nested[i].of)
    BY <1>11, <2>1 DEF Entered, LiveAt
  <2>. QED
    BY <1>5, <1>7, <2>1, <2>4, <2>5
<1>. QED
  BY <1>8, <1>10, <1>11

\* On the connection that a transaction() opened, whatever the blocks inside it and their
\* sessions do, no block and no session is left with a savepoint the database has dropped
\* (_Outer.owner, Transaction.__enter__), until a commit of the session that owns them
\* has raised half way.  The one call left out is the rollback() of a session kept from an
\* enclosing block, which rolls back past the savepoints of the blocks inside.
THEOREM SavepointsOrdered == "rollback" \notin KeptOps => (Spec => []SavepointsInOrder)
<1>. SUFFICES ASSUME "rollback" \notin KeptOps PROVE Spec => []SavepointsInOrder
  OBVIOUS
<1>1. Init => DataInv /\ OrderInv
  BY InitData, InitInOrder
<1>2. DataInv /\ OrderInv /\ [Next]_vars => OrderInv'
  BY NextInOrder
<1>3. DataInv /\ OrderInv => SavepointsInOrder
  BY OrderShows
<1>. QED
  BY <1>1, <1>2, <1>3, DataCorrect, PTL DEF Spec

==============================================================================
