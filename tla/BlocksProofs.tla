---------------------------- MODULE BlocksProofs ----------------------------
(***************************************************************************)
(* Proofs about Blocks, for every number of nested blocks, every set of     *)
(* options and every set of rows, in four parts:                            *)
(*   1. what the operators of SQLAlchemy do to rows, sessions and handles:  *)
(*      each is a move (Works), and moves compose;                          *)
(*   2. what the blocks bind to the context (BindingsInv), which needs      *)
(*      nothing of what the layer below does;                               *)
(*   3. both together (DataInv): whose savepoints a session takes, and who  *)
(*      makes permanent what a transaction wrote;                           *)
(*   4. how the outermost transaction ends: with all its rows or with none. *)
(* SavepointsProofs goes on from these.                                     *)
(***************************************************************************)
EXTENDS Blocks, SequenceTheorems, WellFoundedInduction, TLAPS

------------------------------------------------------------------------------
(* 1. The layer below *)

\* The Transaction object a block holds.
Handle == [conn : 0 .. MaxDepth, tag : Tag]

\* The transaction of a connection: none, or a root with its savepoints.
Stack == {st \in Seq(Layer) : st # <<>> => st[1].tag = Root}

\* The states of the layer below: the fields SQLAlchemy describes.
World == [stack     : [Level -> Stack],
          auto      : SUBSET Level,
          session   : [Level -> Session],
          handle    : [Level -> Handle],
          committed : SUBSET Row]

\* A session without a connection joined nothing and has no savepoint.
SessionOk(x) == x.conn = 0 => x.join = NoTag /\ x.nested = <<>> /\ ~x.commits

\* Handle h is the root transaction of connection c, and that one is still open.
RootOf(h, c) == h.conn = c /\ h.tag = Root

\* No block holds the root transaction of connection c.
Unrooted(w, c) == \A d \in Level : ~RootOf(w.handle[d], c)

\* Session s began the root transaction of connection c: its commit() would end it.
Holds(w, s, c) == w.session[s].conn = c /\ w.session[s].commits /\ w.session[s].join = Root

\* A connection in no transaction is not the one of a handle.
Rooted(w) == \A c \in Level : w.stack[c] = <<>> => Unrooted(w, c)

\* A row waits in one session only.
Pendings(w) == \A s, t \in Level : s # t => w.session[s].pending \cap w.session[t].pending = {}

\* What the layer below is in every state, whatever the blocks above it do.
Ok(w) == /\ w \in World
         /\ \A s \in Level : SessionOk(w.session[s])
         /\ Rooted(w)
         /\ Pendings(w)

\* From v to w no session and no handle changed connection; a handle may have lost
\* its transaction.
Same(v, w) ==
    /\ w.auto = v.auto
    /\ \A s \in Level : w.session[s].mode = v.session[s].mode /\ w.session[s].conn = v.session[s].conn
    /\ \A d \in Level : w.handle[d].conn = v.handle[d].conn /\ w.handle[d].tag \in {v.handle[d].tag, Gone}

\* What the operators of SQLAlchemy may do to the rows, from v to w: on connection
\* k alone do rows come in, those of N; nothing permanent is lost; connection k makes
\* rows permanent, and does so in autocommit or by ending its root; nothing begins to
\* hold a root, unless no block does.
Moved(v, w, k, N) ==
    /\ w.auto \subseteq v.auto
    /\ \A s \in Level : w.session[s].pending \subseteq v.session[s].pending
    /\ \A d, c \in Level : RootOf(w.handle[d], c) => RootOf(v.handle[d], c)
    /\ \A s, c \in Level : Holds(w, s, c) => Holds(v, s, c) \/ Unrooted(w, c)
    /\ \A c \in Level : Uncommitted(w, c) \subseteq Uncommitted(v, c) \cup (IF c = k THEN N ELSE {})
    /\ v.committed \subseteq w.committed
    /\ w.committed \subseteq v.committed \cup (IF k \in Level THEN N \cup Uncommitted(v, k) ELSE {})
    /\ w.committed = v.committed \/ k \in v.auto \/ Unrooted(w, k)
    /\ \A s \in Level : w.session[s].pending \cap Held(w) \subseteq Held(v)

\* One operator or several: what is kept, and what has moved.
Works(v, w, k, N) == Ok(w) /\ Same(v, w) /\ Moved(v, w, k, N)

\* Rows are lost, or stay.
Quiet(v, w) == Works(v, w, 0, {})

------------------------------------------------------------------------------
\* A set of naturals has a least member.
LEMMA Least ==
    ASSUME NEW T \in SUBSET Nat, T # {}
    PROVE  \E x \in T : \A y \in T : x <= y
<1>. DEFINE R == OpToRel(<, Nat)
<1>1. IsWellFoundedOn(R, Nat)
  BY NatLessThanWellFounded
<1>2. PICK x \in T : \A y \in T : ~(<<y, x>> \in R)
  <2>. HIDE DEF R
  <2>. QED
    BY <1>1, WFMin
<1>3. \A y \in T : ~(y < x)
  BY <1>2 DEF OpToRel
<1>. QED
  BY <1>3

\* The Max of the community modules is a member, and the last.
LEMMA MaxIsLast ==
    ASSUME NEW n \in Nat, NEW S \in SUBSET (0 .. n), S # {}
    PROVE  Max(S) \in S /\ \A y \in S : y <= Max(S)
<1>. DEFINE T == {n - y : y \in S}
<1>1. T \in SUBSET Nat /\ T # {}
  <2>1. \A y \in S : n - y \in Nat
    OBVIOUS
  <2>. QED
    BY <2>1
<1>2. PICK x \in T : \A y \in T : x <= y
  BY <1>1, Least
<1>3. PICK m \in S : x = n - m
  BY <1>2
<1>4. \A y \in S : n - m <= n - y
  BY <1>2, <1>3
<1>5. \A y \in S : m >= y
  BY <1>4
<1>. QED
  BY <1>5 DEF Max

\* A row is uncommitted when one of the layers has it.
LEMMA InUncommitted ==
    ASSUME NEW w, NEW c, NEW r
    PROVE  r \in Uncommitted(w, c) <=> \E j \in 1 .. Len(w.stack[c]) : r \in w.stack[c][j].rows
BY DEF Uncommitted, RowsFrom

\* A row is held when it is permanent or in a layer of some connection.
LEMMA InHeld ==
    ASSUME NEW w \in World, NEW r
    PROVE  r \in Held(w) <=> r \in w.committed \/ \E c \in Level : r \in Uncommitted(w, c)
<1>1. DOMAIN w.stack = Level
  BY DEF World
<1>. QED
  BY <1>1 DEF Held

\* No row appears but those of N.
LEMMA MovedHolds ==
    ASSUME NEW v \in World, NEW w \in World, NEW k, NEW N, Moved(v, w, k, N)
    PROVE  Held(w) \subseteq Held(v) \cup N
<1>. SUFFICES ASSUME NEW r \in Held(w), r \notin N PROVE r \in Held(v)
  OBVIOUS
<1>1. r \in w.committed \/ \E c \in Level : r \in Uncommitted(w, c)
  BY InHeld
<1>2. r \in v.committed \/ \E c \in Level : r \in Uncommitted(v, c)
  BY <1>1 DEF Moved
<1>. QED
  BY <1>2, InHeld

\* Two steps that change no connection are one.
LEMMA SameTrans ==
    ASSUME NEW v, NEW w, NEW x, Same(v, w), Same(w, x)
    PROVE  Same(v, x)
BY DEF Same

\* Two moves on the same connection are one.
LEMMA MovedTrans ==
    ASSUME NEW v \in World, NEW w \in World, NEW x \in World, NEW k, NEW N,
           Moved(v, w, k, N), Moved(w, x, k, N)
    PROVE  Moved(v, x, k, N)
<1>1. \A d, c \in Level : RootOf(x.handle[d], c) => RootOf(w.handle[d], c)
  BY DEF Moved
<1>2. \A c \in Level : Unrooted(w, c) => Unrooted(x, c)
  BY <1>1 DEF Unrooted
<1>3. \A s, c \in Level : Holds(x, s, c) => Holds(v, s, c) \/ Unrooted(x, c)
  BY <1>2 DEF Moved
<1>4. \A c \in Level : Uncommitted(x, c) \subseteq Uncommitted(v, c) \cup (IF c = k THEN N ELSE {})
  BY DEF Moved
<1>5. /\ v.committed \subseteq x.committed
      /\ x.committed \subseteq v.committed \cup (IF k \in Level THEN N \cup Uncommitted(v, k) ELSE {})
  BY DEF Moved
<1>6. x.committed = v.committed \/ k \in v.auto \/ Unrooted(x, k)
  <2>1. w.committed = v.committed \/ k \in v.auto \/ Unrooted(w, k)
    BY DEF Moved
  <2>2. x.committed = w.committed \/ k \in w.auto \/ Unrooted(x, k)
    BY DEF Moved
  <2>3. w.auto \subseteq v.auto /\ w.committed \subseteq x.committed
    BY DEF Moved
  <2>4. k \notin Level => x.committed = v.committed
    BY DEF Moved
  <2>. QED
    BY <1>2, <2>1, <2>2, <2>3, <2>4
<1>7. \A s \in Level : x.session[s].pending \cap Held(x) \subseteq Held(v)
  BY DEF Moved
<1>. QED
  BY <1>3, <1>4, <1>5, <1>6, <1>7 DEF Moved

\* A move of no rows is one on any connection, and so is one of fewer rows.
LEMMA MovedMore ==
    ASSUME NEW v, NEW w, NEW k, NEW N, NEW M, Moved(v, w, 0, {}) \/ (Moved(v, w, k, M) /\ M \subseteq N)
    PROVE  Moved(v, w, k, N)
<1>0. 0 \notin Level
  BY MaxDepthAssumption DEF Level
<1>1. CASE Moved(v, w, 0, {})
  <2>1. w.committed = v.committed
    <3>1. v.committed \subseteq w.committed /\ w.committed \subseteq v.committed
      BY <1>0, <1>1, Zenon DEF Moved
    <3>. QED
      BY <3>1
  <2>2. \A c \in Level : Uncommitted(w, c) \subseteq Uncommitted(v, c)
    BY <1>0, <1>1 DEF Moved
  <2>3. w.committed \subseteq v.committed \cup (IF k \in Level THEN N \cup Uncommitted(v, k) ELSE {})
    BY <2>1
  <2>. QED
    BY <1>1, <2>1, <2>2, <2>3 DEF Moved
<1>2. CASE Moved(v, w, k, M) /\ M \subseteq N
  BY <1>2 DEF Moved
<1>. QED
  BY <1>1, <1>2

\* The operators one after another: what a handler does is one move.
LEMMA WorksTrans ==
    ASSUME NEW v, NEW w, NEW x, NEW k, NEW N, Ok(v),
           Works(v, w, k, N) \/ Quiet(v, w), Works(w, x, k, N) \/ Quiet(w, x)
    PROVE  Works(v, x, k, N)
<1>1. Ok(w) /\ Ok(x) /\ Same(v, w) /\ Same(w, x)
  BY DEF Works, Quiet
<1>2. Moved(v, w, k, N) /\ Moved(w, x, k, N)
  BY MovedMore DEF Works, Quiet
<1>. QED
  BY <1>1, <1>2, SameTrans, MovedTrans DEF Works, Ok

\* And a quiet one when each of them is.
LEMMA QuietTrans ==
    ASSUME NEW v, NEW w, NEW x, Ok(v), Quiet(v, w), Quiet(w, x)
    PROVE  Quiet(v, x)
BY WorksTrans DEF Quiet

------------------------------------------------------------------------------
\* The state with another session in place of one, field by field.
LEMMA WithSessionIs ==
    ASSUME NEW w \in World, NEW s \in Level, NEW x \in Session
    PROVE  LET v == [w EXCEPT !.session[s] = x]
           IN /\ v \in World
              /\ v.stack = w.stack /\ v.auto = w.auto /\ v.handle = w.handle
              /\ v.committed = w.committed
              /\ v.session[s] = x /\ \A t \in Level \ {s} : v.session[t] = w.session[t]
BY DEF World

\* The state with another stack on a connection, field by field.
LEMMA WithStackIs ==
    ASSUME NEW w \in World, NEW c \in Level, NEW st \in Stack
    PROVE  LET v == [w EXCEPT !.stack[c] = st]
           IN /\ v \in World
              /\ v.session = w.session /\ v.auto = w.auto /\ v.handle = w.handle
              /\ v.committed = w.committed
              /\ v.stack[c] = st /\ \A b \in Level \ {c} : v.stack[b] = w.stack[b]
BY DEF World

\* The state with other permanent rows, field by field.
LEMMA WithCommittedIs ==
    ASSUME NEW w \in World, NEW R \in SUBSET Row
    PROVE  LET v == [w EXCEPT !.committed = R]
           IN /\ v \in World
              /\ v.session = w.session /\ v.auto = w.auto /\ v.handle = w.handle
              /\ v.stack = w.stack /\ v.committed = R
BY DEF World

\* What each field holds.
LEMMA WorldFields ==
    ASSUME NEW w \in World
    PROVE  /\ \A c \in Level : w.stack[c] \in Stack
           /\ \A s \in Level : w.session[s] \in Session
           /\ \A d \in Level : w.handle[d] \in Handle
           /\ w.auto \subseteq Level /\ w.committed \subseteq Row
BY DEF World

\* The uncommitted rows of a connection are those of its stack.
LEMMA SameStack ==
    ASSUME NEW v, NEW w, NEW c, w.stack[c] = v.stack[c]
    PROVE  Uncommitted(w, c) = Uncommitted(v, c)
BY DEF Uncommitted, RowsFrom

\* When a change is quiet, field by field.
LEMMA QuietFields ==
    ASSUME NEW v, NEW w \in World, Ok(v), w.auto = v.auto, w.committed = v.committed,
           \A s \in Level :
              LET x == v.session[s]  y == w.session[s]
              IN /\ y.mode = x.mode /\ y.conn = x.conn /\ y.commits = x.commits
                 /\ y.pending = x.pending /\ y.join \in {x.join, Gone}
                 /\ x.conn = 0 => y.join = x.join /\ y.nested = x.nested,
           \A d \in Level : w.handle[d].conn = v.handle[d].conn /\ w.handle[d].tag \in {v.handle[d].tag, Gone},
           \A c \in Level : Uncommitted(w, c) \subseteq Uncommitted(v, c),
           Rooted(w)
    PROVE  Quiet(v, w)
<1>. Root # Gone
  BY DEF Root, Gone
<1>1. Ok(w)
  BY DEF Ok, SessionOk, Pendings
<1>2. Same(v, w)
  BY DEF Same
<1>3. \A d, c \in Level : RootOf(w.handle[d], c) => RootOf(v.handle[d], c)
  BY DEF RootOf
<1>4. \A s, c \in Level : Holds(w, s, c) => Holds(v, s, c)
  BY DEF Holds
<1>5. Held(w) \subseteq Held(v)
  <2>. SUFFICES ASSUME NEW r \in Held(w) PROVE r \in Held(v)
    OBVIOUS
  <2>. v \in World
    BY DEF Ok
  <2>. QED
    BY InHeld
<1>6. Moved(v, w, 0, {})
  BY <1>3, <1>4, <1>5 DEF Moved
<1>. QED
  BY <1>1, <1>2, <1>6 DEF Works, Quiet

\* A change of one session is quiet when it gains no row and no root a block holds.
LEMMA QuietSession ==
    ASSUME NEW v, Ok(v), NEW s \in Level, NEW x \in Session, SessionOk(x),
           x.mode = v.session[s].mode, x.conn = v.session[s].conn,
           x.pending \subseteq v.session[s].pending,
           (x.commits /\ x.join = Root) =>
                \/ v.session[s].commits /\ v.session[s].join = Root
                \/ Unrooted(v, x.conn)
    PROVE  Quiet(v, [v EXCEPT !.session[s] = x])
<1>. DEFINE w == [v EXCEPT !.session[s] = x]
<1>1. v \in World
  BY DEF Ok
<1>2. /\ w \in World
      /\ w.stack = v.stack /\ w.auto = v.auto /\ w.handle = v.handle
      /\ w.committed = v.committed
      /\ w.session[s] = x /\ \A t \in Level \ {s} : w.session[t] = v.session[t]
  BY <1>1, WithSessionIs
<1>. HIDE DEF w
<1>3. \A c \in Level : Uncommitted(w, c) = Uncommitted(v, c)
  BY <1>2, SameStack
<1>4. Ok(w)
  <2>1. \A t \in Level : SessionOk(w.session[t])
    BY <1>2 DEF Ok
  <2>2. Rooted(w)
    BY <1>2 DEF Ok, Rooted, Unrooted
  <2>3. Pendings(w)
    BY <1>2 DEF Ok, Pendings
  <2>. QED
    BY <1>2, <2>1, <2>2, <2>3 DEF Ok
<1>5. Same(v, w)
  <2>1. \A t \in Level : w.session[t].mode = v.session[t].mode /\ w.session[t].conn = v.session[t].conn
    BY <1>2
  <2>. QED
    BY <1>2, <2>1 DEF Same
<1>6. Held(w) \subseteq Held(v)
  BY <1>1, <1>2, <1>3, InHeld
<1>7. \A t, c \in Level : Holds(w, t, c) => Holds(v, t, c) \/ Unrooted(w, c)
  <2>. SUFFICES ASSUME NEW t \in Level, NEW c \in Level, Holds(w, t, c), ~Unrooted(w, c)
                PROVE  Holds(v, t, c)
    OBVIOUS
  <2>1. CASE t = s
    BY <1>2, <2>1 DEF Holds, Unrooted
  <2>2. CASE t # s
    BY <1>2, <2>2 DEF Holds
  <2>. QED
    BY <2>1, <2>2
<1>8. \A t \in Level : w.session[t].pending \subseteq v.session[t].pending
  BY <1>2
<1>9. Moved(v, w, 0, {})
  BY <1>2, <1>3, <1>6, <1>7, <1>8 DEF Moved
<1>. QED
  BY <1>4, <1>5, <1>9 DEF Works, Quiet, w

\* Autobegin() gives a connection its root, and moves no row.
LEMMA Begins ==
    ASSUME NEW v, Ok(v), NEW c \in Level
    PROVE  LET w == Autobegin(v, c)
           IN /\ Quiet(v, w) /\ w.session = v.session /\ w.handle = v.handle
              /\ w.stack[c] # <<>> /\ w.committed = v.committed /\ w.auto = v.auto
              /\ \A b \in Level \ {c} : w.stack[b] = v.stack[b]
              /\ v.stack[c] # <<>> => w = v
              /\ Uncommitted(w, c) = Uncommitted(v, c)
<1>. DEFINE st == <<[tag |-> Root, rows |-> {}]>>
            w == [v EXCEPT !.stack[c] = st]
<1>0. v \in World
  BY DEF Ok
<1>1. CASE InTransaction(v, c)
  <2>1. Autobegin(v, c) = v
    BY <1>1 DEF Autobegin
  <2>2. Rooted(v)
    BY DEF Ok
  <2>3. Quiet(v, v)
    BY <1>0, <2>2, QuietFields
  <2>. QED
    BY <1>1, <2>1, <2>3 DEF InTransaction
<1>2. CASE ~InTransaction(v, c)
  <2>1. Autobegin(v, c) = w
    BY <1>2 DEF Autobegin
  <2>2. st \in Stack /\ st # <<>> /\ Len(st) = 1 /\ st[1].rows = {}
    <3>1. [tag |-> Root, rows |-> {}] \in Layer
      BY DEF Layer, LiveTag
    <3>. QED
      BY <3>1 DEF Stack
  <2>. HIDE DEF st
  <2>3. /\ w \in World
        /\ w.session = v.session /\ w.auto = v.auto /\ w.handle = v.handle
        /\ w.committed = v.committed
        /\ w.stack[c] = st /\ \A b \in Level \ {c} : w.stack[b] = v.stack[b]
    BY <1>0, <2>2, WithStackIs
  <2>. HIDE DEF w
  <2>4. Uncommitted(w, c) = {}
    BY <2>2, <2>3, InUncommitted
  <2>5. Uncommitted(v, c) = {}
    BY <1>2, InUncommitted DEF InTransaction
  <2>6. \A b \in Level : Uncommitted(w, b) \subseteq Uncommitted(v, b)
    BY <2>3, <2>4, SameStack
  <2>7. Rooted(w)
    BY <2>2, <2>3 DEF Rooted, Unrooted, Ok
  <2>8. Quiet(v, w)
    BY <2>3, <2>6, <2>7, QuietFields
  <2>. QED
    BY <1>2, <2>1, <2>2, <2>3, <2>4, <2>5, <2>8 DEF InTransaction
<1>. QED
  BY <1>1, <1>2

------------------------------------------------------------------------------
\* What a session knows of a begin_nested() of a block.
NestedSet == [of : Level, live : BOOLEAN]

\* Forget() marks what has ended, in the sessions and the handles of its connection.
LEMMA ForgetIs ==
    ASSUME NEW w \in World, NEW c \in Level, NEW E
    PROVE  LET u == Forget(w, c, E)
           IN /\ u \in World
              /\ u.stack = w.stack /\ u.auto = w.auto /\ u.committed = w.committed
              /\ \A s \in Level :
                    LET x == w.session[s]  y == u.session[s]
                    IN /\ y.mode = x.mode /\ y.conn = x.conn /\ y.commits = x.commits
                       /\ y.pending = x.pending
                       /\ y.join = IF x.conn = c /\ x.join \in E THEN Gone ELSE x.join
                       /\ x.conn # c => y = x
                       /\ Len(y.nested) = Len(x.nested)
              /\ \A d \in Level :
                    LET h == w.handle[d]  k == u.handle[d]
                    IN k.conn = h.conn /\ k.tag = IF h.conn = c /\ h.tag \in E THEN Gone ELSE h.tag
<1>. DEFINE Nested(n) == [n EXCEPT !.live = @ /\ BlockTag(n.of) \notin E]
            All(q) == [i \in DOMAIN q |-> Nested(q[i])]
            Ended(x) == [x EXCEPT !.join = IF @ \in E THEN Gone ELSE @,
                                  !.nested = [i \in DOMAIN @ |-> Nested(@[i])]]
            Joined(x) == IF x.conn # c THEN x ELSE Ended(x)
            Known(h) == IF h.conn = c /\ h.tag \in E THEN [h EXCEPT !.tag = Gone] ELSE h
            ss == [s \in Level |-> Joined(w.session[s])]
            hh == [d \in Level |-> Known(w.handle[d])]
<1>1. Forget(w, c, E) = [w EXCEPT !.session = ss, !.handle = hh]
  BY DEF Forget
<1>2. Gone \in Tag
  BY DEF Tag
<1>3. ASSUME NEW q \in Seq(NestedSet)
      PROVE  All(q) \in Seq(NestedSet) /\ Len(All(q)) = Len(q)
  <2>1. Len(q) \in Nat /\ DOMAIN q = 1 .. Len(q) /\ \A i \in 1 .. Len(q) : q[i] \in NestedSet
    BY <1>3
  <2>2. \A n \in NestedSet : Nested(n) \in NestedSet
    BY DEF NestedSet
  <2>. HIDE DEF Nested
  <2>3. All(q) \in [1 .. Len(q) -> NestedSet]
    BY <2>1, <2>2
  <2>. HIDE DEF All
  <2>. QED
    BY <2>1, <2>3
<1>4. ASSUME NEW x \in Session
      PROVE  /\ Joined(x) \in Session
             /\ LET y == Joined(x)
                IN /\ y.mode = x.mode /\ y.conn = x.conn /\ y.commits = x.commits
                   /\ y.pending = x.pending
                   /\ y.join = IF x.conn = c /\ x.join \in E THEN Gone ELSE x.join
                   /\ x.conn # c => y = x
                   /\ Len(y.nested) = Len(x.nested)
  <2>. DEFINE j == IF x.join \in E THEN Gone ELSE x.join
              q == All(x.nested)
              y == [[x EXCEPT !.join = j] EXCEPT !.nested = q]
  <2>1. Ended(x) = y
    BY <1>4, Zenon
  <2>2. x.nested \in Seq(NestedSet) /\ x.join \in Tag
    BY <1>4 DEF Session, NestedSet
  <2>3. q \in Seq(NestedSet) /\ Len(q) = Len(x.nested) /\ j \in Tag
    BY <1>2, <1>3, <2>2
  <2>. HIDE DEF q, j, Ended
  <2>4. /\ y \in Session /\ y.mode = x.mode /\ y.conn = x.conn /\ y.commits = x.commits
        /\ y.pending = x.pending /\ y.join = j /\ y.nested = q
    BY <1>4, <2>3 DEF Session, NestedSet
  <2>. HIDE DEF y
  <2>5. CASE x.conn # c
    BY <1>4, <2>5
  <2>6. CASE x.conn = c
    BY <2>1, <2>3, <2>4, <2>6 DEF j
  <2>. QED
    BY <2>5, <2>6
<1>5. ASSUME NEW h \in Handle
      PROVE  /\ Known(h) \in Handle /\ Known(h).conn = h.conn
             /\ Known(h).tag = IF h.conn = c /\ h.tag \in E THEN Gone ELSE h.tag
  BY <1>2, <1>5 DEF Handle
<1>. HIDE DEF Joined, Known
<1>6. ss \in [Level -> Session] /\ hh \in [Level -> Handle]
  BY <1>4, <1>5, WorldFields
<1>. DEFINE v == [w EXCEPT !.session = ss]
            u == [v EXCEPT !.handle = hh]
<1>7. Forget(w, c, E) = u
  BY <1>1
<1>8. /\ \A s \in Level : ss[s] = Joined(w.session[s])
      /\ \A d \in Level : hh[d] = Known(w.handle[d])
  OBVIOUS
<1>. HIDE DEF ss, hh
<1>9. /\ v \in World /\ v.stack = w.stack /\ v.auto = w.auto /\ v.committed = w.committed
      /\ v.session = ss /\ v.handle = w.handle
  BY <1>6 DEF World
<1>. HIDE DEF v
<1>10. /\ u \in World /\ u.stack = w.stack /\ u.auto = w.auto /\ u.committed = w.committed
       /\ u.session = ss /\ u.handle = hh
  BY <1>6, <1>9 DEF World
<1>. HIDE DEF u
<1>11. \A s \in Level :
          LET x == w.session[s]  y == u.session[s]
          IN /\ y.mode = x.mode /\ y.conn = x.conn /\ y.commits = x.commits
             /\ y.pending = x.pending
             /\ y.join = IF x.conn = c /\ x.join \in E THEN Gone ELSE x.join
             /\ x.conn # c => y = x
             /\ Len(y.nested) = Len(x.nested)
  BY <1>4, <1>8, <1>10, WorldFields
<1>12. \A d \in Level :
          LET h == w.handle[d]  k == u.handle[d]
          IN k.conn = h.conn /\ k.tag = IF h.conn = c /\ h.tag \in E THEN Gone ELSE h.tag
  BY <1>5, <1>8, <1>10, WorldFields
<1>. QED
  BY <1>7, <1>10, <1>11, <1>12

------------------------------------------------------------------------------
\* No session has lost or gained a begin_nested().
NestedKept(v, w) == \A s \in Level : Len(w.session[s].nested) = Len(v.session[s].nested)

\* The handles of open roots still are.
RootsKept(v, w) == \A d, c \in Level : RootOf(v.handle[d], c) => RootOf(w.handle[d], c)

\* A shorter stack with no other rows, and what it ended marked, is quiet.
LEMMA Rewinds ==
    ASSUME NEW v, Ok(v), NEW c \in Level, NEW st \in Stack, st # <<>>,
           \A j \in 1 .. Len(st) : st[j].rows \subseteq Uncommitted(v, c), NEW E
    PROVE  LET w == Forget([v EXCEPT !.stack[c] = st], c, E)
           IN /\ Quiet(v, w) /\ NestedKept(v, w) /\ (Root \notin E => RootsKept(v, w))
              /\ w.committed = v.committed
<1>. DEFINE u == [v EXCEPT !.stack[c] = st]
            w == Forget(u, c, E)
<1>0. v \in World
  BY DEF Ok
<1>1. /\ u \in World
      /\ u.session = v.session /\ u.auto = v.auto /\ u.handle = v.handle
      /\ u.committed = v.committed
      /\ u.stack[c] = st /\ \A b \in Level \ {c} : u.stack[b] = v.stack[b]
  BY <1>0, WithStackIs
<1>. HIDE DEF u
<1>2. /\ w \in World
      /\ w.stack = u.stack /\ w.auto = v.auto /\ w.committed = v.committed
      /\ \A s \in Level :
            LET x == v.session[s]  y == w.session[s]
            IN /\ y.mode = x.mode /\ y.conn = x.conn /\ y.commits = x.commits
               /\ y.pending = x.pending
               /\ y.join \in {x.join, Gone}
               /\ x.conn # c => y = x
               /\ Len(y.nested) = Len(x.nested)
      /\ \A d \in Level :
            LET h == v.handle[d]  k == w.handle[d]
            IN k.conn = h.conn /\ k.tag = IF h.conn = c /\ h.tag \in E THEN Gone ELSE h.tag
  BY <1>1, ForgetIs
<1>. HIDE DEF w
<1>3. \A b \in Level : Uncommitted(w, b) \subseteq Uncommitted(v, b)
  <2>1. ASSUME NEW b \in Level, b # c PROVE Uncommitted(w, b) \subseteq Uncommitted(v, b)
    BY <1>1, <1>2, <2>1, SameStack
  <2>2. Uncommitted(w, c) \subseteq Uncommitted(v, c)
    BY <1>1, <1>2, InUncommitted
  <2>. QED
    BY <2>1, <2>2
<1>4. \A s \in Level : v.session[s].conn = 0 =>
            w.session[s].join = v.session[s].join /\ w.session[s].nested = v.session[s].nested
  BY <1>2, MaxDepthAssumption DEF Level
<1>5. Rooted(w)
  <2>1. ASSUME NEW b \in Level, w.stack[b] = <<>> PROVE Unrooted(w, b)
    <3>1. v.stack[b] = <<>>
      BY <1>1, <1>2, <2>1
    <3>2. Unrooted(v, b)
      BY <3>1 DEF Ok, Rooted
    <3>. QED
      BY <1>2, <3>2 DEF Unrooted, RootOf, Root, Gone
  <2>. QED
    BY <2>1 DEF Rooted
<1>6. \A d \in Level : w.handle[d].conn = v.handle[d].conn /\ w.handle[d].tag \in {v.handle[d].tag, Gone}
  BY <1>2
<1>7. Quiet(v, w)
  BY <1>2, <1>3, <1>4, <1>5, <1>6, QuietFields
<1>8. NestedKept(v, w) /\ (Root \notin E => RootsKept(v, w))
  BY <1>2 DEF NestedKept, RootsKept, RootOf
<1>. QED
  BY <1>2, <1>7, <1>8 DEF u, w

\* TakeSavepoint() moves no row.
LEMMA Savepoints ==
    ASSUME NEW v, Ok(v), NEW c \in Level, NEW t \in LiveTag
    PROVE  LET w == TakeSavepoint(v, c, t)
           IN /\ Quiet(v, w) /\ w.session = v.session /\ w.handle = v.handle
              /\ w.stack[c] # <<>> /\ w.committed = v.committed
<1>. DEFINE b == Autobegin(v, c)
            l == [tag |-> t, rows |-> {}]
            st == Append(b.stack[c], l)
            w == [b EXCEPT !.stack[c] = st]
<1>1. /\ Quiet(v, b) /\ b.session = v.session /\ b.handle = v.handle
      /\ b.stack[c] # <<>> /\ b.committed = v.committed
  BY Begins
<1>2. TakeSavepoint(v, c, t) = w
  BY DEF TakeSavepoint
<1>3. Ok(b) /\ b \in World
  BY <1>1 DEF Quiet, Works, Ok
<1>. HIDE DEF b
<1>4. b.stack[c] \in Stack /\ l \in Layer /\ l.rows = {}
  BY <1>3, WorldFields DEF Layer
<1>. HIDE DEF l
<1>5. /\ st \in Stack /\ st # <<>>
      /\ Len(st) = Len(b.stack[c]) + 1 /\ st[Len(b.stack[c]) + 1] = l
      /\ \A j \in 1 .. Len(b.stack[c]) : st[j] = b.stack[c][j]
  <2>1. b.stack[c] \in Seq(Layer) /\ b.stack[c][1].tag = Root /\ Len(b.stack[c]) \in Nat \ {0}
    BY <1>1, <1>4 DEF Stack
  <2>2. /\ st \in Seq(Layer) /\ st # <<>>
        /\ Len(st) = Len(b.stack[c]) + 1 /\ st[Len(b.stack[c]) + 1] = l
        /\ \A j \in 1 .. Len(b.stack[c]) : st[j] = b.stack[c][j]
    BY <1>4, <2>1, AppendProperties
  <2>3. st[1].tag = Root
    BY <2>1, <2>2
  <2>. QED
    BY <2>2, <2>3 DEF Stack
<1>. HIDE DEF st
<1>6. \A j \in 1 .. Len(st) : st[j].rows \subseteq Uncommitted(b, c)
  <2>. SUFFICES ASSUME NEW j \in 1 .. Len(st), NEW r \in st[j].rows PROVE r \in Uncommitted(b, c)
    OBVIOUS
  <2>1. Len(b.stack[c]) \in Nat
    BY <1>4 DEF Stack
  <2>2. j \in 1 .. Len(b.stack[c])
    BY <1>4, <1>5, <2>1
  <2>. QED
    BY <1>5, <2>2, InUncommitted
<1>7. /\ w \in World
      /\ w.session = b.session /\ w.auto = b.auto /\ w.handle = b.handle
      /\ w.committed = b.committed
      /\ w.stack[c] = st /\ \A a \in Level \ {c} : w.stack[a] = b.stack[a]
  BY <1>3, <1>5, WithStackIs
<1>. HIDE DEF w
<1>8. \A a \in Level : Uncommitted(w, a) \subseteq Uncommitted(b, a)
  <2>1. Uncommitted(w, c) \subseteq Uncommitted(b, c)
    BY <1>6, <1>7, InUncommitted
  <2>. QED
    BY <1>7, <2>1, SameStack
<1>9. Rooted(w)
  BY <1>3, <1>5, <1>7 DEF Rooted, Unrooted, Ok
<1>10. Quiet(b, w)
  BY <1>3, <1>7, <1>8, <1>9, QuietFields
<1>11. Quiet(v, w)
  BY <1>1, <1>10, QuietTrans
<1>. QED
  BY <1>1, <1>2, <1>5, <1>7, <1>11

\* The position of a savepoint is above the root and inside the stack.
LEMMA PositionIs ==
    ASSUME NEW w \in World, NEW c \in Level, NEW t, HasTag(w, c, t)
    PROVE  /\ Position(w, c, t) \in 1 .. Len(w.stack[c])
           /\ w.stack[c][Position(w, c, t)].tag = t
           /\ t # Root => Position(w, c, t) > 1
<1>. DEFINE n == Len(w.stack[c])
            T == {i \in DOMAIN w.stack[c] : w.stack[c][i].tag = t}
            S == {0} \cup T
<1>1. w.stack[c] \in Stack
  BY WorldFields
<1>2. n \in Nat /\ DOMAIN w.stack[c] = 1 .. n /\ (n # 0 => w.stack[c][1].tag = Root)
  BY <1>1 DEF Stack
<1>3. Position(w, c, t) = Max(S)
  BY DEF Position
<1>4. PICK i \in 1 .. n : i \in T
  BY <1>2 DEF HasTag
<1>5. S \in SUBSET (0 .. n) /\ S # {} /\ i \in S
  BY <1>2, <1>4
<1>. HIDE DEF S
<1>6. Max(S) \in S /\ i <= Max(S)
  BY <1>2, <1>5, MaxIsLast
<1>7. Max(S) \in T /\ Max(S) \in 1 .. n
  BY <1>2, <1>4, <1>5, <1>6 DEF S
<1>. QED
  BY <1>2, <1>3, <1>7

\* ROLLBACK TO loses rows, and no root.
LEMMA RollsBackTo ==
    ASSUME NEW v, Ok(v), NEW c \in Level, NEW t, t # Root
    PROVE  LET w == RollbackTo(v, c, t)
           IN Quiet(v, w) /\ NestedKept(v, w) /\ RootsKept(v, w) /\ w.committed = v.committed
<1>. DEFINE i == Position(v, c, t)
            st == SubSeq(v.stack[c], 1, i - 1)
<1>0. v \in World
  BY DEF Ok
<1>1. CASE ~HasTag(v, c, t)
  <2>1. RollbackTo(v, c, t) = v
    BY <1>1 DEF RollbackTo
  <2>2. Rooted(v)
    BY DEF Ok
  <2>3. Quiet(v, v)
    BY <1>0, <2>2, QuietFields
  <2>. QED
    BY <2>1, <2>3 DEF NestedKept, RootsKept
<1>2. CASE HasTag(v, c, t)
  <2>1. i \in 1 .. Len(v.stack[c]) /\ i > 1
    BY <1>0, <1>2, PositionIs
  <2>2. RollbackTo(v, c, t) = Forget([v EXCEPT !.stack[c] = st], c, {t})
    BY <1>2 DEF RollbackTo
  <2>. HIDE DEF i
  <2>3. v.stack[c] \in Stack
    BY <1>0, WorldFields
  <2>4. /\ st \in Stack /\ st # <<>> /\ Len(st) = i - 1
        /\ \A j \in 1 .. Len(st) : st[j] = v.stack[c][j]
    <3>1. v.stack[c] \in Seq(Layer) /\ v.stack[c][1].tag = Root /\ Len(v.stack[c]) \in Nat
      BY <2>1, <2>3 DEF Stack
    <3>2. \A j \in 1 .. i - 1 : v.stack[c][j] \in Layer
      BY <2>1, <3>1
    <3>3. /\ st \in Seq(Layer) /\ Len(st) = i - 1
          /\ \A j \in 1 .. i - 1 : st[j] = v.stack[c][j]
      BY <2>1, <3>1, <3>2
    <3>4. st # <<>> /\ st[1].tag = Root
      BY <2>1, <3>1, <3>3
    <3>. QED
      BY <3>3, <3>4 DEF Stack
  <2>. HIDE DEF st
  <2>5. \A j \in 1 .. Len(st) : st[j].rows \subseteq Uncommitted(v, c)
    <3>. SUFFICES ASSUME NEW j \in 1 .. Len(st), NEW r \in st[j].rows PROVE r \in Uncommitted(v, c)
      OBVIOUS
    <3>1. j \in 1 .. Len(v.stack[c]) /\ st[j] = v.stack[c][j]
      BY <2>1, <2>4
    <3>. QED
      BY <3>1, InUncommitted
  <2>. QED
    BY <2>2, <2>4, <2>5, Rewinds
<1>. QED
  BY <1>1, <1>2

\* RELEASE moves rows inside the connection, and ends no root.
LEMMA Releases ==
    ASSUME NEW v, Ok(v), NEW c \in Level, NEW t, t # Root
    PROVE  LET w == Release(v, c, t)
           IN Quiet(v, w) /\ NestedKept(v, w) /\ RootsKept(v, w) /\ w.committed = v.committed
<1>. DEFINE i == Position(v, c, t)
            below == v.stack[c][i - 1]
            merged == [below EXCEPT !.rows = @ \cup RowsFrom(v, c, i)]
            kept == SubSeq(v.stack[c], 1, i - 2)
            st == Append(kept, merged)
<1>0. v \in World
  BY DEF Ok
<1>1. CASE ~HasTag(v, c, t)
  <2>1. Release(v, c, t) = v
    BY <1>1 DEF Release
  <2>2. Rooted(v)
    BY DEF Ok
  <2>3. Quiet(v, v)
    BY <1>0, <2>2, QuietFields
  <2>. QED
    BY <2>1, <2>3 DEF NestedKept, RootsKept
<1>2. CASE HasTag(v, c, t)
  <2>1. i \in 1 .. Len(v.stack[c]) /\ i > 1
    BY <1>0, <1>2, PositionIs
  <2>2. Release(v, c, t) = Forget([v EXCEPT !.stack[c] = st], c, {t})
    BY <1>2 DEF Release
  <2>. HIDE DEF i
  <2>3. v.stack[c] \in Stack
    BY <1>0, WorldFields
  <2>4. below \in Layer
    BY <2>1, <2>3 DEF Stack
  <2>5. RowsFrom(v, c, i) \subseteq Uncommitted(v, c) /\ below.rows \subseteq Uncommitted(v, c)
    BY <2>1, <2>3 DEF Uncommitted, RowsFrom, Stack
  <2>6. Uncommitted(v, c) \subseteq Row
    <3>. SUFFICES ASSUME NEW r \in Uncommitted(v, c) PROVE r \in Row
      OBVIOUS
    <3>1. PICK j \in 1 .. Len(v.stack[c]) : r \in v.stack[c][j].rows
      BY InUncommitted
    <3>2. v.stack[c][j] \in Layer
      BY <2>3 DEF Stack
    <3>. QED
      BY <3>1, <3>2 DEF Layer
  <2>7. merged \in Layer /\ merged.tag = below.tag /\ merged.rows \subseteq Uncommitted(v, c)
    BY <2>4, <2>5, <2>6 DEF Layer
  <2>8. /\ kept \in Seq(Layer) /\ Len(kept) = i - 2
        /\ \A j \in 1 .. i - 2 : kept[j] = v.stack[c][j]
    BY <2>1, <2>3 DEF Stack
  <2>9. v.stack[c][1].tag = Root
    BY <2>1, <2>3 DEF Stack
  <2>10. i = 2 => merged.tag = Root
    BY <2>7, <2>9
  <2>. HIDE DEF merged, kept
  <2>11. /\ st \in Seq(Layer) /\ st # <<>> /\ Len(st) = i - 1 /\ st[i - 1] = merged
         /\ \A j \in 1 .. i - 2 : st[j] = v.stack[c][j]
    BY <2>1, <2>7, <2>8
  <2>. HIDE DEF st
  <2>12. st \in Stack
    <3>1. st[1].tag = Root
      BY <2>1, <2>9, <2>10, <2>11
    <3>. QED
      BY <2>11, <3>1 DEF Stack
  <2>13. \A j \in 1 .. Len(st) : st[j].rows \subseteq Uncommitted(v, c)
    <3>. SUFFICES ASSUME NEW j \in 1 .. Len(st), NEW r \in st[j].rows PROVE r \in Uncommitted(v, c)
      OBVIOUS
    <3>1. CASE j = i - 1
      BY <2>7, <2>11, <3>1
    <3>2. CASE j # i - 1
      <4>1. j \in 1 .. i - 2 /\ j \in 1 .. Len(v.stack[c])
        BY <2>1, <2>11, <3>2
      <4>2. st[j] = v.stack[c][j]
        BY <2>11, <4>1
      <4>. QED
        BY <4>1, <4>2, InUncommitted
    <3>. QED
      BY <3>1, <3>2
  <2>14. Root \notin {t}
    OBVIOUS
  <2>15. st # <<>>
    BY <2>11
  <2>. DEFINE w == Forget([v EXCEPT !.stack[c] = st], c, {t})
  <2>16. Quiet(v, w) /\ NestedKept(v, w) /\ RootsKept(v, w) /\ w.committed = v.committed
    BY <2>12, <2>13, <2>14, <2>15, Rewinds
  <2>. HIDE DEF w
  <2>17. Release(v, c, t) = w
    BY <2>2 DEF w
  <2>. QED
    BY <2>16, <2>17
<1>. QED
  BY <1>1, <1>2

------------------------------------------------------------------------------
\* Doing nothing is quiet.
LEMMA QuietSelf == ASSUME NEW v, Ok(v) PROVE Quiet(v, v) /\ NestedKept(v, v) /\ RootsKept(v, v)
<1>1. v \in World /\ Rooted(v)
  BY DEF Ok
<1>. QED
  BY <1>1, QuietFields DEF NestedKept, RootsKept

\* The begin_nested() and the roots are kept over two steps when each keeps them.
LEMMA KeptTrans ==
    ASSUME NEW v, NEW w, NEW x
    PROVE  /\ NestedKept(v, w) /\ NestedKept(w, x) => NestedKept(v, x)
           /\ RootsKept(v, w) /\ RootsKept(w, x) => RootsKept(v, x)
BY DEF NestedKept, RootsKept

\* They are kept by what changes no session, or no handle.
LEMMA SameKept ==
    ASSUME NEW v, NEW w
    PROVE  /\ w.session = v.session => NestedKept(v, w)
           /\ w.handle = v.handle => RootsKept(v, w)
BY DEF NestedKept, RootsKept

\* The end of a root leaves no block that holds it, and keeps what it was told to.
LEMMA EndsRoot ==
    ASSUME NEW v, Ok(v), NEW c \in Level, NEW K, K \subseteq Uncommitted(v, c)
    PROVE  LET w == EndRoot(v, c, K)
           IN /\ Works(v, w, c, {}) /\ Unrooted(w, c) /\ w.committed = v.committed \cup K
              /\ K = {} => Quiet(v, w)
<1>. DEFINE f == Forget(v, c, LiveTag)
            u == [f EXCEPT !.stack[c] = <<>>]
            w == [u EXCEPT !.committed = @ \cup K]
<1>0. v \in World
  BY DEF Ok
<1>1. EndRoot(v, c, K) = w
  BY DEF EndRoot
<1>2. /\ f \in World
      /\ f.stack = v.stack /\ f.auto = v.auto /\ f.committed = v.committed
      /\ \A s \in Level :
            LET x == v.session[s]  y == f.session[s]
            IN /\ y.mode = x.mode /\ y.conn = x.conn /\ y.commits = x.commits
               /\ y.pending = x.pending
               /\ y.join \in {x.join, Gone}
               /\ x.conn # c => y = x
      /\ \A d \in Level :
            LET h == v.handle[d]  k == f.handle[d]
            IN k.conn = h.conn /\ k.tag = IF h.conn = c /\ h.tag \in LiveTag THEN Gone ELSE h.tag
  BY <1>0, ForgetIs
<1>. HIDE DEF f
<1>3. <<>> \in Stack /\ Len(<<>>) = 0
  BY DEF Stack
<1>4. /\ u \in World
      /\ u.session = f.session /\ u.auto = f.auto /\ u.handle = f.handle
      /\ u.committed = f.committed
      /\ u.stack[c] = <<>> /\ \A b \in Level \ {c} : u.stack[b] = f.stack[b]
  BY <1>2, <1>3, WithStackIs
<1>. HIDE DEF u
<1>5. Unrooted(u, c)
  BY <1>2, <1>4 DEF Unrooted, RootOf, LiveTag, Root, Gone
<1>6. Rooted(u)
  <2>1. ASSUME NEW b \in Level, b # c, u.stack[b] = <<>> PROVE Unrooted(u, b)
    <3>1. v.stack[b] = <<>>
      BY <1>2, <1>4, <2>1
    <3>2. Unrooted(v, b)
      BY <3>1 DEF Ok, Rooted
    <3>. QED
      BY <1>2, <1>4, <3>2 DEF Unrooted, RootOf, Root, Gone
  <2>. QED
    BY <1>5, <2>1 DEF Rooted
<1>7. \A b \in Level : Uncommitted(u, b) \subseteq Uncommitted(v, b)
  <2>1. Uncommitted(u, c) = {}
    BY <1>3, <1>4, InUncommitted
  <2>. QED
    BY <1>2, <1>4, <2>1, SameStack
<1>8. Quiet(v, u)
  <2>1. \A s \in Level : v.session[s].conn = 0 =>
            u.session[s].join = v.session[s].join /\ u.session[s].nested = v.session[s].nested
    BY <1>2, <1>4, MaxDepthAssumption DEF Level
  <2>2. \A d \in Level : u.handle[d].conn = v.handle[d].conn /\ u.handle[d].tag \in {v.handle[d].tag, Gone}
    BY <1>2, <1>4
  <2>. QED
    BY <1>2, <1>4, <1>6, <1>7, <2>1, <2>2, QuietFields
<1>9. K \subseteq Row /\ v.committed \subseteq Row
  <2>1. v.committed \subseteq Row /\ v.stack[c] \in Stack
    BY <1>0, WorldFields
  <2>2. ASSUME NEW r \in K PROVE r \in Row
    <3>1. PICK j \in 1 .. Len(v.stack[c]) : r \in v.stack[c][j].rows
      BY <2>2, InUncommitted
    <3>2. v.stack[c][j] \in Layer
      BY <2>1 DEF Stack
    <3>. QED
      BY <3>1, <3>2 DEF Layer
  <2>. QED
    BY <2>1, <2>2
<1>10. /\ w \in World
       /\ w.session = u.session /\ w.auto = u.auto /\ w.handle = u.handle
       /\ w.stack = u.stack /\ w.committed = v.committed \cup K
  <2>1. u.committed = v.committed /\ v.committed \cup K \in SUBSET Row
    BY <1>2, <1>4, <1>9
  <2>2. w = [u EXCEPT !.committed = v.committed \cup K]
    BY <2>1
  <2>. HIDE DEF w
  <2>. QED
    BY <1>4, <2>1, <2>2, WithCommittedIs
<1>. HIDE DEF w
<1>11. Ok(u) /\ Same(v, u) /\ Moved(v, u, 0, {})
  BY <1>8 DEF Quiet, Works
<1>12. Ok(w) /\ Same(v, w)
  BY <1>10, <1>11 DEF Ok, Same, Rooted, Unrooted, Pendings
<1>13. Unrooted(w, c)
  BY <1>5, <1>10 DEF Unrooted
<1>14. \A b \in Level : Uncommitted(w, b) = Uncommitted(u, b)
  BY <1>10, SameStack
<1>15. Held(w) \subseteq Held(v)
  <2>. SUFFICES ASSUME NEW r \in Held(w) PROVE r \in Held(v)
    OBVIOUS
  <2>1. r \in w.committed \/ \E b \in Level : r \in Uncommitted(w, b)
    BY <1>10, InHeld
  <2>2. r \in v.committed \/ \E b \in Level : r \in Uncommitted(v, b)
    BY <1>7, <1>10, <1>14, <2>1
  <2>. QED
    BY <1>0, <2>2, InHeld
<1>16. Moved(v, w, c, {})
  <2>1. /\ \A s \in Level : w.session[s].pending \subseteq v.session[s].pending
        /\ \A d, b \in Level : RootOf(w.handle[d], b) => RootOf(v.handle[d], b)
        /\ w.auto \subseteq v.auto
    BY <1>10, <1>11 DEF Moved
  <2>2. \A s, b \in Level : Holds(w, s, b) => Holds(v, s, b) \/ Unrooted(w, b)
    BY <1>10, <1>11 DEF Moved, Holds, Unrooted
  <2>. QED
    BY <1>7, <1>10, <1>13, <1>14, <1>15, <2>1, <2>2 DEF Moved
<1>17. K = {} => Quiet(v, w)
  <2>. SUFFICES ASSUME K = {} PROVE Quiet(v, w)
    OBVIOUS
  <2>1. w.committed = u.committed
    BY <1>2, <1>4, <1>10
  <2>2. /\ \A s \in Level : w.session[s].pending \subseteq v.session[s].pending
        /\ \A d, b \in Level : RootOf(w.handle[d], b) => RootOf(v.handle[d], b)
        /\ w.auto \subseteq v.auto
    BY <1>10, <1>11 DEF Moved
  <2>3. \A s, b \in Level : Holds(w, s, b) => Holds(v, s, b) \/ Unrooted(w, b)
    BY <1>10, <1>11 DEF Moved, Holds, Unrooted
  <2>4. Moved(v, w, 0, {})
    BY <1>2, <1>4, <1>7, <1>14, <1>15, <2>1, <2>2, <2>3 DEF Moved
  <2>. QED
    BY <1>12, <2>4 DEF Quiet, Works
<1>. QED
  BY <1>1, <1>10, <1>12, <1>13, <1>16, <1>17 DEF Works

\* Undo() loses rows, whatever it ends.
LEMMA Undoes ==
    ASSUME NEW v, Ok(v), NEW c, NEW t, c \in Level \/ t \in {NoTag, Gone}
    PROVE  Quiet(v, Undo(v, c, t)) /\ Undo(v, c, t).committed = v.committed
<1>1. CASE t = Root
  <2>1. c \in Level /\ Undo(v, c, t) = EndRoot(v, c, {})
    BY <1>1 DEF Undo, Root, NoTag, Gone
  <2>. QED
    BY <2>1, EndsRoot
<1>2. CASE t \in {NoTag, Gone}
  <2>1. Undo(v, c, t) = v
    BY <1>2 DEF Undo, Root, NoTag, Gone
  <2>. QED
    BY <2>1, QuietSelf
<1>3. CASE t \notin {Root, NoTag, Gone}
  <2>1. c \in Level /\ Undo(v, c, t) = RollbackTo(v, c, t)
    BY <1>3 DEF Undo
  <2>. QED
    BY <1>3, <2>1, RollsBackTo
<1>. QED
  BY <1>1, <1>2, <1>3

\* Keep() makes rows permanent on the end of a root only.
LEMMA Keeping ==
    ASSUME NEW v, Ok(v), NEW c \in Level, NEW t
    PROVE  /\ Works(v, Keep(v, c, t), c, {})
           /\ t # Root => Keep(v, c, t).committed = v.committed
<1>1. CASE t = Root
  BY <1>1, EndsRoot DEF Keep
<1>2. CASE t # Root
  <2>1. Keep(v, c, t) = Release(v, c, t)
    BY <1>2 DEF Keep
  <2>2. Quiet(v, Release(v, c, t)) /\ Release(v, c, t).committed = v.committed
    BY <1>2, Releases
  <2>. QED
    BY <2>1, <2>2, MovedMore DEF Quiet, Works
<1>. QED
  BY <1>1, <1>2

\* A connection goes back to the pool without its rows and without autocommit.
LEMMA ClosesConnection ==
    ASSUME NEW v, Ok(v), NEW c \in Level
    PROVE  LET w == CloseConnection(v, c)
           IN /\ Ok(w) /\ Moved(v, w, 0, {}) /\ w.auto = v.auto \ {c}
              /\ w.committed = v.committed
              /\ \A s \in Level : w.session[s].mode = v.session[s].mode /\ w.session[s].conn = v.session[s].conn
              /\ \A d \in Level : w.handle[d].conn = v.handle[d].conn /\ w.handle[d].tag \in {v.handle[d].tag, Gone}
<1>. DEFINE u == EndRoot(v, c, {})
            w == [u EXCEPT !.auto = @ \ {c}]
<1>1. CloseConnection(v, c) = w
  BY DEF CloseConnection
<1>2. Ok(u) /\ Same(v, u) /\ Moved(v, u, 0, {}) /\ u.committed = v.committed
  <2>1. Quiet(v, u) /\ u.committed = v.committed \cup {}
    BY EndsRoot
  <2>. HIDE DEF u
  <2>. QED
    BY <2>1 DEF Quiet, Works
<1>. HIDE DEF u
<1>3. u \in World /\ u.auto = v.auto
  BY <1>2 DEF Ok, Same
<1>4. /\ w \in World /\ w.session = u.session /\ w.handle = u.handle /\ w.stack = u.stack
      /\ w.committed = u.committed /\ w.auto = u.auto \ {c}
  BY <1>3 DEF World
<1>. HIDE DEF w
<1>5. Ok(w)
  BY <1>2, <1>4 DEF Ok, Rooted, Unrooted, Pendings
<1>6. \A b \in Level : Uncommitted(w, b) = Uncommitted(u, b)
  BY <1>4, SameStack
<1>7. Held(w) = Held(u)
  BY <1>3, <1>4, <1>6, InHeld
<1>8. \A s, b \in Level : Holds(w, s, b) => Holds(v, s, b) \/ Unrooted(w, b)
  BY <1>2, <1>4 DEF Moved, Holds, Unrooted
<1>9. Moved(v, w, 0, {})
  BY <1>2, <1>3, <1>4, <1>6, <1>7, <1>8 DEF Moved
<1>. QED
  BY <1>1, <1>2, <1>3, <1>4, <1>5, <1>9 DEF Same

------------------------------------------------------------------------------
\* A statement writes on its connection, for good when in autocommit.
LEMMA Writes ==
    ASSUME NEW v, Ok(v), NEW c \in Level, NEW R \in SUBSET Row
    PROVE  LET w == Write(v, c, R)
           IN /\ Ok(w) /\ w.session = v.session /\ w.handle = v.handle /\ w.auto = v.auto
              /\ \A b \in Level \ {c} : Uncommitted(w, b) = Uncommitted(v, b)
              /\ Uncommitted(w, c) \subseteq Uncommitted(v, c) \cup R
              /\ v.committed \subseteq w.committed /\ w.committed \subseteq v.committed \cup R
              /\ c \notin v.auto => w.committed = v.committed
<1>. DEFINE b == Autobegin(v, c)
<1>1. /\ Quiet(v, b) /\ b.session = v.session /\ b.handle = v.handle
      /\ b.stack[c] # <<>> /\ b.committed = v.committed /\ b.auto = v.auto
      /\ \A a \in Level \ {c} : b.stack[a] = v.stack[a]
      /\ Uncommitted(b, c) = Uncommitted(v, c)
  BY Begins
<1>2. Ok(b) /\ b \in World
  BY <1>1 DEF Quiet, Works, Ok
<1>3. \A a \in Level : Uncommitted(b, a) = Uncommitted(v, a)
  BY <1>1, SameStack
<1>4. CASE c \in v.auto
  <2>. DEFINE w == [b EXCEPT !.committed = @ \cup R]
  <2>1. Write(v, c, R) = w
    BY <1>4 DEF Write
  <2>. HIDE DEF b
  <2>2. b.committed \cup R \in SUBSET Row
    BY <1>2, WorldFields
  <2>3. w = [b EXCEPT !.committed = b.committed \cup R]
    OBVIOUS
  <2>. HIDE DEF w
  <2>4. /\ w \in World
        /\ w.session = b.session /\ w.auto = b.auto /\ w.handle = b.handle
        /\ w.stack = b.stack /\ w.committed = b.committed \cup R
    BY <1>2, <2>2, <2>3, WithCommittedIs
  <2>5. Ok(w)
    BY <1>2, <2>4 DEF Ok, Rooted, Unrooted, Pendings
  <2>6. \A a \in Level : Uncommitted(w, a) = Uncommitted(v, a)
    BY <1>3, <2>4, SameStack
  <2>. QED
    BY <1>1, <1>4, <2>1, <2>4, <2>5, <2>6
<1>5. CASE c \notin v.auto
  <2>. DEFINE st == b.stack[c]
              n == Len(st)
              top == [st[n] EXCEPT !.rows = @ \cup R]
              new == [st EXCEPT ![n] = top]
              w == [b EXCEPT !.stack[c] = new]
  <2>1. Write(v, c, R) = w
    BY <1>5 DEF Write
  <2>2. st \in Stack /\ st # <<>>
    BY <1>1, <1>2, WorldFields
  <2>. HIDE DEF st, b
  <2>3. st \in Seq(Layer) /\ n \in Nat \ {0} /\ st[1].tag = Root /\ st[n] \in Layer
    BY <2>2 DEF Stack
  <2>4. top \in Layer /\ top.tag = st[n].tag /\ top.rows = st[n].rows \cup R
    BY <2>3 DEF Layer
  <2>. HIDE DEF top
  <2>5. /\ new \in Seq(Layer) /\ Len(new) = n
        /\ \A j \in 1 .. n : new[j] = IF j = n THEN top ELSE st[j]
    BY <2>3, <2>4, ExceptSeq
  <2>. HIDE DEF new
  <2>6. new \in Stack /\ new # <<>>
    BY <2>3, <2>4, <2>5 DEF Stack
  <2>7. /\ w \in World
        /\ w.session = b.session /\ w.auto = b.auto /\ w.handle = b.handle
        /\ w.committed = b.committed
        /\ w.stack[c] = new /\ \A a \in Level \ {c} : w.stack[a] = b.stack[a]
    BY <1>2, <2>6, WithStackIs
  <2>. HIDE DEF w
  <2>8. Ok(w)
    <3>1. Rooted(w)
      BY <1>2, <2>6, <2>7 DEF Ok, Rooted, Unrooted
    <3>. QED
      BY <1>2, <2>7, <3>1 DEF Ok, Pendings
  <2>9. \A a \in Level \ {c} : Uncommitted(w, a) = Uncommitted(v, a)
    BY <1>3, <2>7, SameStack
  <2>10. Uncommitted(w, c) \subseteq Uncommitted(v, c) \cup R
    <3>. SUFFICES ASSUME NEW r \in Uncommitted(w, c), r \notin R PROVE r \in Uncommitted(b, c)
      BY <1>3
    <3>1. PICK j \in 1 .. n : r \in new[j].rows
      BY <2>5, <2>7, InUncommitted
    <3>2. r \in st[j].rows
      BY <2>4, <2>5, <3>1
    <3>. QED
      BY <3>2, InUncommitted DEF st
  <2>. QED
    BY <1>1, <1>5, <2>1, <2>7, <2>8, <2>9, <2>10
<1>. QED
  BY <1>4, <1>5

\* A statement is a move of the rows it writes.
LEMMA WritesWork ==
    ASSUME NEW v, Ok(v), NEW c \in Level, NEW R \in SUBSET Row,
           \A s \in Level : v.session[s].pending \cap R = {}
    PROVE  Works(v, Write(v, c, R), c, R)
<1>. DEFINE w == Write(v, c, R)
<1>1. /\ Ok(w) /\ w.session = v.session /\ w.handle = v.handle /\ w.auto = v.auto
      /\ \A b \in Level \ {c} : Uncommitted(w, b) = Uncommitted(v, b)
      /\ Uncommitted(w, c) \subseteq Uncommitted(v, c) \cup R
      /\ v.committed \subseteq w.committed /\ w.committed \subseteq v.committed \cup R
      /\ c \notin v.auto => w.committed = v.committed
  BY Writes
<1>. HIDE DEF w
<1>2. v \in World /\ w \in World
  BY <1>1 DEF Ok
<1>3. Held(w) \subseteq Held(v) \cup R
  <2>. SUFFICES ASSUME NEW r \in Held(w), r \notin R PROVE r \in Held(v)
    OBVIOUS
  <2>1. r \in w.committed \/ \E b \in Level : r \in Uncommitted(w, b)
    BY <1>2, InHeld
  <2>2. r \in v.committed \/ \E b \in Level : r \in Uncommitted(v, b)
    BY <1>1, <2>1
  <2>. QED
    BY <1>2, <2>2, InHeld
<1>4. Same(v, w)
  BY <1>1 DEF Same
<1>5. \A s, b \in Level : Holds(w, s, b) => Holds(v, s, b)
  BY <1>1 DEF Holds
<1>6. Moved(v, w, c, R)
  BY <1>1, <1>3, <1>5 DEF Moved
<1>. QED
  BY <1>1, <1>4, <1>6 DEF Works, w

\* y is session x after it joined transaction t.
JoinsAs(x, y, t) == /\ y \in Session /\ y.join = t
                    /\ y.mode = x.mode /\ y.conn = x.conn /\ y.pending = x.pending
                    /\ y.nested = x.nested

\* The record JoinSession() writes.
LEMMA JoinedIs ==
    ASSUME NEW x \in Session, NEW t \in Tag
    PROVE  /\ JoinsAs(x, [x EXCEPT !.begun = TRUE, !.join = t, !.commits = TRUE], t)
           /\ LET y == [x EXCEPT !.begun = TRUE, !.join = t, !.commits = FALSE]
              IN JoinsAs(x, y, t) /\ ~y.commits
<1>. DEFINE a == [x EXCEPT !.begun = TRUE]
            b == [a EXCEPT !.join = t]
            y == [b EXCEPT !.commits = TRUE]
            z == [b EXCEPT !.commits = FALSE]
<1>1. /\ [x EXCEPT !.begun = TRUE, !.join = t, !.commits = TRUE] = y
      /\ [x EXCEPT !.begun = TRUE, !.join = t, !.commits = FALSE] = z
  BY Zenon
<1>2. /\ a \in Session /\ a.mode = x.mode /\ a.conn = x.conn /\ a.pending = x.pending
      /\ a.nested = x.nested
  BY DEF Session
<1>. HIDE DEF a
<1>3. /\ b \in Session /\ b.mode = x.mode /\ b.conn = x.conn /\ b.pending = x.pending
      /\ b.nested = x.nested /\ b.join = t
  BY <1>2 DEF Session
<1>. HIDE DEF b
<1>4. JoinsAs(x, y, t)
  BY <1>3 DEF Session, JoinsAs
<1>5. JoinsAs(x, z, t) /\ ~z.commits
  BY <1>3 DEF Session, JoinsAs
<1>. QED
  BY <1>1, <1>4, <1>5

\* A session joins without moving a row; if it takes hold of a root, no block does.
LEMMA JoinsSession ==
    ASSUME NEW v, Ok(v), NEW s \in Level, v.session[s].conn # 0
    PROVE  LET w == JoinSession(v, s)
           IN /\ Quiet(v, w) /\ NestedKept(v, w) /\ RootsKept(v, w) /\ w.committed = v.committed
              /\ \A a \in Level : w.session[a].pending = v.session[a].pending
                                 /\ w.session[a].nested = v.session[a].nested
<1>. DEFINE x == v.session[s]
            c == x.conn
            Joined(u, y) == [u EXCEPT !.session[s] = y]
            Owns(t) == [x EXCEPT !.begun = TRUE, !.join = t, !.commits = TRUE]
            Shares(t) == [x EXCEPT !.begun = TRUE, !.join = t, !.commits = FALSE]
            isolates == \/ x.mode = "create_savepoint"
                        \/ x.mode = "conditional_savepoint" /\ InNested(v, c)
            Good(w) == /\ Quiet(v, w) /\ NestedKept(v, w) /\ RootsKept(v, w)
                       /\ w.committed = v.committed
                       /\ \A a \in Level : w.session[a].pending = v.session[a].pending
                                          /\ w.session[a].nested = v.session[a].nested
<1>1. v \in World /\ x \in Session
  BY WorldFields DEF Ok
<1>2. c \in Level
  BY <1>1 DEF Session, Level
<1>3. ASSUME NEW u, Quiet(v, u), u.session = v.session, u.handle = v.handle,
             u.committed = v.committed, NEW t, NEW y, JoinsAs(x, y, t),
             (y.commits /\ t = Root) => Unrooted(u, c)
      PROVE  Good([u EXCEPT !.session[s] = y])
  <2>. DEFINE w == [u EXCEPT !.session[s] = y]
  <2>1. Ok(u) /\ u.session[s] = x /\ u \in World
    BY <1>3 DEF Quiet, Works, Ok
  <2>2. /\ y \in Session /\ y.join = t /\ y.mode = x.mode /\ y.conn = x.conn
        /\ y.pending = x.pending /\ y.nested = x.nested
    BY <1>3 DEF JoinsAs
  <2>3. SessionOk(y)
    BY <1>2, <2>2, MaxDepthAssumption DEF SessionOk, Level
  <2>4. Quiet(u, w)
    BY <1>3, <2>1, <2>2, <2>3, QuietSession
  <2>5. /\ w.handle = u.handle /\ w.committed = u.committed
        /\ w.session[s] = y /\ \A a \in Level \ {s} : w.session[a] = u.session[a]
    BY <2>1, <2>2, WithSessionIs
  <2>. HIDE DEF w
  <2>6. Quiet(v, w)
    BY <1>3, <2>4, QuietTrans
  <2>7. NestedKept(v, w) /\ RootsKept(v, w)
    BY <1>3, <2>2, <2>5 DEF NestedKept, RootsKept
  <2>8. \A a \in Level : w.session[a].pending = v.session[a].pending
                       /\ w.session[a].nested = v.session[a].nested
    BY <1>3, <2>2, <2>5
  <2>9. Good(w)
    BY <1>3, <2>5, <2>6, <2>7, <2>8
  <2>. QED
    BY <2>9 DEF w
<1>4. CASE x.join # NoTag
  <2>1. JoinSession(v, s) = Autobegin(v, c)
    BY <1>4 DEF JoinSession
  <2>. QED
    BY <1>2, <2>1, Begins, SameKept
<1>5. CASE x.join = NoTag /\ ~InTransaction(v, c)
  <2>. DEFINE u == Autobegin(v, c)
  <2>1. /\ Quiet(v, u) /\ u.session = v.session /\ u.handle = v.handle
        /\ u.committed = v.committed
    BY <1>2, Begins
  <2>2. JoinSession(v, s) = [u EXCEPT !.session[s] = Owns(Root)]
    BY <1>5, <2>1 DEF JoinSession
  <2>. HIDE DEF u
  <2>3. Unrooted(u, c)
    BY <1>2, <1>5, <2>1 DEF Ok, Rooted, InTransaction, Unrooted
  <2>4. Root \in Tag
    BY DEF Tag, LiveTag
  <2>5. JoinsAs(x, Owns(Root), Root)
    BY <1>1, <2>4, JoinedIs
  <2>. HIDE DEF Good, Owns
  <2>6. Good([u EXCEPT !.session[s] = Owns(Root)])
    BY <1>3, <2>1, <2>3, <2>5
  <2>. QED
    BY <2>2, <2>6 DEF Good
<1>6. CASE x.join = NoTag /\ InTransaction(v, c) /\ isolates
  <2>. DEFINE t == SessionTag(s)
              u == TakeSavepoint(v, c, t)
  <2>1. t \in LiveTag /\ t \in Tag /\ t # Root
    BY DEF Tag, LiveTag, SessionTag, Root
  <2>2. /\ Quiet(v, u) /\ u.session = v.session /\ u.handle = v.handle
        /\ u.committed = v.committed
    BY <1>2, <2>1, Savepoints
  <2>3. JoinSession(v, s) = [u EXCEPT !.session[s] = Owns(t)]
    BY <1>6, <2>2 DEF JoinSession
  <2>4. JoinsAs(x, Owns(t), t)
    BY <1>1, <2>1, JoinedIs
  <2>. HIDE DEF u, Good, Owns, t
  <2>5. Good([u EXCEPT !.session[s] = Owns(t)])
    BY <1>3, <2>1, <2>2, <2>4
  <2>. QED
    BY <2>3, <2>5 DEF Good
<1>7. CASE x.join = NoTag /\ InTransaction(v, c) /\ ~isolates
  <2>. DEFINE t == TopTag(v, c)
  <2>1. JoinSession(v, s) = [v EXCEPT !.session[s] = Shares(t)]
    BY <1>7 DEF JoinSession
  <2>2. t \in Tag
    <3>1. v.stack[c] \in Stack /\ v.stack[c] # <<>>
      BY <1>1, <1>2, <1>7, WorldFields DEF InTransaction
    <3>2. v.stack[c][Len(v.stack[c])] \in Layer
      BY <3>1 DEF Stack
    <3>. QED
      BY <3>2 DEF TopTag, Layer, Tag
  <2>3. Quiet(v, v)
    BY QuietSelf
  <2>4. JoinsAs(x, Shares(t), t) /\ ~Shares(t).commits
    BY <1>1, <2>2, JoinedIs
  <2>. HIDE DEF Good, Shares, t
  <2>5. Good([v EXCEPT !.session[s] = Shares(t)])
    BY <1>3, <2>3, <2>4
  <2>. QED
    BY <2>1, <2>5 DEF Good
<1>. QED
  BY <1>4, <1>5, <1>6, <1>7

------------------------------------------------------------------------------
\* A flush writes what is pending to the connection of the session.
LEMMA FlushesSession ==
    ASSUME NEW v, Ok(v), NEW s \in Level,
           v.session[s].conn # 0 \/ v.session[s].pending = {}
    PROVE  LET w == FlushSession(v, s)
               k == v.session[s].conn
           IN /\ Works(v, w, k, v.session[s].pending) /\ NestedKept(v, w) /\ RootsKept(v, w)
              /\ k \notin v.auto => w.committed = v.committed
              /\ \A a \in Level : w.session[a].nested = v.session[a].nested
              /\ w.session[s].pending = {}
<1>. DEFINE x == v.session[s]
            k == x.conn
            N == x.pending
<1>1. CASE N = {}
  <2>1. FlushSession(v, s) = v
    BY <1>1 DEF FlushSession
  <2>2. Works(v, v, k, N)
    BY QuietSelf, MovedMore DEF Quiet, Works
  <2>. QED
    BY <1>1, <2>1, <2>2, QuietSelf
<1>2. CASE N # {}
  <2>. DEFINE j == JoinSession(v, s)
              q == Write(j, k, N)
              y == [q.session[s] EXCEPT !.pending = {}]
              w == [q EXCEPT !.session[s] = y]
  <2>1. v \in World /\ x \in Session /\ k # 0
    BY <1>2, WorldFields DEF Ok
  <2>2. k \in Level /\ N \in SUBSET Row
    BY <2>1 DEF Session, Level
  <2>3. FlushSession(v, s) = w
    BY <1>2 DEF FlushSession
  <2>4. /\ Quiet(v, j) /\ NestedKept(v, j) /\ RootsKept(v, j) /\ j.committed = v.committed
        /\ \A a \in Level : j.session[a].pending = v.session[a].pending
                           /\ j.session[a].nested = v.session[a].nested
    BY <2>1, JoinsSession
  <2>. HIDE DEF j
  <2>5. Ok(j) /\ Same(v, j) /\ Moved(v, j, 0, {}) /\ j \in World
    BY <2>4 DEF Quiet, Works, Ok
  <2>6. /\ Ok(q) /\ q.session = j.session /\ q.handle = j.handle /\ q.auto = j.auto
        /\ \A b \in Level \ {k} : Uncommitted(q, b) = Uncommitted(j, b)
        /\ Uncommitted(q, k) \subseteq Uncommitted(j, k) \cup N
        /\ j.committed \subseteq q.committed /\ q.committed \subseteq j.committed \cup N
        /\ k \notin j.auto => q.committed = j.committed
    BY <2>2, <2>5, Writes
  <2>. HIDE DEF q
  <2>7. q \in World /\ q.session[s] \in Session
    BY <2>6, WorldFields DEF Ok
  <2>8. /\ y \in Session /\ y.pending = {} /\ y.mode = q.session[s].mode
        /\ y.conn = q.session[s].conn /\ y.commits = q.session[s].commits
        /\ y.join = q.session[s].join /\ y.nested = q.session[s].nested
    BY <2>7 DEF Session
  <2>. HIDE DEF y
  <2>9. /\ w \in World
        /\ w.stack = q.stack /\ w.auto = q.auto /\ w.handle = q.handle
        /\ w.committed = q.committed
        /\ w.session[s] = y /\ \A t \in Level \ {s} : w.session[t] = q.session[t]
    BY <2>7, <2>8, WithSessionIs
  <2>. HIDE DEF w
  <2>10. \A b \in Level : Uncommitted(w, b) = Uncommitted(q, b)
    BY <2>9, SameStack
  <2>11. Ok(w)
    <3>1. \A a \in Level : SessionOk(w.session[a])
      BY <2>6, <2>8, <2>9 DEF Ok, SessionOk
    <3>2. Rooted(w)
      BY <2>6, <2>9 DEF Ok, Rooted, Unrooted
    <3>3. \A a \in Level : w.session[a].pending \subseteq q.session[a].pending
      BY <2>8, <2>9
    <3>4. Pendings(w)
      BY <2>6, <3>3 DEF Ok, Pendings
    <3>. QED
      BY <2>9, <3>1, <3>2, <3>4 DEF Ok
  <2>12. Same(v, w)
    <3>1. \A a \in Level : w.session[a].mode = j.session[a].mode /\ w.session[a].conn = j.session[a].conn
      BY <2>6, <2>8, <2>9
    <3>2. w.auto = j.auto /\ w.handle = j.handle
      BY <2>6, <2>9
    <3>. QED
      BY <2>5, <3>1, <3>2 DEF Same
  <2>13. \A a \in Level : w.session[a].nested = v.session[a].nested
    BY <2>4, <2>6, <2>8, <2>9
  <2>14. RootsKept(v, w) /\ NestedKept(v, w)
    BY <2>4, <2>6, <2>9, <2>13 DEF RootsKept, NestedKept
  <2>15. w.session[s].pending = {} /\ \A a \in Level \ {s} : w.session[a].pending = v.session[a].pending
    BY <2>4, <2>6, <2>8, <2>9
  <2>16. /\ v.committed \subseteq w.committed /\ w.committed \subseteq v.committed \cup N
         /\ k \notin v.auto => w.committed = v.committed
    BY <2>4, <2>5, <2>6, <2>9 DEF Same
  <2>17. \A b \in Level : Uncommitted(w, b) \subseteq Uncommitted(v, b) \cup (IF b = k THEN N ELSE {})
    <3>1. \A b \in Level : Uncommitted(j, b) \subseteq Uncommitted(v, b)
      BY <2>5 DEF Moved
    <3>. QED
      BY <2>6, <2>10, <3>1
  <2>18. Held(w) \subseteq Held(v) \cup N
    <3>. SUFFICES ASSUME NEW r \in Held(w), r \notin N PROVE r \in Held(v)
      OBVIOUS
    <3>1. r \in w.committed \/ \E b \in Level : r \in Uncommitted(w, b)
      BY <2>9, InHeld
    <3>2. r \in v.committed \/ \E b \in Level : r \in Uncommitted(v, b)
      BY <2>16, <2>17, <3>1
    <3>. QED
      BY <2>1, <3>2, InHeld
  <2>19. \A a \in Level : w.session[a].pending \cap N = {}
    BY <2>15 DEF Ok, Pendings
  <2>20. \A a, b \in Level : Holds(w, a, b) => Holds(v, a, b) \/ Unrooted(w, b)
    <3>1. \A a, b \in Level : Holds(w, a, b) => Holds(j, a, b)
      BY <2>6, <2>8, <2>9 DEF Holds
    <3>2. \A b \in Level : Unrooted(j, b) => Unrooted(w, b)
      BY <2>6, <2>9 DEF Unrooted
    <3>. QED
      BY <2>5, <3>1, <3>2 DEF Moved
  <2>21. \A d, c \in Level : RootOf(w.handle[d], c) => RootOf(v.handle[d], c)
    BY <2>5, <2>6, <2>9 DEF Moved
  <2>22. w.auto \subseteq v.auto
    BY <2>12 DEF Same
  <2>23. \A a \in Level : w.session[a].pending \subseteq v.session[a].pending
    BY <2>15
  <2>24. Moved(v, w, k, N)
    BY <2>2, <2>16, <2>17, <2>18, <2>19, <2>20, <2>21, <2>22, <2>23 DEF Moved
  <2>. QED
    BY <2>3, <2>11, <2>12, <2>13, <2>14, <2>15, <2>16, <2>24 DEF Works
<1>. QED
  BY <1>1, <1>2

\* Marking savepoints as ended moves no row.
LEMMA Forgets ==
    ASSUME NEW v, Ok(v), NEW c \in Level, NEW E, Root \notin E
    PROVE  LET w == Forget(v, c, E)
           IN Quiet(v, w) /\ NestedKept(v, w) /\ RootsKept(v, w) /\ w.committed = v.committed
<1>. DEFINE w == Forget(v, c, E)
<1>0. v \in World
  BY DEF Ok
<1>1. /\ w \in World
      /\ w.stack = v.stack /\ w.auto = v.auto /\ w.committed = v.committed
      /\ \A s \in Level :
            LET x == v.session[s]  y == w.session[s]
            IN /\ y.mode = x.mode /\ y.conn = x.conn /\ y.commits = x.commits
               /\ y.pending = x.pending
               /\ y.join \in {x.join, Gone}
               /\ x.conn # c => y = x
               /\ Len(y.nested) = Len(x.nested)
      /\ \A d \in Level :
            LET h == v.handle[d]  k == w.handle[d]
            IN k.conn = h.conn /\ k.tag = IF h.conn = c /\ h.tag \in E THEN Gone ELSE h.tag
  BY <1>0, ForgetIs
<1>. HIDE DEF w
<1>2. \A b \in Level : Uncommitted(w, b) \subseteq Uncommitted(v, b)
  BY <1>1, SameStack
<1>3. \A s \in Level : v.session[s].conn = 0 =>
            w.session[s].join = v.session[s].join /\ w.session[s].nested = v.session[s].nested
  BY <1>1, MaxDepthAssumption DEF Level
<1>4. Rooted(w)
  <2>1. ASSUME NEW b \in Level, w.stack[b] = <<>> PROVE Unrooted(w, b)
    <3>1. Unrooted(v, b)
      BY <1>1, <2>1 DEF Ok, Rooted
    <3>. QED
      BY <1>1, <3>1 DEF Unrooted, RootOf, Root, Gone
  <2>. QED
    BY <2>1 DEF Rooted
<1>5. \A d \in Level : w.handle[d].conn = v.handle[d].conn /\ w.handle[d].tag \in {v.handle[d].tag, Gone}
  BY <1>1
<1>6. Quiet(v, w)
  BY <1>1, <1>2, <1>3, <1>4, <1>5, QuietFields
<1>7. NestedKept(v, w) /\ RootsKept(v, w)
  BY <1>1 DEF NestedKept, RootsKept, RootOf
<1>. QED
  BY <1>1, <1>6, <1>7 DEF w

\* A session that starts over, or stopped half way, moves no row.
LEMMA Resets ==
    ASSUME NEW v, Ok(v), NEW s \in Level
    PROVE  /\ Quiet(v, Reset(v, s)) /\ Reset(v, s).committed = v.committed
           /\ Quiet(v, Stuck(v, s)) /\ Stuck(v, s).committed = v.committed
<1>. DEFINE x == v.session[s]
            y == NewSession(x.mode, x.conn)
            z == [x EXCEPT !.stuck = TRUE]
<1>1. v \in World /\ x \in Session
  BY WorldFields DEF Ok
<1>2. Reset(v, s) = [v EXCEPT !.session[s] = y] /\ Stuck(v, s) = [v EXCEPT !.session[s] = z]
  BY DEF Reset, Stuck
<1>3. /\ y \in Session /\ y.mode = x.mode /\ y.conn = x.conn /\ ~y.commits /\ y.pending = {}
      /\ y.join = NoTag /\ y.nested = <<>>
  <2>1. NoSession \in Session /\ NoSession.pending = {} /\ ~NoSession.commits /\ NoSession.join = NoTag
        /\ NoSession.nested = <<>>
    BY MaxDepthAssumption DEF NoSession, Session, Modes, Tag
  <2>2. x.mode \in Modes /\ x.conn \in 0 .. MaxDepth
    BY <1>1 DEF Session
  <2>. DEFINE a == [NoSession EXCEPT !.mode = x.mode]
  <2>3. y = [a EXCEPT !.conn = x.conn]
    BY Zenon DEF NewSession
  <2>4. /\ a \in Session /\ a.mode = x.mode /\ ~a.commits /\ a.pending = {}
        /\ a.join = NoTag /\ a.nested = <<>>
    BY <2>1, <2>2 DEF Session
  <2>. HIDE DEF a, x
  <2>. QED
    BY <2>2, <2>3, <2>4 DEF Session
<1>4. /\ z \in Session /\ z.mode = x.mode /\ z.conn = x.conn /\ z.pending = x.pending
      /\ z.join = x.join /\ z.nested = x.nested /\ z.commits = x.commits
  BY <1>1 DEF Session
<1>5. SessionOk(x)
  BY DEF Ok
<1>. HIDE DEF y, z
<1>6. Quiet(v, [v EXCEPT !.session[s] = y])
  BY <1>3, QuietSession DEF SessionOk
<1>7. Quiet(v, [v EXCEPT !.session[s] = z])
  BY <1>4, <1>5, QuietSession DEF SessionOk
<1>8. /\ [v EXCEPT !.session[s] = y].committed = v.committed
      /\ [v EXCEPT !.session[s] = z].committed = v.committed
  BY <1>1, <1>3, <1>4, WithSessionIs
<1>. QED
  BY <1>2, <1>6, <1>7, <1>8

------------------------------------------------------------------------------
\* The stack of begin_nested() of a session is no row.
LEMMA CutsNested ==
    ASSUME NEW v, Ok(v), NEW s \in Level, NEW q \in Seq(NestedSet), v.session[s].conn # 0
    PROVE  LET w == [v EXCEPT !.session[s].nested = q]
           IN Quiet(v, w) /\ RootsKept(v, w) /\ w.committed = v.committed
<1>. DEFINE x == v.session[s]
            y == [x EXCEPT !.nested = q]
<1>1. v \in World /\ x \in Session
  BY WorldFields DEF Ok
<1>2. [v EXCEPT !.session[s].nested = q] = [v EXCEPT !.session[s] = y]
  OBVIOUS
<1>3. /\ y \in Session /\ y.mode = x.mode /\ y.conn = x.conn /\ y.pending = x.pending
      /\ y.join = x.join /\ y.commits = x.commits
  BY <1>1 DEF Session, NestedSet
<1>. HIDE DEF y
<1>. DEFINE w == [v EXCEPT !.session[s] = y]
<1>4. Quiet(v, w)
  BY <1>3, QuietSession DEF SessionOk
<1>5. w.committed = v.committed /\ w.handle = v.handle
  BY <1>1, <1>3, WithSessionIs
<1>. HIDE DEF w
<1>6. Quiet(v, w) /\ RootsKept(v, w) /\ w.committed = v.committed
  BY <1>4, <1>5, SameKept
<1>. QED
  BY <1>2, <1>6 DEF w

\* The stack of begin_nested() of a session, and the connection it needs.
LEMMA SessionNested ==
    ASSUME NEW v, Ok(v), NEW s \in Level
    PROVE  LET x == v.session[s]  n == Len(x.nested)
           IN /\ x \in Session /\ n \in Nat /\ DOMAIN x.nested = 1 .. n
              /\ x.nested \in Seq(NestedSet)
              /\ \A i \in 1 .. n : x.nested[i] \in NestedSet
              /\ n > 0 => x.conn \in Level
              /\ x.conn # 0 => x.conn \in Level
<1>. DEFINE x == v.session[s]
<1>1. x \in Session /\ SessionOk(x)
  BY WorldFields DEF Ok
<1>. HIDE DEF x
<1>2. x.nested \in Seq(NestedSet) /\ x.conn \in 0 .. MaxDepth
  BY <1>1 DEF Session, NestedSet
<1>3. x.nested = <<>> => Len(x.nested) = 0
  OBVIOUS
<1>4. /\ Len(x.nested) \in Nat /\ DOMAIN x.nested = 1 .. Len(x.nested)
      /\ \A i \in 1 .. Len(x.nested) : x.nested[i] \in NestedSet
  BY <1>2
<1>. QED
  BY <1>1, <1>2, <1>3, <1>4 DEF SessionOk, Level, x

\* A part of it is one.
LEMMA PartOfNested ==
    ASSUME NEW q \in Seq(NestedSet), NEW i \in 1 .. Len(q)
    PROVE  SubSeq(q, 1, i - 1) \in Seq(NestedSet)
<1>1. \A j \in 1 .. i - 1 : q[j] \in NestedSet
  OBVIOUS
<1>. QED
  BY <1>1, SubSeqProperties

\* What commit() raises on is a member of that stack, or none.
LEMMA FailingIs ==
    ASSUME NEW v, Ok(v), NEW s \in Level
    PROVE  Failing(v, s) \in 0 .. Len(v.session[s].nested)
<1>. DEFINE x == v.session[s]
            S == {0} \cup {i \in DOMAIN x.nested : HasEnded(v, s, i)}
<1>1. Failing(v, s) = Max(S)
  BY DEF Failing
<1>2. Len(x.nested) \in Nat /\ DOMAIN x.nested = 1 .. Len(x.nested)
  BY SessionNested
<1>3. S \in SUBSET (0 .. Len(x.nested)) /\ S # {}
  BY <1>2
<1>. HIDE DEF S
<1>. QED
  BY <1>1, <1>2, <1>3, MaxIsLast

\* The release of the nested transactions of a session is quiet.
LEMMA ReleasesNested ==
    ASSUME NEW v, Ok(v), NEW s \in Level, NEW i \in 1 .. Len(v.session[s].nested) + 1
    PROVE  LET w == ReleaseNested(v, s, i)
           IN Quiet(v, w) /\ RootsKept(v, w) /\ w.committed = v.committed
<1>. DEFINE x == v.session[s]
            n == Len(x.nested)
            t == BlockTag(x.nested[i].of)
            r == Release(v, x.conn, t)
            E == {BlockTag(x.nested[j].of) : j \in i .. n}
            f == Forget(r, x.conn, E)
            q == SubSeq(f.session[s].nested, 1, i - 1)
            w == [f EXCEPT !.session[s].nested = q]
<1>1. n \in Nat /\ (n > 0 => x.conn \in Level)
  BY SessionNested
<1>2. CASE i > n
  <2>1. ReleaseNested(v, s, i) = v
    BY <1>2 DEF ReleaseNested
  <2>. QED
    BY <2>1, QuietSelf
<1>3. CASE i <= n
  <2>1. ReleaseNested(v, s, i) = w
    <3>1. ~(i > n)
      BY <1>1, <1>3
    <3>. QED
      BY <3>1, Zenon DEF ReleaseNested
  <2>2. x.conn \in Level /\ x.conn # 0 /\ i \in 1 .. n
    BY <1>1, <1>3 DEF Level
  <2>3. t # Root /\ Root \notin E
    BY DEF BlockTag, Root
  <2>4. Quiet(v, r) /\ NestedKept(v, r) /\ RootsKept(v, r) /\ r.committed = v.committed
    BY <2>2, <2>3, Releases
  <2>. HIDE DEF r, E, t
  <2>5. Ok(r)
    BY <2>4 DEF Quiet, Works
  <2>6. Quiet(r, f) /\ NestedKept(r, f) /\ RootsKept(r, f) /\ f.committed = r.committed
    BY <2>2, <2>3, <2>5, Forgets
  <2>. HIDE DEF f
  <2>7. Ok(f) /\ Quiet(v, f) /\ NestedKept(v, f) /\ RootsKept(v, f)
    BY <2>4, <2>6, QuietTrans, KeptTrans DEF Quiet, Works
  <2>8. Len(f.session[s].nested) = n /\ f.session[s].conn # 0
    BY <2>2, <2>7 DEF NestedKept, Quiet, Works, Same
  <2>9. f.session[s].nested \in Seq(NestedSet)
    BY <2>7, SessionNested
  <2>10. q \in Seq(NestedSet)
    BY <2>2, <2>8, <2>9, PartOfNested
  <2>. HIDE DEF q
  <2>11. Quiet(f, w) /\ RootsKept(f, w) /\ w.committed = f.committed
    BY <2>7, <2>8, <2>10, CutsNested
  <2>. HIDE DEF w
  <2>12. Quiet(v, w) /\ RootsKept(v, w) /\ w.committed = v.committed
    BY <2>4, <2>6, <2>7, <2>11, QuietTrans, KeptTrans
  <2>. QED
    BY <2>1, <2>12
<1>. QED
  BY <1>1, <1>2, <1>3

\* Session.commit() moves what is pending; it makes rows permanent in autocommit,
\* where no block holds the root, or where the session holds it.
LEMMA CommitsSession ==
    ASSUME NEW v, Ok(v), NEW s \in Level,
           v.session[s].conn # 0 \/ v.session[s].pending = {}
    PROVE  LET w == CommitSession(v, s)
               k == v.session[s].conn
           IN /\ Works(v, w, k, v.session[s].pending)
              /\ (k \notin v.auto /\ ~Unrooted(v, k) /\ ~Holds(v, s, k)) => w.committed = v.committed
<1>. DEFINE c == v.session[s].conn
            N == v.session[s].pending
            f == FlushSession(v, s)
            k == Failing(f, s)
            inner == ReleaseNested(f, s, k + 1)
            x == inner.session[s]
            w == CommitSession(v, s)
            Fine(u) == /\ Works(inner, u, c, {})
                       /\ (c \notin v.auto /\ ~Unrooted(v, c) /\ ~Holds(v, s, c)) => u.committed = inner.committed
<1>1. /\ Works(v, f, c, N) /\ NestedKept(v, f) /\ RootsKept(v, f)
      /\ c \notin v.auto => f.committed = v.committed
  BY FlushesSession
<1>2. w = CASE k > 0 \/ (x.commits /\ x.join = Gone) -> Stuck(inner, s)
            [] k = 0 /\ x.commits /\ x.join # Gone -> Reset(Keep(inner, x.conn, x.join), s)
            [] OTHER -> Reset(inner, s)
  BY DEF CommitSession
<1>. HIDE DEF f, w
<1>3. Ok(f) /\ Same(v, f) /\ Moved(v, f, c, N)
  BY <1>1 DEF Works
<1>4. k \in 0 .. Len(f.session[s].nested) /\ Len(f.session[s].nested) \in Nat
  BY <1>3, FailingIs, SessionNested
<1>5. Quiet(f, inner) /\ RootsKept(f, inner) /\ inner.committed = f.committed
  <2>1. k + 1 \in 1 .. Len(f.session[s].nested) + 1
    BY <1>4
  <2>. HIDE DEF k
  <2>. QED
    BY <1>3, <2>1, ReleasesNested
<1>. HIDE DEF inner, k
<1>6. Ok(inner) /\ Works(v, inner, c, N) /\ RootsKept(v, inner)
  <2>1. Works(v, inner, c, N)
    BY <1>1, <1>5, WorksTrans
  <2>2. RootsKept(v, inner)
    BY <1>1, <1>5, KeptTrans
  <2>. QED
    BY <2>1, <2>2 DEF Works
<1>7. x.conn = c
  BY <1>6 DEF Works, Same
<1>8. Quiet(inner, Stuck(inner, s)) /\ Stuck(inner, s).committed = inner.committed
  BY <1>6, Resets
<1>9. Quiet(inner, Reset(inner, s)) /\ Reset(inner, s).committed = inner.committed
  BY <1>6, Resets
<1>10. ASSUME x.commits, x.join # Gone
       PROVE  Fine(Reset(Keep(inner, x.conn, x.join), s))
  <2>. DEFINE g == Keep(inner, c, x.join)
              u == Reset(g, s)
  <2>1. c \in Level
    <3>1. c # 0
      BY <1>6, <1>7, <1>10 DEF Ok, SessionOk
    <3>2. inner.session[s].conn # 0
      BY <1>7, <3>1
    <3>. QED
      BY <1>6, <1>7, <3>2, SessionNested
  <2>2. Works(inner, g, c, {}) /\ (x.join # Root => g.committed = inner.committed)
    BY <1>6, <2>1, Keeping
  <2>. HIDE DEF g
  <2>3. Ok(g)
    BY <2>2 DEF Works
  <2>4. Quiet(g, u) /\ u.committed = g.committed
    BY <2>3, Resets
  <2>. HIDE DEF u
  <2>5. Works(inner, u, c, {})
    BY <1>6, <2>2, <2>4, WorksTrans
  <2>6. ASSUME x.join = Root, ~Unrooted(v, c), ~Holds(v, s, c) PROVE FALSE
    <3>1. Holds(inner, s, c)
      BY <1>7, <1>10, <2>6 DEF Holds
    <3>2. ~Unrooted(inner, c)
      BY <1>6, <2>1, <2>6 DEF RootsKept, Unrooted
    <3>. QED
      BY <1>6, <2>1, <2>6, <3>1, <3>2 DEF Works, Moved
  <2>7. Fine(u)
    BY <2>2, <2>4, <2>5, <2>6
  <2>. QED
    BY <1>7, <2>7 DEF u, g
<1>11. Fine(w)
  <2>1. CASE k > 0 \/ (x.commits /\ x.join = Gone)
    <3>1. w = Stuck(inner, s)
      BY <1>2, <2>1
    <3>2. Works(inner, Stuck(inner, s), c, {})
      BY <1>6, <1>8, QuietSelf, WorksTrans
    <3>. QED
      BY <1>8, <3>1, <3>2
  <2>2. CASE k = 0 /\ x.commits /\ x.join # Gone
    <3>1. w = Reset(Keep(inner, x.conn, x.join), s)
      BY <1>2, <2>2
    <3>. HIDE DEF Fine
    <3>. QED
      BY <1>10, <2>2, <3>1
  <2>3. CASE ~(k > 0 \/ (x.commits /\ x.join = Gone)) /\ ~(k = 0 /\ x.commits /\ x.join # Gone)
    <3>1. w = Reset(inner, s)
      BY <1>2, <2>3
    <3>2. Works(inner, Reset(inner, s), c, {})
      BY <1>6, <1>9, QuietSelf, WorksTrans
    <3>. QED
      BY <1>9, <3>1, <3>2
  <2>. QED
    BY <2>1, <2>2, <2>3
<1>12. Works(inner, w, c, N)
  <2>1. {} \subseteq N
    OBVIOUS
  <2>. QED
    BY <1>11, <2>1, MovedMore DEF Works
<1>13. Works(v, w, c, N)
  BY <1>6, <1>12, WorksTrans
<1>. QED
  BY <1>1, <1>5, <1>11, <1>13 DEF w

------------------------------------------------------------------------------
\* The Min of the community modules is a member, and the first.
LEMMA MinIsFirst ==
    ASSUME NEW n \in Nat, NEW S \in SUBSET (0 .. n), S # {}
    PROVE  Min(S) \in S /\ \A i \in S : Min(S) <= i
<1>1. PICK x \in S : \A y \in S : x <= y
  BY Least
<1>2. Min(S) = CHOOSE z \in S : \A y \in S : z <= y
  BY DEF Min
<1>. QED
  BY <1>1, <1>2

\* The rollback of the nested transactions of a session, from one on, is quiet.
LEMMA RollsBackFrom ==
    ASSUME NEW v, Ok(v), NEW s \in Level, NEW i \in Nat \ {0}
    PROVE  LET w == RollbackFrom(v, s, i)
           IN Quiet(v, w) /\ RootsKept(v, w) /\ w.committed = v.committed
<1>. DEFINE x == v.session[s]
            n == Len(x.nested)
            from == i .. n
            there == {j \in from : ~HasEnded(v, s, j)}
            t == BlockTag(x.nested[Min(there)].of)
            r == IF there = {} THEN v ELSE RollbackTo(v, x.conn, t)
            E == {BlockTag(x.nested[j].of) : j \in from}
            f == Forget(r, x.conn, E)
            q == SubSeq(f.session[s].nested, 1, i - 1)
            w == [f EXCEPT !.session[s].nested = q]
<1>1. n \in Nat /\ (n > 0 => x.conn \in Level)
  BY SessionNested
<1>2. CASE i > n
  <2>1. from = {}
    BY <1>1, <1>2
  <2>2. RollbackFrom(v, s, i) = v
    BY <2>1 DEF RollbackFrom
  <2>. QED
    BY <2>2, QuietSelf
<1>3. CASE i <= n
  <2>1. RollbackFrom(v, s, i) = w
    <3>1. from # {}
      BY <1>1, <1>3
    <3>. QED
      BY <3>1, Zenon DEF RollbackFrom
  <2>2. x.conn \in Level /\ x.conn # 0 /\ i \in 1 .. n
    BY <1>1, <1>3 DEF Level
  <2>3. t # Root /\ Root \notin E
    BY DEF BlockTag, Root
  <2>. HIDE DEF E, t, there
  <2>4. Quiet(v, r) /\ NestedKept(v, r) /\ RootsKept(v, r) /\ r.committed = v.committed
    <3>1. CASE there = {}
      BY <3>1, QuietSelf
    <3>2. CASE there # {}
      BY <2>2, <2>3, <3>2, RollsBackTo
    <3>. QED
      BY <3>1, <3>2
  <2>. HIDE DEF r
  <2>5. Ok(r)
    BY <2>4 DEF Quiet, Works
  <2>6. Quiet(r, f) /\ NestedKept(r, f) /\ RootsKept(r, f) /\ f.committed = r.committed
    BY <2>2, <2>3, <2>5, Forgets
  <2>. HIDE DEF f
  <2>7. Ok(f) /\ Quiet(v, f) /\ NestedKept(v, f) /\ RootsKept(v, f)
    BY <2>4, <2>6, QuietTrans, KeptTrans DEF Quiet, Works
  <2>8. Len(f.session[s].nested) = n /\ f.session[s].conn # 0
    BY <2>2, <2>7 DEF NestedKept, Quiet, Works, Same
  <2>9. f.session[s].nested \in Seq(NestedSet)
    BY <2>7, SessionNested
  <2>10. q \in Seq(NestedSet)
    BY <2>2, <2>8, <2>9, PartOfNested
  <2>. HIDE DEF q
  <2>11. Quiet(f, w) /\ RootsKept(f, w) /\ w.committed = f.committed
    BY <2>7, <2>8, <2>10, CutsNested
  <2>. HIDE DEF w
  <2>12. Quiet(v, w) /\ RootsKept(v, w) /\ w.committed = v.committed
    BY <2>4, <2>6, <2>7, <2>11, QuietTrans, KeptTrans
  <2>. QED
    BY <2>1, <2>12
<1>. QED
  BY <1>1, <1>2, <1>3

\* Session.rollback() loses rows.
LEMMA RollsSessionBack ==
    ASSUME NEW v, Ok(v), NEW s \in Level
    PROVE  LET w == RollbackSession(v, s)
           IN Quiet(v, w) /\ w.committed = v.committed
<1>. DEFINE x == v.session[s]
            c == x.conn
            inner == RollbackFrom(v, s, 1)
            u == Undo(inner, c, x.join)
            w == Reset(u, s)
<1>1. RollbackSession(v, s) = w
  BY Zenon DEF RollbackSession
<1>2. SessionOk(x) /\ (c # 0 => c \in Level)
  BY SessionNested DEF Ok
<1>3. Quiet(v, inner) /\ inner.committed = v.committed
  BY RollsBackFrom
<1>. HIDE DEF inner
<1>4. Ok(inner)
  BY <1>3 DEF Quiet, Works
<1>5. Quiet(inner, u) /\ u.committed = inner.committed
  BY <1>2, <1>4, Undoes DEF SessionOk
<1>. HIDE DEF u
<1>6. Ok(u) /\ Quiet(v, u)
  BY <1>3, <1>5, QuietTrans DEF Quiet, Works
<1>7. Quiet(u, w) /\ w.committed = u.committed
  BY <1>6, Resets
<1>. HIDE DEF w
<1>8. Quiet(v, w) /\ w.committed = v.committed
  BY <1>3, <1>5, <1>6, <1>7, QuietTrans
<1>. QED
  BY <1>1, <1>8

\* Session.close() loses rows.
LEMMA ClosesSession ==
    ASSUME NEW v, Ok(v), NEW s \in Level
    PROVE  Quiet(v, CloseSession(v, s)) /\ CloseSession(v, s).committed = v.committed
<1>1. CASE v.session[s].commits
  BY <1>1, RollsSessionBack DEF CloseSession
<1>2. CASE ~v.session[s].commits
  BY <1>2, Resets DEF CloseSession
<1>. QED
  BY <1>1, <1>2

\* Session.begin_nested() flushes, and takes a savepoint.
LEMMA BeginsNested ==
    ASSUME NEW v, Ok(v), NEW s \in Level, NEW d \in Level, v.session[s].conn # 0
    PROVE  LET w == BeginNested(v, s, d)
               k == v.session[s].conn
           IN /\ Works(v, w, k, v.session[s].pending)
              /\ k \notin v.auto => w.committed = v.committed
<1>. DEFINE k == v.session[s].conn
            N == v.session[s].pending
            f == FlushSession(v, s)
            j == JoinSession(f, s)
            t == TakeSavepoint(j, j.session[s].conn, BlockTag(d))
            e == [of |-> d, live |-> TRUE]
            q == Append(t.session[s].nested, e)
            w == [t EXCEPT !.session[s].nested = q]
<1>1. BeginNested(v, s, d) = w
  BY Zenon DEF BeginNested
<1>2. Works(v, f, k, N) /\ (k \notin v.auto => f.committed = v.committed)
  BY FlushesSession
<1>. HIDE DEF f
<1>3. Ok(f) /\ f.session[s].conn = k /\ k # 0
  BY <1>2 DEF Works, Same
<1>4. Quiet(f, j) /\ j.committed = f.committed
  BY <1>3, JoinsSession
<1>. HIDE DEF j
<1>5. Ok(j) /\ j.session[s].conn = k /\ Works(v, j, k, N)
  <2>1. Ok(j) /\ j.session[s].conn = k
    BY <1>3, <1>4 DEF Quiet, Works, Same
  <2>2. Works(v, j, k, N)
    BY <1>2, <1>4, WorksTrans
  <2>. QED
    BY <2>1, <2>2
<1>6. k \in Level
  BY <1>3, SessionNested
<1>7. BlockTag(d) \in LiveTag
  BY DEF LiveTag
<1>8. Quiet(j, t) /\ t.committed = j.committed
  BY <1>5, <1>6, <1>7, Savepoints
<1>. HIDE DEF t
<1>9. Ok(t) /\ t.session[s].conn = k /\ Works(v, t, k, N)
  <2>1. Ok(t) /\ t.session[s].conn = k
    BY <1>5, <1>8 DEF Quiet, Works, Same
  <2>2. Works(v, t, k, N)
    BY <1>5, <1>8, WorksTrans
  <2>. QED
    BY <2>1, <2>2
<1>10. q \in Seq(NestedSet)
  <2>1. t.session[s].nested \in Seq(NestedSet)
    BY <1>9, SessionNested
  <2>2. e \in NestedSet
    BY DEF NestedSet
  <2>. HIDE DEF e
  <2>. QED
    BY <2>1, <2>2
<1>. HIDE DEF q
<1>11. Quiet(t, w) /\ w.committed = t.committed
  BY <1>3, <1>9, <1>10, CutsNested
<1>. HIDE DEF w
<1>12. Works(v, w, k, N)
  BY <1>9, <1>11, WorksTrans
<1>. QED
  BY <1>1, <1>2, <1>4, <1>8, <1>11, <1>12

\* The begin_nested() of a block is in the stack of the session.
LEMMA NestedPositionIs ==
    ASSUME NEW v, Ok(v), NEW s \in Level, NEW d, HoldsNested(v, s, d)
    PROVE  /\ NestedPosition(v, s, d) \in 1 .. Len(v.session[s].nested)
           /\ v.session[s].conn \in Level
<1>1. /\ DOMAIN v.session[s].nested = 1 .. Len(v.session[s].nested)
      /\ Len(v.session[s].nested) \in Nat
      /\ Len(v.session[s].nested) > 0 => v.session[s].conn \in Level
  BY SessionNested
<1>2. \E i \in DOMAIN v.session[s].nested : v.session[s].nested[i].of = d
  BY DEF HoldsNested
<1>3. NestedPosition(v, s, d) \in DOMAIN v.session[s].nested
  BY <1>2 DEF NestedPosition
<1>. QED
  BY <1>1, <1>3

\* The commit of a begin_nested() flushes, and makes nothing permanent.
LEMMA CommitsNested ==
    ASSUME NEW v, Ok(v), NEW s \in Level, NEW d, HoldsNested(v, s, d)
    PROVE  LET w == CommitNested(v, s, d)
               k == v.session[s].conn
           IN /\ Works(v, w, k, v.session[s].pending)
              /\ k \notin v.auto => w.committed = v.committed
<1>. DEFINE k == v.session[s].conn
            N == v.session[s].pending
            f == FlushSession(v, s)
            i == NestedPosition(f, s, d)
            w == CommitNested(v, s, d)
<1>0. k # 0
  BY NestedPositionIs DEF Level
<1>1. /\ Works(v, f, k, N) /\ (k \notin v.auto => f.committed = v.committed)
      /\ f.session[s].nested = v.session[s].nested
  BY <1>0, FlushesSession
<1>. DEFINE m == Failing(f, s)
            g == ReleaseNested(f, s, m + 1)
<1>2. w = IF m >= i THEN Stuck(g, s) ELSE ReleaseNested(f, s, i)
  BY DEF CommitNested
<1>. HIDE DEF f, w
<1>3. Ok(f) /\ HoldsNested(f, s, d)
  BY <1>1 DEF Works, HoldsNested
<1>4. i \in 1 .. Len(f.session[s].nested) /\ Len(f.session[s].nested) \in Nat
  BY <1>3, NestedPositionIs, SessionNested
<1>. HIDE DEF i
<1>5. Quiet(f, Stuck(g, s)) /\ Stuck(g, s).committed = f.committed
  <2>1. m + 1 \in 1 .. Len(f.session[s].nested) + 1
    BY <1>3, <1>4, FailingIs
  <2>. HIDE DEF m
  <2>2. Quiet(f, g) /\ g.committed = f.committed
    BY <1>3, <2>1, ReleasesNested
  <2>. HIDE DEF g
  <2>3. Ok(g)
    BY <2>2 DEF Quiet, Works
  <2>4. Quiet(g, Stuck(g, s)) /\ Stuck(g, s).committed = g.committed
    BY <2>3, Resets
  <2>. QED
    BY <1>3, <2>2, <2>4, QuietTrans
<1>6. Quiet(f, ReleaseNested(f, s, i)) /\ ReleaseNested(f, s, i).committed = f.committed
  <2>1. i \in 1 .. Len(f.session[s].nested) + 1
    BY <1>4
  <2>. QED
    BY <1>3, <2>1, ReleasesNested
<1>7. Quiet(f, w) /\ w.committed = f.committed
  BY <1>2, <1>5, <1>6
<1>8. Works(v, w, k, N)
  BY <1>1, <1>7, WorksTrans
<1>. QED
  BY <1>1, <1>7, <1>8 DEF w

\* The rollback of a begin_nested() loses rows.
LEMMA RollsNestedBack ==
    ASSUME NEW v, Ok(v), NEW s \in Level, NEW d, HoldsNested(v, s, d)
    PROVE  LET w == RollbackNested(v, s, d)
           IN Quiet(v, w) /\ w.committed = v.committed
<1>. DEFINE c == v.session[s].conn
            i == NestedPosition(v, s, d)
            r == RollbackFrom(v, s, i)
            x == r.session[s]
            y == [x EXCEPT !.pending = {}, !.stuck = FALSE]
            w == [r EXCEPT !.session[s] = y]
<1>1. RollbackNested(v, s, d) = w
  BY Zenon DEF RollbackNested
<1>2. i \in Nat \ {0} /\ c # 0
  BY NestedPositionIs, SessionNested DEF Level
<1>. HIDE DEF i
<1>3. Quiet(v, r) /\ r.committed = v.committed
  BY <1>2, RollsBackFrom
<1>. HIDE DEF r
<1>4. Ok(r) /\ r \in World /\ x.conn = c
  BY <1>3 DEF Quiet, Works, Same, Ok
<1>5. x \in Session
  BY <1>4, SessionNested
<1>. HIDE DEF x
<1>7. /\ y \in Session /\ y.mode = x.mode /\ y.conn = x.conn /\ y.pending = {}
      /\ y.join = x.join /\ y.commits = x.commits
  <2>. DEFINE b == [x EXCEPT !.pending = {}]
              z == [b EXCEPT !.stuck = FALSE]
  <2>1. y = z
    BY Zenon
  <2>3. /\ b \in Session /\ b.mode = x.mode /\ b.conn = x.conn /\ b.pending = {}
        /\ b.join = x.join /\ b.commits = x.commits
    BY <1>5 DEF Session
  <2>. HIDE DEF b
  <2>4. /\ z \in Session /\ z.mode = x.mode /\ z.conn = x.conn /\ z.pending = {}
        /\ z.join = x.join /\ z.commits = x.commits
    BY <2>3 DEF Session
  <2>. QED
    BY <2>1, <2>4
<1>. HIDE DEF y
<1>8. SessionOk(y)
  BY <1>2, <1>4, <1>7 DEF SessionOk
<1>9. Quiet(r, w)
  BY <1>4, <1>7, <1>8, QuietSession DEF x
<1>10. w.committed = r.committed
  BY <1>4, <1>7, WithSessionIs
<1>. HIDE DEF w
<1>11. Quiet(v, w) /\ w.committed = v.committed
  BY <1>3, <1>9, <1>10, QuietTrans
<1>. QED
  BY <1>1, <1>11

------------------------------------------------------------------------------
\* w is v but for session s.
SessionsAs(v, w, s) ==
    /\ w.stack = v.stack /\ w.auto = v.auto /\ w.handle = v.handle /\ w.committed = v.committed
    /\ \A t \in Level \ {s} : w.session[t] = v.session[t]

\* A session may change if it gains no row and takes hold of no root.
LEMMA SessionsAsMoves ==
    ASSUME NEW v, Ok(v), NEW w \in World, NEW s \in Level, SessionsAs(v, w, s),
           SessionOk(w.session[s]),
           w.session[s].pending \subseteq v.session[s].pending,
           (w.session[s].commits /\ w.session[s].join = Root) => Holds(v, s, w.session[s].conn)
    PROVE  Ok(w) /\ Moved(v, w, 0, {})
<1>. USE DEF SessionsAs
<1>1. v \in World
  BY DEF Ok
<1>2. Ok(w)
  <2>1. Rooted(w)
    BY DEF Ok, Rooted, Unrooted
  <2>2. \A t \in Level : w.session[t].pending \subseteq v.session[t].pending
    OBVIOUS
  <2>3. Pendings(w)
    BY <2>2 DEF Ok, Pendings
  <2>. QED
    BY <2>1, <2>3 DEF Ok
<1>3. \A c \in Level : Uncommitted(w, c) = Uncommitted(v, c)
  BY SameStack
<1>4. Held(w) = Held(v)
  BY <1>1, <1>3, InHeld
<1>5. \A t, c \in Level : Holds(w, t, c) => Holds(v, t, c)
  BY DEF Holds
<1>6. Moved(v, w, 0, {})
  BY <1>3, <1>4, <1>5 DEF Moved
<1>. QED
  BY <1>2, <1>6

\* A new session has joined nothing.
LEMMA NewSessionIs ==
    ASSUME NEW m \in Modes, NEW c \in 0 .. MaxDepth
    PROVE  LET y == NewSession(m, c)
           IN /\ y \in Session /\ y.mode = m /\ y.conn = c /\ ~y.commits /\ y.pending = {}
              /\ y.join = NoTag /\ y.nested = <<>>
<1>. DEFINE a == [NoSession EXCEPT !.mode = m]
            y == NewSession(m, c)
<1>1. NoSession \in Session /\ NoSession.pending = {} /\ ~NoSession.commits /\ NoSession.join = NoTag
      /\ NoSession.nested = <<>>
  BY MaxDepthAssumption DEF NoSession, Session, Modes, Tag
<1>2. y = [a EXCEPT !.conn = c]
  BY Zenon DEF NewSession
<1>3. /\ a \in Session /\ a.mode = m /\ ~a.commits /\ a.pending = {}
      /\ a.join = NoTag /\ a.nested = <<>>
  BY <1>1 DEF Session
<1>. HIDE DEF a
<1>. QED
  BY <1>2, <1>3 DEF Session

\* A session may be put in place.
LEMMA PutsSession ==
    ASSUME NEW v, Ok(v), NEW s \in Level, NEW m \in Modes, NEW c \in 0 .. MaxDepth
    PROVE  LET w == [v EXCEPT !.session[s] = NewSession(m, c)]
           IN /\ Ok(w) /\ Moved(v, w, 0, {}) /\ SessionsAs(v, w, s)
              /\ w.session[s].mode = m /\ w.session[s].conn = c /\ w.session[s].pending = {}
              /\ w.session[s].join = NoTag
<1>. DEFINE y == NewSession(m, c)
            w == [v EXCEPT !.session[s] = y]
<1>1. /\ y \in Session /\ y.mode = m /\ y.conn = c /\ ~y.commits /\ y.pending = {}
      /\ y.join = NoTag /\ y.nested = <<>>
  BY NewSessionIs
<1>. HIDE DEF y
<1>2. v \in World
  BY DEF Ok
<1>3. w \in World /\ SessionsAs(v, w, s) /\ w.session[s] = y
  BY <1>1, <1>2, WithSessionIs DEF SessionsAs
<1>. HIDE DEF w
<1>4. Ok(w) /\ Moved(v, w, 0, {})
  BY <1>1, <1>3, SessionsAsMoves DEF SessionOk
<1>. QED
  BY <1>1, <1>3, <1>4 DEF w, y

\* A session may be dropped.
LEMMA DropsSession ==
    ASSUME NEW v, Ok(v), NEW s \in Level
    PROVE  LET w == DropSession(v, s)
           IN /\ Ok(w) /\ Moved(v, w, 0, {}) /\ SessionsAs(v, w, s)
              /\ w.session[s] = NoSession
<1>. DEFINE w == [v EXCEPT !.session[s] = NoSession]
<1>1. NoSession \in Session /\ NoSession.pending = {} /\ ~NoSession.commits /\ NoSession.join = NoTag
      /\ NoSession.nested = <<>>
  BY MaxDepthAssumption DEF NoSession, Session, Modes, Tag
<1>2. DropSession(v, s) = w
  BY DEF DropSession
<1>3. v \in World
  BY DEF Ok
<1>4. w \in World /\ SessionsAs(v, w, s) /\ w.session[s] = NoSession
  BY <1>1, <1>3, WithSessionIs DEF SessionsAs
<1>. HIDE DEF w
<1>5. Ok(w) /\ Moved(v, w, 0, {})
  BY <1>1, <1>4, SessionsAsMoves DEF SessionOk
<1>. QED
  BY <1>2, <1>4, <1>5

\* A lazy session may be bound to a connection.
LEMMA BindsSession ==
    ASSUME NEW v, Ok(v), NEW s \in Level, v.session[s].conn = 0
    PROVE  LET w == [v EXCEPT !.session[s].conn = s]
           IN /\ Ok(w) /\ Moved(v, w, 0, {}) /\ SessionsAs(v, w, s)
              /\ w.session[s].mode = v.session[s].mode /\ w.session[s].conn = s
              /\ w.session[s].pending = v.session[s].pending
<1>. DEFINE x == v.session[s]
            y == [x EXCEPT !.conn = s]
            w == [v EXCEPT !.session[s] = y]
<1>1. v \in World /\ x \in Session /\ SessionOk(x)
  BY WorldFields DEF Ok
<1>2. [v EXCEPT !.session[s].conn = s] = w
  OBVIOUS
<1>3. /\ y \in Session /\ y.mode = x.mode /\ y.conn = s /\ y.pending = x.pending
      /\ y.join = x.join /\ y.commits = x.commits
  BY <1>1, MaxDepthAssumption DEF Session, Level
<1>. HIDE DEF y
<1>4. w \in World /\ SessionsAs(v, w, s) /\ w.session[s] = y
  BY <1>1, <1>3, WithSessionIs DEF SessionsAs
<1>. HIDE DEF w
<1>5. SessionOk(y) /\ ~(y.commits /\ y.join = Root)
  BY <1>1, <1>3, MaxDepthAssumption DEF SessionOk, Level
<1>6. Ok(w) /\ Moved(v, w, 0, {})
  BY <1>3, <1>4, <1>5, SessionsAsMoves
<1>. QED
  BY <1>2, <1>3, <1>4, <1>6

\* Session.add() makes one row pending.
LEMMA AddsToSession ==
    ASSUME NEW v, Ok(v), NEW s \in Level, NEW r \in Row,
           \A t \in Level : r \notin v.session[t].pending
    PROVE  LET w == AddToSession(v, s, r)
           IN /\ Ok(w) /\ SessionsAs(v, w, s)
              /\ LET x == v.session[s]  y == w.session[s]
                 IN /\ y.mode = x.mode /\ y.conn = x.conn /\ y.join = x.join
                    /\ y.commits = x.commits /\ y.pending = x.pending \cup {r}
<1>. DEFINE x == v.session[s]
            a == [x EXCEPT !.begun = TRUE]
            y == [a EXCEPT !.pending = @ \cup {r}]
            w == [v EXCEPT !.session[s] = y]
<1>1. v \in World /\ x \in Session /\ SessionOk(x)
  BY WorldFields DEF Ok
<1>2. AddToSession(v, s, r) = w
  BY Zenon DEF AddToSession
<1>3. /\ a \in Session /\ a.mode = x.mode /\ a.conn = x.conn /\ a.pending = x.pending
      /\ a.join = x.join /\ a.commits = x.commits /\ a.nested = x.nested
  BY <1>1 DEF Session
<1>. HIDE DEF a
<1>4. /\ y \in Session /\ y.mode = x.mode /\ y.conn = x.conn /\ y.pending = x.pending \cup {r}
      /\ y.join = x.join /\ y.commits = x.commits /\ y.nested = x.nested
  BY <1>3 DEF Session
<1>. HIDE DEF y
<1>5. w \in World /\ SessionsAs(v, w, s) /\ w.session[s] = y
  BY <1>1, <1>4, WithSessionIs DEF SessionsAs
<1>. HIDE DEF w
<1>6. Ok(w)
  <2>1. Rooted(w)
    BY <1>5 DEF Ok, Rooted, Unrooted, SessionsAs
  <2>2. Pendings(w)
    BY <1>4, <1>5 DEF Ok, Pendings, SessionsAs
  <2>3. \A t \in Level : SessionOk(w.session[t])
    BY <1>1, <1>4, <1>5 DEF Ok, SessionOk, SessionsAs
  <2>. QED
    BY <1>5, <2>1, <2>2, <2>3 DEF Ok
<1>. QED
  BY <1>2, <1>4, <1>5, <1>6

------------------------------------------------------------------------------
(* 2. What the blocks bind *)

OpenLevel == 1 .. depth

(***************************************************************************)
(* The bindings of the open blocks: a connection is opened at or below the  *)
(* block that uses it, a transaction is its own outer one and has its       *)
(* connection from the start, and an _Outer is that of an open transaction. *)
(***************************************************************************)
BoundBelow == \A e \in OpenLevel : block[e].conn <= e

TransactionsBind ==
    \A e \in OpenLevel : block[e].kind = "transaction" =>
        block[e].outer = e /\ block[e].conn # 0

OuterIsTransaction ==
    \A e \in OpenLevel : block[e].outer # 0 =>
        block[e].outer \in 1 .. e /\ block[block[e].outer].kind = "transaction"

\* A block sees the transactions around it through the innermost: no _Outer
\* reaches past one.
OuterIsInnermost ==
    \A d, e \in OpenLevel : (d < e /\ block[d].kind = "transaction") =>
        block[e].outer = 0 \/ d <= block[e].outer

\* The owner of the savepoints a transaction joins is a transaction around it, on
\* the same connection.
OwnersBelow ==
    \A e \in OpenLevel : block[e].owner # 0 =>
        /\ block[e].owner \in 1 .. e
        /\ block[e].savepoint
        /\ block[block[e].owner].kind = "transaction"
        /\ block[block[e].owner].conn = block[e].conn

\* A block that found no transaction to join does not run on the connection of one
\* around it: it has no outer one, owns savepoints or ends a transaction itself.
Alone(e) == block[e].outer = 0 \/ block[e].owner = e \/ block[e].ends \in {"root", "lender"}

OwnersApart ==
    \A d, e \in OpenLevel :
        (d < e /\ block[d].kind = "transaction" /\ Alone(e)) => block[e].conn # block[d].conn

\* Only a transaction ends anything: the one of the block right around it, a
\* savepoint of a session, or what it holds itself.
EndsRight ==
    \A e \in OpenLevel :
        /\ block[e].ends # "nothing" => block[e].kind = "transaction"
        /\ block[e].ends = "lender" => e > 1 /\ block[e - 1].conn = block[e].conn
        /\ block[e].ends = "nested" => block[e].owner # 0
        /\ block[e].conn = 0 => block[e].kind = "session"

\* ApartStaysApart is not inductive alone: a block that joins takes the
\* connection of its _Outer, so the proof needs where that one stands.
BindingsInv ==
    /\ BindingsTypeOK
    /\ BoundBelow
    /\ TransactionsBind
    /\ OuterIsTransaction
    /\ OuterIsInnermost
    /\ ApartStaysApart
    /\ OwnersBelow
    /\ OwnersApart
    /\ EndsRight

(***************************************************************************)
(* The three ways a step changes the bindings.                              *)
(***************************************************************************)

\* A lazy connection of block s may be checked out on the way.
MayCheckOut(bl) == bl = block \/ \E s \in OpenLevel : bl = CheckedOut(s)

UseStep == depth' = depth /\ MayCheckOut(block')

ExitStep == /\ depth \in Nat \ {0}
            /\ depth' = depth - 1
            /\ block' = [block EXCEPT ![depth] = Closed]

\* A new block takes a connection of its own (or none yet), the one of the
\* block around it, or the one of the transaction it joins.
NewConnection(bl, b) ==
    \/ b.conn = depth + 1
    \/ b.conn = 0 /\ b.kind = "session"
    \/ /\ depth > 0 /\ (Outer = 0 \/ block[Outer].join_nested)
       /\ b.conn = ConnectionOf(depth)
    \/ OuterToJoin # 0 /\ b.conn = block[OuterToJoin].conn

NewOuter(b) ==
    \/ b.kind = "transaction" /\ b.outer = depth + 1
    \/ b.kind # "transaction" /\ b.outer \in {0, Outer}

\* It owns the savepoints itself, or leaves them to the owner of the transaction it
\* joins; with no transaction to join it is on none of those around it.
NewOwner(bl, b) ==
    /\ b.owner # 0 =>
         /\ b.kind = "transaction" /\ b.savepoint
         /\ \/ b.owner = depth + 1
            \/ /\ OuterToJoin # 0 /\ b.owner = block[OuterToJoin].owner
               /\ b.conn = block[OuterToJoin].conn
    /\ (b.outer = 0 \/ b.owner = depth + 1 \/ b.ends \in {"root", "lender"}) =>
         \/ b.conn \in {0, depth + 1}
         \/ depth > 0 /\ Outer = 0 /\ b.conn = ConnectionOf(depth)
    /\ b.ends # "nothing" => b.kind = "transaction"
    /\ b.ends = "lender" => depth > 0 /\ bl[depth].conn = b.conn
    /\ b.ends = "nested" => b.owner # 0

OpenStep ==
    /\ depth < MaxDepth
    /\ depth' = depth + 1
    /\ \E bl, b : /\ MayCheckOut(bl)
                  /\ b \in Block
                  /\ NewConnection(bl, b)
                  /\ NewOuter(b)
                  /\ NewOwner(bl, b)
                  /\ block' = [bl EXCEPT ![depth + 1] = b]

------------------------------------------------------------------------------
\* Checking a connection out keeps the bindings (BaseDatabase._reused).
LEMMA CheckOutKeeps ==
    ASSUME BindingsInv, NEW bl, MayCheckOut(bl)
    PROVE  /\ bl \in [Level -> Block]
           /\ \A e \in Level :
                /\ bl[e].kind = block[e].kind
                /\ bl[e].outer = block[e].outer
                /\ bl[e].join_nested = block[e].join_nested
                /\ bl[e].savepoint = block[e].savepoint
                /\ bl[e].owner = block[e].owner
                /\ bl[e].ends = block[e].ends
                /\ bl[e].conn \in {block[e].conn, e}
                /\ (e \in OpenLevel /\ block[e].conn # 0) => bl[e].conn = block[e].conn
<1>. USE MaxDepthAssumption DEF Level, BindingsInv, BindingsTypeOK, OpenLevel
<1>1. CASE bl = block
  BY <1>1
<1>2. CASE bl # block
  <2>. PICK s \in OpenLevel : bl = CheckedOut(s)
    BY <1>2 DEF MayCheckOut
  <2>1. s \in Level /\ block[s] \in Block
    OBVIOUS
  <2>2. bl = [block EXCEPT ![s] = [block[s] EXCEPT !.conn = ConnectionOf(s)]]
    BY <2>1 DEF CheckedOut
  <2>3. [block[s] EXCEPT !.conn = ConnectionOf(s)] \in Block
    BY <2>1 DEF Block, ConnectionOf
  <2>4. bl \in [Level -> Block] /\ \A e \in Level \ {s} : bl[e] = block[e]
    BY <2>1, <2>2, <2>3
  <2>5. /\ bl[s].kind = block[s].kind
        /\ bl[s].outer = block[s].outer
        /\ bl[s].join_nested = block[s].join_nested
        /\ bl[s].savepoint = block[s].savepoint
        /\ bl[s].owner = block[s].owner
        /\ bl[s].ends = block[s].ends
        /\ bl[s].conn = ConnectionOf(s)
    BY <2>1, <2>2 DEF Block
  <2>. QED
    BY <2>4, <2>5 DEF ConnectionOf
<1>. QED
  BY <1>1, <1>2

\* Neither the code of the user nor the end of a block binds anything.
LEMMA UseKeeps == BindingsInv /\ UseStep => BindingsInv'
<1>. SUFFICES ASSUME BindingsInv, UseStep PROVE BindingsInv'
  OBVIOUS
<1>. USE MaxDepthAssumption DEF Level, OpenLevel, Transactions
<1>1. MayCheckOut(block') /\ depth' = depth
  BY DEF UseStep
<1>2. /\ block' \in [Level -> Block]
      /\ \A e \in Level :
            /\ block'[e].kind = block[e].kind
            /\ block'[e].outer = block[e].outer
            /\ block'[e].join_nested = block[e].join_nested
            /\ block'[e].savepoint = block[e].savepoint
            /\ block'[e].owner = block[e].owner
            /\ block'[e].ends = block[e].ends
            /\ block'[e].conn \in {block[e].conn, e}
            /\ (e \in OpenLevel /\ block[e].conn # 0) => block'[e].conn = block[e].conn
  BY <1>1, CheckOutKeeps
<1>3. /\ depth \in 0 .. MaxDepth /\ block \in [Level -> Block]
      /\ \A e \in Level : block[e].conn \in 0 .. MaxDepth /\ block[e].outer \in 0 .. MaxDepth
  BY DEF BindingsInv, BindingsTypeOK, Block
<1>4. OpenLevel' = OpenLevel /\ OpenLevel \subseteq Level
  BY <1>1, <1>3
<1>5. BindingsTypeOK'
  BY <1>1, <1>2, <1>3 DEF BindingsTypeOK
<1>6. BoundBelow'
  BY <1>1, <1>2, <1>3 DEF BindingsInv, BoundBelow
<1>7. TransactionsBind'
  BY <1>1, <1>2, <1>3 DEF BindingsInv, TransactionsBind
<1>8. OuterIsTransaction'
  BY <1>1, <1>2, <1>3 DEF BindingsInv, OuterIsTransaction
<1>9. OuterIsInnermost'
  BY <1>1, <1>2, <1>3 DEF BindingsInv, OuterIsInnermost
<1>10. ApartStaysApart'
  <2>. SUFFICES ASSUME NEW d \in OpenLevel, NEW e \in OpenLevel, d < e,
                       block'[d].kind = "transaction", ~block'[d].join_nested
                PROVE  block'[e].conn # block'[d].conn
    BY <1>1, <1>4 DEF ApartStaysApart
  <2>1. block[d].kind = "transaction" /\ ~block[d].join_nested
    BY <1>2, <1>4
  <2>2. block'[d].conn = block[d].conn /\ block[d].conn <= d
    BY <1>2, <1>4, <2>1 DEF BindingsInv, TransactionsBind, BoundBelow
  <2>3. block[e].conn # block[d].conn
    BY <2>1 DEF BindingsInv, ApartStaysApart
  <2>. QED
    BY <1>2, <1>3, <1>4, <2>2, <2>3
<1>11. \A e \in OpenLevel : \/ block'[e].conn = block[e].conn
                              \/ (block[e].conn = 0 /\ block'[e].conn = e)
  BY <1>2, <1>4
<1>12. OwnersBelow'
  <2>. SUFFICES ASSUME NEW e \in OpenLevel, block'[e].owner # 0
                PROVE  /\ block'[e].owner \in 1 .. e
                       /\ block'[e].savepoint
                       /\ block'[block'[e].owner].kind = "transaction"
                       /\ block'[block'[e].owner].conn = block'[e].conn
    BY <1>4 DEF OwnersBelow
  <2>. DEFINE o == block[e].owner
  <2>1. /\ o \in 1 .. e /\ block[e].savepoint
        /\ block[o].kind = "transaction" /\ block[o].conn = block[e].conn
    BY <1>2, <1>4 DEF BindingsInv, OwnersBelow
  <2>2. o \in OpenLevel /\ block[o].conn # 0
    BY <1>3, <2>1 DEF BindingsInv, TransactionsBind
  <2>. QED
    BY <1>2, <1>4, <2>1, <2>2
<1>13. OwnersApart'
  <2>. SUFFICES ASSUME NEW d \in OpenLevel, NEW e \in OpenLevel, d < e,
                       block'[d].kind = "transaction", Alone(e)'
                PROVE  block'[e].conn # block'[d].conn
    BY <1>4 DEF OwnersApart
  <2>1. block[d].kind = "transaction" /\ Alone(e)
    BY <1>2, <1>4 DEF Alone
  <2>2. block'[d].conn = block[d].conn /\ block[d].conn <= d
    BY <1>2, <1>4, <2>1 DEF BindingsInv, TransactionsBind, BoundBelow
  <2>3. block[e].conn # block[d].conn
    BY <2>1 DEF BindingsInv, OwnersApart
  <2>. QED
    BY <1>3, <1>4, <1>11, <2>2, <2>3
<1>14. EndsRight'
  <2>. SUFFICES ASSUME NEW e \in OpenLevel
                PROVE  /\ block'[e].ends # "nothing" => block'[e].kind = "transaction"
                       /\ block'[e].ends = "lender" => e > 1 /\ block'[e - 1].conn = block'[e].conn
                       /\ block'[e].ends = "nested" => block'[e].owner # 0
                       /\ block'[e].conn = 0 => block'[e].kind = "session"
    BY <1>4 DEF EndsRight
  <2>1. /\ block[e].ends # "nothing" => block[e].kind = "transaction"
        /\ block[e].ends = "lender" => e > 1 /\ block[e - 1].conn = block[e].conn
        /\ block[e].ends = "nested" => block[e].owner # 0
        /\ block[e].conn = 0 => block[e].kind = "session"
    BY DEF BindingsInv, EndsRight
  <2>2. block[e].kind = "transaction" => block[e].conn # 0
    BY DEF BindingsInv, TransactionsBind
  <2>3. block[e].ends = "lender" => e - 1 \in OpenLevel
    BY <1>3, <2>1
  <2>. QED
    BY <1>2, <1>4, <2>1, <2>2, <2>3
<1>. QED
  BY <1>5, <1>6, <1>7, <1>8, <1>9, <1>10, <1>12, <1>13, <1>14 DEF BindingsInv

\* A closed block is a block.
LEMMA ClosedIsBlock == Closed \in Block
BY MaxDepthAssumption DEF Closed, Block, Kinds, Ends

\* Closing the innermost block keeps the bindings of those around it
\* (Transaction.__exit__, Database._bound).
LEMMA ExitKeeps == BindingsInv /\ ExitStep => BindingsInv'
<1>. SUFFICES ASSUME BindingsInv, ExitStep PROVE BindingsInv'
  OBVIOUS
<1>. USE MaxDepthAssumption DEF Level, OpenLevel
<1>1. depth \in 1 .. MaxDepth /\ depth' = depth - 1 /\ block' = [block EXCEPT ![depth] = Closed]
  BY DEF BindingsInv, BindingsTypeOK, ExitStep
<1>2. Closed \in Block
  BY ClosedIsBlock
<1>3. /\ block' \in [Level -> Block]
      /\ \A e \in OpenLevel' : e \in OpenLevel /\ block'[e] = block[e] /\ e < depth
  BY <1>1, <1>2 DEF BindingsInv, BindingsTypeOK
<1>4. BindingsTypeOK'
  BY <1>1, <1>3 DEF BindingsTypeOK
<1>5. BoundBelow' /\ TransactionsBind'
  BY <1>3 DEF BindingsInv, BoundBelow, TransactionsBind
<1>6. OuterIsTransaction'
  BY <1>1, <1>3 DEF BindingsInv, OuterIsTransaction
<1>7. OuterIsInnermost'
  BY <1>3 DEF BindingsInv, OuterIsInnermost
<1>8. ApartStaysApart'
  BY <1>3 DEF BindingsInv, ApartStaysApart, Transactions
<1>9. OwnersBelow'
  <2>. SUFFICES ASSUME NEW e \in OpenLevel', block'[e].owner # 0
                PROVE  /\ block'[e].owner \in 1 .. e
                       /\ block'[e].savepoint
                       /\ block'[block'[e].owner].kind = "transaction"
                       /\ block'[block'[e].owner].conn = block'[e].conn
    BY DEF OwnersBelow
  <2>1. e \in OpenLevel /\ block'[e] = block[e] /\ e < depth
    BY <1>3
  <2>2. block[e].owner \in 1 .. e
    BY <2>1 DEF BindingsInv, OwnersBelow
  <2>3. block[e].owner \in OpenLevel'
    BY <1>1, <2>1, <2>2
  <2>. QED
    BY <1>3, <2>1, <2>2, <2>3 DEF BindingsInv, OwnersBelow
<1>10. OwnersApart'
  BY <1>3 DEF BindingsInv, OwnersApart, Alone
<1>11. EndsRight'
  <2>1. \A e \in OpenLevel' : e > 1 => e - 1 \in OpenLevel'
    BY <1>1
  <2>. QED
    BY <1>3, <2>1 DEF BindingsInv, EndsRight
<1>. QED
  BY <1>4, <1>5, <1>6, <1>7, <1>8, <1>9, <1>10, <1>11 DEF BindingsInv

\* What a new block is bound to is never the connection of a transaction around
\* it that stays apart (BaseDatabase._scope_to_reuse, _outer_to_join).
LEMMA NewConnectionStaysApart ==
    ASSUME BindingsInv, NEW bl, NEW b, NewConnection(bl, b),
           NEW d \in OpenLevel, block[d].kind = "transaction", ~block[d].join_nested
    PROVE  b.conn # block[d].conn
<1>. USE MaxDepthAssumption DEF Level, OpenLevel
<1>1. /\ depth \in 1 .. MaxDepth
      /\ \A e \in OpenLevel : block[e].conn \in 0 .. e /\ block[e].outer \in 0 .. e
  BY DEF BindingsInv, BindingsTypeOK, Block, BoundBelow, OuterIsTransaction
<1>2. Outer = block[depth].outer
  BY <1>1 DEF Outer
<1>3. block[d].conn # 0 /\ block[d].outer = d
  BY DEF BindingsInv, TransactionsBind
<1>4. \A e \in OpenLevel : d < e => block[e].conn # block[d].conn
  BY <1>1 DEF BindingsInv, ApartStaysApart, Transactions
<1>5. CASE b.conn = depth + 1
  BY <1>1, <1>5
<1>6. CASE b.conn = 0
  BY <1>3, <1>6
<1>7. CASE /\ Outer = 0 \/ block[Outer].join_nested
           /\ b.conn = ConnectionOf(depth)
  <2>1. d < depth
    BY <1>1, <1>2, <1>3, <1>7
  <2>. QED
    BY <1>1, <1>4, <1>7, <2>1 DEF ConnectionOf
<1>8. CASE OuterToJoin # 0 /\ b.conn = block[OuterToJoin].conn
  <2>1. OuterToJoin = Outer /\ Outer # 0 /\ block[Outer].join_nested
    BY <1>8 DEF OuterToJoin
  <2>2. d <= Outer
    BY <1>1, <1>2, <1>3, <2>1 DEF BindingsInv, OuterIsInnermost
  <2>3. d < Outer /\ Outer \in OpenLevel
    BY <1>1, <1>2, <2>1, <2>2
  <2>. QED
    BY <1>4, <1>8, <2>1, <2>3
<1>. QED
  BY <1>5, <1>6, <1>7, <1>8 DEF NewConnection

\* Opening a block on one of the connections above keeps the bindings.
LEMMA OpenKeeps == BindingsInv /\ OpenStep => BindingsInv'
<1>. SUFFICES ASSUME BindingsInv, OpenStep PROVE BindingsInv'
  OBVIOUS
<1>. USE MaxDepthAssumption DEF Level, OpenLevel
<1>. PICK bl, b : /\ MayCheckOut(bl)
                  /\ b \in Block
                  /\ NewConnection(bl, b)
                  /\ NewOuter(b)
                  /\ NewOwner(bl, b)
                  /\ block' = [bl EXCEPT ![depth + 1] = b]
  BY DEF OpenStep
<1>. DEFINE n == depth + 1
<1>1. /\ depth \in 0 .. MaxDepth /\ depth < MaxDepth /\ depth' = n
      /\ block \in [Level -> Block]
      /\ \A e \in Level : block[e].conn \in 0 .. MaxDepth /\ block[e].outer \in 0 .. MaxDepth
      /\ b.conn \in 0 .. MaxDepth /\ b.outer \in 0 .. MaxDepth
  BY DEF BindingsInv, BindingsTypeOK, Block, OpenStep
<1>2. /\ bl \in [Level -> Block]
      /\ \A e \in Level :
            /\ bl[e].kind = block[e].kind
            /\ bl[e].outer = block[e].outer
            /\ bl[e].join_nested = block[e].join_nested
            /\ bl[e].savepoint = block[e].savepoint
            /\ bl[e].owner = block[e].owner
            /\ bl[e].ends = block[e].ends
            /\ bl[e].conn \in {block[e].conn, e}
            /\ (e \in OpenLevel /\ block[e].conn # 0) => bl[e].conn = block[e].conn
  BY CheckOutKeeps
<1>3. /\ block' \in [Level -> Block]
      /\ block'[n] = b
      /\ \A e \in 1 .. depth : block'[e] = bl[e]
  BY <1>1, <1>2
<1>4. \A e \in 1 .. n : e = n \/ e \in 1 .. depth
  BY <1>1
<1>5. BindingsTypeOK'
  BY <1>1, <1>3 DEF BindingsTypeOK
<1>6. depth > 0 => /\ Outer = block[depth].outer
                   /\ Outer # 0 => Outer \in 1 .. depth /\ block[Outer].kind = "transaction"
  BY <1>1 DEF Outer, BindingsInv, OuterIsTransaction
<1>7. depth = 0 => Outer = 0
  BY DEF Outer
<1>8. OuterToJoin # 0 => depth > 0 /\ OuterToJoin = Outer
  BY <1>1, <1>7 DEF OuterToJoin
<1>9. BoundBelow'
  <2>1. b.conn <= n
    BY <1>1, <1>6, <1>8 DEF NewConnection, ConnectionOf, BindingsInv, BoundBelow
  <2>2. \A e \in 1 .. depth : block'[e].conn <= e
    BY <1>1, <1>2, <1>3 DEF BindingsInv, BoundBelow
  <2>. QED
    BY <1>1, <1>3, <1>4, <2>1, <2>2 DEF BoundBelow
<1>10. TransactionsBind'
  <2>1. b.kind = "transaction" => b.outer = n
    BY DEF NewOuter
  <2>2. b.kind = "transaction" => b.conn # 0
    BY <1>1, <1>6, <1>8 DEF NewConnection, ConnectionOf, BindingsInv, TransactionsBind
  <2>3. \A e \in 1 .. depth : block'[e].kind = "transaction" =>
            block'[e].outer = e /\ block'[e].conn # 0
    <3>. SUFFICES ASSUME NEW e \in 1 .. depth, block'[e].kind = "transaction"
                  PROVE  block'[e].outer = e /\ block'[e].conn # 0
      OBVIOUS
    <3>1. e \in Level /\ block'[e] = bl[e]
      BY <1>1, <1>3 DEF Level
    <3>2. block[e].kind = "transaction" /\ bl[e].outer = block[e].outer
          /\ (block[e].conn # 0 => bl[e].conn = block[e].conn)
      BY <1>2, <3>1 DEF OpenLevel
    <3>3. block[e].outer = e /\ block[e].conn # 0
      BY <3>2 DEF BindingsInv, TransactionsBind, OpenLevel
    <3>. QED
      BY <3>1, <3>2, <3>3
  <2>. QED
    BY <1>1, <1>3, <1>4, <2>1, <2>2, <2>3 DEF TransactionsBind, OpenLevel
<1>11. OuterIsTransaction'
  <2>1. b.outer # 0 => b.outer \in 1 .. n /\ block'[b.outer].kind = "transaction"
    BY <1>1, <1>2, <1>3, <1>6, <1>7 DEF NewOuter
  <2>. QED
    BY <1>1, <1>2, <1>3, <1>4, <2>1 DEF BindingsInv, OuterIsTransaction
<1>12. OuterIsInnermost'
  <2>1. ASSUME NEW d \in 1 .. depth, block[d].kind = "transaction", b.outer # 0
        PROVE  d <= b.outer
    <3>1. CASE b.outer = n
      BY <1>1, <3>1
    <3>2. CASE b.outer = Outer
      <4>1. d = depth => block[depth].outer = d
        BY <2>1 DEF BindingsInv, TransactionsBind
      <4>2. d < depth => d <= block[depth].outer
        BY <1>1, <1>6, <2>1, <3>2 DEF BindingsInv, OuterIsInnermost
      <4>. QED
        BY <1>1, <1>6, <3>2, <4>1, <4>2
    <3>. QED
      BY <2>1, <3>1, <3>2 DEF NewOuter
  <2>. SUFFICES ASSUME NEW d \in 1 .. n, NEW e \in 1 .. n, d < e,
                       block'[d].kind = "transaction"
                PROVE  block'[e].outer = 0 \/ d <= block'[e].outer
    BY <1>1 DEF OuterIsInnermost
  <2>2. d \in 1 .. depth
    BY <1>1
  <2>3. block[d].kind = "transaction"
    BY <1>1, <1>2, <1>3, <2>2
  <2>4. CASE e = n
    BY <1>3, <2>1, <2>2, <2>3, <2>4
  <2>5. CASE e \in 1 .. depth
    <3>1. block[e].outer = 0 \/ d <= block[e].outer
      BY <2>2, <2>3, <2>5 DEF BindingsInv, OuterIsInnermost
    <3>. QED
      BY <1>1, <1>2, <1>3, <2>5, <3>1
  <2>. QED
    BY <1>4, <2>4, <2>5
<1>13. ApartStaysApart'
  <2>. SUFFICES ASSUME NEW d \in 1 .. n, NEW e \in 1 .. n, d < e,
                       block'[d].kind = "transaction", ~block'[d].join_nested
                PROVE  block'[e].conn # block'[d].conn
    BY <1>1 DEF ApartStaysApart, Transactions
  <2>1. d \in 1 .. depth
    BY <1>1
  <2>2. block[d].kind = "transaction" /\ ~block[d].join_nested
    BY <1>1, <1>2, <1>3, <2>1
  <2>3. block'[d].conn = block[d].conn /\ block[d].conn <= d
    BY <1>1, <1>2, <1>3, <2>1, <2>2 DEF BindingsInv, TransactionsBind, BoundBelow
  <2>4. CASE e = n
    BY <1>3, <2>1, <2>2, <2>3, <2>4, NewConnectionStaysApart
  <2>5. CASE e \in 1 .. depth
    <3>1. block[e].conn # block[d].conn
      BY <2>1, <2>2, <2>5 DEF BindingsInv, ApartStaysApart, Transactions
    <3>. QED
      BY <1>1, <1>2, <1>3, <2>3, <2>5, <3>1
  <2>. QED
    BY <1>4, <2>4, <2>5
<1>14. \A e \in 1 .. depth :
          /\ block'[e].conn = block[e].conn \/ (block[e].conn = 0 /\ block'[e].conn = e)
          /\ block[e].kind = "transaction" =>
                block[e].conn \in 1 .. e /\ block'[e].conn = block[e].conn
          /\ e \in Level
  BY <1>1, <1>2, <1>3 DEF BindingsInv, TransactionsBind, BoundBelow
<1>15. OwnersBelow'
  <2>. SUFFICES ASSUME NEW e \in 1 .. n, block'[e].owner # 0
                PROVE  /\ block'[e].owner \in 1 .. e
                       /\ block'[e].savepoint
                       /\ block'[block'[e].owner].kind = "transaction"
                       /\ block'[block'[e].owner].conn = block'[e].conn
    BY <1>1 DEF OwnersBelow
  <2>1. ASSUME NEW f \in 1 .. depth, block[f].owner # 0
        PROVE  /\ block[f].owner \in 1 .. f /\ block[f].savepoint
               /\ block'[block[f].owner].kind = "transaction"
               /\ block[f].conn # 0
               /\ block'[f].conn = block[f].conn
               /\ block'[block[f].owner].conn = block[f].conn
    <3>1. /\ block[f].owner \in 1 .. f /\ block[f].savepoint
          /\ block[block[f].owner].kind = "transaction"
          /\ block[block[f].owner].conn = block[f].conn
      BY <2>1 DEF BindingsInv, OwnersBelow
    <3>2. block[f].owner \in 1 .. depth
      BY <1>1, <3>1
    <3>. QED
      BY <1>2, <1>3, <1>14, <3>1, <3>2
  <2>2. CASE e \in 1 .. depth
    BY <1>2, <1>3, <1>14, <2>1, <2>2
  <2>3. CASE e = n /\ b.owner = n
    BY <1>3, <1>1, <2>3 DEF NewOwner
  <2>4. CASE e = n /\ b.owner # n
    <3>1. /\ OuterToJoin # 0 /\ b.owner = block[OuterToJoin].owner /\ b.owner # 0
          /\ b.conn = block[OuterToJoin].conn /\ b.savepoint
      BY <1>3, <2>4 DEF NewOwner
    <3>2. OuterToJoin \in 1 .. depth
      BY <1>6, <1>8, <3>1
    <3>. QED
      BY <1>1, <1>3, <2>1, <2>4, <3>1, <3>2
  <2>. QED
    BY <1>4, <2>2, <2>3, <2>4
<1>16. OwnersApart'
  <2>. SUFFICES ASSUME NEW d \in 1 .. n, NEW e \in 1 .. n, d < e,
                       block'[d].kind = "transaction", Alone(e)'
                PROVE  block'[e].conn # block'[d].conn
    BY <1>1 DEF OwnersApart
  <2>1. d \in 1 .. depth
    BY <1>1
  <2>2. /\ block[d].kind = "transaction"
        /\ block'[d].conn = block[d].conn /\ block[d].conn \in 1 .. d
    BY <1>2, <1>3, <1>14, <2>1
  <2>3. CASE e \in 1 .. depth
    <3>1. Alone(e)
      BY <1>2, <1>3, <1>14, <2>3 DEF Alone
    <3>2. block[e].conn # block[d].conn
      BY <2>1, <2>2, <2>3, <3>1 DEF BindingsInv, OwnersApart
    <3>. QED
      BY <1>14, <2>2, <2>3, <3>2
  <2>4. CASE e = n
    <3>1. b.outer = 0 \/ b.owner = n \/ b.ends \in {"root", "lender"}
      BY <1>3, <2>4 DEF Alone
    <3>2. CASE b.conn \in {0, n}
      BY <1>1, <1>3, <2>1, <2>2, <2>4, <3>2
    <3>3. CASE depth > 0 /\ Outer = 0 /\ b.conn = ConnectionOf(depth)
      <4>1. block[depth].outer = 0 /\ depth \in 1 .. depth
        BY <1>1, <1>6, <3>3
      <4>2. Alone(depth) /\ d # depth
        BY <2>1, <2>2, <4>1 DEF Alone, BindingsInv, TransactionsBind
      <4>3. block[depth].conn # block[d].conn /\ d < depth
        BY <2>1, <2>2, <4>1, <4>2 DEF BindingsInv, OwnersApart
      <4>. QED
        BY <1>1, <1>3, <2>2, <2>4, <3>3, <4>3 DEF ConnectionOf
    <3>. QED
      BY <3>1, <3>2, <3>3 DEF NewOwner
  <2>. QED
    BY <1>4, <2>3, <2>4
<1>17. EndsRight'
  <2>. SUFFICES ASSUME NEW e \in 1 .. n
                PROVE  /\ block'[e].ends # "nothing" => block'[e].kind = "transaction"
                       /\ block'[e].ends = "lender" => e > 1 /\ block'[e - 1].conn = block'[e].conn
                       /\ block'[e].ends = "nested" => block'[e].owner # 0
                       /\ block'[e].conn = 0 => block'[e].kind = "session"
    BY <1>1 DEF EndsRight
  <2>1. CASE e = n
    <3>1. b.conn = 0 => b.kind = "session"
      BY <1>1, <1>6, <1>8 DEF NewConnection, ConnectionOf, BindingsInv, TransactionsBind
    <3>2. b.ends = "lender" => depth > 0 /\ block'[depth].conn = b.conn
      BY <1>1, <1>3 DEF NewOwner
    <3>. QED
      BY <1>1, <1>3, <2>1, <3>1, <3>2 DEF NewOwner
  <2>2. CASE e \in 1 .. depth
    <3>1. /\ block[e].ends # "nothing" => block[e].kind = "transaction"
          /\ block[e].ends = "lender" => e > 1 /\ block[e - 1].conn = block[e].conn
          /\ block[e].ends = "nested" => block[e].owner # 0
          /\ block[e].conn = 0 => block[e].kind = "session"
      BY <2>2 DEF BindingsInv, EndsRight
    <3>2. block[e].ends = "lender" => e - 1 \in 1 .. depth
      BY <1>1, <2>2, <3>1
    <3>. QED
      BY <1>2, <1>3, <1>14, <2>2, <3>1, <3>2
  <2>. QED
    BY <1>4, <2>1, <2>2
<1>. QED
  BY <1>5, <1>9, <1>10, <1>11, <1>12, <1>13, <1>15, <1>16, <1>17 DEF BindingsInv
------------------------------------------------------------------------------
\* Each action of the model is one of the three steps.

\* What a new block finds is that of an open block, and an open transaction.
LEMMA OuterInOpen ==
    ASSUME BindingsInv
    PROVE  /\ depth \in 0 .. MaxDepth
           /\ Outer \in 0 .. depth
           /\ OuterToJoin \in {0, Outer}
           /\ ScopeToReuse \in {0, depth}
           /\ ScopeToReuse # 0 => Outer = 0 \/ block[Outer].join_nested
           /\ \A s \in 1 .. depth : block[s] \in Block /\ ConnectionOf(s) \in 0 .. MaxDepth
<1>. USE MaxDepthAssumption DEF Level
<1>1. /\ depth \in 0 .. MaxDepth
      /\ \A s \in 1 .. depth : /\ block[s] \in Block
                               /\ block[s].outer \in 0 .. s
                               /\ block[s].conn \in 0 .. MaxDepth
  BY DEF BindingsInv, BindingsTypeOK, Block, OuterIsTransaction, OpenLevel
<1>. QED
  BY <1>1 DEF Outer, OuterToJoin, ScopeToReuse, ConnectionOf

\* A block opened on a connection of an open level is a block.
LEMMA NewBlockIsBlock ==
    ASSUME NEW kind \in Kinds, NEW c \in 0 .. MaxDepth, NEW o \in 0 .. MaxDepth
    PROVE  LET b == NewBlock(kind, c, o)
           IN /\ b \in Block /\ b.kind = kind /\ b.conn = c /\ b.outer = o
              /\ b.owner = 0 /\ b.ends = "nothing"
BY ClosedIsBlock DEF NewBlock, Block, Closed

\* So is a transaction, with the owner and the end it was given.
LEMMA TransactionBlockIsBlock ==
    ASSUME BindingsInv, depth < MaxDepth,
           NEW c \in 0 .. MaxDepth, NEW opt \in Options, NEW savepoint \in BOOLEAN,
           NEW owner \in 0 .. MaxDepth, NEW ends \in Ends
    PROVE  LET b == TransactionBlock(c, opt, savepoint, owner, ends)
           IN /\ b \in Block /\ b.kind = "transaction" /\ b.conn = c /\ b.outer = depth + 1
              /\ b.savepoint = savepoint /\ b.owner = owner /\ b.ends = ends
<1>. DEFINE n == NewBlock("transaction", c, depth + 1)
<1>1. depth + 1 \in 0 .. MaxDepth /\ "transaction" \in Kinds
  BY MaxDepthAssumption DEF BindingsInv, BindingsTypeOK, Kinds
<1>2. n \in Block /\ n.kind = "transaction" /\ n.conn = c /\ n.outer = depth + 1
  BY <1>1, NewBlockIsBlock
<1>. HIDE DEF n
<1>3. TransactionBlock(c, opt, savepoint, owner, ends) =
        [n EXCEPT !.join_nested = opt.join_nested, !.rollback = opt.rollback,
                  !.savepoint = savepoint, !.owner = owner, !.ends = ends]
  BY DEF TransactionBlock, n
<1>. DEFINE part(k) == [k EXCEPT !.join_nested = opt.join_nested,
                                 !.rollback = opt.rollback]
<1>4. opt.join_nested \in BOOLEAN /\ opt.rollback \in BOOLEAN
  BY DEF Options
<1>5. /\ part(n) \in Block /\ part(n).kind = "transaction" /\ part(n).conn = c
      /\ part(n).outer = depth + 1
  BY <1>2, <1>4 DEF Block
<1>6. TransactionBlock(c, opt, savepoint, owner, ends) =
        [part(n) EXCEPT !.savepoint = savepoint, !.owner = owner, !.ends = ends]
  BY <1>3
<1>. HIDE DEF part
<1>. QED
  BY <1>5, <1>6 DEF Block

\* Opens, with a block of the right shape, is an opening step.
LEMMA OpensBlock ==
    ASSUME BindingsInv, depth < MaxDepth, NEW bl, NEW b, Opens(bl, b),
           MayCheckOut(bl), b \in Block, NewConnection(bl, b), NewOuter(b),
           NewOwner(bl, b)
    PROVE  OpenStep
BY DEF Opens, OpenStep

\* connect() and session_factory() on the connection already bound.
LEMMA ReusesScope ==
    ASSUME BindingsInv, depth < MaxDepth, ScopeToReuse # 0, NEW kind \in {"connect", "session"},
           Opens(CheckedOut(ScopeToReuse), NewBlock(kind, ConnectionOf(ScopeToReuse), Outer))
    PROVE  OpenStep
<1>. DEFINE b == NewBlock(kind, ConnectionOf(depth), Outer)
<1>1. /\ depth \in 1 .. MaxDepth /\ ScopeToReuse = depth
      /\ Outer \in 0 .. MaxDepth /\ ConnectionOf(depth) \in 0 .. MaxDepth
      /\ Outer = 0 \/ block[Outer].join_nested
  BY OuterInOpen, MaxDepthAssumption
<1>2. /\ b \in Block /\ b.kind = kind /\ b.conn = ConnectionOf(depth) /\ b.outer = Outer
      /\ b.owner = 0 /\ b.ends = "nothing"
  BY <1>1, NewBlockIsBlock DEF Kinds
<1>3. Opens(CheckedOut(depth), b)
  BY <1>1
<1>. HIDE DEF b
<1>4. MayCheckOut(CheckedOut(depth))
  BY <1>1 DEF MayCheckOut, OpenLevel
<1>5. NewConnection(CheckedOut(depth), b) /\ NewOuter(b) /\ NewOwner(CheckedOut(depth), b)
  BY <1>1, <1>2 DEF NewConnection, NewOuter, NewOwner
<1>. QED
  BY <1>2, <1>3, <1>4, <1>5, OpensBlock

\* Any block on a connection of its own, or on none yet.
LEMMA OpensOwn ==
    ASSUME BindingsInv, depth < MaxDepth, NEW kind \in {"connect", "session"},
           NEW c, c = depth + 1 \/ (c = 0 /\ kind = "session"), Opens(block, NewBlock(kind, c, Outer))
    PROVE  OpenStep
<1>. DEFINE b == NewBlock(kind, c, Outer)
<1>1. depth \in 0 .. MaxDepth /\ Outer \in 0 .. MaxDepth /\ c \in 0 .. MaxDepth
  BY OuterInOpen, MaxDepthAssumption
<1>2. /\ b \in Block /\ b.kind = kind /\ b.conn = c /\ b.outer = Outer
      /\ b.owner = 0 /\ b.ends = "nothing"
  BY <1>1, NewBlockIsBlock DEF Kinds
<1>. HIDE DEF b
<1>3. MayCheckOut(block) /\ NewConnection(block, b) /\ NewOuter(b) /\ NewOwner(block, b)
  BY <1>1, <1>2 DEF MayCheckOut, NewConnection, NewOuter, NewOwner
<1>4. Opens(block, b)
  BY DEF b
<1>. QED
  BY <1>2, <1>3, <1>4, OpensBlock

\* connect() binds as a block may (Database.connect).
LEMMA OpenConnectStep == BindingsInv /\ OpenConnect => OpenStep
<1>. SUFFICES ASSUME BindingsInv, OpenConnect PROVE OpenStep
  OBVIOUS
<1>1. CASE ScopeToReuse # 0
  BY <1>1, ReusesScope DEF OpenConnect
<1>2. CASE ScopeToReuse = 0
  BY <1>2, OpensOwn DEF OpenConnect
<1>. QED
  BY <1>1, <1>2

\* session_factory() binds as a block may, lazily or not.
LEMMA OpenSessionStep == BindingsInv /\ OpenSession => OpenStep
<1>. SUFFICES ASSUME BindingsInv, OpenSession PROVE OpenStep
  OBVIOUS
<1>1. CASE ScopeToReuse # 0
  BY <1>1, ReusesScope DEF OpenSession
<1>2. CASE ScopeToReuse = 0
  BY <1>2, OpensOwn DEF OpenSession
<1>. QED
  BY <1>1, <1>2

\* autocommit() binds as a block may (Database._autocommit).
LEMMA OpenAutocommitStep == BindingsInv /\ OpenAutocommit => OpenStep
<1>. SUFFICES ASSUME BindingsInv, OpenAutocommit PROVE OpenStep
  OBVIOUS
<1>1. /\ depth \in 0 .. MaxDepth /\ depth < MaxDepth /\ depth + 1 \in 0 .. MaxDepth
      /\ Outer \in 0 .. MaxDepth /\ OuterToJoin \in {0, Outer} /\ "autocommit" \in Kinds
      /\ Outer \in 0 .. depth /\ 0 \in 0 .. MaxDepth
  BY OuterInOpen, MaxDepthAssumption DEF OpenAutocommit, Kinds
<1>2. CASE OuterToJoin # 0
  <2>. DEFINE b == NewBlock("autocommit", block[OuterToJoin].conn, Outer)
  <2>1. block[OuterToJoin].conn \in 0 .. MaxDepth
    BY <1>1, <1>2, OuterInOpen DEF Block
  <2>2. /\ b \in Block /\ b.kind = "autocommit" /\ b.outer = Outer
        /\ b.conn = block[OuterToJoin].conn /\ b.owner = 0 /\ b.ends = "nothing"
    BY <1>1, <2>1, NewBlockIsBlock
  <2>3. Opens(block, b)
    BY <1>2 DEF OpenAutocommit
  <2>. HIDE DEF b
  <2>. QED
    BY <1>1, <1>2, <2>2, <2>3, OpensBlock DEF MayCheckOut, NewConnection, NewOuter, NewOwner
<1>3. CASE OuterToJoin = 0
  <2>. DEFINE n == NewBlock("autocommit", depth + 1, 0)
              b == [n EXCEPT !.autocommit = TRUE]
  <2>1. /\ n \in Block /\ n.kind = "autocommit" /\ n.outer = 0 /\ n.conn = depth + 1
        /\ n.owner = 0 /\ n.ends = "nothing"
    BY <1>1, NewBlockIsBlock
  <2>2. Opens(block, b)
    BY <1>3 DEF OpenAutocommit
  <2>. HIDE DEF n
  <2>3. /\ b \in Block /\ b.kind = "autocommit" /\ b.outer = 0 /\ b.conn = depth + 1
        /\ b.owner = 0 /\ b.ends = "nothing"
    BY <2>1 DEF Block
  <2>. HIDE DEF b
  <2>. QED
    BY <1>1, <2>2, <2>3, OpensBlock DEF MayCheckOut, NewConnection, NewOuter, NewOwner
<1>. QED
  BY <1>2, <1>3

\* A transaction on a connection it may take is an opening step.
LEMMA OpensTransaction ==
    ASSUME BindingsInv, depth < MaxDepth, NEW bl, MayCheckOut(bl),
           NEW c \in 0 .. MaxDepth, NEW opt \in Options, NEW savepoint \in BOOLEAN,
           NEW owner \in 0 .. MaxDepth, NEW ends \in Ends,
           Opens(bl, TransactionBlock(c, opt, savepoint, owner, ends)),
           \/ c = depth + 1
           \/ /\ depth > 0 /\ (Outer = 0 \/ block[Outer].join_nested)
              /\ c = ConnectionOf(depth)
           \/ OuterToJoin # 0 /\ c = block[OuterToJoin].conn,
           owner # 0 => /\ savepoint
                        /\ \/ owner = depth + 1
                           \/ /\ OuterToJoin # 0 /\ owner = block[OuterToJoin].owner
                              /\ c = block[OuterToJoin].conn,
           (owner = depth + 1 \/ ends \in {"root", "lender"}) =>
               \/ c = depth + 1
               \/ depth > 0 /\ Outer = 0 /\ c = ConnectionOf(depth),
           ends = "lender" => depth > 0 /\ bl[depth].conn = c,
           ends = "nested" => owner # 0
    PROVE  OpenStep
<1>. DEFINE b == TransactionBlock(c, opt, savepoint, owner, ends)
<1>1. /\ b \in Block /\ b.kind = "transaction" /\ b.conn = c /\ b.outer = depth + 1
      /\ b.savepoint = savepoint /\ b.owner = owner /\ b.ends = ends
  BY TransactionBlockIsBlock
<1>2. Opens(bl, b)
  OBVIOUS
<1>. HIDE DEF b
<1>3. depth + 1 # 0
  BY OuterInOpen
<1>4. NewConnection(bl, b) /\ NewOuter(b)
  BY <1>1 DEF NewConnection, NewOuter
<1>5. NewOwner(bl, b)
  BY <1>1, <1>3 DEF NewOwner
<1>. QED
  BY <1>1, <1>2, <1>4, <1>5, OpensBlock

\* transaction() binds as a block may, joining, borrowing or on its own
\* (Transaction.__enter__).
LEMMA OpenTransactionStep ==
    ASSUME BindingsInv, NEW opt \in TransactionOptions, OpenTransaction(opt)
    PROVE  OpenStep
<1>. DEFINE savepoint == opt.savepoint \/ opt.rollback
                             \/ (OuterToJoin # 0 /\ block[OuterToJoin].savepoint)
<1>1. /\ opt \in Options /\ savepoint \in BOOLEAN
      /\ depth \in 0 .. MaxDepth /\ depth < MaxDepth /\ depth + 1 \in 0 .. MaxDepth
      /\ OuterToJoin \in 0 .. depth /\ 0 \in 0 .. MaxDepth
      /\ {"nothing", "root", "savepoint", "nested", "lender"} = Ends
  BY OuterInOpen, OptionsAssumption, MaxDepthAssumption DEF OpenTransaction, Options, Ends
<1>2. CASE OuterToJoin # 0
  <2>. DEFINE c == block[OuterToJoin].conn
              owner == IF OwnsSavepoints(OuterToJoin, savepoint) THEN depth + 1
                       ELSE block[OuterToJoin].owner
  <2>1. c \in 0 .. MaxDepth /\ owner \in 0 .. MaxDepth
    BY <1>1, <1>2, OuterInOpen DEF Block
  <2>2. PICK ends \in {"nothing", "nested", "savepoint"} :
            /\ Opens(block, TransactionBlock(c, opt, savepoint, owner, ends))
            /\ ends = "nested" => SavepointOwner(OuterToJoin) # 0
    BY <1>2 DEF OpenTransaction, JoinTransaction
  <2>3. OuterToJoin \in OpenLevel
    BY <1>1, <1>2 DEF OpenLevel
  <2>4. block[OuterToJoin].owner # 0 =>
            block[OuterToJoin].owner \in 1 .. OuterToJoin /\ block[OuterToJoin].savepoint
    BY <2>3 DEF BindingsInv, OwnersBelow
  <2>5. /\ owner = block[OuterToJoin].owner /\ owner # depth + 1
        /\ owner # 0 => savepoint
    <3>1. block[OuterToJoin].owner # 0 => savepoint
      BY <1>2, <2>4
    <3>2. block[OuterToJoin].owner # depth + 1
      BY <1>1, <2>4
    <3>. QED
      BY <1>2, <3>1, <3>2 DEF OwnsSavepoints
  <2>6. ends = "nested" => block[OuterToJoin].owner # 0
    BY <2>2 DEF SavepointOwner
  <2>7. ends \in Ends /\ ends \notin {"root", "lender"}
    BY <2>2 DEF Ends
  <2>8. MayCheckOut(block)
    BY DEF MayCheckOut
  <2>. HIDE DEF owner, savepoint, c
  <2>. QED
    BY <1>1, <1>2, <2>1, <2>2, <2>5, <2>6, <2>7, <2>8, OpensTransaction DEF c
<1>3. CASE OuterToJoin = 0
  <2>. DEFINE s == ScopeToBorrow
              c == IF s # 0 THEN ConnectionOf(s) ELSE depth + 1
              owner == IF OwnsSavepoints(0, savepoint) THEN depth + 1 ELSE 0
              bl == IF s # 0 THEN CheckedOut(s) ELSE block
  <2>1. s # 0 => /\ s = depth /\ depth > 0
                 /\ Outer = 0 \/ block[Outer].join_nested
    BY <1>1, OuterInOpen DEF ScopeToBorrow
  <2>2. c \in 0 .. MaxDepth /\ owner \in 0 .. MaxDepth
    BY <1>1, <2>1, OuterInOpen
  <2>3. MayCheckOut(bl)
    BY <1>1, <2>1 DEF MayCheckOut, OpenLevel
  <2>4. PICK ends \in {"root", "lender"} :
            /\ Opens(bl, TransactionBlock(c, opt, savepoint, owner, ends))
            /\ ends = "lender" => s # 0
    BY <1>3 DEF OpenTransaction, BeginTransaction
  <2>5. \/ c = depth + 1
        \/ depth > 0 /\ Outer = 0 /\ c = ConnectionOf(depth)
    BY <1>3, <2>1 DEF OuterToJoin
  <2>6. owner # 0 => savepoint /\ owner = depth + 1
    BY DEF OwnsSavepoints
  <2>7. ends = "lender" => depth > 0 /\ bl[depth].conn = c
    <3>1. CASE s # 0
      <4>1. bl = [block EXCEPT ![depth] = [block[depth] EXCEPT !.conn = ConnectionOf(depth)]]
        BY <2>1, <3>1 DEF CheckedOut
      <4>2. depth \in Level /\ block \in [Level -> Block] /\ block[depth] \in Block
        BY <1>1, <2>1, <3>1 DEF BindingsInv, BindingsTypeOK, Level
      <4>3. bl[depth].conn = ConnectionOf(depth)
        BY <4>1, <4>2 DEF Block
      <4>. QED
        BY <2>1, <3>1, <4>3
    <3>. QED
      BY <2>4, <3>1
  <2>8. ends \in Ends /\ ends # "nested"
    BY <2>4 DEF Ends
  <2>. HIDE DEF s, c, owner, bl, savepoint
  <2>. QED
    BY <1>1, <2>2, <2>3, <2>4, <2>5, <2>6, <2>7, <2>8, OpensTransaction
<1>. QED
  BY <1>2, <1>3

\* The code of the user checks out a lazy connection, and binds nothing else.
LEMMA UseIsUseStep == BindingsInv /\ Use => UseStep
<1>. SUFFICES ASSUME BindingsInv, Use PROVE UseStep
  OBVIOUS
<1>. USE DEF Uses, UseStep, MayCheckOut, OpenLevel
<1>1. CASE Execute
  <2>1. depth \in OpenLevel
    BY <1>1 DEF Execute, BindingsInv, BindingsTypeOK
  <2>. QED
    BY <1>1, <2>1 DEF Execute
<1>2. ASSUME NEW s \in 1 .. depth, Add(s) PROVE UseStep
  BY <1>2 DEF Add
<1>3. ASSUME NEW s \in 1 .. depth, Query(s) PROVE UseStep
  BY <1>3 DEF Query
<1>4. ASSUME NEW s \in 1 .. depth, Commit(s) PROVE UseStep
  BY <1>4 DEF Commit
<1>5. ASSUME NEW s \in 1 .. depth, Rollback(s) PROVE UseStep
  BY <1>5 DEF Rollback
<1>. QED
  BY <1>1, <1>2, <1>3, <1>4, <1>5 DEF Use

\* Every way a block ends removes it, and nothing else.
LEMMA ExitIsExitStep == BindingsInv /\ Exit => ExitStep
<1>. SUFFICES ASSUME BindingsInv, Exit PROVE ExitStep
  OBVIOUS
<1>1. depth \in Nat
  BY MaxDepthAssumption DEF BindingsInv, BindingsTypeOK
<1>2. ASSUME NEW r, depth > 0, Pops(r) PROVE ExitStep
  BY <1>1, <1>2 DEF Pops, ExitStep
<1>. QED
  BY <1>2 DEF Exit, ExitConnect, ExitAutocommit, ExitTransaction

\* Every step keeps the bindings.
LEMMA NextKeeps == BindingsInv /\ Next => BindingsInv'
<1>. SUFFICES ASSUME BindingsInv, Next PROVE BindingsInv'
  OBVIOUS
<1>1. CASE OpenBlock
  BY <1>1, OpenKeeps, OpenConnectStep, OpenSessionStep, OpenAutocommitStep,
     OpenTransactionStep DEF OpenBlock
<1>2. CASE Use
  BY <1>2, UseKeeps, UseIsUseStep
<1>3. CASE Exit
  BY <1>3, ExitKeeps, ExitIsExitStep
<1>. QED
  BY <1>1, <1>2, <1>3 DEF Next

\* No block is open at the start.
LEMMA InitBinds == Init => BindingsInv
<1>. SUFFICES ASSUME Init PROVE BindingsInv
  OBVIOUS
<1>1. depth = 0 /\ block = [d \in Level |-> Closed]
  BY DEF Init
<1>2. BindingsTypeOK
  BY <1>1, ClosedIsBlock, MaxDepthAssumption DEF BindingsTypeOK, Level
<1>. QED
  BY <1>1, <1>2 DEF BindingsInv, BoundBelow, TransactionsBind, OuterIsTransaction,
     OuterIsInnermost, ApartStaysApart, OwnersBelow, OwnersApart, EndsRight, Transactions,
     OpenLevel

\* The bindings hold in every state, whatever is called on the sessions.
THEOREM BindingsCorrect == Spec => []BindingsInv
<1>1. BindingsInv /\ UNCHANGED vars => BindingsInv'
  BY DEF vars, BindingsInv, BindingsTypeOK, BoundBelow, TransactionsBind,
     OuterIsTransaction, OuterIsInnermost, ApartStaysApart, OwnersBelow, OwnersApart, Alone,
     EndsRight, Transactions, OpenLevel
<1>. QED
  BY <1>1, InitBinds, NextKeeps, PTL DEF Spec

\* No block below transaction(join_nested=False) ever runs on its connection,
\* for any nesting (BaseDatabase._scope_to_reuse, _outer_to_join, Transaction).
THEOREM Apart == Spec => []ApartStaysApart
<1>1. BindingsInv => ApartStaysApart
  BY DEF BindingsInv
<1>. QED
  BY <1>1, BindingsCorrect, PTL

------------------------------------------------------------------------------
(* 3. The blocks and the layer below *)

\* Each session runs on the connection of its block, and the one that takes savepoints
\* there is that of the transaction that owns them.
SessionsFit(w, bl, n) ==
    \A s \in Level :
        LET x == w.session[s]
        IN /\ x.mode # "none" => s <= n /\ x.conn = bl[s].conn
           /\ x.mode = "none" => x.conn = 0 /\ x.pending = {}
           /\ s <= n /\ bl[s].conn = 0 => x.mode # "none"
           /\ x.mode = "create_savepoint" => bl[s].kind = "transaction" /\ bl[s].owner = s

\* A block holds the transaction of its connection when it began it, and no other does.
HandlesFit(w, bl, n) ==
    \A d \in 1 .. n :
        /\ bl[d].ends = "root" => w.handle[d].conn = bl[d].conn /\ w.handle[d].tag \in {Root, Gone}
        /\ bl[d].ends = "savepoint" => w.handle[d].tag # Root

\* Block d began the transaction of its connection, which has not ended.
LiveIn(w, bl, d) == bl[d].ends = "root" /\ w.handle[d].tag # Gone

\* No session of the blocks below holds a transaction that a block began.
HoldersFit(w, bl, n) ==
    \A d \in 1 .. n : LiveIn(w, bl, d) =>
        \A s \in d .. MaxDepth : ~Holds(w, s, bl[d].conn)

\* Every row was written once; one still pending is on no connection.
RowsInv ==
    /\ used \in SUBSET Row
    /\ Held(sa) \subseteq used
    /\ \A s \in Level : /\ sa.session[s].pending \subseteq used
                        /\ sa.session[s].pending \cap Held(sa) = {}
                        /\ wrote[s] \subseteq used
                        /\ s > depth => wrote[s] = {}

\* What a live transaction wrote is on its own connection, if anywhere.
WroteInv ==
    \A d \in 1 .. depth :
        (LiveIn(sa, block, d) /\ block[d].conn \notin sa.auto) =>
            /\ wrote[d] \cap sa.committed = {}
            /\ \A c \in Level \ {block[d].conn} : wrote[d] \cap Uncommitted(sa, c) = {}
            /\ \A s \in Level : wrote[d] \cap sa.session[s].pending = {}

\* The inductive invariant: the bindings, the layer below, how the two fit, and where
\* the rows are.
DataInv ==
    /\ BindingsInv
    /\ Ok(sa)
    /\ SessionsFit(sa, block, depth)
    /\ HandlesFit(sa, block, depth)
    /\ HoldersFit(sa, block, depth)
    /\ RowsInv
    /\ WroteInv

\* The rows of no connection: those pending in some session, and new ones.
Loose(A) == (UNION {sa.session[s].pending : s \in Level}) \cup A

\* No handle changed connection; one may have lost its transaction.
HandlesKept(v, w) ==
    \A d \in Level : w.handle[d].conn = v.handle[d].conn /\ w.handle[d].tag \in {v.handle[d].tag, Gone}

\* What a step does to the rows, on connection k and with the new ones A.
Brings(w, k, A) ==
    /\ \A c \in Level : Uncommitted(w, c) \subseteq Uncommitted(sa, c) \cup (IF c = k THEN Loose(A) ELSE {})
    /\ w.committed \subseteq sa.committed \cup (IF k \in Level THEN Loose(A) \cup Uncommitted(sa, k) ELSE {})
    /\ w.committed = sa.committed \/ k \in sa.auto \/ Unrooted(w, k)
    /\ \A s \in Level : /\ w.session[s].pending \subseteq sa.session[s].pending \cup A
                        /\ w.session[s].pending \cap Held(w) = {}

\* What a step has done to the layer below, before it is complete.
Nets(w, k, A) == Ok(w) /\ Moved(sa, w, k, Loose(A)) /\ HandlesKept(sa, w)

\* The types of the levels, of the blocks and of their connections.
LEMMA LevelsFit ==
    ASSUME BindingsInv
    PROVE  /\ depth \in 0 .. MaxDepth /\ 1 .. depth \subseteq Level
           /\ Level \subseteq Nat \ {0} /\ MaxDepth \in Nat \ {0}
           /\ block \in [Level -> Block]
           /\ \A e \in Level : block[e] \in Block /\ block[e].conn \in 0 .. MaxDepth
           /\ \A e \in 1 .. depth : block[e].conn <= e
           /\ \A e \in 1 .. depth : block[e].ends # "nothing" => block[e].conn # 0
<1>1. depth \in 0 .. MaxDepth /\ block \in [Level -> Block] /\ MaxDepth \in Nat \ {0}
  BY MaxDepthAssumption DEF BindingsInv, BindingsTypeOK
<1>2. \A e \in Level : block[e] \in Block /\ block[e].conn \in 0 .. MaxDepth
  BY <1>1 DEF Block
<1>3. \A e \in 1 .. depth : block[e].conn <= e
  BY DEF BindingsInv, BoundBelow, OpenLevel
<1>4. \A e \in 1 .. depth : block[e].ends # "nothing" => block[e].conn # 0
  BY DEF BindingsInv, EndsRight, TransactionsBind, OpenLevel
<1>. QED
  BY <1>1, <1>2, <1>3, <1>4 DEF Level

\* What keeps the mode and the connection of every session, and adds to none, keeps
\* the sessions fit.
LEMMA SessionsStayFit ==
    ASSUME NEW v, NEW w, NEW bl, NEW n, SessionsFit(v, bl, n),
           \A s \in Level : /\ w.session[s].mode = v.session[s].mode
                            /\ w.session[s].conn = v.session[s].conn
                            /\ w.session[s].pending \subseteq v.session[s].pending
    PROVE  SessionsFit(w, bl, n)
BY DEF SessionsFit

\* A step goes on: by a move of loose rows, or by a change of sessions.
LEMMA NetsTrans ==
    ASSUME DataInv, NEW v, NEW w, NEW k, NEW A, Nets(v, k, A),
           NEW N, N \subseteq Loose(A),
           Works(v, w, k, N) \/ Quiet(v, w)
           \/ (Ok(w) /\ Moved(v, w, 0, {}) /\ HandlesKept(v, w))
    PROVE  Nets(w, k, A)
<1>1. Ok(w) /\ (Moved(v, w, k, N) \/ Moved(v, w, 0, {})) /\ HandlesKept(v, w)
  BY DEF Works, Quiet, Same, HandlesKept
<1>2. Moved(v, w, k, Loose(A))
  BY <1>1, MovedMore
<1>3. sa \in World /\ v \in World /\ w \in World
  BY <1>1 DEF DataInv, Nets, Ok
<1>4. Moved(sa, w, k, Loose(A))
  BY <1>2, <1>3, MovedTrans DEF Nets
<1>5. HandlesKept(sa, w)
  BY <1>1 DEF Nets, HandlesKept
<1>. QED
  BY <1>1, <1>4, <1>5 DEF Nets

\* Every step starts from where it is.
LEMMA NetsSelf == ASSUME DataInv, NEW k, NEW A PROVE Nets(sa, k, A)
<1>1. Quiet(sa, sa)
  BY QuietSelf DEF DataInv
<1>2. Moved(sa, sa, k, Loose(A))
  BY <1>1, MovedMore DEF Quiet, Works
<1>. QED
  BY <1>2 DEF Nets, DataInv, HandlesKept

\* What a lazy block needs before it is used: its connection, in the block and in its
\* session alike (BaseDatabase._checkout, BaseDatabase.session).
LEMMA Prepared ==
    ASSUME DataInv, NEW s \in 1 .. depth, NEW k, NEW A
    PROVE  /\ Nets(Bound(s), k, A)
           /\ SessionsFit(Bound(s), CheckedOut(s), depth)
           /\ Bound(s).committed = sa.committed /\ Bound(s).auto = sa.auto
           /\ Bound(s).stack = sa.stack /\ Bound(s).handle = sa.handle
           /\ \A t \in Level : /\ Bound(s).session[t].mode = sa.session[t].mode
                               /\ Bound(s).session[t].pending = sa.session[t].pending
           /\ \A t \in Level \ {s} : Bound(s).session[t] = sa.session[t]
           /\ sa.session[s].conn # 0 => Bound(s) = sa /\ CheckedOut(s) = block
           /\ sa.session[s].mode # "none" => Bound(s).session[s].conn = ConnectionOf(s)
           /\ MayCheckOut(CheckedOut(s))
<1>. DEFINE x == sa.session[s]
            bl == CheckedOut(s)
            w == Bound(s)
<1>1. /\ s \in Level /\ block \in [Level -> Block] /\ block[s] \in Block
      /\ sa \in World /\ Ok(sa) /\ s \in OpenLevel /\ s <= depth /\ s # 0
  BY LevelsFit DEF DataInv, Ok, OpenLevel
<1>2. /\ x.mode # "none" => s <= depth /\ x.conn = block[s].conn
      /\ x.mode = "none" => x.conn = 0 /\ x.pending = {}
      /\ block[s].conn = 0 => x.mode # "none"
  BY <1>1 DEF DataInv, SessionsFit
<1>3. MayCheckOut(bl)
  BY <1>1 DEF MayCheckOut
<1>4. /\ \A e \in Level \ {s} : bl[e] = block[e]
      /\ bl[s].conn = ConnectionOf(s) /\ bl[s].kind = block[s].kind /\ bl[s].owner = block[s].owner
      /\ block[s].conn # 0 => bl = block
  BY <1>1 DEF CheckedOut, ConnectionOf, Block
<1>. HIDE DEF bl
<1>5. CASE x.mode # "none" /\ x.conn = 0
  <2>1. w = [sa EXCEPT !.session[s].conn = s]
    BY <1>5 DEF Bound
  <2>2. /\ Ok(w) /\ Moved(sa, w, 0, {}) /\ SessionsAs(sa, w, s)
        /\ w.session[s].mode = x.mode /\ w.session[s].conn = s
        /\ w.session[s].pending = x.pending
    BY <1>1, <1>5, <2>1, BindsSession
  <2>. HIDE DEF w
  <2>3. HandlesKept(sa, w)
    BY <2>2 DEF SessionsAs, HandlesKept
  <2>4. Nets(w, k, A)
    BY <2>2, <2>3, NetsSelf, NetsTrans
  <2>5. ConnectionOf(s) = s
    BY <1>2, <1>5 DEF ConnectionOf
  <2>6. ASSUME NEW t \in Level
        PROVE  /\ w.session[t].mode = sa.session[t].mode
               /\ w.session[t].pending = sa.session[t].pending
               /\ t # s => w.session[t].conn = sa.session[t].conn /\ bl[t].conn = block[t].conn
               /\ bl[t].kind = block[t].kind /\ bl[t].owner = block[t].owner
    BY <1>4, <2>2 DEF SessionsAs
  <2>7. SessionsFit(w, bl, depth)
    BY <1>1, <1>2, <1>4, <1>5, <2>2, <2>5, <2>6 DEF DataInv, SessionsFit
  <2>. QED
    BY <1>1, <1>3, <1>5, <2>2, <2>4, <2>5, <2>6, <2>7 DEF SessionsAs, w, bl
<1>6. CASE ~(x.mode # "none" /\ x.conn = 0)
  <2>1. w = sa
    BY <1>6 DEF Bound
  <2>2. block[s].conn # 0
    BY <1>2, <1>6
  <2>3. bl = block /\ ConnectionOf(s) = block[s].conn
    BY <1>4, <2>2 DEF ConnectionOf
  <2>4. SessionsFit(w, bl, depth)
    BY <2>1, <2>3 DEF DataInv
  <2>5. Nets(w, k, A)
    BY <2>1, NetsSelf
  <2>. QED
    BY <1>2, <1>3, <1>6, <2>1, <2>3, <2>4, <2>5 DEF bl
<1>. QED
  BY <1>5, <1>6

\* JoinMode() answers a mode, and create_savepoint for the owner of a transaction only.
LEMMA SessionModeIs ==
    ASSUME NEW bl, NEW d
    PROVE  JoinMode(bl, d) \in {"conditional_savepoint", "create_savepoint", "rollback_only"}
           /\ JoinMode(bl, d) # "none"
           /\ (JoinMode(bl, d) = "create_savepoint" =>
                 LET o == bl[d].outer IN o # 0 /\ bl[o].conn = bl[d].conn /\ bl[o].owner = d)
BY DEF JoinMode

\* A session that is to take savepoints is that of the transaction that owns them.
LEMMA OwnerJoins ==
    ASSUME BindingsInv, NEW s \in 1 .. depth, JoinMode(block, s) = "create_savepoint"
    PROVE  block[s].kind = "transaction" /\ block[s].owner = s
<1>. DEFINE o == block[s].outer
<1>1. o # 0 /\ block[o].owner = s /\ s \in OpenLevel
  BY SessionModeIs DEF OpenLevel
<1>2. o \in 1 .. s /\ o \in OpenLevel
  BY <1>1, LevelsFit DEF BindingsInv, OuterIsTransaction, OpenLevel
<1>3. s \in 1 .. o /\ block[s].kind = "transaction"
  BY <1>1, <1>2, LevelsFit DEF BindingsInv, OwnersBelow
<1>4. o = s
  BY <1>2, <1>3
<1>. QED
  BY <1>1, <1>3, <1>4

\* Reading db.session: as a block is prepared, with a session from then on.
LEMMA PreparedWithSession ==
    ASSUME DataInv, NEW s \in 1 .. depth, NEW k, NEW A
    PROVE  LET w == WithSession(s)
           IN /\ Nets(w, k, A)
              /\ SessionsFit(w, CheckedOut(s), depth)
              /\ w.committed = sa.committed /\ w.auto = sa.auto
              /\ w.stack = sa.stack /\ w.handle = sa.handle
              /\ w.session[s].mode # "none" /\ w.session[s].conn = ConnectionOf(s)
              /\ \A t \in Level : w.session[t].pending = sa.session[t].pending
              /\ \A t \in Level \ {s} : w.session[t] = sa.session[t]
              /\ sa.session[s].mode = "none" => CheckedOut(s) = block
<1>. DEFINE x == sa.session[s]
            w == WithSession(s)
<1>1. /\ s \in Level /\ block \in [Level -> Block] /\ block[s] \in Block
      /\ sa \in World /\ Ok(sa) /\ s \in OpenLevel /\ s <= depth /\ s # 0
      /\ block[s].conn \in 0 .. MaxDepth
  BY LevelsFit DEF DataInv, Ok, OpenLevel
<1>2. CASE x.mode = "none"
  <2>. DEFINE m == JoinMode(block, s)
  <2>1. w = [sa EXCEPT !.session[s] = NewSession(m, block[s].conn)]
    BY <1>2 DEF WithSession
  <2>2. m \in Modes /\ m # "none"
    BY SessionModeIs DEF Modes
  <2>3. m = "create_savepoint" => block[s].kind = "transaction" /\ block[s].owner = s
    BY OwnerJoins DEF DataInv
  <2>. HIDE DEF m
  <2>4. /\ Ok(w) /\ Moved(sa, w, 0, {}) /\ SessionsAs(sa, w, s)
        /\ w.session[s].mode = m /\ w.session[s].conn = block[s].conn
        /\ w.session[s].pending = {}
    <3>1. LET u == [sa EXCEPT !.session[s] = NewSession(m, block[s].conn)]
          IN /\ Ok(u) /\ Moved(sa, u, 0, {}) /\ SessionsAs(sa, u, s)
             /\ u.session[s].mode = m /\ u.session[s].conn = block[s].conn
             /\ u.session[s].pending = {}
      BY <1>1, <2>2, PutsSession
    <3>. QED
      BY <2>1, <3>1
  <2>. HIDE DEF w
  <2>5. HandlesKept(sa, w)
    BY <2>4 DEF SessionsAs, HandlesKept
  <2>6. Nets(w, k, A)
    BY <2>4, <2>5, NetsSelf, NetsTrans
  <2>7. block[s].conn # 0 /\ x.conn = 0 /\ x.pending = {}
    BY <1>1, <1>2 DEF DataInv, SessionsFit
  <2>8. ConnectionOf(s) = block[s].conn /\ CheckedOut(s) = block
    BY <1>1, <2>7 DEF ConnectionOf, CheckedOut, Block
  <2>9. SessionsFit(w, block, depth)
    BY <1>1, <2>2, <2>3, <2>4, <2>7 DEF DataInv, SessionsFit, SessionsAs
  <2>. QED
    BY <2>2, <2>4, <2>6, <2>7, <2>8, <2>9 DEF SessionsAs, w
<1>3. CASE x.mode # "none"
  <2>1. w = Bound(s)
    BY <1>3 DEF WithSession
  <2>. QED
    BY <1>1, <1>3, <2>1, Prepared
<1>. QED
  BY <1>2, <1>3

\* A step that only moves rows leaves every handle, and every holder, where it was.
LEMMA NetsFit ==
    ASSUME DataInv, NEW w, NEW k, NEW A, Nets(w, k, A), NEW bl, MayCheckOut(bl)
    PROVE  /\ HandlesFit(w, bl, depth)
           /\ HoldersFit(w, bl, depth)
           /\ Brings(w, k, A)
<1>1. \A e \in 1 .. depth : /\ bl[e].ends = block[e].ends
                            /\ block[e].ends # "nothing" => bl[e].conn = block[e].conn
                            /\ block[e].ends # "nothing" => block[e].conn \in Level
                            /\ e \in Level
  BY CheckOutKeeps, LevelsFit DEF DataInv, OpenLevel, Level
<1>2. w \in World /\ sa \in World
  BY DEF Nets, DataInv, Ok
<1>3. HandlesFit(w, bl, depth)
  BY <1>1 DEF DataInv, HandlesFit, Nets, HandlesKept, Root, Gone
<1>4. HoldersFit(w, bl, depth)
  <2>. SUFFICES ASSUME NEW d \in 1 .. depth, LiveIn(w, bl, d), NEW s \in d .. MaxDepth,
                       Holds(w, s, bl[d].conn)
                PROVE  FALSE
    BY DEF HoldersFit
  <2>. DEFINE c == block[d].conn
  <2>1. /\ LiveIn(sa, block, d) /\ bl[d].conn = c /\ c \in Level
        /\ w.handle[d].tag = Root /\ w.handle[d].conn = c /\ d \in Level
    BY <1>1, <1>3 DEF LiveIn, HandlesFit, Nets, HandlesKept, Root, Gone
  <2>2. s \in Level
    BY <2>1 DEF Level
  <2>3. ~Holds(sa, s, c)
    BY <2>1 DEF DataInv, HoldersFit
  <2>4. ~Unrooted(w, c)
    BY <2>1 DEF Unrooted, RootOf
  <2>. QED
    BY <2>1, <2>2, <2>3, <2>4 DEF Nets, Moved
<1>5. Brings(w, k, A)
  BY DEF Nets, Moved, Brings, DataInv, RowsInv
<1>. QED
  BY <1>3, <1>4, <1>5

\* The rows of a step, and what the live transactions wrote, after it.
LEMMA BringsKeeps ==
    ASSUME DataInv, NEW k, NEW A \in SUBSET (Row \ used), Brings(sa', k, A), Ok(sa'), Moves(sa', k),
           used' = used \cup A, depth' \in 0 .. MaxDepth,
           \A e \in 1 .. depth : e <= depth' =>
               /\ block'[e].ends = block[e].ends
               /\ block[e].ends # "nothing" => block'[e].conn = block[e].conn
               /\ sa'.handle[e].conn = sa.handle[e].conn
               /\ sa'.handle[e].tag \in {sa.handle[e].tag, Gone}
               /\ block[e].conn \in sa.auto => block[e].conn \in sa'.auto,
           depth' <= depth + 1
    PROVE  RowsInv' /\ WroteInv'
<1>. DEFINE w == sa'
            news == Held(w) \ Held(sa)
<1>1. sa \in World /\ w \in World /\ Loose(A) \subseteq used' /\ used' \in SUBSET Row
      /\ used \subseteq used'
  <2>1. used \in SUBSET Row /\ \A s \in Level : sa.session[s].pending \subseteq used
    BY DEF DataInv, RowsInv
  <2>2. sa \in World /\ w \in World
    BY DEF DataInv, Ok
  <2>3. ASSUME NEW r \in Loose(A) PROVE r \in used \/ r \in A
    <3>1. CASE r \in A
      BY <3>1
    <3>2. CASE r \in UNION {sa.session[s].pending : s \in Level}
      BY <2>1, <3>2
    <3>. QED
      BY <2>3, <3>1, <3>2 DEF Loose
  <2>. QED
    BY <2>1, <2>2, <2>3
<1>2. Held(w) \subseteq Held(sa) \cup Loose(A)
  <2>. SUFFICES ASSUME NEW r \in Held(w) PROVE r \in Held(sa) \cup Loose(A)
    OBVIOUS
  <2>1. r \in w.committed \/ \E c \in Level : r \in Uncommitted(w, c)
    BY <1>1, InHeld
  <2>2. \/ r \in Loose(A) \/ r \in sa.committed
        \/ \E c \in Level : r \in Uncommitted(sa, c)
    BY <2>1 DEF Brings
  <2>. QED
    BY <1>1, <2>2, InHeld
<1>3. Held(w) \subseteq used'
  BY <1>1, <1>2 DEF DataInv, RowsInv
<1>4. \A d \in Level :
          /\ d > depth' => wrote'[d] = {}
          /\ d <= depth' /\ d <= depth /\ block'[d].conn = k => wrote'[d] = wrote[d] \cup news
          /\ d <= depth' /\ ~(d <= depth /\ block'[d].conn = k) => wrote'[d] = wrote[d]
  <2>1. \A d \in Level : wrote'[d] =
          CASE d > depth' -> {}
            [] d <= depth /\ d <= depth' /\ block'[d].conn = k -> wrote[d] \cup news
            [] OTHER -> wrote[d]
    BY DEF Moves
  <2>2. \A d \in Level : d > depth' <=> ~(d <= depth')
    BY DEF Level
  <2>. QED
    BY <2>1, <2>2, Zenon
<1>5. depth \in 0 .. MaxDepth /\ MaxDepth \in Nat /\ 1 .. depth \subseteq Level
  BY LevelsFit DEF DataInv
<1>6. RowsInv'
  <2>1. ASSUME NEW s \in Level
        PROVE  /\ w.session[s].pending \subseteq used'
               /\ w.session[s].pending \cap Held(w) = {}
               /\ wrote'[s] \subseteq used'
               /\ s > depth' => wrote'[s] = {}
    <3>1. w.session[s].pending \subseteq used' /\ w.session[s].pending \cap Held(w) = {}
      BY <1>1 DEF Brings, DataInv, RowsInv
    <3>2. wrote[s] \subseteq used'
      BY <1>1 DEF DataInv, RowsInv
    <3>3. s > depth' \/ s <= depth'
      BY DEF Level
    <3>4. wrote'[s] \in {{}, wrote[s], wrote[s] \cup news}
      BY <1>4, <3>3, Zenon
    <3>. QED
      BY <1>3, <1>4, <3>1, <3>2, <3>4
  <2>. QED
    BY <1>1, <1>3, <2>1 DEF RowsInv
<1>7. WroteInv'
  <2>. SUFFICES ASSUME NEW d \in 1 .. depth', LiveIn(sa', block', d), block'[d].conn \notin sa'.auto
                PROVE  /\ wrote'[d] \cap sa'.committed = {}
                       /\ \A c \in Level \ {block'[d].conn} : wrote'[d] \cap Uncommitted(sa', c) = {}
                       /\ \A s \in Level : wrote'[d] \cap sa'.session[s].pending = {}
    BY DEF WroteInv
  <2>1. CASE d > depth
    <3>1. d \in Level /\ ~(d <= depth) /\ d <= depth'
      BY <1>5, <2>1 DEF Level
    <3>2. wrote'[d] = wrote[d] /\ wrote[d] = {}
      BY <1>4, <2>1, <3>1 DEF DataInv, RowsInv
    <3>. QED
      BY <3>2
  <2>2. CASE d <= depth
    <3>. DEFINE e == block[d].conn
    <3>1. d \in 1 .. depth /\ d \in Level /\ d <= depth'
      BY <1>5, <2>2
    <3>2. /\ block[d].ends = "root" /\ LiveIn(sa, block, d) /\ block'[d].conn = e
          /\ e \notin sa.auto
      BY <3>1 DEF LiveIn
    <3>3. /\ wrote[d] \cap sa.committed = {}
          /\ \A c \in Level \ {e} : wrote[d] \cap Uncommitted(sa, c) = {}
          /\ \A s \in Level : wrote[d] \cap sa.session[s].pending = {}
      BY <3>1, <3>2 DEF DataInv, WroteInv
    <3>4. wrote[d] \cap A = {} /\ wrote[d] \cap Loose(A) = {}
      <4>1. wrote[d] \subseteq used
        BY <3>1 DEF DataInv, RowsInv
      <4>2. wrote[d] \cap A = {}
        BY <4>1
      <4>3. ASSUME NEW r \in Loose(A), r \in wrote[d] PROVE FALSE
        <5>1. r \in UNION {sa.session[s].pending : s \in Level}
          BY <4>2, <4>3 DEF Loose
        <5>. QED
          BY <3>3, <4>3, <5>1
      <4>. QED
        BY <4>2, <4>3
    <3>5. e \in Level
      BY <3>1, <3>2, LevelsFit DEF DataInv, Level
    <3>6. CASE e # k
      <4>1. wrote'[d] = wrote[d]
        BY <1>4, <3>1, <3>2, <3>6, <2>2
      <4>2. wrote[d] \cap w.committed = {}
        BY <3>3, <3>4, <3>6 DEF Brings
      <4>3. \A c \in Level \ {e} : wrote[d] \cap Uncommitted(w, c) = {}
        BY <3>3, <3>4 DEF Brings
      <4>4. \A s \in Level : wrote[d] \cap w.session[s].pending = {}
        BY <3>3, <3>4 DEF Brings
      <4>. QED
        BY <3>2, <4>1, <4>2, <4>3, <4>4
    <3>7. CASE e = k
      <4>1. wrote'[d] = wrote[d] \cup news
        BY <1>4, <3>1, <3>2, <3>7, <2>2
      <4>2. ~Unrooted(w, k)
        <5>1. w.handle[d].conn = e /\ w.handle[d].tag = Root
          BY <3>1, <3>2 DEF DataInv, HandlesFit, LiveIn
        <5>. QED
          BY <3>1, <3>2, <3>7, <5>1 DEF LiveIn, Unrooted, RootOf, Root, Gone
      <4>3. w.committed = sa.committed
        BY <3>2, <3>7, <4>2 DEF Brings
      <4>4. news \cap w.committed = {}
        BY <1>1, <4>3, InHeld
      <4>5. \A c \in Level \ {e} : news \cap Uncommitted(w, c) = {}
        <5>. SUFFICES ASSUME NEW c \in Level \ {e}, NEW r \in news, r \in Uncommitted(w, c) PROVE FALSE
          OBVIOUS
        <5>1. r \in Uncommitted(sa, c)
          BY <3>7 DEF Brings
        <5>. QED
          BY <1>1, <5>1, InHeld
      <4>6. \A s \in Level : news \cap w.session[s].pending = {}
        BY DEF Brings
      <4>7. \A c \in Level \ {e} : wrote[d] \cap Uncommitted(w, c) = {}
        BY <3>3, <3>7 DEF Brings
      <4>8. \A s \in Level : wrote[d] \cap w.session[s].pending = {}
        BY <3>3, <3>4 DEF Brings
      <4>. QED
        BY <3>2, <3>3, <4>1, <4>3, <4>4, <4>5, <4>6, <4>7, <4>8
    <3>. QED
      BY <3>6, <3>7
  <2>. QED
    BY <1>5, <2>1, <2>2
<1>. QED
  BY <1>6, <1>7

\* While a transaction lives that holds its connection alone, a step there commits nothing.
OwnsCommit(k) ==
    \A d \in 1 .. depth :
        (/\ LiveIn(sa, block, d) /\ HoldsAlone(d) /\ d <= depth'
         /\ block[d].conn \notin sa.auto /\ block[d].conn = k) => sa'.committed = sa.committed

\* What every step does to the data, on connection k and with the new rows A.
Steps(k, A) ==
    /\ Ok(sa') /\ Brings(sa', k, A) /\ Moves(sa', k) /\ used' = used \cup A
    /\ depth' \in 0 .. MaxDepth /\ depth' <= depth + 1
    /\ \A e \in 1 .. depth : e <= depth' =>
          /\ block'[e].ends = block[e].ends
          /\ block[e].ends # "nothing" => block'[e].conn = block[e].conn
          /\ sa'.handle[e].conn = sa.handle[e].conn
          /\ sa'.handle[e].tag \in {sa.handle[e].tag, Gone}
          /\ block[e].conn \in sa.auto => block[e].conn \in sa'.auto
    /\ SessionsFit(sa', block', depth')
    /\ HandlesFit(sa', block', depth')
    /\ HoldersFit(sa', block', depth')
    /\ OwnsCommit(k)

\* Every step is one on some connection with some new rows.
DataStep == \E k : \E A \in SUBSET (Row \ used) : Steps(k, A)

\* OutermostOwnsTheCommit, of one step.
CommitIsOwned ==
    \A d \in Transactions :
        (/\ block[d].ends = "root" /\ TransactionLives(d) /\ HoldsAlone(d)
         /\ d <= depth' /\ block[d].conn \notin sa.auto)
            => wrote'[d] \cap sa'.committed = {}

\* Such a step keeps the inductive invariant.
LEMMA StepsKeep == ASSUME DataInv, BindingsInv', DataStep PROVE DataInv'
<1>. PICK k : \E A \in SUBSET (Row \ used) : Steps(k, A)
  BY DEF DataStep
<1>. PICK A \in SUBSET (Row \ used) : Steps(k, A)
  OBVIOUS
<1>1. RowsInv' /\ WroteInv'
  BY BringsKeeps DEF Steps
<1>. QED
  BY <1>1 DEF Steps, DataInv

\* And makes nothing permanent of what a live transaction wrote.
LEMMA StepsOwn == ASSUME DataInv, DataStep PROVE CommitIsOwned
<1>. PICK k : \E A \in SUBSET (Row \ used) : Steps(k, A)
  BY DEF DataStep
<1>. PICK A \in SUBSET (Row \ used) : Steps(k, A)
  OBVIOUS
<1>. SUFFICES ASSUME NEW d \in Transactions, block[d].ends = "root", TransactionLives(d),
                     HoldsAlone(d), d <= depth', block[d].conn \notin sa.auto
              PROVE  wrote'[d] \cap sa'.committed = {}
  BY DEF CommitIsOwned
<1>. DEFINE e == block[d].conn
            news == Held(sa') \ Held(sa)
<1>1. d \in 1 .. depth /\ sa.handle[d].tag # Gone
  BY DEF Transactions, TransactionLives
<1>2. /\ LiveIn(sa, block, d) /\ d \in Level /\ e \in Level /\ d <= depth /\ ~(d > depth')
      /\ block'[d].conn = e
  BY <1>1, LevelsFit DEF LiveIn, DataInv, Level, Steps
<1>3. /\ wrote[d] \cap sa.committed = {}
      /\ \A c \in Level \ {e} : wrote[d] \cap Uncommitted(sa, c) = {}
      /\ \A s \in Level : wrote[d] \cap sa.session[s].pending = {}
  BY <1>1, <1>2 DEF DataInv, WroteInv
<1>4. wrote[d] \cap A = {}
  BY <1>2 DEF DataInv, RowsInv
<1>5. wrote[d] \cap Loose(A) = {}
  <2>1. ASSUME NEW r \in Loose(A), r \in wrote[d] PROVE FALSE
    <3>1. r \in UNION {sa.session[s].pending : s \in Level}
      BY <1>4, <2>1 DEF Loose
    <3>. QED
      BY <1>3, <2>1, <3>1
  <2>. QED
    BY <2>1
<1>6. wrote'[d] = CASE d > depth' -> {}
                    [] d <= depth /\ d <= depth' /\ block'[d].conn = k -> wrote[d] \cup news
                    [] OTHER -> wrote[d]
  BY <1>2 DEF Steps, Moves
<1>7. CASE e # k
  <2>1. wrote'[d] = wrote[d]
    BY <1>2, <1>6, <1>7
  <2>2. wrote[d] \cap sa'.committed = {}
    BY <1>3, <1>5, <1>7 DEF Steps, Brings
  <2>. QED
    BY <2>1, <2>2
<1>8. CASE e = k
  <2>1. wrote'[d] = wrote[d] \cup news
    BY <1>2, <1>6, <1>8
  <2>2. sa'.committed = sa.committed
    BY <1>1, <1>2, <1>8 DEF Steps, OwnsCommit
  <2>3. sa.committed \subseteq Held(sa)
    BY DEF Held
  <2>. QED
    BY <1>3, <2>1, <2>2, <2>3
<1>. QED
  BY <1>7, <1>8

\* A block that found its transaction alone on the connection is the one holder there.
LEMMA NobodyHolds ==
    ASSUME DataInv, NEW k, NEW A, NEW v, Nets(v, k, A), NEW d \in 1 .. depth,
           LiveIn(sa, block, d), HoldsAlone(d), NEW s \in Level,
           v.handle = sa.handle
    PROVE  ~Unrooted(v, block[d].conn) /\ ~Holds(v, s, block[d].conn)
<1>. DEFINE c == block[d].conn
<1>1. d \in Level /\ c \in Level /\ sa.handle[d].conn = c /\ sa.handle[d].tag = Root /\ d \in Nat
  BY LevelsFit DEF DataInv, HandlesFit, LiveIn, Level
<1>2. ~Unrooted(v, c)
  BY <1>1 DEF Unrooted, RootOf
<1>3. Holds(v, s, c) => Holds(sa, s, c)
  BY <1>1, <1>2 DEF Nets, Moved
<1>4. ~Holds(sa, s, c)
  <2>1. CASE s < d
    BY <1>1, <2>1 DEF HoldsAlone, Holds, Level
  <2>2. CASE s >= d
    BY <1>1, <2>2 DEF DataInv, HoldersFit, Level
  <2>. QED
    BY <1>1, <2>1, <2>2 DEF Level
<1>. QED
  BY <1>2, <1>3, <1>4

\* The code of the user, that binds nothing but a lazy connection.
LEMMA UsesStep ==
    ASSUME DataInv, NEW bl, MayCheckOut(bl), NEW w, NEW k, NEW A \in SUBSET (Row \ used),
           Nets(w, k, A), w.auto = sa.auto, SessionsFit(w, bl, depth),
           block' = bl, depth' = depth, Moves(w, k), used' = used \cup A, OwnsCommit(k)
    PROVE  DataStep
<1>1. sa' = w /\ Moves(sa', k)
  BY DEF Moves
<1>2. HandlesFit(w, bl, depth) /\ HoldersFit(w, bl, depth) /\ Brings(w, k, A)
  BY NetsFit
<1>3. depth' \in 0 .. MaxDepth /\ depth' <= depth + 1 /\ 1 .. depth \subseteq Level
  BY LevelsFit DEF DataInv
<1>4. \A e \in 1 .. depth : /\ block'[e].ends = block[e].ends
                            /\ block[e].ends # "nothing" => block'[e].conn = block[e].conn
  BY CheckOutKeeps, LevelsFit DEF DataInv, OpenLevel
<1>5. \A e \in 1 .. depth : /\ w.handle[e].conn = sa.handle[e].conn
                            /\ w.handle[e].tag \in {sa.handle[e].tag, Gone}
  BY <1>3 DEF Nets, HandlesKept
<1>6. Ok(w)
  BY DEF Nets
<1>7. Steps(k, A)
  BY <1>1, <1>2, <1>3, <1>4, <1>5, <1>6 DEF Steps
<1>. QED
  BY <1>7 DEF DataStep

\* A row no one has seen.
LEMMA NextRowIs ==
    ASSUME Unused # {}
    PROVE  NextRow \in Row /\ NextRow \notin used /\ {NextRow} \in SUBSET (Row \ used)
BY DEF Unused, NextRow

\* A statement on the connection of the innermost block.
LEMMA ExecuteSteps == ASSUME DataInv, Execute PROVE DataStep
<1>. DEFINE s == depth
            k == ConnectionOf(depth)
            A == {NextRow}
            u == Bound(depth)
            w == Write(u, k, A)
<1>1. s \in 1 .. depth /\ s \in Level /\ k \in Level /\ A \in SUBSET (Row \ used) /\ A \in SUBSET Row
  BY NextRowIs, LevelsFit DEF Execute, DataInv, ConnectionOf, Level
<1>2. /\ block' = CheckedOut(depth) /\ depth' = depth /\ Moves(w, k) /\ used' = used \cup A
  BY DEF Execute, Uses
<1>. HIDE DEF A, k
<1>3. /\ Nets(u, k, A) /\ SessionsFit(u, CheckedOut(depth), depth) /\ MayCheckOut(CheckedOut(depth))
      /\ u.committed = sa.committed /\ u.auto = sa.auto
      /\ \A t \in Level : u.session[t].pending = sa.session[t].pending
  BY <1>1, Prepared
<1>. HIDE DEF u
<1>4. Ok(u) /\ \A t \in Level : u.session[t].pending \cap A = {}
  BY <1>1, <1>3 DEF Nets, DataInv, RowsInv
<1>5. Works(u, w, k, A) /\ (k \notin u.auto => w.committed = u.committed) /\ w.session = u.session
      /\ w.auto = u.auto
  BY <1>1, <1>4, WritesWork, Writes
<1>. HIDE DEF w
<1>6. A \subseteq Loose(A)
  BY DEF Loose
<1>7. Nets(w, k, A)
  BY <1>3, <1>5, <1>6, NetsTrans
<1>8. SessionsFit(w, CheckedOut(depth), depth)
  BY <1>3, <1>5 DEF SessionsFit
<1>9. OwnsCommit(k)
  BY <1>2, <1>3, <1>5 DEF OwnsCommit, Moves
<1>. QED
  BY <1>1, <1>2, <1>3, <1>5, <1>7, <1>8, <1>9, UsesStep

\* An add() is in the session alone until it is flushed.
LEMMA AddSteps == ASSUME DataInv, NEW s \in 1 .. depth, Add(s) PROVE DataStep
<1>. DEFINE A == {NextRow}
            u == IF sa.session[s].mode = "none" THEN WithSession(s) ELSE sa
            w == AddToSession(u, s, NextRow)
<1>1. s \in Level /\ A \in SUBSET (Row \ used) /\ NextRow \in Row /\ NextRow \notin used
  BY NextRowIs, LevelsFit DEF Add, DataInv
<1>2. block' = block /\ depth' = depth /\ Moves(w, 0) /\ used' = used \cup A
  BY DEF Add, Uses
<1>3. /\ Nets(u, 0, {}) /\ SessionsFit(u, block, depth)
      /\ u.stack = sa.stack /\ u.committed = sa.committed /\ u.auto = sa.auto
      /\ u.handle = sa.handle /\ u.session[s].mode # "none"
      /\ \A t \in Level : u.session[t].pending = sa.session[t].pending
  <2>1. CASE sa.session[s].mode = "none"
    BY <2>1, PreparedWithSession
  <2>2. CASE sa.session[s].mode # "none"
    BY <2>2, NetsSelf DEF DataInv
  <2>. QED
    BY <2>1, <2>2
<1>. HIDE DEF u
<1>4. Ok(u) /\ \A t \in Level : NextRow \notin u.session[t].pending
  BY <1>1, <1>3 DEF Nets, DataInv, RowsInv
<1>5. /\ Ok(w) /\ SessionsAs(u, w, s)
      /\ LET x == u.session[s]  y == w.session[s]
         IN /\ y.mode = x.mode /\ y.conn = x.conn /\ y.join = x.join
            /\ y.commits = x.commits /\ y.pending = x.pending \cup {NextRow}
  BY <1>1, <1>4, AddsToSession
<1>. HIDE DEF w
<1>6. /\ w.stack = sa.stack /\ w.committed = sa.committed /\ w.auto = sa.auto
      /\ w.handle = sa.handle
  BY <1>3, <1>5 DEF SessionsAs
<1>7. \A t \in Level : /\ w.session[t].mode = u.session[t].mode
                       /\ w.session[t].conn = u.session[t].conn
                       /\ w.session[t].join = u.session[t].join
                       /\ w.session[t].commits = u.session[t].commits
                       /\ w.session[t].pending \subseteq u.session[t].pending \cup A
                       /\ t # s => w.session[t].pending = u.session[t].pending
  BY <1>5 DEF SessionsAs
<1>8. SessionsFit(w, block, depth)
  BY <1>3, <1>7 DEF SessionsFit
<1>9. MayCheckOut(block)
  BY DEF MayCheckOut
<1>10. HandlesFit(w, block, depth) /\ HoldersFit(w, block, depth)
  <2>1. HandlesFit(u, block, depth) /\ HoldersFit(u, block, depth)
    BY <1>3, <1>9, NetsFit
  <2>2. w.handle = u.handle /\ 1 .. depth \subseteq Level /\ \A d \in 1 .. depth : d .. MaxDepth \subseteq Level
    BY <1>3, <1>6, LevelsFit DEF DataInv, Level
  <2>3. \A t \in Level, c \in Level : Holds(w, t, c) => Holds(u, t, c)
    BY <1>7 DEF Holds
  <2>4. HandlesFit(w, block, depth)
    BY <2>1, <2>2 DEF HandlesFit
  <2>5. \A d \in 1 .. depth : LiveIn(w, block, d) => LiveIn(u, block, d) /\ block[d].conn \in Level
    BY <2>2, LevelsFit DEF LiveIn, DataInv, Level
  <2>. QED
    BY <2>1, <2>2, <2>3, <2>4, <2>5 DEF HoldersFit
<1>11. Brings(w, 0, A)
  <2>1. \A c \in Level : Uncommitted(w, c) = Uncommitted(sa, c)
    BY <1>6, SameStack
  <2>2. Held(w) = Held(sa)
    BY <1>6 DEF Held, Uncommitted, RowsFrom
  <2>3. \A t \in Level : /\ w.session[t].pending \subseteq sa.session[t].pending \cup A
                         /\ w.session[t].pending \cap Held(w) = {}
    BY <1>1, <1>3, <1>7, <2>2 DEF DataInv, RowsInv
  <2>. QED
    BY <1>6, <2>1, <2>3 DEF Brings
<1>12. sa' = w /\ Moves(sa', 0)
  BY <1>2 DEF Moves
<1>13. depth' \in 0 .. MaxDepth /\ depth' <= depth + 1
  BY <1>2, LevelsFit DEF DataInv
<1>14. OwnsCommit(0)
  BY <1>6, <1>12 DEF OwnsCommit
<1>15. Steps(0, A)
  BY <1>2, <1>5, <1>6, <1>8, <1>10, <1>11, <1>12, <1>13, <1>14 DEF Steps
<1>. QED
  BY <1>1, <1>15 DEF DataStep

\* The connection a block ends up with, and the one of its session.
LEMMA ConnectionIs ==
    ASSUME DataInv, NEW s \in 1 .. depth
    PROVE  /\ s \in Level /\ ConnectionOf(s) \in Level
           /\ sa.session[s].conn # 0 => sa.session[s].conn = ConnectionOf(s)
           /\ sa.session[s].mode = "none" => sa.session[s].pending = {}
           /\ Ok(sa)
<1>1. s \in Level /\ block[s].conn \in 0 .. MaxDepth
  BY LevelsFit DEF DataInv
<1>2. ConnectionOf(s) \in Level
  BY <1>1 DEF ConnectionOf, Level
<1>3. /\ sa.session[s].mode # "none" => sa.session[s].conn = block[s].conn
      /\ sa.session[s].mode = "none" => sa.session[s].conn = 0 /\ sa.session[s].pending = {}
  BY <1>1 DEF DataInv, SessionsFit
<1>. QED
  BY <1>1, <1>2, <1>3 DEF ConnectionOf, DataInv

\* What is pending is on no connection.
LEMMA PendingIsLoose ==
    ASSUME NEW s \in Level, NEW A, NEW v, v.session[s].pending \subseteq sa.session[s].pending
    PROVE  v.session[s].pending \subseteq Loose(A)
BY DEF Loose

\* A query flushes the session, and joins the transaction of its connection.
LEMMA QuerySteps == ASSUME DataInv, NEW s \in 1 .. depth, Query(s) PROVE DataStep
<1>. DEFINE k == ConnectionOf(s)
            u == WithSession(s)
            f == FlushSession(u, s)
            w == JoinSession(f, s)
<1>1. s \in Level /\ k \in Level /\ k # 0
  BY ConnectionIs DEF Level
<1>2. block' = CheckedOut(s) /\ depth' = depth /\ Moves(w, k) /\ used' = used \cup {}
  BY DEF Query, Uses
<1>. HIDE DEF k
<1>3. /\ Nets(u, k, {}) /\ SessionsFit(u, CheckedOut(s), depth)
      /\ u.committed = sa.committed /\ u.auto = sa.auto
      /\ u.session[s].conn = k
      /\ \A t \in Level : u.session[t].pending = sa.session[t].pending
  BY PreparedWithSession DEF k
<1>4. MayCheckOut(CheckedOut(s))
  BY Prepared
<1>. HIDE DEF u
<1>5. Ok(u) /\ u.session[s].pending \subseteq Loose({})
  BY <1>1, <1>3, PendingIsLoose DEF Nets
<1>6. /\ Works(u, f, k, u.session[s].pending)
      /\ k \notin u.auto => f.committed = u.committed
  BY <1>1, <1>3, <1>5, FlushesSession
<1>. HIDE DEF f
<1>7. Nets(f, k, {})
  BY <1>3, <1>5, <1>6, NetsTrans
<1>8. Ok(f) /\ f.session[s].conn # 0
  BY <1>1, <1>3, <1>6 DEF Works, Same
<1>9. Quiet(f, w) /\ w.committed = f.committed
  BY <1>1, <1>8, JoinsSession
<1>. HIDE DEF w
<1>10. Nets(w, k, {})
  BY <1>7, <1>9, NetsTrans
<1>11. /\ w.auto = sa.auto
       /\ \A t \in Level : /\ w.session[t].mode = u.session[t].mode
                           /\ w.session[t].conn = u.session[t].conn
                           /\ w.session[t].pending \subseteq u.session[t].pending
  BY <1>3, <1>6, <1>9 DEF Works, Quiet, Same, Moved
<1>12. SessionsFit(w, CheckedOut(s), depth)
  BY <1>3, <1>11, SessionsStayFit
<1>13. OwnsCommit(k)
  BY <1>2, <1>3, <1>6, <1>9 DEF OwnsCommit, Moves
<1>. QED
  BY <1>2, <1>4, <1>10, <1>11, <1>12, <1>13, UsesStep

\* The commit of a session ends what it holds, and that is no transaction of a block
\* that holds it alone.
LEMMA CommitSteps == ASSUME DataInv, NEW s \in 1 .. depth, Commit(s) PROVE DataStep
<1>. DEFINE k == ConnectionOf(s)
            flushes == sa.session[s].pending # {}
            u == IF flushes THEN WithSession(s) ELSE sa
            bl == IF flushes THEN CheckedOut(s) ELSE block
            w == CommitSession(u, s)
            N == u.session[s].pending
            q == u.session[s].conn
<1>1. s \in Level /\ k \in Level /\ k # 0 /\ Ok(sa)
  BY ConnectionIs DEF Level
<1>2. block' = bl /\ depth' = depth /\ Moves(w, k) /\ used' = used \cup {}
  BY DEF Commit, Uses
<1>3. /\ Nets(u, k, {}) /\ SessionsFit(u, bl, depth) /\ MayCheckOut(bl)
      /\ u.committed = sa.committed /\ u.auto = sa.auto /\ u.handle = sa.handle
      /\ q = k \/ (q = 0 /\ N = {})
      /\ \A t \in Level : u.session[t].pending = sa.session[t].pending
  <2>1. CASE flushes
    <3>1. u = WithSession(s) /\ bl = CheckedOut(s)
      BY <2>1
    <3>2. MayCheckOut(CheckedOut(s))
      BY Prepared
    <3>. QED
      BY <3>1, <3>2, PreparedWithSession
  <2>2. CASE ~flushes
    <3>1. u = sa /\ bl = block /\ MayCheckOut(block)
      BY <2>2 DEF MayCheckOut
    <3>2. q = k \/ (q = 0 /\ N = {})
      BY <2>2, <3>1, ConnectionIs
    <3>. QED
      BY <3>1, <3>2, NetsSelf DEF DataInv
  <2>. QED
    BY <2>1, <2>2
<1>. HIDE DEF u, bl, k
<1>4. Ok(u) /\ N \subseteq Loose({})
  BY <1>1, <1>3, PendingIsLoose DEF Nets
<1>5. q # 0 \/ N = {}
  BY <1>1, <1>3
<1>6. /\ Works(u, w, q, N)
      /\ (q \notin u.auto /\ ~Unrooted(u, q) /\ ~Holds(u, s, q)) => w.committed = u.committed
  BY <1>1, <1>4, <1>5, CommitsSession
<1>. HIDE DEF w
<1>7. Nets(w, k, {})
  <2>1. CASE q = k
    BY <1>3, <1>4, <1>6, <2>1, NetsTrans
  <2>2. CASE q = 0 /\ N = {}
    <3>1. Quiet(u, w)
      BY <1>6, <2>2 DEF Quiet
    <3>. QED
      BY <1>3, <1>4, <3>1, NetsTrans
  <2>. QED
    BY <1>3, <2>1, <2>2
<1>8. /\ w.auto = sa.auto
      /\ \A t \in Level : /\ w.session[t].mode = u.session[t].mode
                          /\ w.session[t].conn = u.session[t].conn
                          /\ w.session[t].pending \subseteq u.session[t].pending
  BY <1>3, <1>6 DEF Works, Same, Moved
<1>9. SessionsFit(w, bl, depth)
  BY <1>3, <1>8, SessionsStayFit
<1>10. OwnsCommit(k)
  <2>. SUFFICES ASSUME NEW d \in 1 .. depth, LiveIn(sa, block, d), HoldsAlone(d),
                       block[d].conn \notin sa.auto, block[d].conn = k
                PROVE  w.committed = sa.committed
    BY <1>2 DEF OwnsCommit, Moves
  <2>1. ~Unrooted(u, k) /\ ~Holds(u, s, k)
    BY <1>1, <1>3, NobodyHolds
  <2>2. CASE q = k
    BY <1>3, <1>6, <2>1, <2>2
  <2>3. CASE q = 0 /\ N = {}
    <3>1. 0 \notin Level
      BY DEF Level
    <3>2. Moved(u, w, 0, {})
      BY <1>6, <2>3 DEF Works
    <3>3. u.committed \subseteq w.committed /\ w.committed \subseteq u.committed \cup {}
      BY <3>1, <3>2 DEF Moved
    <3>. QED
      BY <1>3, <3>3
  <2>. QED
    BY <1>3, <2>2, <2>3
<1>. QED
  BY <1>2, <1>3, <1>7, <1>8, <1>9, <1>10, UsesStep

\* A rollback loses rows, and commits none.
LEMMA RollbackSteps == ASSUME DataInv, NEW s \in 1 .. depth, Rollback(s) PROVE DataStep
<1>. DEFINE w == RollbackSession(sa, s)
<1>1. s \in Level /\ Ok(sa)
  BY ConnectionIs
<1>2. block' = block /\ depth' = depth /\ Moves(w, 0) /\ used' = used \cup {}
  BY DEF Rollback, Uses
<1>3. Quiet(sa, w) /\ w.committed = sa.committed
  BY <1>1, RollsSessionBack
<1>. HIDE DEF w
<1>4. Nets(w, 0, {})
  BY <1>3, NetsSelf, NetsTrans
<1>5. /\ w.auto = sa.auto
      /\ \A t \in Level : /\ w.session[t].mode = sa.session[t].mode
                          /\ w.session[t].conn = sa.session[t].conn
                          /\ w.session[t].pending \subseteq sa.session[t].pending
  BY <1>3 DEF Works, Quiet, Same, Moved
<1>6. SessionsFit(w, block, depth)
  BY <1>5, SessionsStayFit DEF DataInv
<1>7. OwnsCommit(0) /\ MayCheckOut(block)
  BY <1>2, <1>3 DEF OwnsCommit, Moves, MayCheckOut
<1>. QED
  BY <1>2, <1>4, <1>5, <1>6, <1>7, UsesStep

\* Whatever the code inside a block does.
LEMMA UseSteps == ASSUME DataInv, Use PROVE DataStep
BY ExecuteSteps, AddSteps, QuerySteps, CommitSteps, RollbackSteps DEF Use

\* A block opens on what v prepared; w adds its session, its handle or its autocommit.
LEMMA OpensStep ==
    ASSUME DataInv, depth < MaxDepth, NEW bl, MayCheckOut(bl), NEW b, Opens(bl, b),
           NEW v, NEW w, NEW k, Nets(v, k, {}), SessionsFit(v, bl, depth), v.auto = sa.auto,
           Ok(w), w.stack = v.stack, w.committed = v.committed, v.auto \subseteq w.auto,
           \A s \in Level : /\ w.session[s].pending = v.session[s].pending
                            /\ \A c \in Level : Holds(w, s, c) => Holds(v, s, c)
                            /\ s # depth + 1 => /\ w.session[s].mode = v.session[s].mode
                                                /\ w.session[s].conn = v.session[s].conn,
           \A e \in Level \ {depth + 1} : w.handle[e] = v.handle[e],
           w.handle = v.handle \/ w.committed = sa.committed,
           LET y == w.session[depth + 1]
           IN \/ y.mode = "none" /\ y.conn = 0 /\ b.conn # 0
              \/ y.mode # "none" /\ y.conn = b.conn /\ y.mode # "create_savepoint",
           b.ends = "root" => /\ b.conn \in Level
                              /\ w.handle[depth + 1].conn = b.conn
                              /\ w.handle[depth + 1].tag \in {Root, Gone},
           b.ends = "savepoint" => w.handle[depth + 1].tag # Root,
           Moves(w, k), OwnsCommit(k)
    PROVE  DataStep
<1>. DEFINE n == depth + 1
<1>1. /\ sa' = w /\ Moves(sa', k) /\ depth' = n /\ block' = [bl EXCEPT ![n] = b]
      /\ used' = used \cup {}
  BY DEF Moves, Opens
<1>2. /\ depth \in 0 .. MaxDepth /\ n \in 0 .. MaxDepth /\ n \in Level /\ n <= depth + 1
      /\ 1 .. depth \subseteq Level /\ \A e \in 1 .. depth : e # n
      /\ \A e \in 1 .. n : e = n \/ e \in 1 .. depth
      /\ Level \subseteq Nat /\ MaxDepth \in Nat
  BY LevelsFit DEF DataInv, Level
<1>3. /\ bl \in [Level -> Block]
      /\ \A e \in 1 .. depth : /\ bl[e].ends = block[e].ends
                               /\ block[e].ends # "nothing" => bl[e].conn = block[e].conn
  BY CheckOutKeeps, LevelsFit DEF DataInv, OpenLevel
<1>4. block'[n] = b /\ \A e \in Level \ {n} : block'[e] = bl[e]
  BY <1>1, <1>2, <1>3
<1>5. HandlesFit(v, bl, depth) /\ HoldersFit(v, bl, depth) /\ Brings(v, k, {})
  BY NetsFit
<1>6. Brings(w, k, {})
  <2>1. \A c \in Level : Uncommitted(w, c) = Uncommitted(v, c)
    BY SameStack
  <2>2. Held(w) = Held(v)
    BY DEF Held, Uncommitted, RowsFrom
  <2>3. w.committed = sa.committed \/ k \in sa.auto \/ Unrooted(w, k)
    <3>1. w.handle = v.handle => (Unrooted(w, k) <=> Unrooted(v, k))
      BY DEF Unrooted
    <3>. QED
      BY <1>5, <3>1 DEF Brings
  <2>. QED
    BY <1>5, <2>1, <2>2, <2>3 DEF Brings
<1>7. SessionsFit(w, block', n)
  <2>. SUFFICES ASSUME NEW s \in Level
                PROVE  LET x == w.session[s]
                       IN /\ x.mode # "none" => s <= n /\ x.conn = block'[s].conn
                          /\ x.mode = "none" => x.conn = 0 /\ x.pending = {}
                          /\ s <= n /\ block'[s].conn = 0 => x.mode # "none"
                          /\ x.mode = "create_savepoint" =>
                                block'[s].kind = "transaction" /\ block'[s].owner = s
    BY DEF SessionsFit
  <2>1. LET x == v.session[s]
        IN /\ x.mode # "none" => s <= depth /\ x.conn = bl[s].conn
           /\ x.mode = "none" => x.conn = 0 /\ x.pending = {}
           /\ s <= depth /\ bl[s].conn = 0 => x.mode # "none"
           /\ x.mode = "create_savepoint" => bl[s].kind = "transaction" /\ bl[s].owner = s
    BY DEF SessionsFit
  <2>2. CASE s = n
    <3>1. v.session[n].pending = {}
      BY <1>2, <2>1, <2>2
    <3>. QED
      BY <1>2, <1>4, <2>2, <3>1
  <2>3. CASE s # n
    <3>1. s <= n <=> s <= depth
      BY <1>2, <2>3
    <3>. QED
      BY <1>4, <2>1, <2>3, <3>1
  <2>. QED
    BY <2>2, <2>3
<1>8. HandlesFit(w, block', n)
  <2>1. \A e \in 1 .. depth : w.handle[e] = v.handle[e] /\ block'[e] = bl[e]
    BY <1>2, <1>4
  <2>. QED
    BY <1>2, <1>4, <1>5, <2>1 DEF HandlesFit
<1>9. HoldersFit(w, block', n)
  <2>. SUFFICES ASSUME NEW d \in 1 .. n, LiveIn(w, block', d), NEW s \in d .. MaxDepth,
                       Holds(w, s, block'[d].conn)
                PROVE  FALSE
    BY DEF HoldersFit
  <2>1. s \in Level /\ d \in Level
    BY <1>2 DEF Level
  <2>2. CASE d = n
    <3>1. block'[d].conn \in Level
      BY <1>4, <2>2 DEF LiveIn
    <3>2. Holds(v, s, block'[d].conn)
      BY <2>1, <3>1
    <3>3. v.session[s].mode = "none" /\ v.session[s].conn = 0
      BY <1>2, <2>1, <2>2 DEF SessionsFit, Level
    <3>. QED
      BY <3>1, <3>2, <3>3 DEF Holds, Level
  <2>3. CASE d \in 1 .. depth
    <3>1. w.handle[d] = v.handle[d] /\ block'[d] = bl[d]
      BY <1>2, <1>4, <2>3
    <3>2. LiveIn(v, bl, d)
      BY <3>1 DEF LiveIn
    <3>3. bl[d].conn \in Level
      BY <1>3, <2>3, <3>2, LevelsFit DEF LiveIn, DataInv, Level
    <3>4. Holds(v, s, bl[d].conn)
      BY <2>1, <3>1, <3>3
    <3>. QED
      BY <1>5, <2>3, <3>2, <3>4 DEF HoldersFit
  <2>. QED
    BY <1>2, <2>2, <2>3
<1>10. \A e \in 1 .. depth : e <= depth' =>
          /\ block'[e].ends = block[e].ends
          /\ block[e].ends # "nothing" => block'[e].conn = block[e].conn
          /\ w.handle[e].conn = sa.handle[e].conn
          /\ w.handle[e].tag \in {sa.handle[e].tag, Gone}
          /\ block[e].conn \in sa.auto => block[e].conn \in w.auto
  <2>. SUFFICES ASSUME NEW e \in 1 .. depth
                PROVE  /\ block'[e].ends = block[e].ends
                       /\ block[e].ends # "nothing" => block'[e].conn = block[e].conn
                       /\ w.handle[e].conn = sa.handle[e].conn
                       /\ w.handle[e].tag \in {sa.handle[e].tag, Gone}
                       /\ block[e].conn \in sa.auto => block[e].conn \in w.auto
    OBVIOUS
  <2>1. e \in Level /\ e # n
    BY <1>2
  <2>2. block'[e] = bl[e] /\ w.handle[e] = v.handle[e]
    BY <1>4, <2>1
  <2>3. v.handle[e].conn = sa.handle[e].conn /\ v.handle[e].tag \in {sa.handle[e].tag, Gone}
    BY <2>1 DEF Nets, HandlesKept
  <2>. QED
    BY <1>3, <2>2, <2>3
<1>11. Steps(k, {})
  BY <1>1, <1>2, <1>6, <1>7, <1>8, <1>9, <1>10 DEF Steps
<1>. QED
  BY <1>11 DEF DataStep

\* The session of a block that is not open yet.
LEMMA NoSessionYet ==
    ASSUME DataInv, depth < MaxDepth, NEW v, NEW bl, SessionsFit(v, bl, depth)
    PROVE  /\ depth + 1 \in Level /\ depth + 1 \in 1 .. MaxDepth
           /\ v.session[depth + 1].mode = "none" /\ v.session[depth + 1].conn = 0
           /\ v.session[depth + 1].pending = {}
<1>1. depth + 1 \in Level /\ ~(depth + 1 <= depth) /\ depth + 1 \in 1 .. MaxDepth
  BY LevelsFit DEF DataInv, Level
<1>. QED
  BY <1>1 DEF SessionsFit

\* A block that only finds what is there: no session, no handle of its own.
LEMMA OpensOnly ==
    ASSUME DataInv, depth < MaxDepth, NEW bl, MayCheckOut(bl), NEW b, Opens(bl, b),
           NEW w, NEW k, Nets(w, k, {}), SessionsFit(w, bl, depth), w.auto = sa.auto,
           b.conn # 0, b.ends \notin {"root", "savepoint"}, Moves(w, k), OwnsCommit(k)
    PROVE  DataStep
<1>1. Ok(w)
  BY DEF Nets
<1>2. w.session[depth + 1].mode = "none" /\ w.session[depth + 1].conn = 0
  BY NoSessionYet
<1>. QED
  BY <1>1, <1>2, OpensStep

\* What the level around a new block is prepared to.
LEMMA ReusePrepares ==
    ASSUME DataInv, NEW k
    PROVE  /\ ScopeToReuse # 0 =>
                LET s == ScopeToReuse
                    u == Bound(s)
                IN /\ s = depth /\ s \in 1 .. depth /\ ConnectionOf(s) \in Level
                   /\ Nets(u, k, {}) /\ SessionsFit(u, CheckedOut(s), depth)
                   /\ MayCheckOut(CheckedOut(s))
                   /\ u.auto = sa.auto /\ u.committed = sa.committed /\ u.stack = sa.stack
                   /\ u.handle = sa.handle
           /\ Nets(sa, k, {}) /\ SessionsFit(sa, block, depth) /\ MayCheckOut(block)
<1>1. ScopeToReuse # 0 => ScopeToReuse = depth /\ depth \in 1 .. depth
  BY OuterInOpen, LevelsFit DEF DataInv
<1>2. Nets(sa, k, {}) /\ SessionsFit(sa, block, depth) /\ MayCheckOut(block)
  BY NetsSelf DEF DataInv, MayCheckOut
<1>3. ASSUME NEW s \in 1 .. depth
      PROVE  /\ ConnectionOf(s) \in Level
             /\ Nets(Bound(s), k, {}) /\ SessionsFit(Bound(s), CheckedOut(s), depth)
             /\ MayCheckOut(CheckedOut(s))
             /\ Bound(s).auto = sa.auto /\ Bound(s).committed = sa.committed
             /\ Bound(s).stack = sa.stack /\ Bound(s).handle = sa.handle
  BY ConnectionIs, Prepared
<1>. QED
  BY <1>1, <1>2, <1>3

\* With the database as it was, nothing is committed.
LEMMA NothingCommitted ==
    ASSUME NEW w, NEW k, Moves(w, k), w.committed = sa.committed
    PROVE  OwnsCommit(k)
BY DEF Moves, OwnsCommit

\* connect(): the connection, and nothing of the data.
LEMMA OpenConnectSteps == ASSUME DataInv, OpenConnect PROVE DataStep
<1>1. depth < MaxDepth /\ Outer \in 0 .. MaxDepth /\ depth + 1 \in Level
  BY OuterInOpen, LevelsFit DEF OpenConnect, DataInv, Level
<1>2. ASSUME NEW c \in Level
      PROVE  NewBlock("connect", c, Outer).conn = c /\ NewBlock("connect", c, Outer).ends = "nothing"
  BY <1>1, NewBlockIsBlock DEF Kinds, Level
<1>3. CASE ScopeToReuse # 0
  <2>. DEFINE s == ScopeToReuse
              b == NewBlock("connect", ConnectionOf(s), Outer)
              bl == CheckedOut(s)
              u == Bound(s)
  <2>1. Opens(bl, b) /\ Moves(u, 0)
    BY <1>3 DEF OpenConnect
  <2>2. /\ ConnectionOf(s) \in Level /\ Nets(u, 0, {}) /\ SessionsFit(u, bl, depth)
        /\ MayCheckOut(bl) /\ u.auto = sa.auto /\ u.committed = sa.committed
    BY <1>3, ReusePrepares
  <2>3. b.conn # 0 /\ b.ends \notin {"root", "savepoint"}
    BY <1>2, <2>2 DEF Level
  <2>. HIDE DEF b, bl, u
  <2>. QED
    BY <1>1, <2>1, <2>2, <2>3, OpensOnly, NothingCommitted
<1>4. CASE ScopeToReuse = 0
  <2>. DEFINE b == NewBlock("connect", depth + 1, Outer)
  <2>1. Opens(block, b) /\ Moves(sa, 0)
    BY <1>4 DEF OpenConnect
  <2>2. b.conn # 0 /\ b.ends \notin {"root", "savepoint"}
    BY <1>1, <1>2 DEF Level
  <2>. HIDE DEF b
  <2>. QED
    BY <1>1, <2>1, <2>2, ReusePrepares, OpensOnly, NothingCommitted
<1>. QED
  BY <1>3, <1>4

\* A new session on top of what the block was prepared to.
LEMMA OpensSession ==
    ASSUME DataInv, depth < MaxDepth, NEW bl, MayCheckOut(bl), NEW b, Opens(bl, b),
           NEW u, Nets(u, 0, {}), SessionsFit(u, bl, depth), u.auto = sa.auto,
           u.committed = sa.committed, b.ends = "nothing",
           NEW m \in Modes \ {"none", "create_savepoint"}, b.conn \in 0 .. MaxDepth,
           Moves([u EXCEPT !.session[depth + 1] = NewSession(m, b.conn)], 0)
    PROVE  DataStep
<1>. DEFINE n == depth + 1
            w == [u EXCEPT !.session[n] = NewSession(m, b.conn)]
<1>1. n \in Level /\ u.session[n].pending = {} /\ Ok(u)
  BY NoSessionYet DEF Nets
<1>2. /\ Ok(w) /\ SessionsAs(u, w, n)
      /\ w.session[n].mode = m /\ w.session[n].conn = b.conn /\ w.session[n].pending = {}
      /\ w.session[n].join = NoTag
  BY <1>1, PutsSession
<1>3. Moves(w, 0)
  OBVIOUS
<1>. HIDE DEF w
<1>4. \A s \in Level : /\ w.session[s].pending = u.session[s].pending
                       /\ \A c \in Level : Holds(w, s, c) => Holds(u, s, c)
                       /\ s # n => /\ w.session[s].mode = u.session[s].mode
                                   /\ w.session[s].conn = u.session[s].conn
  <2>. SUFFICES ASSUME NEW s \in Level
                PROVE  /\ w.session[s].pending = u.session[s].pending
                       /\ \A c \in Level : Holds(w, s, c) => Holds(u, s, c)
                       /\ s # n => /\ w.session[s].mode = u.session[s].mode
                                   /\ w.session[s].conn = u.session[s].conn
    OBVIOUS
  <2>1. CASE s = n
    <3>1. \A c \in Level : ~Holds(w, s, c)
      BY <1>2, <2>1 DEF Holds, Root, NoTag
    <3>. QED
      BY <1>1, <1>2, <2>1, <3>1
  <2>2. CASE s # n
    <3>1. w.session[s] = u.session[s]
      BY <1>2, <2>2 DEF SessionsAs
    <3>. QED
      BY <2>2, <3>1 DEF Holds
  <2>. QED
    BY <2>1, <2>2
<1>5. OwnsCommit(0)
  BY <1>2, <1>3, NothingCommitted DEF SessionsAs
<1>6. w.stack = u.stack /\ w.committed = u.committed /\ w.auto = u.auto /\ w.handle = u.handle
  BY <1>2 DEF SessionsAs
<1>. QED
  BY <1>2, <1>3, <1>4, <1>5, <1>6, OpensStep

\* session_factory(): the session joins, but never takes savepoints of its own.
LEMMA OpenSessionSteps == ASSUME DataInv, OpenSession PROVE DataStep
<1>1. /\ depth < MaxDepth /\ Outer \in 0 .. depth /\ depth + 1 \in Level /\ depth \in 0 .. MaxDepth
      /\ Outer \in 0 .. MaxDepth /\ 1 .. depth \subseteq Level
  BY OuterInOpen, LevelsFit DEF OpenSession, DataInv, Level
<1>2. ASSUME NEW c \in 0 .. MaxDepth
      PROVE  LET b == NewBlock("session", c, Outer)
             IN b.conn = c /\ b.ends = "nothing" /\ b.outer = Outer
  BY <1>1, NewBlockIsBlock DEF Kinds
<1>3. CASE ScopeToReuse # 0
  <2>. DEFINE s == ScopeToReuse
              b == NewBlock("session", ConnectionOf(s), Outer)
              bl == CheckedOut(s)
              u == Bound(s)
              m == JoinMode(block', depth + 1)
  <2>1. Opens(bl, b) /\ Moves([u EXCEPT !.session[depth + 1] = NewSession(m, ConnectionOf(s))], 0)
    BY <1>3 DEF OpenSession
  <2>2. /\ ConnectionOf(s) \in Level /\ Nets(u, 0, {}) /\ SessionsFit(u, bl, depth)
        /\ MayCheckOut(bl) /\ u.auto = sa.auto /\ u.committed = sa.committed
    BY <1>3, ReusePrepares
  <2>3. b.conn = ConnectionOf(s) /\ b.ends = "nothing" /\ b.outer = Outer /\ b.conn \in 0 .. MaxDepth
    BY <1>2, <2>2 DEF Level
  <2>. HIDE DEF b, bl, u
  <2>4. m # "create_savepoint"
    <3>. SUFFICES ASSUME m = "create_savepoint" PROVE FALSE
      OBVIOUS
    <3>. DEFINE o == block'[depth + 1].outer
    <3>1. o # 0 /\ block'[o].owner = depth + 1
      BY SessionModeIs
    <3>2. bl \in [Level -> Block] /\ \A e \in Level : bl[e].owner = block[e].owner
      BY <2>2, CheckOutKeeps DEF DataInv
    <3>3. block' = [bl EXCEPT ![depth + 1] = b]
      BY <2>1 DEF Opens
    <3>4. o = Outer /\ o \in 1 .. depth
      BY <1>1, <2>3, <3>1, <3>2, <3>3
    <3>5. block[o].owner = depth + 1
      <4>1. o \in Level /\ o # depth + 1
        BY <1>1, <3>4
      <4>2. block'[o] = bl[o]
        BY <3>2, <3>3, <4>1
      <4>. QED
        BY <3>1, <3>2, <4>1, <4>2
    <3>6. o \in OpenLevel /\ block[o].owner # 0
      BY <1>1, <3>4, <3>5 DEF OpenLevel
    <3>. QED
      BY <1>1, <3>4, <3>5, <3>6 DEF DataInv, BindingsInv, OwnersBelow
  <2>5. m \in Modes \ {"none", "create_savepoint"}
    BY <2>4, SessionModeIs DEF Modes
  <2>. HIDE DEF m
  <2>. QED
    BY <1>1, <2>1, <2>2, <2>3, <2>5, OpensSession
<1>4. CASE ScopeToReuse = 0
  <2>. DEFINE b == NewBlock("session", 0, Outer)
              m == "conditional_savepoint"
  <2>1. Opens(block, b) /\ Moves([sa EXCEPT !.session[depth + 1] = NewSession(m, 0)], 0)
    BY <1>4 DEF OpenSession
  <2>2. b.conn = 0 /\ b.ends = "nothing" /\ b.conn \in 0 .. MaxDepth
    BY <1>1, <1>2, MaxDepthAssumption
  <2>3. m \in Modes \ {"none", "create_savepoint"}
    BY DEF Modes
  <2>4. Nets(sa, 0, {}) /\ SessionsFit(sa, block, depth) /\ MayCheckOut(block)
    BY ReusePrepares
  <2>. HIDE DEF b, m
  <2>. QED
    BY <1>1, <2>1, <2>2, <2>3, <2>4, OpensSession
<1>. QED
  BY <1>3, <1>4

\* A connection of autocommit() is one more that keeps each statement at once.
LEMMA AutoAdds ==
    ASSUME NEW v, Ok(v), NEW n \in Level
    PROVE  LET w == [v EXCEPT !.auto = @ \cup {n}]
           IN /\ Ok(w) /\ w.auto = v.auto \cup {n}
              /\ w.session = v.session /\ w.stack = v.stack /\ w.handle = v.handle
              /\ w.committed = v.committed
<1>. DEFINE w == [v EXCEPT !.auto = @ \cup {n}]
<1>1. v \in World
  BY DEF Ok
<1>2. /\ w \in World /\ w.auto = v.auto \cup {n}
      /\ w.session = v.session /\ w.stack = v.stack /\ w.handle = v.handle
      /\ w.committed = v.committed
  BY <1>1 DEF World
<1>. HIDE DEF w
<1>3. Ok(w)
  BY <1>2 DEF Ok, Rooted, Unrooted, Pendings
<1>. QED
  BY <1>2, <1>3 DEF w

\* The handle of a block that holds a transaction of its own.
LEMMA SetsHandle ==
    ASSUME NEW v, Ok(v), NEW n \in Level, NEW c \in 0 .. MaxDepth, NEW t \in Tag,
           t = Root => c \in Level /\ v.stack[c] # <<>>
    PROVE  LET w == [v EXCEPT !.handle[n] = [conn |-> c, tag |-> t]]
           IN /\ Ok(w) /\ w.auto = v.auto
              /\ w.session = v.session /\ w.stack = v.stack /\ w.committed = v.committed
              /\ w.handle[n].conn = c /\ w.handle[n].tag = t
              /\ \A e \in Level \ {n} : w.handle[e] = v.handle[e]
<1>. DEFINE h == [conn |-> c, tag |-> t]
            w == [v EXCEPT !.handle[n] = h]
<1>1. v \in World /\ h \in Handle /\ h.conn = c /\ h.tag = t
  BY DEF Ok, Handle
<1>. HIDE DEF h
<1>2. /\ w \in World /\ w.auto = v.auto
      /\ w.session = v.session /\ w.stack = v.stack /\ w.committed = v.committed
      /\ w.handle[n] = h /\ \A e \in Level \ {n} : w.handle[e] = v.handle[e]
  BY <1>1 DEF World
<1>. HIDE DEF w
<1>3. Rooted(w)
  <2>. SUFFICES ASSUME NEW b \in Level, w.stack[b] = <<>>, NEW e \in Level, RootOf(w.handle[e], b)
                PROVE  FALSE
    BY DEF Rooted, Unrooted
  <2>1. CASE e = n
    BY <1>1, <1>2, <2>1 DEF RootOf
  <2>2. CASE e # n
    BY <1>2, <2>2 DEF Ok, Rooted, Unrooted
  <2>. QED
    BY <2>1, <2>2
<1>4. Ok(w)
  BY <1>2, <1>3 DEF Ok, Pendings
<1>. QED
  BY <1>1, <1>2, <1>4 DEF w, h

\* autocommit(): takes part in the transaction around it, or marks a new connection.
LEMMA OpenAutocommitSteps == ASSUME DataInv, OpenAutocommit PROVE DataStep
<1>. DEFINE n == depth + 1
<1>1. /\ depth < MaxDepth /\ Outer \in 0 .. MaxDepth /\ n \in Level /\ "autocommit" \in Kinds
      /\ OuterToJoin \in 0 .. depth /\ depth \in 0 .. MaxDepth /\ n \in 0 .. MaxDepth /\ 0 \in 0 .. MaxDepth
  BY OuterInOpen, LevelsFit DEF OpenAutocommit, DataInv, Level, Kinds
<1>2. Nets(sa, 0, {}) /\ SessionsFit(sa, block, depth) /\ MayCheckOut(block) /\ Ok(sa)
  BY ReusePrepares DEF DataInv
<1>3. CASE OuterToJoin # 0
  <2>. DEFINE c == block[OuterToJoin].conn
              b == NewBlock("autocommit", c, Outer)
  <2>1. c \in Level
    BY <1>1, <1>3, LevelsFit DEF DataInv, BindingsInv, TransactionsBind, OuterIsTransaction,
       OpenLevel, OuterToJoin, Outer, Level
  <2>2. b.conn # 0 /\ b.ends \notin {"root", "savepoint"}
    BY <1>1, <2>1, NewBlockIsBlock DEF Level
  <2>3. Opens(block, b) /\ Moves(sa, 0)
    BY <1>3 DEF OpenAutocommit
  <2>. HIDE DEF b
  <2>. QED
    BY <1>1, <1>2, <2>2, <2>3, OpensOnly, NothingCommitted
<1>4. CASE OuterToJoin = 0
  <2>. DEFINE a == NewBlock("autocommit", n, 0)
              b == [a EXCEPT !.autocommit = TRUE]
              w == [sa EXCEPT !.auto = @ \cup {n}]
  <2>1. a \in Block /\ a.conn = n /\ a.ends = "nothing"
    BY <1>1, NewBlockIsBlock
  <2>2. Opens(block, b) /\ Moves(w, 0)
    BY <1>4 DEF OpenAutocommit
  <2>. HIDE DEF a
  <2>3. b.conn = n /\ b.ends = "nothing"
    BY <2>1 DEF Block
  <2>4. /\ Ok(w) /\ w.auto = sa.auto \cup {n}
        /\ w.session = sa.session /\ w.stack = sa.stack /\ w.handle = sa.handle
        /\ w.committed = sa.committed
    BY <1>1, <1>2, AutoAdds
  <2>. HIDE DEF b, w
  <2>5. w.session[n].mode = "none" /\ w.session[n].conn = 0 /\ b.conn # 0
    BY <1>1, <1>2, <2>3, <2>4, NoSessionYet DEF Level
  <2>6. \A s, c \in Level : Holds(w, s, c) => Holds(sa, s, c)
    BY <2>4 DEF Holds
  <2>7. OwnsCommit(0)
    BY <2>2, <2>4, NothingCommitted
  <2>. QED
    BY <1>1, <1>2, <2>2, <2>3, <2>4, <2>5, <2>6, <2>7, OpensStep
<1>. QED
  BY <1>3, <1>4

\* A transaction that takes a transaction object of the connection for itself.
LEMMA OpensHandle ==
    ASSUME DataInv, depth < MaxDepth, NEW bl, MayCheckOut(bl), NEW b, Opens(bl, b),
           NEW v, NEW k \in Level, Nets(v, k, {}), SessionsFit(v, bl, depth), v.auto = sa.auto,
           v.committed = sa.committed, b.conn = k,
           NEW t \in Tag, t = Root => v.stack[k] # <<>>,
           b.ends = "root" => t = Root, b.ends = "savepoint" => t # Root,
           Moves([v EXCEPT !.handle[depth + 1] = [conn |-> k, tag |-> t]], k)
    PROVE  DataStep
<1>. DEFINE n == depth + 1
            w == [v EXCEPT !.handle[n] = [conn |-> k, tag |-> t]]
<1>1. n \in Level /\ k \in 0 .. MaxDepth /\ Ok(v) /\ k # 0
  BY NoSessionYet DEF Nets, Level
<1>2. /\ Ok(w) /\ w.auto = v.auto
      /\ w.session = v.session /\ w.stack = v.stack /\ w.committed = v.committed
      /\ w.handle[n].conn = k /\ w.handle[n].tag = t
      /\ \A e \in Level \ {n} : w.handle[e] = v.handle[e]
  BY <1>1, SetsHandle
<1>3. Moves(w, k)
  OBVIOUS
<1>. HIDE DEF w
<1>4. w.session[n].mode = "none" /\ w.session[n].conn = 0
  BY <1>2, NoSessionYet
<1>5. \A s, c \in Level : Holds(w, s, c) => Holds(v, s, c)
  BY <1>2 DEF Holds
<1>6. OwnsCommit(k)
  BY <1>2, <1>3, NothingCommitted
<1>. QED
  BY <1>1, <1>2, <1>3, <1>4, <1>5, <1>6, OpensStep

\* transaction() in one it joins.
LEMMA JoinSteps ==
    ASSUME DataInv, depth < MaxDepth, OuterToJoin # 0, NEW opt \in Options,
           NEW savepoint, savepoint \in BOOLEAN, JoinTransaction(OuterToJoin, opt, savepoint)
    PROVE  DataStep
<1>. DEFINE n == depth + 1
            o == OuterToJoin
            c == block[o].conn
            holder == SavepointOwner(o)
            owner == IF OwnsSavepoints(o, savepoint) THEN n ELSE block[o].owner
            b(ends) == TransactionBlock(c, opt, savepoint, owner, ends)
<1>1. /\ n \in Level /\ o \in 1 .. depth /\ o \in OpenLevel /\ n \in 0 .. MaxDepth
      /\ block[o].kind = "transaction" /\ o \in Level
  BY OuterInOpen, LevelsFit DEF DataInv, OpenLevel, Level, BindingsInv, OuterIsTransaction,
     OuterToJoin, Outer
<1>2. c \in Level /\ c \in 0 .. MaxDepth /\ block[o].owner \in 0 .. MaxDepth
  BY <1>1, LevelsFit DEF DataInv, BindingsInv, TransactionsBind, Level, Block
<1>3. owner \in 0 .. MaxDepth
  BY <1>1, <1>2
<1>4. Nets(sa, c, {}) /\ SessionsFit(sa, block, depth) /\ MayCheckOut(block) /\ Ok(sa)
  BY ReusePrepares DEF DataInv
<1>5. \/ /\ ~savepoint
         /\ Opens(block, b("nothing"))
         /\ Moves(sa, c)
      \/ /\ savepoint /\ holder # 0
         /\ Opens(block, b("nested"))
         /\ Moves(BeginNested(sa, holder, n), c)
      \/ /\ savepoint /\ holder = 0
         /\ Opens(block, b("savepoint"))
         /\ Moves([TakeSavepoint(sa, c, BlockTag(n)) EXCEPT
                        !.handle[n] = [conn |-> c, tag |-> BlockTag(n)]], c)
  BY DEF JoinTransaction
<1>6. \A ends \in Ends : b(ends).conn = c /\ b(ends).ends = ends
  BY <1>2, <1>3, TransactionBlockIsBlock DEF DataInv
<1>. HIDE DEF owner, b
<1>7. CASE Opens(block, b("nothing")) /\ Moves(sa, c)
  <2>1. b("nothing").conn # 0 /\ b("nothing").ends \notin {"root", "savepoint"}
    BY <1>2, <1>6 DEF Ends, Level
  <2>2. OwnsCommit(c)
    BY <1>7, NothingCommitted
  <2>. QED
    BY <1>4, <1>7, <2>1, <2>2, OpensOnly
<1>8. CASE holder # 0 /\ Opens(block, b("nested")) /\ Moves(BeginNested(sa, holder, n), c)
  <2>. DEFINE w == BeginNested(sa, holder, n)
  <2>1. holder = block[o].owner /\ holder # 0 /\ sa.session[holder].mode # "none"
    BY <1>8 DEF SavepointOwner
  <2>2. holder \in 1 .. o /\ block[holder].conn = c
    BY <1>1, <2>1 DEF DataInv, BindingsInv, OwnersBelow
  <2>3. holder \in Level
    BY <1>1, <2>2, LevelsFit DEF DataInv, Level
  <2>4. sa.session[holder].conn = c /\ c # 0
    BY <1>2, <2>1, <2>2, <2>3 DEF DataInv, SessionsFit, Level
  <2>. HIDE DEF holder
  <2>5. /\ Works(sa, w, c, sa.session[holder].pending)
        /\ c \notin sa.auto => w.committed = sa.committed
    BY <1>1, <1>4, <2>3, <2>4, BeginsNested
  <2>6. Moves(w, c)
    BY <1>8
  <2>. HIDE DEF w
  <2>7. Nets(w, c, {})
    BY <1>4, <2>3, <2>5, PendingIsLoose, NetsTrans
  <2>8. w.auto = sa.auto /\ SessionsFit(w, block, depth)
    BY <1>4, <2>5, SessionsStayFit DEF Works, Same, Moved
  <2>9. OwnsCommit(c)
    BY <2>5, <2>6 DEF OwnsCommit, Moves
  <2>10. b("nested").conn # 0 /\ b("nested").ends \notin {"root", "savepoint"}
    BY <1>2, <1>6 DEF Ends, Level
  <2>. QED
    BY <1>4, <1>8, <2>6, <2>7, <2>8, <2>9, <2>10, OpensOnly
<1>9. CASE /\ Opens(block, b("savepoint"))
           /\ Moves([TakeSavepoint(sa, c, BlockTag(n)) EXCEPT
                        !.handle[n] = [conn |-> c, tag |-> BlockTag(n)]], c)
  <2>. DEFINE t == BlockTag(n)
              v == TakeSavepoint(sa, c, t)
  <2>1. t \in LiveTag /\ t \in Tag /\ t # Root
    BY <1>1 DEF LiveTag, Tag, BlockTag, Root
  <2>2. Moves([v EXCEPT !.handle[n] = [conn |-> c, tag |-> t]], c)
    BY <1>9
  <2>. HIDE DEF t
  <2>3. Quiet(sa, v) /\ v.committed = sa.committed
    BY <1>2, <1>4, <2>1, Savepoints
  <2>. HIDE DEF v
  <2>4. Nets(v, c, {})
    BY <1>4, <2>3, NetsTrans
  <2>5. v.auto = sa.auto /\ SessionsFit(v, block, depth)
    BY <1>4, <2>3, SessionsStayFit DEF Quiet, Works, Same, Moved
  <2>6. b("savepoint").conn = c /\ b("savepoint").ends # "root"
    BY <1>6 DEF Ends
  <2>. QED
    BY <1>2, <1>4, <1>9, <2>1, <2>2, <2>3, <2>4, <2>5, <2>6, OpensHandle
<1>. QED
  BY <1>5, <1>7, <1>8, <1>9

\* transaction() with none to join.
LEMMA BeginSteps ==
    ASSUME DataInv, depth < MaxDepth, NEW opt \in Options,
           NEW savepoint, savepoint \in BOOLEAN, BeginTransaction(opt, savepoint)
    PROVE  DataStep
<1>. DEFINE n == depth + 1
            s == ScopeToBorrow
            c == IF s # 0 THEN ConnectionOf(s) ELSE n
            owner == IF OwnsSavepoints(0, savepoint) THEN n ELSE 0
            b(ends) == TransactionBlock(c, opt, savepoint, owner, ends)
            u == IF s # 0 THEN Bound(s) ELSE sa
            bl == IF s # 0 THEN CheckedOut(s) ELSE block
<1>1. n \in Level /\ n \in 0 .. MaxDepth /\ owner \in 0 .. MaxDepth /\ s \in {0, ScopeToReuse}
  BY LevelsFit DEF DataInv, Level, ScopeToBorrow
<1>2. \A k : /\ Nets(u, k, {}) /\ SessionsFit(u, bl, depth) /\ MayCheckOut(bl)
             /\ u.auto = sa.auto /\ u.committed = sa.committed
             /\ c \in Level /\ c \in 0 .. MaxDepth
  BY <1>1, ReusePrepares DEF Level
<1>3. \/ /\ Opens(bl, b("lender"))
         /\ Moves(u, c)
      \/ /\ Opens(bl, b("root"))
         /\ Moves([Autobegin(u, c) EXCEPT !.handle[n] = [conn |-> c, tag |-> Root]], c)
  BY DEF BeginTransaction
<1>4. \A ends \in Ends : b(ends).conn = c /\ b(ends).ends = ends
  BY <1>1, <1>2, TransactionBlockIsBlock DEF DataInv
<1>. HIDE DEF owner, b, u, bl, c, s
<1>5. CASE Opens(bl, b("lender")) /\ Moves(u, c)
  <2>1. b("lender").conn # 0 /\ b("lender").ends \notin {"root", "savepoint"}
    BY <1>2, <1>4 DEF Ends, Level
  <2>2. OwnsCommit(c)
    BY <1>2, <1>5, NothingCommitted
  <2>. QED
    BY <1>2, <1>5, <2>1, <2>2, OpensOnly
<1>6. CASE /\ Opens(bl, b("root"))
           /\ Moves([Autobegin(u, c) EXCEPT !.handle[n] = [conn |-> c, tag |-> Root]], c)
  <2>. DEFINE v == Autobegin(u, c)
  <2>1. Moves([v EXCEPT !.handle[n] = [conn |-> c, tag |-> Root]], c)
    BY <1>6
  <2>2. Ok(u) /\ Nets(u, c, {})
    BY <1>2 DEF Nets
  <2>3. Quiet(u, v) /\ v.committed = u.committed /\ v.auto = u.auto /\ v.stack[c] # <<>>
    BY <1>2, <2>2, Begins
  <2>. HIDE DEF v
  <2>4. Nets(v, c, {})
    BY <2>2, <2>3, NetsTrans
  <2>5. v.auto = sa.auto /\ SessionsFit(v, bl, depth)
    BY <1>2, <2>3, SessionsStayFit DEF Quiet, Works, Same, Moved
  <2>6. b("root").conn = c /\ b("root").ends # "savepoint"
    BY <1>4 DEF Ends
  <2>7. Root \in Tag
    BY DEF Tag, LiveTag
  <2>8. v.committed = sa.committed /\ c \in Level /\ MayCheckOut(bl)
    BY <1>2, <2>3
  <2>9. Opens(bl, b("root"))
    BY <1>6
  <2>. DEFINE r == b("root")
              t == Root
  <2>10. Opens(bl, r) /\ r.conn = c /\ r.ends # "savepoint"
    BY <2>6, <2>9
  <2>11. t \in Tag /\ t = Root /\ Moves([v EXCEPT !.handle[n] = [conn |-> c, tag |-> t]], c)
    BY <2>1, <2>7
  <2>. HIDE DEF r, t
  <2>. QED
    BY <2>3, <2>4, <2>5, <2>8, <2>10, <2>11, OpensHandle
<1>. QED
  BY <1>3, <1>5, <1>6

\* transaction(), whether it joins or begins.
LEMMA OpenTransactionSteps ==
    ASSUME DataInv, NEW opt \in TransactionOptions, OpenTransaction(opt) PROVE DataStep
<1>. DEFINE o == OuterToJoin
            savepoint == opt.savepoint \/ opt.rollback \/ (o # 0 /\ block[o].savepoint)
<1>1. depth < MaxDepth /\ opt \in Options
  BY OptionsAssumption DEF OpenTransaction
<1>2. \/ o # 0 /\ JoinTransaction(o, opt, savepoint)
      \/ o = 0 /\ BeginTransaction(opt, savepoint)
  BY DEF OpenTransaction
<1>3. savepoint \in BOOLEAN
  BY DEF Options
<1>. HIDE DEF savepoint
<1>. QED
  BY <1>1, <1>2, <1>3, JoinSteps, BeginSteps

\* Every kind of block.
LEMMA OpenSteps == ASSUME DataInv, OpenBlock PROVE DataStep
BY OpenConnectSteps, OpenSessionSteps, OpenAutocommitSteps, OpenTransactionSteps DEF OpenBlock

\* A closing block on connection k, its session gone: what it did to the rest.
Gives(w, k) ==
    /\ Nets(w, k, {}) /\ w.auto = sa.auto
    /\ \A t \in Level \ {depth} : /\ w.session[t].mode = sa.session[t].mode
                                  /\ w.session[t].conn = sa.session[t].conn
    /\ w.session[depth].mode = "none" /\ w.session[depth].conn = 0 /\ w.session[depth].pending = {}
    /\ \A d \in 1 .. depth - 1 :
          (LiveIn(sa, block, d) /\ HoldsAlone(d) /\ block[d].conn \notin sa.auto /\ block[d].conn = k)
              => w.committed = sa.committed

\* The innermost block, and its session, when it closes.
LEMMA ClosingLevel ==
    ASSUME DataInv, depth > 0
    PROVE  /\ depth \in 1 .. depth /\ depth \in Level /\ depth \in OpenLevel
           /\ block[depth].conn \in 0 .. MaxDepth
           /\ block[depth].conn # 0 => block[depth].conn \in Level
           /\ 1 .. depth \subseteq Level /\ 1 .. depth - 1 \subseteq 1 .. depth
           /\ sa.session[depth].conn \in {0, block[depth].conn}
           /\ sa.session[depth].conn = 0 /\ sa.session[depth].mode # "none" => block[depth].conn = 0
           /\ sa.session[depth].mode = "none" => sa.session[depth].conn = 0 /\ sa.session[depth].pending = {}
           /\ Ok(sa)
<1>1. depth \in 1 .. depth /\ depth \in Level /\ block[depth].conn \in 0 .. MaxDepth
  BY LevelsFit DEF DataInv
<1>2. 1 .. depth \subseteq Level /\ 1 .. depth - 1 \subseteq 1 .. depth
  BY LevelsFit DEF DataInv
<1>3. /\ sa.session[depth].mode # "none" => sa.session[depth].conn = block[depth].conn
      /\ sa.session[depth].mode = "none" => sa.session[depth].conn = 0 /\ sa.session[depth].pending = {}
  BY <1>1 DEF DataInv, SessionsFit
<1>. QED
  BY <1>1, <1>2, <1>3 DEF DataInv, Level, OpenLevel

\* A step after the session is gone, on the same connection.
LEMMA GivesMore ==
    ASSUME DataInv, depth > 0, NEW k, NEW v, NEW w, Gives(v, k), NEW N, N \subseteq Loose({}),
           Works(v, w, k, N) \/ Quiet(v, w),
           \/ w.committed = v.committed
           \/ \A d \in 1 .. depth - 1 :
                 ~(LiveIn(sa, block, d) /\ block[d].conn \notin sa.auto /\ block[d].conn = k)
    PROVE  Gives(w, k)
<1>1. Nets(w, k, {})
  BY NetsTrans DEF Gives
<1>2. /\ w.auto = v.auto
      /\ \A t \in Level : /\ w.session[t].mode = v.session[t].mode
                          /\ w.session[t].conn = v.session[t].conn
                          /\ w.session[t].pending \subseteq v.session[t].pending
  BY DEF Works, Quiet, Same, Moved
<1>3. depth \in Level
  BY ClosingLevel
<1>4. w.session[depth].mode = "none" /\ w.session[depth].conn = 0 /\ w.session[depth].pending = {}
  BY <1>2, <1>3 DEF Gives
<1>. QED
  BY <1>1, <1>2, <1>4 DEF Gives

\* How the block's own session ends (BaseDatabase._close_session), case by case.
LEMMA OwnSessionIs ==
    ASSUME NEW d, NEW exc, NEW commits, NEW flush, NEW fails
    PROVE  LET r == CloseOwnSession(d, exc, commits, flush, fails)
               Leaves(v) == r.sa = DropSession(v, d)
           IN /\ r = [sa |-> r.sa, exc |-> r.exc]
              /\ \/ Leaves(sa) /\ r.exc = exc /\ sa.session[d].mode = "none"
                 \/ Leaves(CloseSession(sa, d)) /\ r.exc = exc /\ ~commits
                 \/ Leaves(RollbackSession(sa, d)) /\ r.exc = fails
                 \/ /\ Leaves(RollbackSession(JoinSession(Bound(d), d), d)) /\ r.exc = fails
                    /\ commits /\ sa.session[d].mode # "none"
                 \/ /\ Leaves(CommitSession(Bound(d), d)) /\ r.exc \in {exc, fails}
                    /\ commits /\ sa.session[d].mode # "none"
<1>. DEFINE w == Bound(d)
            committed == CommitSession(w, d)
            joined == JoinSession(w, d)
            r == CloseOwnSession(d, exc, commits, flush, fails)
            e == IF committed.session[d].stuck THEN fails ELSE exc
            Of(v, x) == r = [[sa |-> v, exc |-> x] EXCEPT !.sa = DropSession(@, d)]
<1>1. ASSUME NEW v, NEW x, Of(v, x) PROVE /\ r = [sa |-> r.sa, exc |-> r.exc]
                                          /\ r.sa = DropSession(v, d) /\ r.exc = x
  <2>. HIDE DEF r
  <2>. QED
    BY <1>1
<1>2. e \in {exc, fails}
  OBVIOUS
<1>. HIDE DEF e, committed, joined
<1>3. \/ Of(sa, exc) /\ sa.session[d].mode = "none"
      \/ Of(CloseSession(sa, d), exc) /\ ~commits
      \/ Of(RollbackSession(sa, d), fails)
      \/ Of(RollbackSession(joined, d), fails) /\ commits /\ sa.session[d].mode # "none"
      \/ Of(committed, e) /\ commits /\ sa.session[d].mode # "none"
  <2>1. ASSUME sa.session[d].mode = "none" PROVE Of(sa, exc)
    BY <2>1 DEF CloseOwnSession
  <2>2. ASSUME sa.session[d].mode # "none", ~commits PROVE Of(CloseSession(sa, d), exc)
    BY <2>2 DEF CloseOwnSession
  <2>3. ASSUME sa.session[d].mode # "none", commits, flush = "refused"
        PROVE  Of(RollbackSession(joined, d), fails)
    BY <2>3 DEF CloseOwnSession, joined
  <2>4. ASSUME sa.session[d].mode # "none", commits, flush \notin {"done", "refused"}
        PROVE  Of(RollbackSession(sa, d), fails)
    BY <2>4 DEF CloseOwnSession
  <2>5. ASSUME sa.session[d].mode # "none", commits, flush = "done" PROVE Of(committed, e)
    BY <2>5 DEF CloseOwnSession, committed, e
  <2>. HIDE DEF Of, joined
  <2>. QED
    BY <2>1, <2>2, <2>3, <2>4, <2>5
<1>4. /\ r = [sa |-> r.sa, exc |-> r.exc]
      /\ \/ r.sa = DropSession(sa, d) /\ r.exc = exc /\ sa.session[d].mode = "none"
         \/ r.sa = DropSession(CloseSession(sa, d), d) /\ r.exc = exc /\ ~commits
         \/ r.sa = DropSession(RollbackSession(sa, d), d) /\ r.exc = fails
         \/ /\ r.sa = DropSession(RollbackSession(joined, d), d) /\ r.exc = fails
            /\ commits /\ sa.session[d].mode # "none"
         \/ /\ r.sa = DropSession(committed, d) /\ r.exc = e
            /\ commits /\ sa.session[d].mode # "none"
  <2>. HIDE DEF Of, r
  <2>. QED
    BY <1>1, <1>3
<1>. HIDE DEF r
<1>. QED
  BY <1>2, <1>4 DEF r, committed, joined

\* The end of the session of the block (BaseDatabase._close_session).
LEMMA ClosesOwnSession ==
    ASSUME DataInv, depth > 0, NEW exc, NEW commits, NEW flush, NEW fails,
           commits => block[depth].conn # 0
    PROVE  Gives(CloseOwnSession(depth, exc, commits, flush, fails).sa, block[depth].conn)
<1>. DEFINE D == depth
            k == block[D].conn
            r == CloseOwnSession(D, exc, commits, flush, fails)
            joined == JoinSession(Bound(D), D)
            q == sa.session[D].conn
<1>1. /\ D \in 1 .. D /\ D \in Level /\ Ok(sa) /\ q \in {0, k} /\ (q = 0 => sa.session[D].mode = "none" \/ k = 0)
      /\ sa.session[D].mode = "none" => q = 0 /\ sa.session[D].pending = {}
      /\ k \in 0 .. MaxDepth /\ 1 .. D - 1 \subseteq 1 .. D
  BY ClosingLevel
<1>2. PICK v : /\ r.sa = DropSession(v, D)
               /\ \/ v = sa /\ sa.session[D].mode = "none"
                  \/ v = CloseSession(sa, D)
                  \/ v = RollbackSession(sa, D)
                  \/ commits /\ v = RollbackSession(joined, D) /\ sa.session[D].mode # "none"
                  \/ commits /\ v = CommitSession(Bound(D), D) /\ sa.session[D].mode # "none"
  BY OwnSessionIs
<1>. HIDE DEF r
<1>3. /\ Ok(v) /\ Nets(v, k, {}) /\ v.auto = sa.auto
      /\ \A t \in Level : v.session[t].mode = sa.session[t].mode /\ v.session[t].conn = sa.session[t].conn
      /\ \A d \in 1 .. D - 1 :
          (LiveIn(sa, block, d) /\ HoldsAlone(d) /\ block[d].conn \notin sa.auto /\ block[d].conn = k)
              => v.committed = sa.committed
  <2>1. CASE v = sa
    BY <1>1, <2>1, NetsSelf
  <2>2. CASE Quiet(sa, v) /\ v.committed = sa.committed
    <3>1. Nets(sa, k, {}) /\ {} \subseteq Loose({})
      BY NetsSelf
    <3>2. Nets(v, k, {})
      BY <2>2, <3>1, NetsTrans
    <3>. QED
      BY <2>2, <3>2 DEF Quiet, Works, Same
  <2>3. CASE v = CloseSession(sa, D) \/ v = RollbackSession(sa, D)
    BY <1>1, <2>2, <2>3, ClosesSession, RollsSessionBack
  <2>4. CASE commits /\ v = CommitSession(Bound(D), D) /\ sa.session[D].mode # "none"
    <3>1. q = k /\ q # 0 /\ Bound(D) = sa
      BY <1>1, <2>4, Prepared
    <3>2. /\ Works(sa, v, k, sa.session[D].pending)
          /\ (k \notin sa.auto /\ ~Unrooted(sa, k) /\ ~Holds(sa, D, k)) => v.committed = sa.committed
      BY <1>1, <2>4, <3>1, CommitsSession
    <3>3. Nets(sa, k, {}) /\ sa.session[D].pending \subseteq Loose({})
      BY <1>1, NetsSelf, PendingIsLoose
    <3>4. Nets(v, k, {})
      BY <3>2, <3>3, NetsTrans
    <3>5. ASSUME NEW d \in 1 .. D - 1, LiveIn(sa, block, d), HoldsAlone(d),
                 block[d].conn \notin sa.auto, block[d].conn = k
          PROVE  v.committed = sa.committed
      <4>1. d \in 1 .. D
        BY <1>1
      <4>2. ~Unrooted(sa, k) /\ ~Holds(sa, D, k)
        BY <1>1, <3>3, <3>5, <4>1, NobodyHolds
      <4>. QED
        BY <3>2, <3>5, <4>2
    <3>. QED
      BY <3>2, <3>4, <3>5 DEF Works, Same
  <2>5. CASE commits /\ v = RollbackSession(joined, D) /\ sa.session[D].mode # "none"
    <3>1. q # 0 /\ Bound(D) = sa
      BY <1>1, <2>5, Prepared
    <3>2. joined = JoinSession(sa, D)
      BY <3>1
    <3>. HIDE DEF joined
    <3>3. Quiet(sa, joined) /\ joined.committed = sa.committed
      BY <1>1, <3>1, <3>2, JoinsSession
    <3>4. Ok(joined)
      BY <3>3 DEF Quiet, Works
    <3>5. Quiet(joined, v) /\ v.committed = joined.committed
      BY <1>1, <2>5, <3>4, RollsSessionBack
    <3>. QED
      BY <1>1, <2>2, <3>3, <3>5, QuietTrans
  <2>. QED
    BY <1>2, <2>1, <2>3, <2>4, <2>5
<1>4. /\ Ok(r.sa) /\ Moved(v, r.sa, 0, {}) /\ SessionsAs(v, r.sa, D)
      /\ r.sa.session[D] = NoSession
  BY <1>1, <1>2, <1>3, DropsSession
<1>5. HandlesKept(v, r.sa)
  BY <1>4 DEF HandlesKept, SessionsAs
<1>6. Nets(r.sa, k, {})
  BY <1>3, <1>4, <1>5, NetsTrans
<1>7. /\ r.sa.session[D].mode = "none" /\ r.sa.session[D].conn = 0 /\ r.sa.session[D].pending = {}
  BY <1>4 DEF NoSession
<1>. QED
  BY <1>3, <1>4, <1>6, <1>7 DEF Gives, SessionsAs, r

\* A transaction with no other to join runs on the connection of no live one.
LEMMA AloneEnds ==
    ASSUME DataInv, depth > 0, block[depth].ends \in {"root", "lender"}
    PROVE  \A d \in 1 .. depth - 1 : ~(LiveIn(sa, block, d) /\ block[d].conn = block[depth].conn)
<1>. SUFFICES ASSUME NEW d \in 1 .. depth - 1, LiveIn(sa, block, d),
                     block[d].conn = block[depth].conn
              PROVE  FALSE
  OBVIOUS
<1>1. d \in OpenLevel /\ depth \in OpenLevel /\ d < depth
  BY ClosingLevel, LevelsFit DEF OpenLevel, DataInv
<1>2. block[d].kind = "transaction"
  BY <1>1 DEF DataInv, BindingsInv, EndsRight, LiveIn
<1>3. Alone(depth)
  BY DEF Alone
<1>. QED
  BY <1>1, <1>2, <1>3 DEF DataInv, BindingsInv, OwnersApart

\* The end of the transaction, after that of the session (Transaction._finish).
LEMMA Finishes ==
    ASSUME DataInv, depth > 0, NEW r, Gives(r.sa, block[depth].conn)
    PROVE  Gives(Finish(r, depth).sa, block[depth].conn)
<1>. DEFINE D == depth
            b == block[D]
            k == b.conn
            w == r.sa
            f == Finish(r, D)
            t == w.handle[D].tag
<1>1. /\ D \in Level /\ D \in OpenLevel /\ Ok(sa) /\ Ok(w) /\ (k # 0 => k \in Level)
      /\ 1 .. D \subseteq Level /\ b.ends \in Ends
      /\ 1 .. D \subseteq OpenLevel
  BY ClosingLevel, LevelsFit DEF Gives, Nets, OpenLevel, DataInv, Block
<1>2. /\ b.ends # "nothing" => k # 0
      /\ b.ends = "lender" => D > 1 /\ block[D - 1].conn = k
      /\ b.ends = "nested" => b.owner # 0
  BY <1>1, LevelsFit DEF DataInv, BindingsInv, EndsRight, OpenLevel
<1>3. \A s \in Level : w.session[s].pending \subseteq sa.session[s].pending
  BY DEF Gives, Nets, Moved
<1>4. \A s \in Level : w.session[s].pending \subseteq Loose({})
  BY <1>3, PendingIsLoose
<1>5. \/ f.sa = w
      \/ b.ends = "lender" /\ f.sa \in {CommitSession(w, D - 1), RollbackSession(w, D - 1)}
      \/ /\ b.ends = "nested" /\ HoldsNested(w, b.owner, D)
         /\ f.sa \in {CommitNested(w, b.owner, D), RollbackNested(w, b.owner, D)}
      \/ /\ b.ends \in {"root", "savepoint"}
         /\ f.sa \in {Undo(w, k, t), Keep(w, k, t)}
  <2>1. CASE b.ends = "nothing"
    BY <2>1 DEF Finish
  <2>2. CASE b.ends = "lender"
    BY <2>2 DEF Finish
  <2>3. CASE b.ends \in {"root", "savepoint", "nested"} /\ ~Active(w, D)
    BY <2>3 DEF Finish
  <2>4. CASE b.ends = "nested" /\ Active(w, D)
    <3>1. HoldsNested(w, b.owner, D)
      BY <2>4 DEF Active
    <3>2. f.sa \in {CommitNested(w, b.owner, D), RollbackNested(w, b.owner, D)}
      BY <2>4 DEF Finish
    <3>. QED
      BY <2>4, <3>1, <3>2
  <2>5. CASE b.ends \in {"root", "savepoint"} /\ Active(w, D)
    BY <2>5 DEF Finish
  <2>. QED
    BY <1>1, <2>1, <2>2, <2>3, <2>4, <2>5 DEF Ends
<1>. HIDE DEF f
<1>6. CASE f.sa = w
  BY <1>6 DEF f
<1>7. CASE b.ends = "lender" /\ f.sa \in {CommitSession(w, D - 1), RollbackSession(w, D - 1)}
  <2>. DEFINE s == D - 1
              q == w.session[s].conn
              N == w.session[s].pending
  <2>1. s \in Level /\ s # D /\ s \in 1 .. D
    BY <1>1, <1>2, <1>7, LevelsFit DEF DataInv
  <2>2. \A d \in 1 .. D - 1 : ~(LiveIn(sa, block, d) /\ block[d].conn \notin sa.auto /\ block[d].conn = k)
    BY <1>7, AloneEnds
  <2>3. q = k \/ (q = 0 /\ N = {})
    <3>1. q = sa.session[s].conn /\ N \subseteq sa.session[s].pending
      BY <1>3, <2>1 DEF Gives
    <3>2. /\ sa.session[s].mode # "none" => sa.session[s].conn = block[s].conn
          /\ sa.session[s].mode = "none" => sa.session[s].conn = 0 /\ sa.session[s].pending = {}
      BY <2>1 DEF DataInv, SessionsFit
    <3>. QED
      BY <1>2, <1>7, <3>1, <3>2
  <2>4. CASE f.sa = CommitSession(w, s)
    <3>1. Works(w, f.sa, q, N)
      BY <1>1, <1>2, <1>7, <2>1, <2>3, <2>4, CommitsSession
    <3>2. CASE q = k
      BY <1>4, <2>1, <2>2, <3>1, <3>2, GivesMore DEF f
    <3>3. CASE q = 0 /\ N = {}
      <4>1. Quiet(w, f.sa)
        BY <3>1, <3>3 DEF Quiet
      <4>2. {} \subseteq Loose({})
        OBVIOUS
      <4>. QED
        BY <2>2, <4>1, <4>2, GivesMore DEF f
    <3>. QED
      BY <2>3, <3>2, <3>3
  <2>5. CASE f.sa = RollbackSession(w, s)
    <3>1. Quiet(w, f.sa) /\ f.sa.committed = w.committed
      BY <1>1, <2>1, <2>5, RollsSessionBack
    <3>2. {} \subseteq Loose({})
      OBVIOUS
    <3>. QED
      BY <3>1, <3>2, GivesMore DEF f
  <2>. QED
    BY <1>7, <2>4, <2>5
<1>8. CASE /\ b.ends = "nested" /\ HoldsNested(w, b.owner, D)
           /\ f.sa \in {CommitNested(w, b.owner, D), RollbackNested(w, b.owner, D)}
  <2>. DEFINE o == b.owner
              N == w.session[o].pending
  <2>1. o \in 1 .. D /\ block[o].conn = k
    BY <1>1, <1>2, <1>8 DEF DataInv, BindingsInv, OwnersBelow
  <2>2. o \in Level
    BY <1>1, <2>1
  <2>3. w.session[o].conn \in Level
    BY <1>1, <1>8, <2>2, NestedPositionIs
  <2>4. o # D /\ w.session[o].conn = sa.session[o].conn
    BY <2>2, <2>3 DEF Gives, Level
  <2>5. w.session[o].conn = k
    BY <2>2, <2>3, <2>4, <2>1 DEF DataInv, SessionsFit, Level
  <2>6. w.auto = sa.auto /\ N \subseteq Loose({})
    BY <1>4, <2>2 DEF Gives
  <2>7. CASE f.sa = CommitNested(w, o, D)
    <3>1. /\ Works(w, f.sa, k, N)
          /\ k \notin w.auto => f.sa.committed = w.committed
      BY <1>1, <1>8, <2>2, <2>5, <2>7, CommitsNested
    <3>2. CASE k \notin sa.auto
      BY <2>6, <3>1, <3>2, GivesMore DEF f
    <3>3. CASE k \in sa.auto
      <4>1. \A d \in 1 .. D - 1 :
                ~(LiveIn(sa, block, d) /\ block[d].conn \notin sa.auto /\ block[d].conn = k)
        BY <3>3
      <4>. QED
        BY <2>6, <3>1, <4>1, GivesMore DEF f
    <3>. QED
      BY <3>2, <3>3
  <2>8. CASE f.sa = RollbackNested(w, o, D)
    <3>1. Quiet(w, f.sa) /\ f.sa.committed = w.committed
      BY <1>1, <1>8, <2>2, <2>8, RollsNestedBack
    <3>. QED
      BY <2>6, <3>1, GivesMore DEF f
  <2>. QED
    BY <1>8, <2>7, <2>8
<1>9. CASE b.ends \in {"root", "savepoint"} /\ f.sa \in {Undo(w, k, t), Keep(w, k, t)}
  <2>1. k \in Level
    BY <1>1, <1>2, <1>9
  <2>2. {} \subseteq Loose({})
    OBVIOUS
  <2>3. CASE f.sa = Undo(w, k, t)
    <3>1. Quiet(w, f.sa) /\ f.sa.committed = w.committed
      BY <1>1, <2>1, <2>3, Undoes
    <3>. QED
      BY <2>2, <3>1, GivesMore DEF f
  <2>4. CASE f.sa = Keep(w, k, t)
    <3>1. Works(w, f.sa, k, {}) /\ (t # Root => f.sa.committed = w.committed)
      BY <1>1, <2>1, <2>4, Keeping
    <3>2. CASE b.ends = "root"
      <4>1. \A d \in 1 .. D - 1 :
                ~(LiveIn(sa, block, d) /\ block[d].conn \notin sa.auto /\ block[d].conn = k)
        BY <3>2, AloneEnds
      <4>. QED
        BY <2>2, <3>1, <4>1, GivesMore DEF f
    <3>3. CASE b.ends = "savepoint"
      <4>1. sa.handle[D].tag # Root /\ t \in {sa.handle[D].tag, Gone}
        BY <1>1, <3>3, ClosingLevel DEF DataInv, HandlesFit, Gives, Nets, HandlesKept
      <4>2. t # Root
        BY <4>1 DEF Root, Gone
      <4>. QED
        BY <2>2, <3>1, <4>2, GivesMore DEF f
    <3>. QED
      BY <1>9, <3>2, <3>3
  <2>. QED
    BY <1>9, <2>3, <2>4
<1>. QED
  BY <1>5, <1>6, <1>7, <1>8, <1>9

\* The block is gone, and the connection it opened (Database._bound).
LEMMA PopsStep ==
    ASSUME DataInv, depth > 0, BindingsInv', NEW r, Gives(r.sa, block[depth].conn), Pops(r)
    PROVE  DataStep
<1>. DEFINE D == depth
            k == block[D].conn
            v == r.sa
            u == IF k = D THEN CloseConnection(v, D) ELSE v
            w == [u EXCEPT !.handle[D] = NoHandle]
<1>1. /\ D \in Level /\ Ok(v) /\ D \in 0 .. MaxDepth /\ 1 .. D \subseteq Level
      /\ MaxDepth \in Nat /\ 1 .. D - 1 \subseteq 1 .. D /\ D \in Nat
      /\ block \in [Level -> Block]
  BY ClosingLevel, LevelsFit DEF Gives, Nets, DataInv
<1>2. /\ depth' = D - 1 /\ block' = [block EXCEPT ![D] = Closed] /\ Moves(w, k)
      /\ used' = used \cup {}
  BY DEF Pops
<1>3. sa' = w /\ Moves(sa', k)
  BY <1>2 DEF Moves
<1>4. /\ Ok(u) /\ Moved(v, u, 0, {}) /\ HandlesKept(v, u)
      /\ u.auto \in {v.auto, v.auto \ {D}}
      /\ u.committed = v.committed
      /\ \A s \in Level : u.session[s].mode = v.session[s].mode /\ u.session[s].conn = v.session[s].conn
  <2>1. CASE k = D
    BY <1>1, <2>1, ClosesConnection DEF HandlesKept
  <2>2. CASE k # D
    <3>1. Quiet(v, v) /\ u = v
      BY <1>1, <2>2, QuietSelf
    <3>. QED
      BY <1>1, <3>1 DEF Quiet, Works, HandlesKept
  <2>. QED
    BY <2>1, <2>2
<1>. HIDE DEF u
<1>5. Nets(u, k, {})
  <2>1. {} \subseteq Loose({})
    OBVIOUS
  <2>. QED
    BY <1>4, <2>1, NetsTrans DEF Gives
<1>6. HandlesFit(u, block, D) /\ HoldersFit(u, block, D) /\ Brings(u, k, {})
  BY <1>5, NetsFit DEF MayCheckOut
<1>7. /\ Ok(w) /\ w.auto = u.auto
      /\ w.session = u.session /\ w.stack = u.stack /\ w.committed = u.committed
      /\ w.handle[D].tag = NoTag
      /\ \A e \in Level \ {D} : w.handle[e] = u.handle[e]
  <2>1. LET x == [u EXCEPT !.handle[D] = [conn |-> 0, tag |-> NoTag]]
        IN /\ Ok(x) /\ x.auto = u.auto
           /\ x.session = u.session /\ x.stack = u.stack /\ x.committed = u.committed
           /\ x.handle[D].tag = NoTag
           /\ \A e \in Level \ {D} : x.handle[e] = u.handle[e]
    <3>1. D \in Level /\ Ok(u) /\ 0 \in 0 .. MaxDepth
      BY <1>1, <1>4
    <3>. DEFINE t == NoTag
    <3>2. t \in Tag /\ t # Root
      BY DEF Tag, NoTag, Root
    <3>. HIDE DEF t
    <3>3. LET x == [u EXCEPT !.handle[D] = [conn |-> 0, tag |-> t]]
          IN /\ Ok(x) /\ x.auto = u.auto
             /\ x.session = u.session /\ x.stack = u.stack /\ x.committed = u.committed
             /\ x.handle[D].tag = t
             /\ \A e \in Level \ {D} : x.handle[e] = u.handle[e]
      BY <3>1, <3>2, SetsHandle
    <3>. QED
      BY <3>3 DEF t
  <2>. QED
    BY <2>1 DEF NoHandle
<1>. HIDE DEF w
<1>8. block'[D] = Closed /\ \A e \in Level \ {D} : block'[e] = block[e]
  BY <1>1, <1>2
<1>9. Brings(w, k, {})
  <2>1. \A c \in Level : Uncommitted(w, c) = Uncommitted(u, c)
    BY <1>7, SameStack
  <2>2. Held(w) = Held(u)
    BY <1>7 DEF Held, Uncommitted, RowsFrom
  <2>3. Unrooted(u, k) => Unrooted(w, k)
    BY <1>7 DEF Unrooted, RootOf, NoTag, Root
  <2>. QED
    BY <1>6, <1>7, <2>1, <2>2, <2>3 DEF Brings
<1>10. SessionsFit(w, block', D - 1)
  <2>. SUFFICES ASSUME NEW s \in Level
                PROVE  LET x == w.session[s]
                       IN /\ x.mode # "none" => s <= D - 1 /\ x.conn = block'[s].conn
                          /\ x.mode = "none" => x.conn = 0 /\ x.pending = {}
                          /\ s <= D - 1 /\ block'[s].conn = 0 => x.mode # "none"
                          /\ x.mode = "create_savepoint" =>
                                block'[s].kind = "transaction" /\ block'[s].owner = s
    BY DEF SessionsFit
  <2>1. /\ w.session[s].mode = v.session[s].mode /\ w.session[s].conn = v.session[s].conn
        /\ w.session[s].pending \subseteq v.session[s].pending
    BY <1>4, <1>7 DEF Moved
  <2>2. CASE s = D
    <3>1. ~(s <= D - 1)
      BY <1>1, <2>2
    <3>. QED
      BY <2>1, <2>2, <3>1 DEF Gives
  <2>3. CASE s # D
    <3>1. /\ v.session[s].mode = sa.session[s].mode /\ v.session[s].conn = sa.session[s].conn
          /\ v.session[s].pending \subseteq sa.session[s].pending
      BY <2>3 DEF Gives, Nets, Moved
    <3>2. LET x == sa.session[s]
          IN /\ x.mode # "none" => s <= D /\ x.conn = block[s].conn
             /\ x.mode = "none" => x.conn = 0 /\ x.pending = {}
             /\ s <= D /\ block[s].conn = 0 => x.mode # "none"
             /\ x.mode = "create_savepoint" => block[s].kind = "transaction" /\ block[s].owner = s
      BY DEF DataInv, SessionsFit
    <3>3. s <= D - 1 <=> s <= D
      BY <1>1, <2>3 DEF Level
    <3>4. block'[s] = block[s]
      BY <1>8, <2>3
    <3>. QED
      BY <2>1, <3>1, <3>2, <3>3, <3>4
  <2>. QED
    BY <2>2, <2>3
<1>11. \A e \in 1 .. D - 1 : /\ w.handle[e] = u.handle[e] /\ block'[e] = block[e] /\ e # D
                             /\ e \in Level /\ e \in 1 .. D
  BY <1>1, <1>7, <1>8
<1>12. HandlesFit(w, block', D - 1)
  BY <1>6, <1>11 DEF HandlesFit
<1>13. HoldersFit(w, block', D - 1)
  BY <1>6, <1>7, <1>11 DEF HoldersFit, LiveIn, Holds
<1>14. \A e \in 1 .. depth : e <= depth' =>
          /\ block'[e].ends = block[e].ends
          /\ block[e].ends # "nothing" => block'[e].conn = block[e].conn
          /\ w.handle[e].conn = sa.handle[e].conn
          /\ w.handle[e].tag \in {sa.handle[e].tag, Gone}
          /\ block[e].conn \in sa.auto => block[e].conn \in w.auto
  <2>. SUFFICES ASSUME NEW e \in 1 .. D - 1
                PROVE  /\ block'[e].ends = block[e].ends
                       /\ block[e].ends # "nothing" => block'[e].conn = block[e].conn
                       /\ w.handle[e].conn = sa.handle[e].conn
                       /\ w.handle[e].tag \in {sa.handle[e].tag, Gone}
                       /\ block[e].conn \in sa.auto => block[e].conn \in w.auto
    BY <1>1, <1>2
  <2>1. w.handle[e].conn = sa.handle[e].conn /\ w.handle[e].tag \in {sa.handle[e].tag, Gone}
    BY <1>5, <1>11 DEF Nets, HandlesKept
  <2>2. block[e].conn # D
    BY <1>1, <1>11, LevelsFit DEF DataInv
  <2>. QED
    BY <1>4, <1>7, <1>11, <2>1, <2>2 DEF Gives
<1>15. OwnsCommit(k)
  <2>. SUFFICES ASSUME NEW d \in 1 .. depth, LiveIn(sa, block, d), HoldsAlone(d), d <= depth',
                       block[d].conn \notin sa.auto, block[d].conn = k
                PROVE  sa'.committed = sa.committed
    BY DEF OwnsCommit
  <2>1. d \in 1 .. depth - 1
    BY <1>1, <1>2
  <2>. QED
    BY <1>3, <1>4, <1>7, <2>1 DEF Gives
<1>16. depth' \in 0 .. MaxDepth /\ depth' <= depth + 1
  BY <1>1, <1>2
<1>17. Steps(k, {})
  BY <1>2, <1>3, <1>7, <1>9, <1>10, <1>12, <1>13, <1>14, <1>15, <1>16 DEF Steps
<1>. QED
  BY <1>17 DEF DataStep

\* A block closes: its session, its transaction, its connection.
LEMMA ExitSteps == ASSUME DataInv, BindingsInv', Exit PROVE DataStep
<1>1. ASSUME depth > 0, block[depth].kind \in {"autocommit", "transaction"} PROVE block[depth].conn # 0
  BY <1>1, ClosingLevel DEF DataInv, BindingsInv, EndsRight
<1>. PICK exc \in Exits :
        \/ ExitConnect(exc)
        \/ \E flush \in Flushes : \/ ExitAutocommit(exc, flush)
                                 \/ \E fails \in Failures : ExitTransaction(exc, flush, fails)
  BY DEF Exit
<1>2. CASE ExitConnect(exc)
  <2>1. depth > 0 /\ Pops(CloseOwnSession(depth, exc, FALSE, "done", "failure"))
    BY <1>2 DEF ExitConnect
  <2>. QED
    BY <2>1, ClosesOwnSession, PopsStep
<1>3. ASSUME NEW flush \in Flushes, ExitAutocommit(exc, flush) PROVE DataStep
  <2>. DEFINE commits == exc = "none"
  <2>1. depth > 0 /\ block[depth].kind = "autocommit"
        /\ Pops(CloseOwnSession(depth, exc, commits, flush, "failure"))
    BY <1>3 DEF ExitAutocommit
  <2>. HIDE DEF commits
  <2>. QED
    BY <1>1, <2>1, ClosesOwnSession, PopsStep
<1>4. ASSUME NEW flush \in Flushes, NEW fails \in Failures, ExitTransaction(exc, flush, fails)
      PROVE  DataStep
  <2>. DEFINE commits == Keeps(exc)
              r == CloseOwnSession(depth, exc, commits, flush, fails)
  <2>1. depth > 0 /\ block[depth].kind = "transaction" /\ Pops(Finish(r, depth))
    BY <1>4 DEF ExitTransaction
  <2>2. Gives(r.sa, block[depth].conn)
    <3>. HIDE DEF commits
    <3>. QED
      BY <1>1, <2>1, ClosesOwnSession
  <2>. HIDE DEF r
  <2>3. Gives(Finish(r, depth).sa, block[depth].conn)
    BY <2>1, <2>2, Finishes
  <2>. QED
    BY <2>1, <2>3, PopsStep
<1>. QED
  BY <1>2, <1>3, <1>4

\* Every step moves the data as it may.
LEMMA NextSteps == ASSUME DataInv, Next PROVE DataStep /\ DataInv'
<1>1. BindingsInv'
  BY NextKeeps DEF DataInv
<1>2. DataStep
  BY <1>1, OpenSteps, UseSteps, ExitSteps DEF Next
<1>. QED
  BY <1>1, <1>2, StepsKeep

\* Nothing is held before the first block.
LEMMA FreshIs ==
    /\ Ok(Fresh) /\ Held(Fresh) = {}
    /\ \A s \in Level : Fresh.session[s] = NoSession
<1>1. NoSession \in Session /\ NoHandle \in Handle /\ <<>> \in Stack
  <2>1. NoTag \in Tag /\ 0 \in 0 .. MaxDepth /\ "none" \in Modes
    BY MaxDepthAssumption DEF Tag, Modes
  <2>2. <<>> \in Seq([of : Level, live : BOOLEAN])
    OBVIOUS
  <2>. QED
    BY <2>1, <2>2 DEF NoSession, Session, NoHandle, Handle, Stack
<1>2. /\ Fresh.stack = [c \in Level |-> <<>>] /\ Fresh.auto = {}
      /\ Fresh.session = [s \in Level |-> NoSession] /\ Fresh.handle = [d \in Level |-> NoHandle]
      /\ Fresh.committed = {} /\ Fresh \in World
  BY <1>1 DEF Fresh, World
<1>3. \A d, c \in Level : ~RootOf(Fresh.handle[d], c)
  BY <1>2 DEF NoHandle, RootOf, NoTag, Root
<1>4. \A s \in Level : SessionOk(Fresh.session[s]) /\ Fresh.session[s].pending = {}
  BY <1>2 DEF SessionOk, NoSession
<1>5. Ok(Fresh)
  BY <1>2, <1>3, <1>4 DEF Ok, Rooted, Unrooted, Pendings
<1>6. Held(Fresh) = {}
  <2>1. ASSUME NEW r \in Held(Fresh) PROVE FALSE
    <3>1. PICK c \in Level : r \in Uncommitted(Fresh, c)
      BY <1>2, <2>1, InHeld
    <3>2. PICK j \in 1 .. Len(Fresh.stack[c]) : r \in Fresh.stack[c][j].rows
      BY <3>1, InUncommitted
    <3>. QED
      BY <1>2, <3>2
  <2>. QED
    BY <2>1
<1>. QED
  BY <1>2, <1>5, <1>6

\* The inductive invariant holds at the start.
LEMMA InitData == Init => DataInv
<1>. SUFFICES ASSUME Init PROVE DataInv
  OBVIOUS
<1>1. depth = 0 /\ sa = Fresh /\ used = {} /\ wrote = [d \in Level |-> {}]
  BY DEF Init
<1>2. BindingsInv
  BY InitBinds
<1>3. Ok(sa) /\ Held(sa) = {} /\ \A s \in Level : sa.session[s] = NoSession
  BY <1>1, FreshIs
<1>4. SessionsFit(sa, block, depth)
  BY <1>1, <1>3 DEF SessionsFit, NoSession, Level
<1>5. HandlesFit(sa, block, depth) /\ HoldersFit(sa, block, depth) /\ WroteInv
  BY <1>1 DEF HandlesFit, HoldersFit, WroteInv
<1>6. RowsInv
  BY <1>1, <1>3 DEF RowsInv, NoSession
<1>. QED
  BY <1>2, <1>3, <1>4, <1>5, <1>6 DEF DataInv

\* In every state the sessions and the connections hold what the blocks of _db.py expect of
\* them: see DataInv.
THEOREM DataCorrect == Spec => []DataInv
<1>1. DataInv /\ [Next]_vars => DataInv'
  <2>1. DataInv /\ UNCHANGED vars => DataInv'
    BY DEF vars, DataInv, BindingsInv, BindingsTypeOK, BoundBelow, TransactionsBind,
       OuterIsTransaction, OuterIsInnermost, ApartStaysApart, OwnersBelow, OwnersApart, Alone,
       EndsRight, Transactions, OpenLevel, RowsInv, WroteInv
  <2>. QED
    BY <2>1, NextSteps
<1>. QED
  BY <1>1, InitData, PTL DEF Spec

\* At most one session joins a connection with a savepoint of its own (the
\* docstring of _Outer: two of them release each other's out of order).
OneSavepointOwner ==
    \A s, t \in 1 .. depth :
        (/\ sa.session[s].mode = "create_savepoint"
         /\ sa.session[t].mode = "create_savepoint"
         /\ block[s].conn = block[t].conn) => s = t

\* On a connection at most one session joins with savepoints of its own (create_savepoint):
\* that of the transaction _Outer.owner names, which BaseDatabase._owns_savepoints looks for,
\* so two sessions never release each other's savepoints.
THEOREM OneOwner == Spec => []OneSavepointOwner
<1>1. DataInv => OneSavepointOwner
  <2>. SUFFICES ASSUME DataInv, NEW s \in 1 .. depth, NEW t \in 1 .. depth,
                       sa.session[s].mode = "create_savepoint",
                       sa.session[t].mode = "create_savepoint",
                       block[s].conn = block[t].conn
                PROVE  s = t
    BY DEF OneSavepointOwner
  <2>1. s \in Level /\ t \in Level /\ s \in OpenLevel /\ t \in OpenLevel
    BY LevelsFit DEF DataInv, OpenLevel
  <2>2. /\ block[s].kind = "transaction" /\ block[s].owner = s
        /\ block[t].kind = "transaction" /\ block[t].owner = t
    BY <2>1 DEF DataInv, SessionsFit
  <2>3. Alone(s) /\ Alone(t)
    BY <2>2 DEF Alone
  <2>4. ~(s < t) /\ ~(t < s)
    BY <2>1, <2>2, <2>3 DEF DataInv, BindingsInv, OwnersApart
  <2>. QED
    BY <2>1, <2>4, LevelsFit DEF DataInv
<1>. QED
  BY <1>1, DataCorrect, PTL

\* What an outermost transaction() wrote while it holds its connection alone is made permanent
\* by the end of that block only (Transaction._finish), never by a session or a block inside.
THEOREM CommitOwned == Spec => OutermostOwnsTheCommit
<1>1. DataInv /\ [Next]_vars => [CommitIsOwned]_vars
  <2>. SUFFICES ASSUME DataInv, Next PROVE CommitIsOwned
    OBVIOUS
  <2>. QED
    BY NextSteps, StepsOwn
<1>2. CommitIsOwned <=>
        \A d \in Transactions :
        (/\ block[d].ends = "root" /\ TransactionLives(d) /\ HoldsAlone(d)
         /\ d <= depth' /\ block[d].conn \notin sa.auto)
            => wrote'[d] \cap sa'.committed = {}
  BY DEF CommitIsOwned
<1>. QED
  BY <1>1, DataCorrect, PTL DEF Spec, OutermostOwnsTheCommit, CommitIsOwned

------------------------------------------------------------------------------
(* 4. How the outermost transaction ends *)

\* The rows connection c would leave if its transaction were kept.
Saved(w, c) == w.committed \cup Uncommitted(w, c)

\* The root transaction of connection c is still open, and no row of it is lost.
Retains(v, w, c) == Saved(v, c) \subseteq Saved(w, c) /\ RootsKept(v, w)

\* Rows are kept over two steps when each keeps them.
LEMMA RetainsTrans ==
    ASSUME NEW v, NEW w, NEW x, NEW c, Retains(v, w, c), Retains(w, x, c)
    PROVE  Retains(v, x, c)
BY KeptTrans DEF Retains

\* They are kept by what changes neither the connection nor the handles.
LEMMA SameRetains ==
    ASSUME NEW v, NEW w, NEW c, w.stack[c] = v.stack[c], w.committed = v.committed,
           RootsKept(v, w)
    PROVE  Retains(v, w, c)
<1>1. Uncommitted(w, c) = Uncommitted(v, c)
  BY SameStack
<1>. QED
  BY <1>1 DEF Retains, Saved

\* TakeSavepoint() leaves the layers below as they are.
LEMMA SavepointRetains ==
    ASSUME NEW v, Ok(v), NEW c \in Level, NEW t \in LiveTag
    PROVE  Retains(v, TakeSavepoint(v, c, t), c)
<1>. DEFINE b == Autobegin(v, c)
            l == [tag |-> t, rows |-> {}]
            st == b.stack[c]
            w == [b EXCEPT !.stack[c] = Append(st, l)]
<1>1. /\ Ok(b) /\ b.handle = v.handle /\ b.committed = v.committed
      /\ Uncommitted(b, c) = Uncommitted(v, c)
  BY Begins DEF Quiet, Works
<1>2. TakeSavepoint(v, c, t) = w
  BY DEF TakeSavepoint
<1>3. b \in World /\ DOMAIN b.stack = Level
  BY <1>1 DEF Ok, World
<1>4. w.stack[c] = Append(st, l) /\ w.committed = b.committed /\ w.handle = b.handle
  BY <1>3 DEF World
<1>5. st \in Seq(Layer) /\ l \in Layer
  BY <1>3, WorldFields DEF Stack, Layer
<1>. HIDE DEF b, w, l
<1>6. /\ Len(st) \in Nat /\ Len(Append(st, l)) = Len(st) + 1
      /\ \A j \in 1 .. Len(st) : Append(st, l)[j] = st[j]
  BY <1>5, AppendProperties
<1>7. Uncommitted(b, c) \subseteq Uncommitted(w, c)
  <2>. SUFFICES ASSUME NEW r \in Uncommitted(b, c) PROVE r \in Uncommitted(w, c)
    OBVIOUS
  <2>1. PICK j \in 1 .. Len(st) : r \in st[j].rows
    BY InUncommitted
  <2>2. j \in 1 .. Len(w.stack[c]) /\ w.stack[c][j] = st[j]
    BY <1>4, <1>6
  <2>. QED
    BY <2>1, <2>2, InUncommitted
<1>. QED
  BY <1>1, <1>2, <1>4, <1>7 DEF Retains, Saved, RootsKept

\* What a statement writes is there.
LEMMA WriteRetains ==
    ASSUME NEW v, Ok(v), NEW c \in Level, NEW R \in SUBSET Row
    PROVE  Retains(v, Write(v, c, R), c) /\ R \subseteq Saved(Write(v, c, R), c)
<1>. DEFINE b == Autobegin(v, c)
            w == Write(v, c, R)
            st == b.stack[c]
            n == Len(st)
<1>1. /\ Ok(b) /\ b.handle = v.handle /\ b.committed = v.committed /\ st # <<>>
      /\ Uncommitted(b, c) = Uncommitted(v, c)
  BY Begins DEF Quiet, Works
<1>2. w.handle = v.handle /\ v.committed \subseteq w.committed
  BY Writes
<1>3. b \in World /\ st \in Seq(Layer)
  BY <1>1, WorldFields DEF Ok, Stack
<1>4. CASE c \in v.auto
  <2>1. w = [b EXCEPT !.committed = @ \cup R]
    BY <1>4 DEF Write
  <2>. HIDE DEF b
  <2>2. w.stack = b.stack /\ w.committed = b.committed \cup R
    BY <1>3, <2>1 DEF World
  <2>. HIDE DEF w
  <2>3. Uncommitted(w, c) = Uncommitted(b, c)
    BY <2>2, SameStack
  <2>. QED
    BY <1>1, <1>2, <2>2, <2>3 DEF Retains, Saved, RootsKept, w
<1>5. CASE c \notin v.auto
  <2>. DEFINE top == [st[n] EXCEPT !.rows = @ \cup R]
              new == [st EXCEPT ![n] = top]
  <2>1. w = [b EXCEPT !.stack[c] = new]
    BY <1>5 DEF Write
  <2>. HIDE DEF b
  <2>2. n \in Nat \ {0} /\ st[n] \in Layer
    BY <1>1, <1>3
  <2>3. top.rows = st[n].rows \cup R
    BY <2>2 DEF Layer
  <2>. HIDE DEF top
  <2>4. /\ Len(new) = n /\ \A j \in 1 .. n : new[j] = IF j = n THEN top ELSE st[j]
    BY <1>3, <2>2
  <2>. HIDE DEF new
  <2>5. w.stack[c] = new
    BY <1>3, <2>1 DEF World
  <2>. HIDE DEF w
  <2>6. Uncommitted(b, c) \subseteq Uncommitted(w, c)
    <3>. SUFFICES ASSUME NEW r \in Uncommitted(b, c) PROVE r \in Uncommitted(w, c)
      OBVIOUS
    <3>1. PICK j \in 1 .. n : r \in st[j].rows
      BY InUncommitted
    <3>2. r \in new[j].rows
      BY <2>3, <2>4, <3>1
    <3>. QED
      BY <2>4, <2>5, <3>2, InUncommitted
  <2>7. R \subseteq Uncommitted(w, c)
    <3>1. n \in 1 .. Len(w.stack[c]) /\ R \subseteq w.stack[c][n].rows
      BY <2>2, <2>3, <2>4, <2>5
    <3>. QED
      BY <3>1, InUncommitted
  <2>. QED
    BY <1>1, <1>2, <2>6, <2>7 DEF Retains, Saved, RootsKept, w
<1>. QED
  BY <1>4, <1>5

\* RELEASE moves the rows of a savepoint to the layer below.
LEMMA ReleaseRetains ==
    ASSUME NEW v, Ok(v), NEW c \in Level, NEW t, t # Root
    PROVE  Retains(v, Release(v, c, t), c)
<1>. DEFINE i == Position(v, c, t)
            st == v.stack[c]
            below == st[i - 1]
            merged == [below EXCEPT !.rows = @ \cup RowsFrom(v, c, i)]
            kept == SubSeq(st, 1, i - 2)
            u == [v EXCEPT !.stack[c] = Append(kept, merged)]
            w == Release(v, c, t)
<1>1. v \in World /\ st \in Seq(Layer) /\ Len(st) \in Nat
  BY WorldFields DEF Ok, Stack
<1>2. RootsKept(v, w) /\ w.committed = v.committed
  BY Releases
<1>3. CASE ~HasTag(v, c, t)
  <2>1. w = v
    BY <1>3 DEF Release
  <2>. QED
    BY <2>1, QuietSelf DEF Retains
<1>4. CASE HasTag(v, c, t)
  <2>1. i \in 1 .. Len(st) /\ i > 1
    BY <1>1, <1>4, PositionIs
  <2>2. w = Forget(u, c, {t})
    BY <1>4 DEF Release
  <2>3. RowsFrom(v, c, i) = UNION {st[j].rows : j \in i .. Len(st)}
    BY DEF RowsFrom
  <2>. HIDE DEF i
  <2>4. below \in Layer
    BY <1>1, <2>1
  <2>5. merged.rows = below.rows \cup RowsFrom(v, c, i)
    BY <2>4 DEF Layer
  <2>. DEFINE new == Append(kept, merged)
  <2>6. /\ Len(new) = i - 1 /\ new[i - 1] = merged
        /\ \A j \in 1 .. i - 2 : new[j] = st[j]
    <3>. HIDE DEF merged, below
    <3>1. /\ Len(kept) = i - 2 /\ \A j \in 1 .. i - 2 : kept[j] = st[j]
          /\ kept \in Seq(Layer)
      BY <1>1, <2>1
    <3>. HIDE DEF kept
    <3>. QED
      BY <2>1, <3>1, AppendProperties
  <2>7. u.stack[c] = new /\ u.handle = v.handle
    BY <1>1 DEF World
  <2>8. w.stack = u.stack
    BY <2>2 DEF Forget
  <2>. HIDE DEF new, u, w
  <2>9. Uncommitted(v, c) \subseteq Uncommitted(w, c)
    <3>. SUFFICES ASSUME NEW r \in Uncommitted(v, c) PROVE r \in Uncommitted(w, c)
      OBVIOUS
    <3>1. PICK j \in 1 .. Len(st) : r \in st[j].rows
      BY InUncommitted
    <3>2. CASE j <= i - 2
      <4>1. j \in 1 .. Len(new) /\ r \in new[j].rows
        BY <2>1, <2>6, <3>1, <3>2
      <4>. QED
        BY <2>7, <2>8, <4>1, InUncommitted
    <3>3. CASE j > i - 2
      <4>1. r \in merged.rows
        <5>1. j = i - 1 \/ j \in i .. Len(st)
          BY <2>1, <3>1, <3>3
        <5>. HIDE DEF merged
        <5>. QED
          BY <2>3, <2>5, <3>1, <5>1
      <4>2. i - 1 \in 1 .. Len(new) /\ r \in new[i - 1].rows
        BY <2>1, <2>6, <4>1
      <4>. QED
        BY <2>7, <2>8, <4>2, InUncommitted
    <3>. QED
      BY <1>1, <2>1, <3>2, <3>3
  <2>. QED
    BY <1>2, <2>9 DEF Retains, Saved, w
<1>. QED
  BY <1>3, <1>4

\* A session joins without losing a row.
LEMMA JoinRetains ==
    ASSUME NEW v, Ok(v), NEW s \in Level, v.session[s].conn # 0
    PROVE  Retains(v, JoinSession(v, s), v.session[s].conn)
<1>. DEFINE x == v.session[s]
            c == x.conn
            w == JoinSession(v, s)
            b == Autobegin(v, c)
            t == SessionTag(s)
            p == TakeSavepoint(v, c, t)
            isolates == \/ x.mode = "create_savepoint"
                        \/ x.mode = "conditional_savepoint" /\ InNested(v, c)
            Sessions(u) == \E y : w = [u EXCEPT !.session[s] = y]
<1>1. c \in Level /\ v \in World
  BY SessionNested DEF Ok
<1>2. RootsKept(v, w)
  BY JoinsSession
<1>3. Ok(b) /\ b.committed = v.committed /\ Uncommitted(b, c) = Uncommitted(v, c)
  BY <1>1, Begins DEF Quiet, Works
<1>4. t \in LiveTag
  BY DEF LiveTag
<1>5. Ok(p) /\ Retains(v, p, c)
  BY <1>1, <1>4, Savepoints, SavepointRetains DEF Quiet, Works
<1>6. w = b \/ Sessions(b) \/ Sessions(p) \/ Sessions(v)
  <2>1. CASE x.join # NoTag
    BY <2>1 DEF JoinSession
  <2>2. CASE x.join = NoTag /\ ~InTransaction(v, c)
    BY <2>2 DEF JoinSession
  <2>3. CASE x.join = NoTag /\ InTransaction(v, c) /\ isolates
    BY <2>3 DEF JoinSession
  <2>4. CASE x.join = NoTag /\ InTransaction(v, c) /\ ~isolates
    BY <2>4 DEF JoinSession
  <2>. QED
    BY <2>1, <2>2, <2>3, <2>4
<1>. HIDE DEF w, b, p
<1>7. ASSUME NEW u \in World, Sessions(u), Saved(v, c) \subseteq Saved(u, c)
      PROVE  Saved(v, c) \subseteq Saved(w, c)
  <2>1. w.stack = u.stack /\ w.committed = u.committed
    BY <1>7 DEF World
  <2>2. Uncommitted(w, c) = Uncommitted(u, c)
    BY <2>1, SameStack
  <2>. QED
    BY <1>7, <2>1, <2>2 DEF Saved
<1>8. Saved(v, c) \subseteq Saved(b, c) /\ Saved(v, c) \subseteq Saved(p, c)
  BY <1>3, <1>5 DEF Saved, Retains
<1>9. b \in World /\ p \in World
  BY <1>3, <1>5 DEF Ok
<1>. HIDE DEF Sessions
<1>10. Saved(v, c) \subseteq Saved(w, c)
  BY <1>1, <1>6, <1>7, <1>8, <1>9
<1>. QED
  BY <1>2, <1>10 DEF Retains, w

\* A flush keeps what was pending.
LEMMA FlushRetains ==
    ASSUME NEW v, Ok(v), NEW s \in Level, v.session[s].conn # 0
    PROVE  LET c == v.session[s].conn
               w == FlushSession(v, s)
           IN Retains(v, w, c) /\ v.session[s].pending \subseteq Saved(w, c)
<1>. DEFINE c == v.session[s].conn
            N == v.session[s].pending
            j == JoinSession(v, s)
            q == Write(j, c, N)
            w == FlushSession(v, s)
<1>1. CASE N = {}
  <2>1. w = v
    BY <1>1 DEF FlushSession
  <2>. QED
    BY <1>1, <2>1, QuietSelf DEF Retains
<1>2. CASE N # {}
  <2>1. w = [q EXCEPT !.session[s].pending = {}]
    BY <1>2 DEF FlushSession
  <2>2. c \in Level /\ N \in SUBSET Row
    BY SessionNested DEF Session
  <2>3. Ok(j) /\ Retains(v, j, c)
    BY JoinsSession, JoinRetains DEF Quiet, Works
  <2>. HIDE DEF j
  <2>4. Ok(q) /\ Retains(j, q, c) /\ N \subseteq Saved(q, c)
    BY <2>2, <2>3, Writes, WriteRetains
  <2>. HIDE DEF q, w
  <2>5. w.stack = q.stack /\ w.committed = q.committed /\ w.handle = q.handle
    BY <2>1, <2>4 DEF Ok, World
  <2>6. Uncommitted(w, c) = Uncommitted(q, c)
    BY <2>5, SameStack
  <2>7. Retains(q, w, c) /\ N \subseteq Saved(w, c)
    BY <2>4, <2>5, <2>6, SameRetains, SameKept DEF Saved
  <2>. QED
    BY <2>3, <2>4, <2>7, RetainsTrans DEF w
<1>. QED
  BY <1>1, <1>2

\* A session that starts over, or stopped half way, leaves the connection as it is.
LEMMA ResetRetains ==
    ASSUME NEW v, Ok(v), NEW s \in Level, NEW c
    PROVE  /\ Retains(v, Reset(v, s), c) /\ Reset(v, s).stack = v.stack
           /\ Reset(v, s).handle = v.handle
           /\ Retains(v, Stuck(v, s), c)
<1>1. v \in World
  BY DEF Ok
<1>. DEFINE y == Reset(v, s)
            z == Stuck(v, s)
<1>2. y.stack = v.stack /\ y.committed = v.committed /\ y.handle = v.handle
  BY <1>1 DEF Reset, World
<1>3. z.stack = v.stack /\ z.committed = v.committed /\ z.handle = v.handle
  BY <1>1 DEF Stuck, World
<1>. HIDE DEF y, z
<1>4. Retains(v, y, c) /\ Retains(v, z, c)
  BY <1>2, <1>3, SameRetains, SameKept
<1>. QED
  BY <1>2, <1>4 DEF y, z

\* The nested transactions of a session are released without a loss.
LEMMA ReleaseNestedRetains ==
    ASSUME NEW v, Ok(v), NEW s \in Level, NEW i \in 1 .. Len(v.session[s].nested) + 1
    PROVE  Retains(v, ReleaseNested(v, s, i), v.session[s].conn)
<1>. DEFINE x == v.session[s]
            c == x.conn
            n == Len(x.nested)
            t == BlockTag(x.nested[i].of)
            r == Release(v, c, t)
            E == {BlockTag(x.nested[j].of) : j \in i .. n}
            f == Forget(r, c, E)
            w == ReleaseNested(v, s, i)
<1>1. n \in Nat /\ (n > 0 => c \in Level)
  BY SessionNested
<1>2. CASE i > n
  <2>1. w = v
    BY <1>2 DEF ReleaseNested
  <2>. QED
    BY <2>1, QuietSelf DEF Retains
<1>3. CASE i <= n
  <2>0. ~(i > n)
    BY <1>1, <1>3
  <2>1. w = [f EXCEPT !.session[s].nested = SubSeq(@, 1, i - 1)]
    BY <2>0, Zenon DEF ReleaseNested
  <2>2. c \in Level /\ t # Root /\ Root \notin E
    BY <1>1, <1>3 DEF BlockTag, Root
  <2>3. Ok(r) /\ Retains(v, r, c)
    BY <2>2, Releases, ReleaseRetains DEF Quiet, Works
  <2>. HIDE DEF r, E, t
  <2>4. Ok(f) /\ RootsKept(r, f) /\ f.committed = r.committed
    BY <2>2, <2>3, Forgets DEF Quiet, Works
  <2>5. f.stack = r.stack
    BY <2>2, <2>3, ForgetIs DEF Ok
  <2>. HIDE DEF f, w
  <2>6. w.stack = f.stack /\ w.committed = f.committed /\ w.handle = f.handle
    BY <2>1, <2>4 DEF Ok, World
  <2>7. Retains(r, f, c) /\ Retains(f, w, c)
    BY <2>4, <2>5, <2>6, SameRetains, SameKept
  <2>. QED
    BY <2>3, <2>7, RetainsTrans DEF w
<1>. QED
  BY <1>1, <1>2, <1>3

\* The commit of a session that does not hold the root of its connection keeps its rows
\* and the root.
LEMMA CommitRetains ==
    ASSUME NEW v, Ok(v), NEW s \in Level, v.session[s].conn # 0,
           ~Unrooted(v, v.session[s].conn), ~Holds(v, s, v.session[s].conn)
    PROVE  LET c == v.session[s].conn
               w == CommitSession(v, s)
           IN Retains(v, w, c) /\ v.session[s].pending \subseteq Saved(w, c)
<1>. DEFINE c == v.session[s].conn
            N == v.session[s].pending
            f == FlushSession(v, s)
            k == Failing(f, s)
            inner == ReleaseNested(f, s, k + 1)
            x == inner.session[s]
            w == CommitSession(v, s)
            g == Keep(inner, x.conn, x.join)
<1>1. /\ Works(v, f, c, N) /\ RootsKept(v, f) /\ Ok(f)
      /\ Retains(v, f, c) /\ N \subseteq Saved(f, c)
  BY FlushesSession, FlushRetains DEF Works
<1>2. w = CASE k > 0 \/ (x.commits /\ x.join = Gone) -> Stuck(inner, s)
            [] k = 0 /\ x.commits /\ x.join # Gone -> Reset(g, s)
            [] OTHER -> Reset(inner, s)
  BY DEF CommitSession
<1>. HIDE DEF f, w
<1>3. k + 1 \in 1 .. Len(f.session[s].nested) + 1 /\ f.session[s].conn = c
  <2>1. k \in 0 .. Len(f.session[s].nested) /\ Len(f.session[s].nested) \in Nat
    BY <1>1, FailingIs, SessionNested
  <2>. HIDE DEF k
  <2>. QED
    BY <1>1, <2>1 DEF Works, Same
<1>4. /\ Ok(inner) /\ Quiet(f, inner) /\ RootsKept(f, inner)
      /\ Retains(f, inner, c)
  <2>. HIDE DEF k
  <2>. QED
    BY <1>1, <1>3, ReleasesNested, ReleaseNestedRetains DEF Quiet, Works
<1>. HIDE DEF inner, k
<1>5. Retains(v, inner, c) /\ Works(v, inner, c, N)
  BY <1>1, <1>4, RetainsTrans, WorksTrans
<1>6. x.conn = c /\ c \in Level
  BY <1>5, SessionNested DEF Works, Same
<1>7. ASSUME x.commits, x.join = Root PROVE FALSE
  <2>1. Holds(inner, s, c) /\ ~Unrooted(inner, c)
    BY <1>5, <1>6, <1>7 DEF Holds, Retains, RootsKept, Unrooted
  <2>. QED
    BY <1>5, <1>6, <2>1 DEF Works, Moved
<1>8. ASSUME x.commits PROVE Ok(g) /\ Retains(inner, g, c)
  <2>1. x.join # Root
    BY <1>7, <1>8
  <2>2. g = Release(inner, c, x.join)
    BY <1>6, <2>1 DEF Keep
  <2>. QED
    BY <1>4, <1>6, <2>1, <2>2, Releases, ReleaseRetains DEF Quiet, Works
<1>. HIDE DEF g
<1>9. \/ w = Stuck(inner, s)
      \/ x.commits /\ w = Reset(g, s)
      \/ w = Reset(inner, s)
  BY <1>2
<1>10. Retains(inner, w, c)
  BY <1>4, <1>8, <1>9, ResetRetains, RetainsTrans
<1>11. Retains(v, w, c)
  BY <1>5, <1>10, RetainsTrans
<1>12. N \subseteq Saved(w, c)
  BY <1>1, <1>4, <1>10 DEF Retains
<1>. QED
  BY <1>11, <1>12 DEF w

\* The end of a root leaves nothing on its connection.
LEMMA RootEmpties ==
    ASSUME NEW v, Ok(v), NEW c \in Level, NEW K
    PROVE  EndRoot(v, c, K).stack[c] = <<>>
<1>. DEFINE f == Forget(v, c, LiveTag)
<1>1. f \in World
  BY ForgetIs DEF Ok
<1>2. EndRoot(v, c, K) = [f EXCEPT !.committed = @ \cup K, !.stack[c] = <<>>]
  BY DEF EndRoot
<1>. HIDE DEF f
<1>. QED
  BY <1>1, <1>2 DEF World

\* The rollback of a session ends the root of its connection, or leaves it.
LEMMA RollbackEnds ==
    ASSUME NEW v, Ok(v), NEW s \in Level, NEW d \in Level, v.session[s].conn # 0,
           RootOf(v.handle[d], v.session[s].conn)
    PROVE  LET c == v.session[s].conn
               w == RollbackSession(v, s)
           IN RootOf(w.handle[d], c) \/ w.stack[c] = <<>>
<1>. DEFINE x == v.session[s]
            c == x.conn
            inner == RollbackFrom(v, s, 1)
            u == Undo(inner, c, x.join)
            w == Reset(u, s)
<1>1. RollbackSession(v, s) = w
  BY Zenon DEF RollbackSession
<1>2. c \in Level
  BY SessionNested
<1>3. Quiet(v, inner) /\ RootsKept(v, inner)
  BY RollsBackFrom
<1>. HIDE DEF inner
<1>4. Ok(inner)
  BY <1>3 DEF Quiet, Works
<1>5. Ok(u)
  BY <1>2, <1>4, Undoes DEF Quiet, Works
<1>6. RootsKept(inner, u) \/ u.stack[c] = <<>>
  <2>1. CASE x.join = Root
    <3>1. u = EndRoot(inner, c, {})
      BY <2>1 DEF Undo, Root, NoTag, Gone
    <3>. QED
      BY <1>2, <1>4, <3>1, RootEmpties
  <2>2. CASE x.join \in {NoTag, Gone}
    <3>1. u = inner
      BY <2>2 DEF Undo, Root, NoTag, Gone
    <3>. QED
      BY <1>4, <3>1, QuietSelf
  <2>3. CASE x.join \notin {Root, NoTag, Gone}
    <3>1. u = RollbackTo(inner, c, x.join)
      BY <2>3 DEF Undo
    <3>. QED
      BY <1>2, <1>4, <2>3, <3>1, RollsBackTo
  <2>. QED
    BY <2>1, <2>2, <2>3
<1>7. w.handle = u.handle /\ w.stack = u.stack
  <2>. HIDE DEF u
  <2>. QED
    BY <1>5, ResetRetains
<1>8. ASSUME RootsKept(inner, u) PROVE RootOf(w.handle[d], c)
  <2>1. RootOf(inner.handle[d], c)
    BY <1>2, <1>3 DEF RootsKept
  <2>. QED
    BY <1>2, <1>7, <1>8, <2>1 DEF RootsKept
<1>. QED
  BY <1>1, <1>6, <1>7, <1>8

\* Block depth is to end the root transaction of its connection, which is still there.
EndsItsRoot == /\ EndsTransaction
               /\ block[depth].ends = "root" /\ TransactionLives(depth)
               /\ block[depth].conn \notin sa.auto

\* The session of such a block leaves the root, or nothing on the connection; if all goes
\* well, it has lost no row.
RootLeft(r, exc) ==
    LET w == r.sa
        k == block[depth].conn
    IN /\ r = [sa |-> w, exc |-> r.exc]
       /\ w.committed = sa.committed
       /\ r.exc \in {exc} \cup Failures
       /\ RootOf(w.handle[depth], k) \/ w.stack[k] = <<>>
       /\ (Keeps(exc) /\ r.exc \notin Failures) =>
             /\ RootOf(w.handle[depth], k)
             /\ Uncommitted(sa, k) \cup sa.session[depth].pending \subseteq Saved(w, k)

\* The end of the block's own session, on the connection of a root it holds.
LEMMA ClosesOwnRoot ==
    ASSUME DataInv, depth > 0, block[depth].ends = "root", sa.handle[depth].tag # Gone,
           block[depth].conn \notin sa.auto, NEW exc, exc \notin Failures,
           NEW flush, NEW fails \in Failures
    PROVE  RootLeft(CloseOwnSession(depth, exc, Keeps(exc), flush, fails), exc)
<1>. DEFINE D == depth
            k == block[D].conn
            N == sa.session[D].pending
            r == CloseOwnSession(D, exc, Keeps(exc), flush, fails)
            joined == JoinSession(Bound(D), D)
            Left(u) == RootOf(u.handle[D], k) \/ u.stack[k] = <<>>
            Whole(u) == RootOf(u.handle[D], k) /\ Uncommitted(sa, k) \cup N \subseteq Saved(u, k)
<1>1. /\ D \in 1 .. D /\ D \in Level /\ Ok(sa) /\ sa.session[D].conn \in {0, k}
      /\ sa.session[D].mode = "none" => N = {}
      /\ sa.session[D].conn = 0 /\ sa.session[D].mode # "none" => k = 0
  BY ClosingLevel
<1>2. k # 0 /\ k \in Level /\ RootOf(sa.handle[D], k)
  BY <1>1, LevelsFit, ClosingLevel DEF DataInv, HandlesFit, RootOf
<1>3. ~Unrooted(sa, k) /\ ~Holds(sa, D, k)
  <2>1. D \in D .. MaxDepth
    BY <1>1 DEF Level
  <2>. QED
    BY <1>1, <1>2, <2>1 DEF Unrooted, DataInv, HoldersFit, LiveIn
<1>4. PICK v : /\ r = [sa |-> r.sa, exc |-> r.exc]
               /\ r.sa = DropSession(v, D) /\ r.exc \in {exc} \cup Failures
               /\ \/ v = sa /\ sa.session[D].mode = "none"
                  \/ v = CloseSession(sa, D) /\ ~Keeps(exc)
                  \/ v = RollbackSession(sa, D) /\ r.exc \in Failures
                  \/ /\ v = RollbackSession(joined, D) /\ sa.session[D].mode # "none"
                     /\ r.exc \in Failures
                  \/ v = CommitSession(Bound(D), D) /\ sa.session[D].mode # "none"
  <2>. HIDE DEF r
  <2>. DEFINE commits == Keeps(exc)
  <2>1. r = CloseOwnSession(D, exc, commits, flush, fails)
    BY DEF r
  <2>. HIDE DEF commits
  <2>2. /\ r = [sa |-> r.sa, exc |-> r.exc]
        /\ \/ r.sa = DropSession(sa, D) /\ r.exc = exc /\ sa.session[D].mode = "none"
           \/ r.sa = DropSession(CloseSession(sa, D), D) /\ r.exc = exc /\ ~commits
           \/ r.sa = DropSession(RollbackSession(sa, D), D) /\ r.exc = fails
           \/ r.sa = DropSession(RollbackSession(joined, D), D) /\ r.exc = fails
              /\ sa.session[D].mode # "none"
           \/ r.sa = DropSession(CommitSession(Bound(D), D), D) /\ r.exc \in {exc, fails}
              /\ sa.session[D].mode # "none"
    BY <2>1, OwnSessionIs
  <2>. QED
    BY <2>2 DEF commits
<1>. HIDE DEF r
<1>5. /\ Ok(v) /\ v.committed = sa.committed /\ Left(v)
      /\ (Keeps(exc) /\ r.exc \notin Failures) => Whole(v)
  <2>1. CASE v = sa /\ sa.session[D].mode = "none"
    BY <1>1, <1>2, <2>1 DEF Saved
  <2>2. ASSUME v = RollbackSession(sa, D) PROVE Ok(v) /\ v.committed = sa.committed /\ Left(v)
    <3>1. Ok(v) /\ v.committed = sa.committed
      BY <1>1, <2>2, RollsSessionBack DEF Quiet, Works
    <3>2. CASE sa.session[D].conn = k
      BY <1>1, <1>2, <2>2, <3>1, <3>2, RollbackEnds
    <3>3. CASE sa.session[D].conn = 0
      <4>. DEFINE inner == RollbackFrom(sa, D, 1)
                  u == Undo(inner, 0, sa.session[D].join)
      <4>1. RootsKept(sa, inner) /\ Ok(inner)
        BY <1>1, RollsBackFrom DEF Quiet, Works
      <4>2. sa.session[D].join = NoTag
        BY <1>1, <3>3 DEF Ok, SessionOk
      <4>3. u = inner
        BY <4>2 DEF Undo, Root, NoTag
      <4>4. v = Reset(u, D)
        BY <2>2, <3>3, Zenon DEF RollbackSession
      <4>. HIDE DEF inner, u
      <4>5. v.handle = inner.handle
        BY <1>1, <4>1, <4>3, <4>4, ResetRetains
      <4>6. RootOf(v.handle[D], k)
        BY <1>1, <1>2, <4>1, <4>5 DEF RootsKept
      <4>. QED
        BY <3>1, <4>6
    <3>. QED
      BY <1>1, <3>2, <3>3
  <2>3. CASE v = RollbackSession(sa, D) /\ r.exc \in Failures
    BY <2>2, <2>3
  <2>4. CASE v = CloseSession(sa, D) /\ ~Keeps(exc)
    <3>1. CASE sa.session[D].commits
      <4>1. v = RollbackSession(sa, D)
        BY <2>4, <3>1 DEF CloseSession
      <4>. QED
        BY <2>2, <2>4, <4>1
    <3>2. CASE ~sa.session[D].commits
      <4>1. v = Reset(sa, D)
        BY <2>4, <3>2 DEF CloseSession
      <4>2. Ok(v) /\ v.committed = sa.committed /\ v.handle = sa.handle
        BY <1>1, <4>1, Resets, ResetRetains DEF Quiet, Works
      <4>. QED
        BY <1>2, <2>4, <4>2
    <3>. QED
      BY <3>1, <3>2
  <2>5. CASE v = CommitSession(Bound(D), D) /\ sa.session[D].mode # "none"
    <3>1. sa.session[D].conn = k /\ k # 0
      BY <1>1, <1>2, <2>5
    <3>2. v = CommitSession(sa, D)
      BY <2>5, <3>1 DEF Bound
    <3>3. Ok(v) /\ v.committed = sa.committed
      BY <1>1, <1>3, <3>1, <3>2, CommitsSession DEF Works
    <3>4. Retains(sa, v, k) /\ N \subseteq Saved(v, k)
      BY <1>1, <1>3, <3>1, <3>2, CommitRetains
    <3>5. RootOf(v.handle[D], k)
      BY <1>1, <1>2, <3>4 DEF Retains, RootsKept
    <3>. QED
      BY <3>3, <3>4, <3>5 DEF Retains, Saved
  <2>6. CASE v = RollbackSession(joined, D) /\ sa.session[D].mode # "none" /\ r.exc \in Failures
    <3>1. sa.session[D].conn = k
      BY <1>1, <1>2, <2>6
    <3>2. joined = JoinSession(sa, D)
      BY <1>2, <3>1 DEF Bound
    <3>. HIDE DEF joined
    <3>3. Quiet(sa, joined) /\ RootsKept(sa, joined) /\ joined.committed = sa.committed
      BY <1>1, <1>2, <3>1, <3>2, JoinsSession
    <3>4. Ok(joined) /\ RootOf(joined.handle[D], k) /\ joined.session[D].conn = k
      BY <1>1, <1>2, <3>1, <3>3 DEF Quiet, Works, Same, RootsKept
    <3>5. Ok(v) /\ v.committed = joined.committed
      BY <1>1, <2>6, <3>4, RollsSessionBack DEF Quiet, Works
    <3>6. Left(v)
      BY <1>1, <1>2, <2>6, <3>4, RollbackEnds
    <3>. QED
      BY <2>6, <3>3, <3>5, <3>6
  <2>. QED
    BY <1>4, <2>1, <2>3, <2>4, <2>5, <2>6
<1>6. r.sa.handle = v.handle /\ r.sa.stack = v.stack /\ r.sa.committed = v.committed
  BY <1>4, <1>5 DEF DropSession, Ok, World
<1>7. Saved(r.sa, k) = Saved(v, k)
  BY <1>6, SameStack DEF Saved
<1>8. RootLeft(r, exc)
  BY <1>4, <1>5, <1>6, <1>7 DEF RootLeft
<1>. QED
  BY <1>8 DEF r

\* How a block that holds a root ends it (Transaction._finish).
LEMMA FinishesRoot ==
    ASSUME depth \in Level, block[depth].ends = "root", block[depth].conn \in Level,
           NEW r, r = [sa |-> r.sa, exc |-> r.exc], Ok(r.sa)
    PROVE  LET k == block[depth].conn
               w == r.sa
               keeps == Keeps(r.exc) /\ ~block[depth].rollback
               f == Finish(r, depth)
           IN /\ w.handle[depth].tag = Gone => f.sa = w /\ f.exc \in {r.exc, "rolled_back"}
              /\ RootOf(w.handle[depth], k) => f.exc = r.exc
              /\ (RootOf(w.handle[depth], k) /\ keeps) => f.sa = EndRoot(w, k, Uncommitted(w, k))
              /\ (RootOf(w.handle[depth], k) /\ ~keeps) => f.sa = EndRoot(w, k, {})
<1>. DEFINE D == depth
            k == block[D].conn
            w == r.sa
            t == w.handle[D].tag
            keeps == Keeps(r.exc) /\ ~block[D].rollback
            f == Finish(r, D)
            undone == Undo(w, k, t)
            kept == Keep(w, k, t)
<1>1. CASE t = Gone
  <2>1. ~Active(w, D)
    BY <1>1 DEF Active
  <2>2. f = IF ~InTransaction(w, k) /\ r.exc = "none" THEN [r EXCEPT !.exc = "rolled_back"] ELSE r
    BY <2>1 DEF Finish
  <2>3. f.sa = w /\ f.exc \in {r.exc, "rolled_back"}
    <3>. HIDE DEF f
    <3>1. CASE f = r
      BY <3>1
    <3>2. CASE f = [r EXCEPT !.exc = "rolled_back"]
      BY <3>2
    <3>. QED
      BY <2>2, <3>1, <3>2
  <2>. QED
    BY <1>1, <2>3 DEF RootOf, Root, Gone
<1>2. CASE RootOf(w.handle[D], k)
  <2>1. t = Root /\ Active(w, D)
    BY <1>2 DEF RootOf, Active, Root, Gone
  <2>2. HasTag(w, k, Root)
    <3>1. w.stack[k] # <<>> /\ w.stack[k] \in Stack
      BY <1>2, WorldFields DEF Ok, Rooted, Unrooted
    <3>2. 1 \in DOMAIN w.stack[k] /\ w.stack[k][1].tag = Root
      BY <3>1 DEF Stack
    <3>. QED
      BY <3>2 DEF HasTag
  <2>3. undone = EndRoot(w, k, {}) /\ kept = EndRoot(w, k, Uncommitted(w, k))
    BY <2>1 DEF Undo, Keep, Root, NoTag, Gone
  <2>4. f = IF ~keeps THEN [r EXCEPT !.sa = undone]
            ELSE [sa |-> kept, exc |-> IF HasTag(w, k, t) THEN r.exc ELSE "failure"]
    BY <2>1 DEF Finish
  <2>. QED
    BY <1>2, <2>1, <2>2, <2>3, <2>4 DEF RootOf, Root, Gone
<1>. QED
  BY <1>1, <1>2

\* The closing of the block keeps what is permanent, and brings no row back.
LEMMA PopsKeep ==
    ASSUME DataInv, depth > 0, NEW r, Ok(r.sa), Pops(r)
    PROVE  /\ sa'.committed = r.sa.committed
           /\ \A c \in Level : Uncommitted(sa', c) \subseteq Uncommitted(r.sa, c)
           /\ sa' \in World
           /\ result' = Outcome(r.exc)
<1>. DEFINE D == depth
            v == r.sa
            u == IF block[D].conn = D THEN CloseConnection(v, D) ELSE v
<1>1. D \in Level /\ NoHandle \in Handle
  <2>1. NoHandle \in Handle
    BY MaxDepthAssumption DEF NoHandle, Handle, Tag
  <2>. QED
    BY <2>1, ClosingLevel
<1>2. sa' = [u EXCEPT !.handle[D] = NoHandle] /\ result' = Outcome(r.exc)
  BY DEF Pops, Moves
<1>3. /\ Ok(u) /\ u.committed = v.committed
      /\ \A c \in Level : Uncommitted(u, c) \subseteq Uncommitted(v, c)
  <2>1. CASE block[D].conn = D
    <3>1. Ok(u) /\ Moved(v, u, 0, {}) /\ u.committed = v.committed
      BY <1>1, <2>1, ClosesConnection
    <3>. HIDE DEF u
    <3>. QED
      BY <3>1 DEF Moved
  <2>2. CASE block[D].conn # D
    BY <2>2
  <2>. QED
    BY <2>1, <2>2
<1>. HIDE DEF u
<1>4. sa' \in World /\ sa'.stack = u.stack /\ sa'.committed = u.committed
  BY <1>1, <1>2, <1>3 DEF Ok, World
<1>5. \A c \in Level : Uncommitted(sa', c) = Uncommitted(u, c)
  BY <1>4, SameStack
<1>. QED
  BY <1>2, <1>3, <1>4, <1>5

\* The two ways such a block ends.
RootUndone == \/ result' \in {"undone", "failure"}
              \/ /\ result' \in {"ok", "kept", "listed_failure"}
                 /\ block[depth].rollback
RootKept == result' \in {"ok", "kept"} /\ ~block[depth].rollback

\* Nothing written inside is left.
RootGone == Written \cap Held(sa') = {}

\* All that was written inside is permanent, and all that was pending in its session.
RootPermanent == (wrote[depth] \cap Held(sa)) \cup sa.session[depth].pending \subseteq sa'.committed

\* A transaction that leaves nothing on its connection, and makes nothing permanent, takes
\* back all that was written inside.
LEMMA EmptiedIsGone ==
    ASSUME DataInv, EndsItsRoot, depth > 0, NEW w, Moved(sa, w, block[depth].conn, Loose({})),
           w.committed = sa.committed, w.stack[block[depth].conn] = <<>>,
           sa'.committed = w.committed, sa' \in World,
           \A c \in Level : Uncommitted(sa', c) \subseteq Uncommitted(w, c)
    PROVE  RootGone
<1>. DEFINE D == depth
            k == block[D].conn
<1>1. D \in 1 .. D /\ D \in Level /\ sa \in World /\ LiveIn(sa, block, D) /\ k \notin sa.auto
  BY ClosingLevel DEF EndsItsRoot, TransactionLives, LiveIn, Ok
<1>2. Uncommitted(w, k) = {}
  <2>1. ASSUME NEW r \in Uncommitted(w, k) PROVE FALSE
    <3>1. PICK j \in 1 .. Len(w.stack[k]) : r \in w.stack[k][j].rows
      BY <2>1, InUncommitted
    <3>2. Len(<<>>) = 0
      OBVIOUS
    <3>. QED
      BY <3>1, <3>2
  <2>. QED
    BY <2>1
<1>3. \A c \in Level \ {k} : Uncommitted(sa', c) \subseteq Uncommitted(sa, c)
  BY DEF Moved
<1>4. ASSUME NEW r \in Held(sa') PROVE r \in Held(sa) /\ r \notin wrote[D]
  <2>1. r \in sa.committed \/ \E c \in Level \ {k} : r \in Uncommitted(sa, c)
    BY <1>2, <1>3, <1>4, InHeld
  <2>2. r \in Held(sa)
    BY <1>1, <2>1, InHeld
  <2>3. /\ wrote[D] \cap sa.committed = {}
        /\ \A c \in Level \ {k} : wrote[D] \cap Uncommitted(sa, c) = {}
    BY <1>1 DEF DataInv, WroteInv
  <2>. QED
    BY <2>1, <2>2, <2>3
<1>5. sa.session[D].pending \cap Held(sa) = {}
  BY <1>1 DEF DataInv, RowsInv
<1>. QED
  BY <1>4, <1>5 DEF RootGone, Written

\* Every step that ends such a block either keeps all its rows or none.
LEMMA RootEnds ==
    ASSUME DataInv, Next, EndsItsRoot
    PROVE  (RootUndone => RootGone) /\ (RootKept => RootPermanent)
<1>. DEFINE D == depth
            k == block[D].conn
<1>1. Exit
  <2>1. CASE OpenBlock
    <3>1. OpenStep
      BY <2>1, OpenConnectStep, OpenSessionStep, OpenAutocommitStep, OpenTransactionStep
         DEF OpenBlock, DataInv
    <3>. QED
      BY <3>1, LevelsFit DEF OpenStep, EndsItsRoot, EndsTransaction, DataInv
  <2>2. CASE Use
    <3>1. UseStep
      BY <2>2, UseIsUseStep DEF DataInv
    <3>. QED
      BY <3>1, LevelsFit DEF UseStep, EndsItsRoot, EndsTransaction, DataInv
  <2>. QED
    BY <2>1, <2>2 DEF Next
<1>2. PICK exc \in Exits, flush \in Flushes, fails \in Failures :
        ExitTransaction(exc, flush, fails)
  BY <1>1 DEF Exit, ExitConnect, ExitAutocommit, EndsItsRoot, EndsTransaction
<1>. DEFINE r == CloseOwnSession(D, exc, Keeps(exc), flush, fails)
            w == r.sa
            f == Finish(r, D)
            x == f.sa
            keeps == Keeps(r.exc) /\ ~block[D].rollback
<1>3. D > 0 /\ Pops(f)
  BY <1>2 DEF ExitTransaction
<1>4. /\ block[D].ends = "root" /\ sa.handle[D].tag # Gone /\ k \notin sa.auto
      /\ block[D].kind = "transaction"
  BY DEF EndsItsRoot, EndsTransaction, TransactionLives
<1>5. D \in 1 .. D /\ D \in Level /\ Ok(sa) /\ k \in Level
  BY <1>3, <1>4, ClosingLevel, LevelsFit DEF DataInv
<1>6. exc \in {"none", "error", "listed"} /\ exc \notin Failures
  BY DEF Exits, Failures
<1>7. RootLeft(r, exc)
  BY <1>3, <1>4, <1>6, ClosesOwnRoot
<1>8. Gives(w, k)
  <2>. DEFINE commits == Keeps(exc)
  <2>1. k # 0
    BY <1>5, MaxDepthAssumption DEF Level
  <2>2. r = CloseOwnSession(D, exc, commits, flush, fails)
    OBVIOUS
  <2>. HIDE DEF commits, r
  <2>. QED
    BY <1>3, <2>1, <2>2, ClosesOwnSession
<1>. HIDE DEF r
<1>9. Gives(x, k)
  BY <1>3, <1>8, Finishes
<1>10. Ok(w) /\ Ok(x) /\ Moved(sa, x, k, Loose({}))
  BY <1>8, <1>9 DEF Gives, Nets
<1>11. r = [sa |-> w, exc |-> r.exc] /\ w.committed = sa.committed /\ r.exc \in {exc} \cup Failures
  BY <1>7 DEF RootLeft
<1>12. /\ w.handle[D].tag = Gone => x = w /\ f.exc \in {r.exc, "rolled_back"}
       /\ RootOf(w.handle[D], k) => f.exc = r.exc
       /\ (RootOf(w.handle[D], k) /\ keeps) => x = EndRoot(w, k, Uncommitted(w, k))
       /\ (RootOf(w.handle[D], k) /\ ~keeps) => x = EndRoot(w, k, {})
  BY <1>4, <1>5, <1>10, <1>11, FinishesRoot
<1>. HIDE DEF f
<1>13. /\ sa'.committed = x.committed /\ sa' \in World /\ result' = Outcome(f.exc)
       /\ \A c \in Level : Uncommitted(sa', c) \subseteq Uncommitted(x, c)
  BY <1>3, <1>10, PopsKeep
<1>14. CASE RootOf(w.handle[D], k) /\ keeps
  <2>1. r.exc \in {"none", "listed", "listed_failure"} /\ ~block[D].rollback
    BY <1>14 DEF Keeps
  <2>2. ~RootUndone
    BY <1>12, <1>13, <1>14, <2>1 DEF RootUndone, Outcome
  <2>7. CASE ~RootKept
    BY <2>2, <2>7
  <2>. SUFFICES ASSUME RootKept PROVE RootPermanent
    BY <2>2, <2>7
  <2>8. Keeps(exc) /\ r.exc \notin Failures
    <3>1. r.exc # "listed_failure"
      BY <1>12, <1>13, <1>14 DEF RootKept, Outcome
    <3>. QED
      BY <1>6, <1>11, <2>1, <3>1 DEF Keeps, Failures
  <2>3. Uncommitted(sa, k) \cup sa.session[D].pending \subseteq Saved(w, k)
    BY <1>7, <2>8 DEF RootLeft
  <2>4. x.committed = w.committed \cup Uncommitted(w, k)
    BY <1>5, <1>10, <1>12, <1>14, EndsRoot
  <2>5. wrote[D] \cap Held(sa) \subseteq Uncommitted(sa, k)
    <3>1. LiveIn(sa, block, D) /\ sa \in World
      BY <1>4, <1>5 DEF LiveIn, Ok
    <3>2. /\ wrote[D] \cap sa.committed = {}
          /\ \A c \in Level \ {k} : wrote[D] \cap Uncommitted(sa, c) = {}
      BY <1>4, <1>5, <3>1 DEF DataInv, WroteInv
    <3>3. ASSUME NEW y \in wrote[D], y \in Held(sa) PROVE y \in Uncommitted(sa, k)
      <4>1. y \in sa.committed \/ \E c \in Level : y \in Uncommitted(sa, c)
        BY <3>1, <3>3, InHeld
      <4>. QED
        BY <3>2, <3>3, <4>1
    <3>. QED
      BY <3>3
  <2>6. RootPermanent
    BY <1>13, <2>3, <2>4, <2>5 DEF RootPermanent, Saved
  <2>. QED
    BY <2>6
<1>15. CASE RootOf(w.handle[D], k) /\ ~keeps
  <2>1. ~RootKept
    BY <1>6, <1>11, <1>12, <1>13, <1>15 DEF RootKept, Outcome, Keeps, Failures
  <2>2. x.committed = sa.committed /\ x.stack[k] = <<>>
    <3>1. x = EndRoot(w, k, {})
      BY <1>12, <1>15
    <3>2. x.committed = w.committed
      <4>. DEFINE K == {}
      <4>1. K \subseteq Uncommitted(w, k) /\ x = EndRoot(w, k, K)
        BY <3>1
      <4>. HIDE DEF K, x, w
      <4>2. x.committed = w.committed \cup K
        BY <1>5, <1>10, <4>1, EndsRoot
      <4>. QED
        BY <4>2 DEF K
    <3>3. x.stack[k] = <<>>
      BY <1>5, <1>10, <3>1, RootEmpties
    <3>. QED
      BY <1>11, <3>2, <3>3
  <2>3. RootGone
    BY <1>3, <1>10, <1>13, <2>2, EmptiedIsGone
  <2>. QED
    BY <2>1, <2>3
<1>16. CASE ~RootOf(w.handle[D], k)
  <2>1. w.stack[k] = <<>> /\ ~(Keeps(exc) /\ r.exc \notin Failures)
    BY <1>7, <1>16 DEF RootLeft
  <2>2. w.handle[D].tag = Gone
    <3>1. sa.handle[D].conn = k /\ sa.handle[D].tag \in {Root, Gone}
      BY <1>4, <1>5 DEF DataInv, HandlesFit
    <3>2. w.handle[D].conn = k /\ w.handle[D].tag \in {Root, Gone}
      BY <1>5, <1>8, <3>1 DEF Gives, Nets, HandlesKept
    <3>. QED
      BY <1>16, <3>2 DEF RootOf
  <2>3. r.exc \in {"error", "failure", "listed_failure"}
    BY <1>6, <1>11, <2>1 DEF Keeps, Failures
  <2>4. ~RootKept
    BY <1>12, <1>13, <2>2, <2>3 DEF RootKept, Outcome
  <2>5. RootGone
    BY <1>3, <1>10, <1>11, <1>12, <1>13, <2>1, <2>2, EmptiedIsGone
  <2>. QED
    BY <2>4, <2>5
<1>. QED
  BY <1>14, <1>15, <1>16

\* An outermost transaction() that rolls back, for an error, for a commit that raises what
\* commit_on_error does not list, or for rollback=True, leaves no row that was written inside
\* it, not even those of sessions kept from the blocks around (Transaction._finish, _keeps):
\* UndoneWorkIsGone of the blocks that hold their root, shared or not.
THEOREM OutermostIsUndone == Spec => [][EndsItsRoot /\ RootUndone => RootGone]_vars
<1>1. DataInv /\ [Next]_vars => [EndsItsRoot /\ RootUndone => RootGone]_vars
  <2>. SUFFICES ASSUME DataInv, Next PROVE EndsItsRoot /\ RootUndone => RootGone
    OBVIOUS
  <2>. QED
    BY RootEnds
<1>. QED
  BY <1>1, DataCorrect, PTL DEF Spec

\* An outermost transaction() that ends well makes permanent all that was written inside it
\* and not rolled back, and all its session had not flushed (Transaction._close_session,
\* _finish): KeptWorkIsHeld of the blocks that hold their root, shared or not.
THEOREM OutermostIsKept == Spec => [][EndsItsRoot /\ RootKept => RootPermanent]_vars
<1>1. DataInv /\ [Next]_vars => [EndsItsRoot /\ RootKept => RootPermanent]_vars
  <2>. SUFFICES ASSUME DataInv, Next PROVE EndsItsRoot /\ RootKept => RootPermanent
    OBVIOUS
  <2>. QED
    BY RootEnds
<1>. QED
  BY <1>1, DataCorrect, PTL DEF Spec

==============================================================================
