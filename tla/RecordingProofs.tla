---------------------------- MODULE RecordingProofs ----------------------------
(***************************************************************************)
(* Proofs about Recording, for every set of contexts and every bound: the   *)
(* listeners come off with the last block, a block records what runs in it, *)
(* and times it from its own start.                                         *)
(*                                                                         *)
(* The code counts: Inv says that the count is the number of blocks that    *)
(* are open, that each open recording is the block of exactly one context,  *)
(* and that the engine held is the only one with listeners.  StatementsInv  *)
(* says that the blocks of a context end the recordings around it, that     *)
(* those that are open listen on the engine held, and that a statement      *)
(* running under an open one is the last its connection noted.              *)
(***************************************************************************)
EXTENDS Recording, FiniteSetTheorems, SequenceTheorems, TLAPS

Open == {r \in Recordings : recording[r].open}

Typed ==
    /\ begun \in 0 .. MaxRecordings
    /\ listening \in Nat
    /\ DOMAIN recording = Recordings
    /\ \A r \in Recordings : DOMAIN recording[r] = DOMAIN Unbegun
    /\ blocks \in [Context -> Seq(Recordings)]

Counted == listening = Cardinality(Open)
Hooked == hooked = IF listening = 0 THEN {} ELSE {listened}
Begun == \A r \in Open : r <= begun
BlocksAreOpen == \A c \in Context : \A i \in DOMAIN blocks[c] : blocks[c][i] \in Open
BlocksDiffer ==
    \A c, d \in Context : \A i \in DOMAIN blocks[c] : \A j \in DOMAIN blocks[d] :
        blocks[c][i] = blocks[d][j] => c = d /\ i = j
OpenIsABlock == \A r \in Open : \E c \in Context : \E i \in DOMAIN blocks[c] : blocks[c][i] = r

Inv == Typed /\ Counted /\ Hooked /\ Begun /\ BlocksAreOpen /\ BlocksDiffer /\ OpenIsABlock

------------------------------------------------------------------------------
\* No more recordings are open than can be begun.
LEMMA OpenIsFinite == IsFiniteSet(Open)
  <1>1. Recordings = 1 .. MaxRecordings /\ 1 \in Int /\ MaxRecordings \in Int
    BY RecordingBoundsAssumption DEF Recordings
  <1>2. IsFiniteSet(Recordings)
    BY <1>1, FS_Interval
  <1> QED BY <1>2, FS_Subset DEF Open

\* Nothing is open at the start.
LEMMA InitInv == Init => Inv
  <1> SUFFICES ASSUME Init PROVE Inv
    OBVIOUS
  <1>1. Open = {}
    BY DEF Init, Open, Unbegun
  <1>2. Cardinality(Open) = 0
    BY <1>1, FS_EmptySet
  <1>3. \A c \in Context : blocks[c] = <<>> /\ DOMAIN blocks[c] = {}
    BY DEF Init
  <1>4. Typed
    BY RecordingBoundsAssumption DEF Init, Typed
  <1>5. Counted /\ Hooked
    BY <1>2 DEF Init, Counted, Hooked
  <1> QED BY <1>1, <1>3, <1>4, <1>5 DEF Inv, Begun, BlocksAreOpen, BlocksDiffer, OpenIsABlock

\* A new block: one more is open, and it is none of the others.
LEMMA BeginKeeps ==
  ASSUME Inv, NEW c \in Context, NEW skips \in BOOLEAN, Begin(c, skips) PROVE Inv'
  <1> DEFINE r == begun + 1
  <1>1. r \in Recordings /\ r \notin Open /\ begun' = r
    BY RecordingBoundsAssumption DEF Inv, Typed, Begun, Begin, Recordings
  <1>2. Open' = Open \cup {r}
    BY <1>1 DEF Inv, Typed, Open, Begin
  <1>3. /\ blocks' = [blocks EXCEPT ![c] = Append(blocks[c], r)]
        /\ blocks[c] \in Seq(Recordings)
    BY DEF Begin, Inv, Typed
  <1>4. /\ blocks'[c] = Append(blocks[c], r)
        /\ Len(blocks'[c]) = Len(blocks[c]) + 1 /\ blocks'[c][Len(blocks[c]) + 1] = r
        /\ \A i \in DOMAIN blocks[c] : blocks'[c][i] = blocks[c][i]
        /\ DOMAIN blocks[c] = 1 .. Len(blocks[c]) /\ Len(blocks[c]) \in Nat
        /\ DOMAIN blocks'[c] = 1 .. Len(blocks[c]) + 1
    BY <1>1, <1>3 DEF Inv, Typed
  <1>5. \A d \in Context \ {c} : blocks'[d] = blocks[d]
    BY <1>3 DEF Inv, Typed
  <1>6. Typed'
    <2>1. /\ DOMAIN recording' = Recordings
          /\ \A q \in Recordings : DOMAIN recording'[q] = DOMAIN Unbegun
      BY <1>1 DEF Inv, Typed, Begin, Unbegun
    <2>2. listening' \in Nat /\ begun' \in 0 .. MaxRecordings
      BY <1>1 DEF Inv, Typed, Begin, Listen, Recordings
    <2> QED BY <1>1, <1>3, <2>1, <2>2 DEF Inv, Typed
  <1>7. Counted'
    <2>1. Cardinality(Open') = Cardinality(Open) + 1
      BY <1>1, <1>2, OpenIsFinite, FS_AddElement
    <2> QED BY <2>1 DEF Inv, Typed, Counted, Begin, Listen
  <1>8. Hooked'
    BY DEF Inv, Typed, Hooked, Begin, Listen
  <1>9. Begun'
    BY <1>1, <1>2 DEF Inv, Typed, Begun, Recordings, Open
  <1>10. BlocksAreOpen' /\ OpenIsABlock'
    <2>1. BlocksAreOpen'
      BY <1>1, <1>2, <1>4, <1>5 DEF Inv, BlocksAreOpen
    <2>2. OpenIsABlock'
      BY <1>1, <1>2, <1>4, <1>5 DEF Inv, OpenIsABlock
    <2> QED BY <2>1, <2>2
  <1>11. BlocksDiffer'
    <2> SUFFICES ASSUME NEW a \in Context, NEW b \in Context,
                        NEW i \in DOMAIN blocks'[a], NEW j \in DOMAIN blocks'[b],
                        blocks'[a][i] = blocks'[b][j]
                 PROVE a = b /\ i = j
      BY DEF BlocksDiffer
    <2> DEFINE New(d, l) == d = c /\ l = Len(blocks[c]) + 1
    <2>1. \A d \in Context : \A l \in DOMAIN blocks'[d] :
            IF New(d, l) THEN blocks'[d][l] = r
            ELSE l \in DOMAIN blocks[d] /\ blocks'[d][l] = blocks[d][l]
      BY <1>4, <1>5
    <2>2. \A d \in Context : \A l \in DOMAIN blocks[d] : blocks[d][l] # r
      BY <1>1 DEF Inv, BlocksAreOpen
    <2>3. CASE New(a, i) \/ New(b, j)
      BY <2>1, <2>2, <2>3
    <2>4. CASE ~New(a, i) /\ ~New(b, j)
      BY <2>1, <2>4 DEF Inv, BlocksDiffer
    <2> QED BY <2>3, <2>4
  <1> QED BY <1>6, <1>7, <1>8, <1>9, <1>10, <1>11 DEF Inv

\* The innermost block of a context ends: one fewer is open.
LEMMA EndKeeps == ASSUME Inv, NEW c \in Context, End(c) PROVE Inv'
  <1> DEFINE n == Len(blocks[c])
             r == blocks[c][n]
  <1>1. /\ blocks[c] \in Seq(Recordings) /\ blocks[c] # <<>>
        /\ n \in Nat /\ n > 0 /\ DOMAIN blocks[c] = 1 .. n
    BY DEF Inv, Typed, End
  <1>2. r \in Open /\ r \in Recordings
    BY <1>1 DEF Inv, BlocksAreOpen
  <1>3. /\ Front(blocks[c]) \in Seq(Recordings)
        /\ DOMAIN Front(blocks[c]) = 1 .. n - 1
        /\ \A i \in 1 .. n - 1 : Front(blocks[c])[i] = blocks[c][i]
    BY <1>1 DEF Front
  <1>4. /\ blocks' = [blocks EXCEPT ![c] = Front(blocks[c])]
        /\ blocks'[c] = Front(blocks[c])
        /\ \A d \in Context \ {c} : blocks'[d] = blocks[d]
    BY DEF Inv, Typed, End
  <1>5. Open' = Open \ {r}
    BY <1>2 DEF Inv, Typed, Open, End, Last
  <1>6. listening > 0 /\ Cardinality(Open') = listening - 1
    <2>1. Cardinality(Open \ {r}) = Cardinality(Open) - 1
      BY <1>2, OpenIsFinite, FS_RemoveElement
    <2>2. Cardinality(Open \ {r}) \in Nat
      BY OpenIsFinite, FS_Subset, FS_CardinalityType
    <2> QED BY <1>5, <2>1, <2>2 DEF Inv, Typed, Counted
  <1>7. Typed'
    BY <1>3, <1>4, <1>6 DEF Inv, Typed, End, Silence
  <1>8. Counted' /\ Hooked' /\ Begun'
    BY <1>5, <1>6 DEF Inv, Typed, Counted, Hooked, Begun, End, Silence
  <1>9. BlocksAreOpen'
    BY <1>1, <1>3, <1>4, <1>5 DEF Inv, BlocksAreOpen, BlocksDiffer
  <1>10. BlocksDiffer'
    BY <1>1, <1>3, <1>4 DEF Inv, BlocksDiffer
  <1>11. OpenIsABlock'
    BY <1>1, <1>3, <1>4, <1>5 DEF Inv, OpenIsABlock
  <1> QED BY <1>7, <1>8, <1>9, <1>10, <1>11 DEF Inv

\* The other steps leave the blocks, the listeners and what is open alone.
LEMMA OtherKeeps ==
  ASSUME Inv, UNCHANGED <<listening, listened, hooked, begun, blocks>>,
         DOMAIN recording' = Recordings,
         \A r \in Recordings : /\ DOMAIN recording'[r] = DOMAIN recording[r]
                                /\ recording'[r].open = recording[r].open
  PROVE Inv'
  <1>1. Open' = Open
    BY DEF Open
  <1> QED BY <1>1 DEF Inv, Typed, Counted, Hooked, Begun, BlocksAreOpen, BlocksDiffer, OpenIsABlock

\* A statement that is recorded does not open or close a recording.
LEMMA EndedKeeps ==
  ASSUME Inv, NEW c \in Context, NEW k \in Connection, StatementEnded(c, k) PROVE Inv'
  <1>1. recording' = recording \/ recording' = Records(c, k)
    BY DEF StatementEnded
  <1>2. /\ DOMAIN recording' = Recordings
        /\ \A r \in Recordings : /\ DOMAIN recording'[r] = DOMAIN recording[r]
                                /\ recording'[r].open = recording[r].open
    BY <1>1 DEF Inv, Typed, Unbegun, Records, Taken
  <1> QED BY <1>2, OtherKeeps DEF StatementEnded

\* Every step keeps the invariant.
LEMMA NextKeeps == Inv /\ [Next]_vars => Inv'
  <1> SUFFICES ASSUME Inv, [Next]_vars PROVE Inv'
    OBVIOUS
  <1>1. ASSUME NEW c \in Context, Block(c) PROVE Inv'
    BY <1>1, BeginKeeps, EndKeeps DEF Block
  <1>2. ASSUME NEW c \in Context, Runs(c) PROVE Inv'
    <2>1. ASSUME NEW k \in Connection, StatementEnded(c, k) PROVE Inv'
      BY <2>1, EndedKeeps
    <2>2. CASE UNCHANGED <<listening, listened, hooked, begun, blocks, recording>>
      BY <2>2, OtherKeeps DEF Inv, Typed
    <2> QED BY <1>2, <2>1, <2>2
            DEF Runs, StatementFails, CheckOut, CheckIn, StatementBegan
  <1>3. CASE \/ Dispose \/ UNCHANGED vars
             \/ \E c, d \in Context : Spawn(c, d)
    BY <1>3, OtherKeeps DEF Inv, Typed, Dispose, Spawn, vars
  <1> QED BY <1>1, <1>2, <1>3 DEF Next

\* When no block is open no engine holds a listener, whatever was disposed of
\* and built meanwhile (BaseDatabase._listen, _silence).
THEOREM NothingListens == Spec => []ListenersComeOff
  <1>1. Inv => ListenersComeOff
    <2> SUFFICES ASSUME Inv, \A c \in Context : blocks[c] = <<>> PROVE hooked = {}
      BY DEF ListenersComeOff
    <2>1. Open = {}
      BY DEF Inv, OpenIsABlock
    <2>2. listening = 0
      BY <2>1, FS_EmptySet DEF Inv, Counted
    <2> QED BY <2>2 DEF Inv, Hooked
  <1> QED BY <1>1, InitInv, NextKeeps, PTL DEF Spec

------------------------------------------------------------------------------
(* What the recordings take.                                                *)

StatementsTyped ==
    /\ DOMAIN conn = Connection
    /\ \A k \in Connection : /\ DOMAIN conn[k] = DOMAIN NewConnection
                             /\ conn[k].started \in Seq(Nat)
    /\ DOMAIN running = Context
    /\ around \in [Context -> Seq(Recordings)]
    /\ ran \in Nat

\* A context holds one connection at most.
OneEach ==
    \A j, k \in Connection :
        conn[j].holder = conn[k].holder /\ conn[k].holder \in Context => j = k

AroundBegan == \A c \in Context : \A i \in DOMAIN around[c] : around[c][i] <= begun

\* The blocks a context has open itself are the innermost of those around it: one
\* sequence ends the other.
Ends(s, t) ==
    /\ Len(s) <= Len(t)
    /\ \A i \in DOMAIN s : s[i] = t[Len(t) - Len(s) + i]

BlocksAreAround == \A c \in Context : Ends(blocks[c], around[c])

\* The recordings that are open listen on the engine that is held.
OpenOnListened == \A r \in Open : recording[r].on = listened

\* While a recording around it is open, a statement on an engine that has the
\* listeners is the last its connection noted.
TimedFor(c) ==
    \A k \in Connection : \A i \in DOMAIN around[c] :
        (/\ ~Idle(c) /\ conn[k].holder = c /\ conn[k].engine \in hooked
         /\ recording[around[c][i]].open)
            => conn[k].started # <<>> /\ Last(conn[k].started) = running[c].id

Timed == \A c \in Context : TimedFor(c)

StatementsInv ==
    /\ StatementsTyped /\ OneEach /\ AroundBegan /\ BlocksAreAround /\ OpenOnListened
    /\ Timed

\* A step that does nothing to the statement a context is running.
Undisturbed(c) ==
    /\ running'[c] = running[c] /\ around'[c] = around[c]
    /\ \A k \in Connection : conn'[k].holder = c => conn'[k] = conn[k]
    /\ \A i \in DOMAIN around[c] : recording'[around[c][i]].open =>
           recording[around[c][i]].open /\ hooked' \subseteq hooked

LEMMA UndisturbedIsTimed ==
    ASSUME NEW c \in Context, TimedFor(c), Undisturbed(c)
    PROVE  TimedFor(c)'
  BY DEF TimedFor, Undisturbed, Idle

\* A sequence that is appended to ends with what was appended.
LEMMA Noted ==
    ASSUME NEW s \in Seq(Nat), NEW n \in Nat
    PROVE  /\ Append(s, n) \in Seq(Nat) /\ Append(s, n) # <<>>
           /\ Last(Append(s, n)) = n
  BY DEF Last

LEMMA Shortened ==
    ASSUME NEW S, NEW s \in Seq(S), s # <<>>
    PROVE  /\ Front(s) \in Seq(S) /\ Len(Front(s)) = Len(s) - 1 /\ Len(s) \in Nat \ {0}
           /\ DOMAIN s = 1 .. Len(s) /\ DOMAIN Front(s) = 1 .. Len(s) - 1
           /\ \A i \in 1 .. Len(s) - 1 : Front(s)[i] = s[i]
  <1>1. Len(s) \in Nat \ {0} /\ DOMAIN s = 1 .. Len(s)
    BY EmptySeq
  <1>2. Front(s) = SubSeq(s, 1, Len(s) - 1)
    BY DEF Front
  <1> QED BY <1>1, <1>2

LEMMA EndsAppend ==
    ASSUME NEW S, NEW s \in Seq(S), NEW t \in Seq(S), NEW e \in S, Ends(s, t)
    PROVE  Ends(Append(s, e), Append(t, e))
  <1> DEFINE m == Len(s)
             n == Len(t)
             u == Append(s, e)
             v == Append(t, e)
  <1>1. /\ m \in Nat /\ n \in Nat /\ m <= n
        /\ \A i \in 1 .. m : s[i] = t[n - m + i]
    BY DEF Ends
  <1>2. /\ Len(u) = m + 1 /\ DOMAIN u = 1 .. m + 1 /\ u[m + 1] = e
        /\ \A i \in 1 .. m : u[i] = s[i]
    OBVIOUS
  <1>3. /\ Len(v) = n + 1 /\ v[n + 1] = e
        /\ \A i \in 1 .. n : v[i] = t[i]
    OBVIOUS
  <1> HIDE DEF m, n, u, v
  <1>4. ASSUME NEW i \in 1 .. m + 1 PROVE u[i] = v[n - m + i]
    <2>1. CASE i = m + 1
      <3>1. n - m + i = n + 1
        BY <1>1, <2>1
      <3> QED BY <1>2, <1>3, <2>1, <3>1
    <2>2. CASE i # m + 1
      <3>1. i \in 1 .. m /\ n - m + i \in 1 .. n
        BY <1>1, <2>2
      <3> QED BY <1>1, <1>2, <1>3, <3>1
    <2> QED BY <2>1, <2>2
  <1>5. Len(v) - Len(u) = n - m /\ Len(u) <= Len(v)
    BY <1>1, <1>2, <1>3
  <1> QED BY <1>2, <1>4, <1>5 DEF Ends, u, v

LEMMA EndsFront ==
    ASSUME NEW S, NEW s \in Seq(S), NEW t \in Seq(S), s # <<>>, t # <<>>, Ends(s, t)
    PROVE  Ends(Front(s), Front(t))
  <1> DEFINE m == Len(s)
             n == Len(t)
             u == Front(s)
             v == Front(t)
  <1>1. /\ m \in Nat \ {0} /\ n \in Nat \ {0} /\ m <= n
        /\ \A i \in 1 .. m : s[i] = t[n - m + i]
    BY Shortened DEF Ends
  <1>2. Len(u) = m - 1 /\ DOMAIN u = 1 .. m - 1 /\ \A i \in 1 .. m - 1 : u[i] = s[i]
    BY Shortened
  <1>3. Len(v) = n - 1 /\ \A i \in 1 .. n - 1 : v[i] = t[i]
    BY Shortened
  <1> HIDE DEF m, n, u, v
  <1>4. ASSUME NEW i \in 1 .. m - 1 PROVE u[i] = v[n - m + i]
    <2>1. i \in 1 .. m /\ n - m + i \in 1 .. n - 1
      BY <1>1
    <2> QED BY <1>1, <1>2, <1>3, <2>1
  <1>5. Len(v) - Len(u) = n - m /\ Len(u) <= Len(v)
    BY <1>1, <1>2, <1>3
  <1> QED BY <1>2, <1>4, <1>5 DEF Ends, u, v

LEMMA StatementsInit == Init => StatementsInv
  <1> SUFFICES ASSUME Init PROVE StatementsInv
    OBVIOUS
  <1>1. \A c \in Context : around[c] = <<>> /\ blocks[c] = <<>> /\ Idle(c)
    BY DEF Init, Idle
  <1>2. \A k \in Connection : conn[k] = NewConnection
    BY DEF Init
  <1>3. NewConnection.started \in Seq(Nat) /\ NewConnection.holder \notin Context
    BY ContextAssumption DEF NewConnection
  <1>4. StatementsTyped
    BY <1>2, <1>3 DEF Init, StatementsTyped
  <1>5. OneEach
    BY <1>2, <1>3 DEF OneEach
  <1>6. AroundBegan /\ BlocksAreAround /\ Timed
    BY <1>1 DEF AroundBegan, BlocksAreAround, Ends, Timed, TimedFor
  <1>7. OpenOnListened
    BY DEF Init, OpenOnListened, Open, Unbegun
  <1> QED BY <1>4, <1>5, <1>6, <1>7 DEF StatementsInv

\* A new block: around no other context, and the listeners are put on when no
\* recording was open.
LEMMA BeginTimes ==
    ASSUME Inv, StatementsInv, NEW c \in Context, NEW skips \in BOOLEAN, Begin(c, skips)
    PROVE  StatementsInv'
  <1> DEFINE r == begun + 1
  <1>1. r \in Recordings /\ r \notin Open /\ begun' = r /\ begun \in Nat
    BY RecordingBoundsAssumption DEF Inv, Typed, Begun, Begin, Recordings
  <1>2. Open' = Open \cup {r}
    BY <1>1 DEF Inv, Typed, Open, Begin
  <1>3. /\ \A q \in Open : recording'[q] = recording[q]
        /\ recording'[r].on = listened'
    BY <1>1 DEF Inv, Typed, Open, Begin
  <1>4. listening = 0 => Open = {}
    BY OpenIsFinite, FS_EmptySet DEF Inv, Counted
  <1>5. Open # {} => listened' = listened /\ hooked' = hooked
    BY <1>4 DEF Begin, Listen
  <1>6. OpenOnListened'
    BY <1>2, <1>3, <1>5 DEF OpenOnListened, StatementsInv
  <1>7. /\ blocks[c] \in Seq(Recordings) /\ around[c] \in Seq(Recordings)
        /\ blocks' = [blocks EXCEPT ![c] = Append(blocks[c], r)]
        /\ around' = [around EXCEPT ![c] = Append(around[c], r)]
        /\ blocks \in [Context -> Seq(Recordings)] /\ around \in [Context -> Seq(Recordings)]
    BY DEF Begin, Inv, Typed, StatementsInv, StatementsTyped
  <1>8. around' \in [Context -> Seq(Recordings)] /\ UNCHANGED <<conn, running, ran>>
    BY <1>1, <1>7 DEF Begin
  <1>9. \A d \in Context \ {c} : around'[d] = around[d] /\ blocks'[d] = blocks[d]
    BY <1>7
  <1>10. around'[c] = Append(around[c], r) /\ blocks'[c] = Append(blocks[c], r)
    BY <1>7
  <1>11. AroundBegan'
    <2>1. ASSUME NEW d \in Context, NEW i \in DOMAIN around'[d]
          PROVE  around'[d][i] <= r
      <3>1. CASE d = c
        <4>1. DOMAIN around'[c] = 1 .. Len(around[c]) + 1 /\ DOMAIN around[c] = 1 .. Len(around[c])
          BY <1>1, <1>7, <1>10
        <4>2. CASE i = Len(around[c]) + 1
          BY <1>1, <1>7, <1>10, <3>1, <4>2
        <4>3. CASE i # Len(around[c]) + 1
          <5>1. i \in DOMAIN around[c] /\ around'[d][i] = around[c][i]
            BY <1>1, <1>7, <1>10, <3>1, <4>1, <4>3
          <5>2. around[c][i] \in Recordings
            BY <1>7, <5>1, ElementOfSeq
          <5> QED BY <1>1, <5>1, <5>2, RecordingBoundsAssumption
                  DEF StatementsInv, AroundBegan, Recordings
        <4> QED BY <4>2, <4>3
      <3>2. CASE d # c
        <4>1. around'[d] = around[d] /\ around[d] \in Seq(Recordings)
          BY <1>7, <1>9, <3>2
        <4>2. around[d][i] \in Recordings
          BY <4>1, ElementOfSeq
        <4> QED BY <1>1, <4>1, <4>2, RecordingBoundsAssumption
                DEF StatementsInv, AroundBegan, Recordings
      <3> QED BY <3>1, <3>2
    <2> QED BY <1>1, <2>1 DEF AroundBegan
  <1>12. BlocksAreAround'
    <2>1. Ends(blocks[c], around[c])
      BY DEF StatementsInv, BlocksAreAround
    <2>2. Ends(blocks'[c], around'[c])
      BY <1>1, <1>7, <1>10, <2>1, EndsAppend
    <2> QED BY <1>9, <2>2 DEF StatementsInv, BlocksAreAround
  <1>13. ASSUME NEW d \in Context PROVE TimedFor(d)'
    <2>1. CASE d = c
      BY <1>8, <2>1 DEF TimedFor, Begin, Idle
    <2>2. CASE d # c
      <3>1. ASSUME NEW i \in DOMAIN around[d], recording'[around[d][i]].open
            PROVE  recording[around[d][i]].open /\ hooked' \subseteq hooked
        <4>1. around[d][i] \in Recordings /\ around[d][i] # r
          BY <1>1, <1>7, ElementOfSeq DEF StatementsInv, AroundBegan
        <4>2. around[d][i] \in Open
          BY <1>2, <3>1, <4>1 DEF Open
        <4> QED BY <1>5, <4>2 DEF Open
      <3>2. Undisturbed(d)
        BY <1>8, <1>9, <2>2, <3>1 DEF Undisturbed
      <3> QED BY <3>2, UndisturbedIsTimed DEF StatementsInv, Timed
    <2> QED BY <2>1, <2>2
  <1>14. StatementsTyped' /\ OneEach'
    BY <1>8 DEF StatementsInv, StatementsTyped, OneEach
  <1> QED BY <1>6, <1>11, <1>12, <1>13, <1>14 DEF StatementsInv, Timed

\* A block that ends closes a recording, and takes listeners off or leaves them.
LEMMA EndTimes ==
    ASSUME Inv, StatementsInv, NEW c \in Context, End(c)
    PROVE  StatementsInv'
  <1> DEFINE r == Last(blocks[c])
  <1>1. /\ recording' = [recording EXCEPT ![r].open = FALSE]
        /\ UNCHANGED <<begun, conn, running, ran>> /\ Idle(c)
        /\ blocks[c] # <<>>
    BY DEF End
  <1>2. hooked' \subseteq hooked /\ (Open # {} => listened' = listened \/ Open' = {})
    <2>1. CASE listening = 1
      <3>1. Inv'
        BY EndKeeps
      <3>2. listening' = 0
        BY <2>1 DEF End, Silence
      <3>3. IsFiniteSet(Open')
        <4>1. IsFiniteSet(Recordings)
          BY RecordingBoundsAssumption, FS_Interval DEF Recordings
        <4> QED BY <4>1, FS_Subset DEF Open
      <3>4. Open' = {}
        BY <3>1, <3>2, <3>3, FS_EmptySet DEF Inv, Counted
      <3> QED BY <2>1, <3>4 DEF End, Silence
    <2>2. CASE listening # 1
      BY <2>2 DEF End, Silence
    <2> QED BY <2>1, <2>2
  <1>3. \A q \in Recordings : /\ recording'[q].open => recording[q].open
                              /\ recording'[q].on = recording[q].on
    BY <1>1 DEF Inv, Typed, Unbegun
  <1>4. OpenOnListened'
    BY <1>2, <1>3 DEF StatementsInv, OpenOnListened, Open
  <1>5. /\ blocks[c] \in Seq(Recordings) /\ around[c] \in Seq(Recordings)
        /\ blocks' = [blocks EXCEPT ![c] = Front(blocks[c])]
        /\ around' = [around EXCEPT ![c] = Front(around[c])]
        /\ blocks \in [Context -> Seq(Recordings)] /\ around \in [Context -> Seq(Recordings)]
    BY DEF End, Inv, Typed, StatementsInv, StatementsTyped
  <1> DEFINE m == Len(blocks[c])
             n == Len(around[c])
  <1>6. m \in Nat \ {0} /\ n \in Nat \ {0} /\ m <= n
    <2>1. m \in Nat \ {0} /\ n \in Nat
      BY <1>1, <1>5, EmptySeq
    <2>2. m <= n
      BY DEF StatementsInv, BlocksAreAround, Ends
    <2> QED BY <2>1, <2>2
  <1>7. around[c] # <<>>
    BY <1>6
  <1>8. /\ around'[c] = Front(around[c]) /\ blocks'[c] = Front(blocks[c])
        /\ \A d \in Context \ {c} : around'[d] = around[d] /\ blocks'[d] = blocks[d]
    BY <1>5
  <1>9. around' \in [Context -> Seq(Recordings)]
    BY <1>5, <1>7, Shortened
  <1>10. /\ Len(blocks'[c]) = m - 1 /\ Len(around'[c]) = n - 1
         /\ DOMAIN blocks[c] = 1 .. m /\ DOMAIN around[c] = 1 .. n
         /\ DOMAIN blocks'[c] = 1 .. m - 1 /\ DOMAIN around'[c] = 1 .. n - 1
         /\ \A i \in 1 .. m - 1 : blocks'[c][i] = blocks[c][i]
         /\ \A i \in 1 .. n - 1 : around'[c][i] = around[c][i]
    BY <1>1, <1>5, <1>7, <1>8, Shortened
  <1>11. AroundBegan'
    <2>1. ASSUME NEW i \in DOMAIN around'[c] PROVE around'[c][i] <= begun
      <3>1. i \in DOMAIN around[c] /\ around'[c][i] = around[c][i]
        BY <1>6, <1>10
      <3> QED BY <3>1 DEF StatementsInv, AroundBegan
    <2> QED BY <1>1, <1>8, <2>1 DEF StatementsInv, AroundBegan
  <1>12. BlocksAreAround'
    <2>1. Ends(blocks[c], around[c])
      BY DEF StatementsInv, BlocksAreAround
    <2>2. Ends(blocks'[c], around'[c])
      BY <1>1, <1>5, <1>7, <1>8, <2>1, EndsFront
    <2> QED BY <1>8, <2>2 DEF StatementsInv, BlocksAreAround
  <1>13. ASSUME NEW d \in Context PROVE TimedFor(d)'
    <2>1. CASE d = c
      BY <1>1, <2>1 DEF TimedFor, Idle
    <2>2. CASE d # c
      <3>1. \A i \in DOMAIN around[d] : around[d][i] \in Recordings
        BY <1>5, ElementOfSeq
      <3>2. Undisturbed(d)
        BY <1>1, <1>2, <1>3, <1>8, <2>2, <3>1 DEF Undisturbed
      <3> QED BY <3>2, UndisturbedIsTimed DEF StatementsInv, Timed
    <2> QED BY <2>1, <2>2
  <1>14. StatementsTyped' /\ OneEach'
    BY <1>1, <1>9 DEF StatementsInv, StatementsTyped, OneEach
  <1> QED BY <1>4, <1>11, <1>12, <1>13, <1>14 DEF StatementsInv, Timed

\* A step that leaves the blocks and the recordings as they are: what it does to
\* the connections and the statements is left to show.
LEMMA OthersTime ==
    ASSUME Inv, StatementsInv,
           UNCHANGED <<listening, listened, hooked, begun, blocks, around>>,
           \A r \in Recordings : /\ recording'[r].open = recording[r].open
                                 /\ recording'[r].on = recording[r].on,
           StatementsTyped', OneEach',
           \A c \in Context : TimedFor(c)' \/
               (/\ running'[c] = running[c]
                /\ \A k \in Connection : conn'[k].holder = c => conn'[k] = conn[k])
    PROVE  StatementsInv'
  <1>1. AroundBegan' /\ BlocksAreAround' /\ OpenOnListened'
    BY DEF StatementsInv, AroundBegan, BlocksAreAround, OpenOnListened, Open
  <1>2. ASSUME NEW c \in Context PROVE TimedFor(c)'
    <2>1. SUFFICES ASSUME running'[c] = running[c],
                          \A k \in Connection : conn'[k].holder = c => conn'[k] = conn[k]
                   PROVE  TimedFor(c)'
      OBVIOUS
    <2>2. \A i \in DOMAIN around[c] : around[c][i] \in Recordings
      BY ElementOfSeq DEF StatementsInv, StatementsTyped
    <2>3. Undisturbed(c)
      BY <2>1, <2>2 DEF Undisturbed
    <2> QED BY <2>3, UndisturbedIsTimed DEF StatementsInv, Timed
  <1> QED BY <1>1, <1>2 DEF StatementsInv, Timed

\* A copy of a context: the one it runs in holds no connection.
LEMMA SpawnTimes ==
    ASSUME Inv, StatementsInv, NEW c \in Context, NEW d \in Context, Spawn(c, d)
    PROVE  StatementsInv'
  <1>1. /\ around' = [around EXCEPT ![d] = around[c]] /\ around[d] = <<>>
        /\ \A k \in Connection : conn[k].holder # d
        /\ UNCHANGED <<listened, hooked, begun, recording, blocks, conn, running, ran>>
    BY DEF Spawn
  <1>2. around' \in [Context -> Seq(Recordings)] /\ around'[d] = around[c]
        /\ \A e \in Context \ {d} : around'[e] = around[e]
    BY <1>1 DEF StatementsInv, StatementsTyped
  <1>3. blocks[d] = <<>>
    <2>1. Len(blocks[d]) <= 0 /\ blocks[d] \in Seq(Recordings)
      BY <1>1 DEF StatementsInv, BlocksAreAround, Ends, Inv, Typed
    <2> QED BY <2>1, EmptySeq
  <1>4. BlocksAreAround'
    <2>1. Ends(<<>>, around[c])
      BY DEF Ends, StatementsInv, StatementsTyped
    <2> QED BY <1>1, <1>2, <1>3, <2>1 DEF StatementsInv, BlocksAreAround
  <1>5. AroundBegan'
    BY <1>1, <1>2 DEF StatementsInv, AroundBegan
  <1>6. ASSUME NEW e \in Context PROVE TimedFor(e)'
    BY <1>1, <1>2 DEF StatementsInv, Timed, TimedFor, Idle
  <1>7. StatementsTyped' /\ OneEach' /\ OpenOnListened'
    BY <1>1, <1>2 DEF StatementsInv, StatementsTyped, OneEach, OpenOnListened, Open
  <1> QED BY <1>4, <1>5, <1>6, <1>7 DEF StatementsInv, Timed

LEMMA CheckOutTimes ==
    ASSUME Inv, StatementsInv, NEW c \in Context, NEW k \in Connection, CheckOut(c, k)
    PROVE  StatementsInv'
  <1> DEFINE new == [engine |-> TheEngine, holder |-> c, started |-> conn[k].started]
  <1>1. new.started = conn[k].started /\ new.holder = c /\ DOMAIN new = DOMAIN NewConnection
    BY DEF NewConnection
  <1>2. conn' = [conn EXCEPT ![k] = new]
    BY DEF CheckOut
  <1> HIDE DEF new
  <1>3. conn'[k] = new /\ \A j \in Connection \ {k} : conn'[j] = conn[j]
    BY <1>2 DEF StatementsInv, StatementsTyped
  <1>4. StatementsTyped'
    BY <1>1, <1>2, <1>3 DEF CheckOut, StatementsInv, StatementsTyped
  <1>5. OneEach'
    BY <1>1, <1>3 DEF CheckOut, StatementsInv, OneEach
  <1>6. ASSUME NEW d \in Context
        PROVE  \/ TimedFor(d)'
               \/ /\ running'[d] = running[d]
                  /\ \A j \in Connection : conn'[j].holder = d => conn'[j] = conn[j]
    <2>1. CASE d = c
      BY <2>1 DEF CheckOut, TimedFor, Idle
    <2>2. CASE d # c
      BY <1>1, <1>3, <2>2 DEF CheckOut
    <2> QED BY <2>1, <2>2
  <1> QED BY <1>4, <1>5, <1>6, OthersTime DEF CheckOut

LEMMA CheckInTimes ==
    ASSUME Inv, StatementsInv, NEW c \in Context, NEW k \in Connection, CheckIn(c, k)
    PROVE  StatementsInv'
  <1> DEFINE new == IF conn[k].engine = engine THEN [conn[k] EXCEPT !.holder = NoContext]
                    ELSE NewConnection
  <1>1. /\ new.started \in Seq(Nat) /\ new.holder = NoContext
        /\ DOMAIN new = DOMAIN NewConnection
    BY DEF NewConnection, StatementsInv, StatementsTyped
  <1>2. conn' = [conn EXCEPT ![k] = new]
    BY DEF CheckIn
  <1> HIDE DEF new
  <1>3. conn'[k] = new /\ \A j \in Connection \ {k} : conn'[j] = conn[j]
    BY <1>2 DEF StatementsInv, StatementsTyped
  <1>4. StatementsTyped'
    BY <1>1, <1>2, <1>3 DEF CheckIn, StatementsInv, StatementsTyped
  <1>5. OneEach'
    BY <1>1, <1>3, ContextAssumption DEF CheckIn, StatementsInv, OneEach
  <1>6. ASSUME NEW d \in Context
        PROVE  \A j \in Connection : conn'[j].holder = d => conn'[j] = conn[j]
    BY <1>1, <1>3, ContextAssumption
  <1> QED BY <1>4, <1>5, <1>6, OthersTime DEF CheckIn

\* A statement that begins is the last its connection has noted.
LEMMA BeganTimes ==
    ASSUME Inv, StatementsInv, NEW c \in Context, NEW k \in Connection, NEW is \in Statement,
           StatementBegan(c, k, is)
    PROVE  StatementsInv'
  <1>1. conn[k].started \in Seq(Nat) /\ ran + 1 \in Nat
    BY DEF StatementsInv, StatementsTyped
  <1>2. /\ ran' = ran + 1 /\ conn[k].holder = c
        /\ running' = [running EXCEPT ![c] = [id |-> ran + 1, is |-> is]]
        /\ UNCHANGED <<listening, listened, hooked, begun, recording, around, blocks>>
    BY DEF StatementBegan
  <1>3. /\ running'[c].id = ran + 1 /\ DOMAIN running' = Context
        /\ \A d \in Context \ {c} : running'[d] = running[d]
    BY <1>2 DEF StatementsInv, StatementsTyped
  <1>4. /\ DOMAIN conn' = Connection /\ \A j \in Connection \ {k} : conn'[j] = conn[j]
        /\ DOMAIN conn'[k] = DOMAIN NewConnection
        /\ conn'[k].holder = conn[k].holder /\ conn'[k].engine = conn[k].engine
        /\ conn'[k].started = IF conn[k].engine \in hooked
                              THEN Append(conn[k].started, ran + 1) ELSE conn[k].started
    BY DEF StatementBegan, StatementsInv, StatementsTyped, NewConnection
  <1>5. StatementsTyped'
    <2>1. conn'[k].started \in Seq(Nat)
      <3>1. Append(conn[k].started, ran + 1) \in Seq(Nat)
        BY <1>1, Noted
      <3> QED BY <1>1, <1>4, <3>1
    <2>2. ran' \in Nat /\ around' = around
      BY <1>1, <1>2
    <2> QED BY <1>3, <1>4, <2>1, <2>2 DEF StatementsInv, StatementsTyped
  <1>6. OneEach'
    BY <1>4 DEF StatementsInv, OneEach
  <1>7. ASSUME NEW d \in Context
        PROVE  \/ TimedFor(d)'
               \/ /\ running'[d] = running[d]
                  /\ \A j \in Connection : conn'[j].holder = d => conn'[j] = conn[j]
    <2>1. CASE d = c
      <3>1. ASSUME NEW j \in Connection, conn'[j].holder = c, conn'[j].engine \in hooked
            PROVE  conn'[j].started # <<>> /\ Last(conn'[j].started) = running'[c].id
        <4>1. j = k
          <5>1. ASSUME j # k PROVE conn[j].holder = conn[k].holder
            BY <1>2, <1>4, <3>1, <5>1
          <5>2. conn[k].holder \in Context
            BY <1>2
          <5> QED BY <5>1, <5>2 DEF StatementsInv, OneEach
        <4>2. conn'[k].started = Append(conn[k].started, ran + 1)
          BY <1>4, <3>1, <4>1
        <4>3. /\ Append(conn[k].started, ran + 1) # <<>>
              /\ Last(Append(conn[k].started, ran + 1)) = ran + 1
          BY <1>1, Noted
        <4> QED BY <1>3, <4>1, <4>2, <4>3
      <3> QED BY <1>2, <2>1, <3>1 DEF TimedFor
    <2>2. CASE d # c
      BY <1>2, <1>3, <1>4, <2>2
    <2> QED BY <2>1, <2>2
  <1> QED BY <1>2, <1>5, <1>6, <1>7, OthersTime

\* A statement that ends takes its start off, or one that was left.
LEMMA EndedTimes ==
    ASSUME Inv, StatementsInv, NEW c \in Context, NEW k \in Connection, StatementEnded(c, k)
    PROVE  StatementsInv'
  <1>1. /\ conn[k].holder = c
        /\ running' = [running EXCEPT ![c] = NotRunning]
        /\ UNCHANGED <<listening, listened, hooked, begun, around, blocks, ran>>
        /\ \/ conn' = conn
           \/ conn[k].started # <<>> /\ conn' = [conn EXCEPT ![k].started = Front(@)]
        /\ recording' = recording \/ recording' = Records(c, k)
    BY DEF StatementEnded
  <1>2. /\ DOMAIN conn' = Connection /\ \A j \in Connection \ {k} : conn'[j] = conn[j]
        /\ DOMAIN conn'[k] = DOMAIN NewConnection
        /\ conn'[k].holder = conn[k].holder
        /\ conn'[k].started \in Seq(Nat)
    BY <1>1, Shortened DEF StatementsInv, StatementsTyped, NewConnection
  <1>3. /\ running'[c] = NotRunning /\ DOMAIN running' = Context
        /\ \A d \in Context \ {c} : running'[d] = running[d]
    BY <1>1 DEF StatementsInv, StatementsTyped
  <1>4. \A r \in Recordings : /\ recording'[r].open = recording[r].open
                              /\ recording'[r].on = recording[r].on
    BY <1>1 DEF Inv, Typed, Unbegun, Records, Taken
  <1>5. StatementsTyped'
    BY <1>1, <1>2, <1>3 DEF StatementsInv, StatementsTyped
  <1>6. OneEach'
    BY <1>2 DEF StatementsInv, OneEach
  <1>7. ASSUME NEW d \in Context
        PROVE  \/ TimedFor(d)'
               \/ /\ running'[d] = running[d]
                  /\ \A j \in Connection : conn'[j].holder = d => conn'[j] = conn[j]
    <2>1. CASE d = c
      BY <1>3, <2>1 DEF TimedFor, Idle
    <2>2. CASE d # c
      BY <1>1, <1>2, <1>3, <2>2
    <2> QED BY <2>1, <2>2
  <1> QED BY <1>1, <1>4, <1>5, <1>6, <1>7, OthersTime

LEMMA FailsTimes ==
    ASSUME Inv, StatementsInv, NEW c \in Context, StatementFails(c)
    PROVE  StatementsInv'
  <1>1. /\ running' = [running EXCEPT ![c] = NotRunning]
        /\ UNCHANGED <<listening, listened, hooked, begun, recording, around, blocks, conn, ran>>
    BY DEF StatementFails
  <1>2. /\ running'[c] = NotRunning /\ DOMAIN running' = Context
        /\ \A d \in Context \ {c} : running'[d] = running[d]
    BY <1>1 DEF StatementsInv, StatementsTyped
  <1>3. StatementsTyped' /\ OneEach'
    BY <1>1, <1>2 DEF StatementsInv, StatementsTyped, OneEach
  <1>4. ASSUME NEW d \in Context PROVE TimedFor(d)' \/ running'[d] = running[d]
    BY <1>2 DEF TimedFor, Idle
  <1> QED BY <1>1, <1>3, <1>4, OthersTime

\* The connections that are held stay as they are.
LEMMA DisposeTimes ==
    ASSUME Inv, StatementsInv, Dispose
    PROVE  StatementsInv'
  <1>1. /\ conn' = [k \in Connection |->
                       IF conn[k].holder = NoContext THEN NewConnection ELSE conn[k]]
        /\ UNCHANGED <<listening, listened, hooked, begun, recording, around, blocks,
                       running, ran>>
    BY DEF Dispose
  <1>2. NewConnection.started \in Seq(Nat) /\ NewConnection.holder = NoContext
    BY DEF NewConnection
  <1>3. \A k \in Connection : conn'[k] = conn[k] \/ conn'[k] = NewConnection
    BY <1>1
  <1>4. \A k \in Connection : conn'[k].holder \in Context => conn'[k] = conn[k]
    BY <1>2, <1>3, ContextAssumption
  <1>5. StatementsTyped'
    BY <1>1, <1>2, <1>3 DEF StatementsInv, StatementsTyped
  <1>6. OneEach'
    BY <1>4 DEF StatementsInv, OneEach
  <1> QED BY <1>1, <1>4, <1>5, <1>6, OthersTime

LEMMA StatementsNext ==
    ASSUME Inv, StatementsInv, [Next]_vars
    PROVE  StatementsInv'
  <1>1. ASSUME NEW c \in Context, Block(c) PROVE StatementsInv'
    BY <1>1, BeginTimes, EndTimes DEF Block
  <1>2. ASSUME NEW c \in Context, Runs(c) PROVE StatementsInv'
    BY <1>2, FailsTimes, CheckOutTimes, CheckInTimes, BeganTimes, EndedTimes DEF Runs
  <1>3. CASE UNCHANGED vars
    BY <1>3 DEF vars, StatementsInv, StatementsTyped, OneEach, AroundBegan, BlocksAreAround,
                OpenOnListened, Open, Timed, TimedFor, Idle
  <1> QED BY <1>1, <1>2, <1>3, SpawnTimes, DisposeTimes DEF Next

LEMMA StatementsSpec == Spec => [](Inv /\ StatementsInv)
  <1>1. Inv /\ StatementsInv /\ [Next]_vars => Inv' /\ StatementsInv'
    BY NextKeeps, StatementsNext
  <1> QED BY <1>1, InitInv, StatementsInit, PTL DEF Spec

\* What is true of the statement a context finishes: the block of a recording is
\* around it, and the start its connection noted last is its own.
LEMMA OwnStart ==
    ASSUME Inv, StatementsInv, NEW c \in Context, NEW k \in Connection,
           ~Idle(c), conn[k].holder = c, conn[k].engine \in hooked,
           NEW r \in Range(around[c]), recording[r].open
    PROVE  conn[k].started # <<>> /\ Last(conn[k].started) = running[c].id
  <1>1. PICK i \in DOMAIN around[c] : around[c][i] = r
    BY DEF Range
  <1> QED BY <1>1 DEF StatementsInv, Timed, TimedFor

LEMMA OwnBlockIsAround ==
    ASSUME Inv, StatementsInv, NEW c \in Context, NEW r \in Range(blocks[c])
    PROVE  /\ r \in Range(around[c]) /\ r \in Recordings /\ recording[r].open
           /\ recording[r].on \in hooked
  <1>1. PICK i \in DOMAIN blocks[c] : blocks[c][i] = r
    BY DEF Range
  <1> DEFINE m == Len(blocks[c])
             n == Len(around[c])
  <1>2. /\ m \in Nat /\ n \in Nat /\ m <= n /\ i \in 1 .. m /\ DOMAIN around[c] = 1 .. n
        /\ r = around[c][n - m + i]
    BY <1>1 DEF StatementsInv, StatementsTyped, BlocksAreAround, Ends, Inv, Typed
  <1>3. r \in Open
    BY <1>1 DEF Inv, BlocksAreOpen
  <1>4. n - m + i \in DOMAIN around[c]
    <2> HIDE DEF m, n
    <2>1. n - m + i \in 1 .. n
      BY <1>2
    <2> QED BY <1>2, <2>1
  <1>5. r \in Range(around[c])
    BY <1>2, <1>4 DEF Range
  <1>6. listening # 0
    BY <1>3, OpenIsFinite, FS_EmptySet DEF Inv, Counted
  <1>7. recording[r].on \in hooked
    BY <1>3, <1>6 DEF StatementsInv, OpenOnListened, Inv, Hooked
  <1> QED BY <1>3, <1>5, <1>7 DEF Open

\* A statement that runs to its end inside a block, on the engine the block
\* listens on, is recorded in it, whatever other contexts begin and end meanwhile
\* (_statement_ended).
THEOREM StatementsAreRecorded == Spec => BlocksRecordTheirStatements
  <1> DEFINE A == \A c \in Context, k \in Connection, r \in Recordings :
                    (/\ running[c].is = "query" /\ StatementEnded(c, k)
                     /\ r \in Range(blocks[c]) /\ conn[k].engine = recording[r].on)
                        => \E s \in recording'[r].statements : s.id = running[c].id
  <1>1. Inv /\ StatementsInv => A
    <2> SUFFICES ASSUME Inv, StatementsInv,
                        NEW c \in Context, NEW k \in Connection, NEW r \in Recordings,
                        running[c].is = "query", StatementEnded(c, k),
                        r \in Range(blocks[c]), conn[k].engine = recording[r].on
                 PROVE  \E s \in recording'[r].statements : s.id = running[c].id
      OBVIOUS
    <2>1. r \in Range(around[c]) /\ recording[r].open /\ conn[k].engine \in hooked
      BY OwnBlockIsAround
    <2>2. conn[k].started # <<>>
      BY <2>1, OwnStart DEF StatementEnded
    <2>3. recording' = Records(c, k) /\ ~Ignored(c)
      BY <2>1, <2>2 DEF StatementEnded, Ignored
    <2> DEFINE s == [id |-> running[c].id, started |-> Last(conn[k].started)]
    <2>4. recording'[r] = [recording[r] EXCEPT !.statements = @ \cup {s}]
      BY <2>1, <2>3 DEF Records, Taken
    <2>5. s.id = running[c].id
      OBVIOUS
    <2> HIDE DEF s
    <2>6. s \in recording'[r].statements
      BY <2>4 DEF Inv, Typed, Unbegun
    <2> QED BY <2>5, <2>6
  <1>2. Inv /\ StatementsInv => [A]_vars
    BY <1>1
  <1> QED BY <1>2, StatementsSpec, PTL DEF BlocksRecordTheirStatements

\* While its block is open a recording times each statement from its own start,
\* though statements that failed, or began while nobody listened, left the info
\* of the pooled connection uneven (_statement_began, _statement_ended).
THEOREM StatementsAreTimed == Spec => OpenBlocksTimeTheirStatements
  <1> DEFINE A == \A r \in Recordings :
                    recording[r].open => \A s \in Took(r) : s.started = s.id
  <1>1. ASSUME Inv, StatementsInv, [Next]_vars PROVE A
    <2> SUFFICES ASSUME NEW r \in Recordings, recording[r].open,
                        NEW s \in Took(r)
                 PROVE  s.started = s.id
      OBVIOUS
    <2>1. ASSUME recording'[r].statements = recording[r].statements PROVE FALSE
      BY <2>1 DEF Took
    <2>2. ASSUME NEW c \in Context, NEW skips \in BOOLEAN, Begin(c, skips) PROVE FALSE
      <3>1. r # begun + 1
        <4>1. r <= begun /\ r \in Int /\ begun \in Int
          BY <1>1, RecordingBoundsAssumption DEF Inv, Begun, Typed, Open, Recordings
        <4> QED BY <4>1
      <3> QED BY <2>1, <2>2, <3>1 DEF Begin, Inv, Typed
    <2>3. ASSUME NEW c \in Context, End(c) PROVE FALSE
      BY <2>1, <2>3 DEF End, Inv, Typed, Unbegun
    <2>4. ASSUME NEW c \in Context, NEW k \in Connection, StatementEnded(c, k)
          PROVE  s.started = s.id
      <3>1. /\ recording' = Records(c, k) /\ conn[k].engine \in hooked
            /\ ~Idle(c) /\ conn[k].holder = c
        BY <2>1, <2>4 DEF StatementEnded
      <3> DEFINE t == [id |-> running[c].id, started |-> Last(conn[k].started)]
      <3>2. recording'[r] = IF Ignored(c) \/ r \notin Range(around[c]) THEN recording[r]
                            ELSE [recording[r] EXCEPT !.statements = @ \cup {t}]
        BY <3>1 DEF Records, Taken
      <3>3. t.id = running[c].id /\ t.started = Last(conn[k].started)
        OBVIOUS
      <3> HIDE DEF t
      <3>4. r \in Range(around[c]) /\ s = t
        BY <2>1, <3>2 DEF Took, Inv, Typed, Unbegun
      <3>5. Last(conn[k].started) = running[c].id
        BY <1>1, <3>1, <3>4, OwnStart
      <3> QED BY <3>3, <3>4, <3>5
    <2>5. CASE UNCHANGED recording
      BY <2>1, <2>5
    <2> QED BY <1>1, <2>2, <2>3, <2>4, <2>5
            DEF Next, Dispose, Block, Runs, Spawn, StatementFails, CheckOut, CheckIn,
                StatementBegan, vars
  <1>2. Inv /\ StatementsInv /\ [Next]_vars => [A]_vars
    BY <1>1
  <1> QED BY <1>2, StatementsSpec, PTL DEF Spec, OpenBlocksTimeTheirStatements

================================================================================
