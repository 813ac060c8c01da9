------------------------------ MODULE Templates ------------------------------
(***************************************************************************)
(* The SQL templates of one database as its MacroEngine keeps them         *)
(* (src/sqlakit/_sql.py): each file is read once, the files it includes are *)
(* read into it, and what was read is checked against the modification     *)
(* times of all of them while the files change on disk and several threads *)
(* render.                                                                 *)
(*                                                                         *)
(* A file is abstracted to the version its last write gave it, which is    *)
(* also its modification time: no two writes share one.  What a template   *)
(* holds is abstracted to the pairs of a file and the version read of it.  *)
(* The tpl.include calls of a source, in order, are a constant.            *)
(***************************************************************************)
EXTENDS Integers, Sequences, FiniteSets

CONSTANTS
    File,         \* the names of template files
    Inline,       \* the sources of templates written out in the code
    Thread,       \* the threads that render
    NoTemplate,   \* what a cache holds of a template not read yet
    IncludesOf,   \* the files each source includes, in the order of the calls
    MaxIncluded,  \* how many included templates the engine keeps (_INCLUDED)
    MaxWrites,    \* bound: how often the files change
    MaxCalls      \* bound: how many templates are asked for

Name == File \cup Inline
Version == 0 .. MaxWrites
Missing == 0

ASSUME NamesAssumption == File \cap Inline = {}
ASSUME IncludesAssumption == IncludesOf \in [Name -> Seq(File)]
ASSUME BoundsAssumption ==
    /\ IsFiniteSet(Thread) /\ Thread # {}
    /\ MaxIncluded \in Nat \ {0}
    /\ MaxWrites \in Nat \ {0}
    /\ MaxCalls \in Nat

VARIABLES
    auto_reload,  \* Templates(auto_reload=...)
    disk,         \* the version of each file, Missing when there is none
    writes,       \* how often the files changed
    loaded,       \* MacroEngine._loaded, and the cache of _from_string
    included,     \* MacroEngine._included, oldest first
    stack,        \* the templates each thread is reading, outermost first
    answer,       \* how the last call of each thread ended
    calls,        \* how many templates were asked for
    torn,         \* history: the files last changed while a thread was reading
    seen          \* history: what was on disk during each thread's last call, and
                  \* every version of a file that was torn by then

vars == <<auto_reload, disk, writes, loaded, included, stack, answer, calls, torn, seen>>

------------------------------------------------------------------------------
(* What is kept of a template, and of a template being read. *)

Chain == Seq(Name \X Nat)

\* What a template was made of, when its file changed, and what it includes.
Template == [name : Name, mtime : Version, pieces : SUBSET (File \X Version),
             includes : SUBSET (File \X Version)]

\* next is the call of tpl.include that comes next, 0 before the file is read
\* and the modification time asked for.
Frame == [name : Name, chain : Chain, step : {"read", "stat", "compile", "evict", "store"},
          next : Nat, mtime : Version, pieces : SUBSET (File \X Version),
          includes : SUBSET (File \X Version), victim : Chain]

Outcomes == {"none", "template", "missing", "cycle", "key_error"}

Answer == [asked : Name \cup {NoTemplate}, outcome : Outcomes,
           template : Template \cup {NoTemplate}]
NoAnswer == [asked |-> NoTemplate, outcome |-> "none", template |-> NoTemplate]

NewFrame(name, chain) ==
    [name |-> name, chain |-> chain, next |-> 1, mtime |-> Missing, pieces |-> {},
     includes |-> {}, victim |-> <<>>,
     step |-> IF name \in File THEN "read" ELSE "compile"]

TemplateOf(frame) == [name |-> frame.name, mtime |-> frame.mtime,
                      pieces |-> frame.pieces, includes |-> frame.includes]

\* The key an included template is kept under: its chain, itself at the end.
Key(name, chain) == Append(chain, <<name, 0>>)

Kept(key) == {i \in DOMAIN included : included[i].key = key}

Init ==
    /\ auto_reload \in BOOLEAN
    /\ disk = [f \in File |-> 1]
    /\ writes = 1
    /\ loaded = [n \in Name |-> NoTemplate]
    /\ included = <<>>
    /\ stack = [t \in Thread |-> <<>>]
    /\ answer = [t \in Thread |-> NoAnswer]
    /\ calls = 0
    /\ torn = {}
    /\ seen = [t \in Thread |-> {}]

------------------------------------------------------------------------------
(* Reading. *)

Now == {<<f, disk[f]>> : f \in File}
EveryVersion(files) == files \X (Version \ {Missing})
Reading(t) == stack[t] # <<>>
Top(t) == stack[t][Len(stack[t])]
SetTop(t, frame) == stack' = [stack EXCEPT ![t] = [@ EXCEPT ![Len(@)] = frame]]

\* Mutant: only the file itself is looked at.
ChangedItself(template) == template.name \in File /\ disk[template.name] # template.mtime

\* Whether a file the template was read from changed, or is gone.
Changed(template) ==
    \/ ChangedItself(template)
    \/ \E file \in template.includes : disk[file[1]] # file[2]

\* The pieces of an included template become those of the one that includes
\* it, and its modification times replace the ones noted for the same files.
Merged(frame, child) ==
    LET noted == child.includes \cup {<<child.name, child.mtime>>}
        names == {file[1] : file \in noted}
    IN [frame EXCEPT
            !.next = @ + 1,
            !.pieces = @ \cup child.pieces,
            !.includes = {file \in @ : file[1] \notin names} \cup noted]

Answers(t, asked, outcome, template) ==
    answer' = [answer EXCEPT ![t] = [asked |-> asked, outcome |-> outcome,
                                     template |-> template]]

\* What ends the reading of the template asked for.
Ends(t, outcome, template) ==
    /\ Answers(t, answer[t].asked, outcome, template)
    /\ stack' = [stack EXCEPT ![t] = <<>>]

Fails(t, outcome) == Ends(t, outcome, NoTemplate)

EngineUnchanged == UNCHANGED <<auto_reload, disk, writes, torn>>

\* MacroEngine.get and render_string: from the cache, unless a file changed
\* and reloading is on.  A template written out is kept for good.
Get(t, name) ==
    /\ ~Reading(t) /\ calls < MaxCalls
    /\ calls' = calls + 1
    /\ seen' = [seen EXCEPT ![t] = Now \cup EveryVersion(torn)]
    /\ LET found == loaded[name]
           stale == name \in File /\ auto_reload /\ found # NoTemplate /\ Changed(found)
       IN \/ /\ found # NoTemplate /\ ~stale
             /\ Answers(t, name, "template", found)
             /\ UNCHANGED stack
          \/ /\ found = NoTemplate \/ stale
             /\ \/ /\ name \in File /\ disk[name] = Missing
                   /\ Answers(t, name, "missing", NoTemplate)
                   /\ UNCHANGED stack
                \/ /\ name \in File => disk[name] # Missing
                   /\ stack' = [stack EXCEPT ![t] = <<NewFrame(name, <<>>)>>]
                   /\ Answers(t, name, "none", NoTemplate)
    /\ UNCHANGED <<loaded, included>> /\ EngineUnchanged

\* path.read_text(), then path.stat(): two looks at a file that may change in
\* between, or be gone.
Look(t, step, then) ==
    /\ Reading(t) /\ Top(t).step = step
    /\ LET version == disk[Top(t).name]
       IN \/ version = Missing /\ Fails(t, "missing")
          \/ version # Missing /\ SetTop(t, then[version]) /\ UNCHANGED answer
    /\ UNCHANGED <<loaded, included, calls, seen>> /\ EngineUnchanged

ReadText(t) ==
    Look(t, "read", [v \in Version |->
        [Top(t) EXCEPT !.step = "stat", !.pieces = {<<Top(t).name, v>>}]])

Stat(t) ==
    Look(t, "stat", [v \in Version |-> [Top(t) EXCEPT !.step = "compile", !.mtime = v]])

\* The templates a chain of includes holds.
Within(chain) == {chain[i][1] : i \in DOMAIN chain}

\* Mutant: a template is looked for among the ones around, not in itself.
CallsItselfAround(frame, name) == name \in Within(frame.chain)

\* Mutant: a template included once before is refused too.
CallsItselfTwice(frame, name) ==
    \/ name \in Within(frame.chain) \cup {frame.name}
    \/ \E file \in frame.includes : file[1] = name

CallsItself(frame, name) == name \in Within(frame.chain) \cup {frame.name}

\* MacroTemplate._include: the next tpl.include of the text being compiled,
\* from the included templates kept for this chain while no file changed.
Include(t) ==
    /\ Reading(t) /\ Top(t).step = "compile"
    /\ LET frame == Top(t)
       IN /\ frame.next \in DOMAIN IncludesOf[frame.name]
          /\ LET name == IncludesOf[frame.name][frame.next]
                 chain == Append(frame.chain, <<frame.name, frame.next>>)
                 Usable == {i \in Kept(Key(name, chain)) : ~Changed(included[i].template)}
             IN \/ CallsItself(frame, name) /\ Fails(t, "cycle")
                \/ /\ ~CallsItself(frame, name)
                   /\ \/ \E i \in Usable :
                            /\ SetTop(t, Merged(frame, included[i].template))
                            /\ UNCHANGED answer
                      \/ /\ Usable = {} /\ disk[name] = Missing
                         /\ Fails(t, "missing")
                      \/ /\ Usable = {} /\ disk[name] # Missing
                         /\ stack' = [stack EXCEPT ![t] = Append(@, NewFrame(name, chain))]
                         /\ UNCHANGED answer
    /\ UNCHANGED <<loaded, included, calls, seen>> /\ EngineUnchanged

Compiled(t) ==
    /\ Reading(t) /\ Top(t).step = "compile"
    /\ Top(t).next \notin DOMAIN IncludesOf[Top(t).name]

\* The template asked for is read: it is kept under its name.
Load(t) ==
    /\ Compiled(t) /\ Len(stack[t]) = 1
    /\ loaded' = [loaded EXCEPT ![Top(t).name] = TemplateOf(Top(t))]
    /\ Ends(t, "template", TemplateOf(Top(t)))
    /\ UNCHANGED <<included, calls, seen>> /\ EngineUnchanged

\* Mutant: the cache may hold one more.
IsFullLate == Len(included) > MaxIncluded

IsFull == Len(included) >= MaxIncluded

\* An included template is read.  A full cache gives up its oldest entry
\* first: it is looked up, and deleted, and then the new one is stored, with
\* other threads in between.
ChooseVictim(t) ==
    /\ Compiled(t) /\ Len(stack[t]) > 1
    /\ \/ /\ IsFull
          /\ SetTop(t, [Top(t) EXCEPT !.step = "evict", !.victim = included[1].key])
       \/ ~IsFull /\ SetTop(t, [Top(t) EXCEPT !.step = "store"])
    /\ UNCHANGED <<loaded, included, answer, calls, seen>> /\ EngineUnchanged

Evict(t) ==
    /\ Reading(t) /\ Top(t).step = "evict"
    /\ LET victims == Kept(Top(t).victim)
       IN \/ victims = {} /\ Fails(t, "key_error") /\ UNCHANGED included
          \/ \E i \in victims :
                /\ included' = SubSeq(included, 1, i - 1)
                                \o SubSeq(included, i + 1, Len(included))
                /\ SetTop(t, [Top(t) EXCEPT !.step = "store"])
                /\ UNCHANGED answer
    /\ UNCHANGED <<loaded, calls, seen>> /\ EngineUnchanged

\* An entry stored again keeps its place.
Store(t) ==
    /\ Reading(t) /\ Top(t).step = "store"
    /\ LET child == TemplateOf(Top(t))
           entry == [key |-> Key(child.name, Top(t).chain), template |-> child]
           above == SubSeq(stack[t], 1, Len(stack[t]) - 1)
       IN /\ \/ Kept(entry.key) = {} /\ included' = Append(included, entry)
             \/ \E i \in Kept(entry.key) : included' = [included EXCEPT ![i] = entry]
          /\ stack' = [stack EXCEPT ![t] = [above EXCEPT ![Len(above)] = Merged(@, child)]]
    /\ UNCHANGED <<loaded, answer, calls, seen>> /\ EngineUnchanged

\* A file is written, or removed.
Change(f, removed) ==
    /\ writes < MaxWrites
    /\ removed => disk[f] # Missing
    /\ writes' = writes + 1
    /\ disk' = [disk EXCEPT ![f] = IF removed THEN Missing ELSE writes + 1]
    /\ seen' = [t \in Thread |->
                    IF Reading(t) THEN seen[t] \cup {<<f, disk'[f]>>} \cup EveryVersion({f})
                    ELSE seen[t]]
    /\ torn' = IF \E t \in Thread : Reading(t) THEN torn \cup {f} ELSE torn \ {f}
    /\ UNCHANGED <<auto_reload, loaded, included, stack, answer, calls>>

ReadStep(t) ==
    \/ ReadText(t)
    \/ Stat(t)
    \/ Include(t)
    \/ Load(t)
    \/ ChooseVictim(t)
    \/ Evict(t)
    \/ Store(t)

Next ==
    \/ \E t \in Thread : ReadStep(t) \/ \E n \in Name : Get(t, n)
    \/ \E f \in File, removed \in BOOLEAN : Change(f, removed)

Spec == Init /\ [][Next]_vars
------------------------------------------------------------------------------
(* Properties. *)

\* What a source needs: the files it includes, however deep, and itself.
Closed == {S \in SUBSET Name :
              \A n \in S : \A i \in DOMAIN IncludesOf[n] : IncludesOf[n][i] \in S}
Reach == [n \in Name |-> {m \in Name : \A S \in Closed : n \in S => m \in S}]

\* No template is read inside itself, so that reading one ends: a call that
\* closes a circle of includes is refused before its file is read again
\* (MacroTemplate._include and the chain it hands down).
NoTemplateInsideItself ==
    \A t \in Thread : \A i, j \in DOMAIN stack[t] :
        stack[t][i].name = stack[t][j].name => i = j

\* With auto_reload a call hands out the whole of its file and of those it
\* includes, each as it was on disk during the call, whichever of them changed
\* since they were kept, in whatever order threads read and store them.  A write
\* that lands while a thread is reading may be missed until the next one: the
\* text is read before the modification time (MacroEngine.get, _changed).
FreshTemplates ==
    \A t \in Thread :
        LET given == answer[t].template
        IN (auto_reload /\ ~Reading(t) /\ given # NoTemplate /\ answer[t].asked \in File)
            => /\ {piece[1] : piece \in given.pieces} = Reach[answer[t].asked]
               /\ given.pieces \subseteq seen[t]

\* A call that fails has a reason in the files: one it needs was not there
\* during the call, or includes itself.  The cache is no reason, unless threads
\* race to empty it (MacroEngine.included).
FailuresAreReal ==
    \A t \in Thread :
        /\ answer[t].outcome = "missing" =>
                \E f \in File \cap Reach[answer[t].asked] : <<f, Missing>> \in seen[t]
        /\ answer[t].outcome = "cycle" =>
                \E f \in Reach[answer[t].asked] : \E i \in DOMAIN IncludesOf[f] :
                    f \in Reach[IncludesOf[f][i]]
        /\ answer[t].outcome = "key_error" => Cardinality(Thread) > 1

\* Threads that store at once overrun the cache by less than one entry each
\* (the check, the deletion and the store of MacroEngine.included are not one).
CacheIsBounded == Len(included) < MaxIncluded + Cardinality(Thread)

==============================================================================
