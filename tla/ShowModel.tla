----------------------------- MODULE ShowModel ------------------------------
(***************************************************************************)
(* A show as data: what its objects hold, what a write of one refuses and  *)
(* carries with it, and what a copy or a store builds.                     *)
(*   crates/prism-core/src/show.rs        the writes                       *)
(*   crates/prism-core/src/objects.rs     what a copy or a move transfers  *)
(*   crates/prism-core/src/programmer.rs  what a store is built from       *)
(*                                                                         *)
(* The state s is one function from names (UndoScope) to values; a show    *)
(* object that does not exist is not in its domain.  Every fixture has one *)
(* attribute, filed under the default feature group, cue numbers are whole *)
(* numbers, and what the desk only moves about and never reads (names,     *)
(* colours, times, key functions, where a fixture hangs) is a setting.     *)
(***************************************************************************)
EXTENDS Integers, SequencesExt

CONSTANTS Fixtures, Types, Groups, Marks, Presets, Lists, Executors,  \* ids
          CueNumbers,
          Addresses,    \* where a fixture may start in its universe
          Channels,     \* CHANNELS_PER_UNIVERSE
          Footprints,   \* channels a profile takes
          MaxMarks,     \* MAX_MARKS
          MaxValue,     \* of an attribute: u16::MAX
          Default,      \* its value at rest
          Levels,       \* of a master or a crossfade fader
          Rest, Full,   \* where the two rest in a new list
          Settings,     \* names, colours, times, functions, places
          Usual,        \* what a new object has
          Absent        \* what is not there

ASSUME ShowAssumption ==
    /\ \A S \in {Fixtures, Types, Groups, Marks, Presets, Lists, Executors,
                 CueNumbers, Addresses, Footprints} : S \subseteq Nat /\ IsFiniteSet(S)
    /\ {Channels, MaxMarks, MaxValue} \subseteq Nat /\ Default \in 0 .. MaxValue
    /\ Rest \in Levels /\ Full \in Levels
    /\ Usual \in Settings /\ Absent \notin Settings

-----------------------------------------------------------------------------
(* Names and values                                                        *)

Fixture(f)  == <<"fixture", f>>
Type(t)     == <<"type", t>>
Group(g)    == <<"group", g>>
Mark(m)     == <<"mark", m>>
Preset(p)   == <<"preset", p>>
List(q)     == <<"list", q>>
Executor(x) == <<"executor", x>>
Programmer  == <<"programmer", 0>>
CueEdit     == <<"cueEdit", 0>>
Selected    == <<"selected", 0>>

\* Where a fixture hangs: part of the fixture, with an image of its own.
Place(f)    == <<"place", f>>

Kind(name) == name[1]
Objects    == { Group(g) : g \in Groups } \cup { Preset(p) : p \in Presets }
              \cup { List(q) : q \in Lists } \cup { Executor(x) : x \in Executors }
ShowNames  == { Fixture(f) : f \in Fixtures } \cup { Type(t) : t \in Types }
              \cup { Mark(m) : m \in Marks } \cup Objects
DeskNames  == {Programmer, CueEdit, Selected}
Names      == ShowNames \cup DeskNames

Values   == 0 .. MaxValue
Colors   == Settings \cup {Absent}
Partial(D, R) == UNION { [S -> R] : S \in SUBSET D }

\* `drives`: the profile has the attribute.
Profiles == [size : Footprints, drives : BOOLEAN]
\* `only`: the value is taken back when the cue is left (CueTracking).
Parts    == [value : Values, link : Presets \cup {Absent}, only : BOOLEAN]
Touches  == [value : Values, link : Presets \cup {Absent}]
CueEdits == [list : Lists, cue : CueNumbers, modified : BOOLEAN]

\* f, and g where f says nothing; f with one more entry.
f ++ g        == [x \in DOMAIN f \cup DOMAIN g |-> IF x \in DOMAIN f THEN f[x] ELSE g[x]]
With(f, k, v) == [x \in {k} \cup DOMAIN f |-> IF x = k THEN v ELSE f[x]]

IsMap(f)           == f = [x \in DOMAIN f |-> f[x]]
IsPartial(f, D, R) == f \in [DOMAIN f -> R] /\ DOMAIN f \subseteq D

IsCue(cue) == /\ cue \in [name : Settings, times : Settings, parts : {cue.parts}]
              /\ IsPartial(cue.parts, Fixtures, Parts)
IsList(list) ==
    /\ list \in [name : Settings, color : Colors, master : Levels, fade : Levels,
                 cues : {list.cues}]
    /\ IsMap(list.cues) /\ DOMAIN list.cues \subseteq CueNumbers
    /\ \A n \in DOMAIN list.cues : IsCue(list.cues[n])

IsValue(name, v) ==
    CASE Kind(name) = "fixture"    -> v \in [type : Types, at : Addresses, hang : Settings]
      [] Kind(name) = "type"       -> v \in Profiles
      [] Kind(name) = "group"      -> v \in [name : Settings, members : SUBSET Fixtures]
      [] Kind(name) = "preset"     ->
            /\ v \in [name : Settings, color : Colors, values : {v.values}]
            /\ IsPartial(v.values, Fixtures, Values)
      [] Kind(name) = "list"       -> IsList(v)
      [] Kind(name) = "executor"   -> v \in [list : {Absent} \cup Lists, keys : Settings]
      [] Kind(name) = "programmer" ->
            /\ v \in [selection : SUBSET Fixtures, manual : SUBSET Fixtures,
                      groups : SUBSET Groups, values : {v.values}]
            /\ IsPartial(v.values, Fixtures, Touches)
      [] Kind(name) = "cueEdit"    -> v \in {Absent} \cup CueEdits
      [] Kind(name) = "selected"   -> v \in {Absent} \cup Lists
      [] OTHER                     -> v \in Settings      \* a mark, a place

\* What is absent is not taken for a list or for the edit of a cue.
AllCues  == [name : Settings, times : Settings, parts : Partial(Fixtures, Parts)]
AllLists == [name : Settings, color : Colors, master : Levels, fade : Levels,
             cues : Partial(CueNumbers, AllCues)]

ASSUME AbsentAssumption == Absent \notin AllLists \cup CueEdits

\* What a desk and its show may hold.
IsState(s) == /\ IsMap(s) /\ DeskNames \subseteq DOMAIN s /\ DOMAIN s \subseteq Names
              /\ \A name \in DOMAIN s : IsValue(name, s[name])

There(s, name) == name \in DOMAIN s
Held(s, name)  ==
    IF Kind(name) = "place" THEN s[Fixture(name[2])].hang
    ELSE IF There(s, name) THEN s[name] ELSE Absent

Patched(s)  == { f \in Fixtures : There(s, Fixture(f)) }
Standing(s, t) == { f \in Patched(s) : s[Fixture(f)].type = t }
MarksSet(s) == { m \in Marks : There(s, Mark(m)) }
ListsIn(s)  == { q \in Lists : There(s, List(q)) }
HasCue(s, q, n) == There(s, List(q)) /\ n \in DOMAIN s[List(q)].cues

\* Show::attribute_def: the patched fixtures whose profile has the attribute.
Driven(s) == { f \in Patched(s) : s[Type(s[Fixture(f)].type)].drives }

Links(cues, p) == \E n \in DOMAIN cues : \E f \in DOMAIN cues[n].parts :
                      cues[n].parts[f].link = p

\* Show::sequences_using_preset, and the executors that play a list.
Users(s, p)   == { q \in ListsIn(s) : Links(s[List(q)].cues, p) }
Players(s, q) ==
    { x \in Executors : There(s, Executor(x)) /\ s[Executor(x)].list = q }

-----------------------------------------------------------------------------
(* The writes, what they refuse and what they carry with them              *)

\* Show::check_placement
Fits(at, size) == size > 0 /\ at + size - 1 <= Channels

\* Show::check_cues
PlayableCue(s, cue) ==
    \A f \in DOMAIN cue.parts :
        /\ f \in Patched(s)
        /\ cue.parts[f].link # Absent => There(s, Preset(cue.parts[f].link))
Playable(s, cues) == \A n \in DOMAIN cues : PlayableCue(s, cues[n])

\* What the removals check before they write.
MayGo(s, name) ==
    \/ Kind(name) = "mark"
    \/ There(s, name) /\ (Kind(name) = "type" => Standing(s, name[2]) = {})

\* patch_fixture, place_fixtures, embed_fixture_type, edit_marks, store_group,
\* store_preset, store_sequence and store_executor.
MayBe(s, name, value) ==
    CASE Kind(name) = "fixture"  -> /\ There(s, Type(value.type))
                                    /\ Fits(value.at, s[Type(value.type)].size)
      [] Kind(name) = "place"    -> name[2] \in Patched(s)
      [] Kind(name) = "type"     -> /\ value.size > 0
                                    /\ \A f \in Standing(s, name[2]) :
                                         Fits(s[Fixture(f)].at, value.size)
      [] Kind(name) = "mark"     -> Cardinality(MarksSet(s) \cup {name[2]}) <= MaxMarks
      [] Kind(name) = "group"    -> value.members \subseteq Patched(s)
      [] Kind(name) = "preset"   -> DOMAIN value.values \subseteq Patched(s)
      [] Kind(name) = "list"     -> Playable(s, value.cues)
      [] Kind(name) = "executor" -> value.list # Absent => There(s, List(value.list))

Accepts(s, name, value) ==
    IF value = Absent THEN MayGo(s, name) ELSE MayBe(s, name, value)

Without(s, names) == Restrict(s, DOMAIN s \ names)

\* A change to the parts of every cue: what a part of fixture f becomes.
ChangedIn(cues, change) ==
    [n \in DOMAIN cues |->
        [cues[n] EXCEPT !.parts = [f \in DOMAIN @ |-> change[f][@[f]]]]]
MapParts(s, change) ==
    [name \in DOMAIN s |->
        IF Kind(name) # "list" THEN s[name]
        ELSE [s[name] EXCEPT !.cues = ChangedIn(@, change)]]

\* Show::relink: a cue's value follows the preset it is linked to.
Relink(s, p, values) ==
    MapParts(s, [f \in Fixtures |-> [part \in Parts |->
        IF part.link = p /\ f \in DOMAIN values
        THEN [part EXCEPT !.value = values[f]] ELSE part]])

Put(s, name, value) ==
    IF value = Absent THEN Without(s, {name})
    ELSE CASE Kind(name) = "place"  -> [s EXCEPT ![Fixture(name[2])].hang = value]
           [] Kind(name) = "preset" ->
                 With(Relink(s, name[2], value.values), name, value)
           [] OTHER -> With(s, name, value)

-----------------------------------------------------------------------------
(* What a copy or a move puts in the other place                           *)

\* Naming::pick: a copy leaves the name that is there, a move brings its own.
NameOf(carry, old, from) == IF ~ carry /\ old # Absent THEN old.name ELSE from.name

\* Whether a destination is merged into.
Into(old, mode) == old # Absent /\ mode = "merge"

\* Show::copy_sequence: the cues, and nothing of how the list was being played.
ListFrom(from, old, mode, carry) ==
    [name   |-> NameOf(carry, old, from),
     color  |-> IF ~ carry /\ old # Absent THEN old.color ELSE from.color,
     cues   |-> IF Into(old, mode) THEN from.cues ++ old.cues ELSE from.cues,
     master |-> Full, fade |-> Rest]

PresetFrom(from, old, mode, carry) ==
    [name   |-> NameOf(carry, old, from),
     color  |-> IF ~ carry /\ old # Absent /\ old.color # Absent
                THEN old.color ELSE from.color,
     values |-> IF Into(old, mode) THEN from.values ++ old.values ELSE from.values]

GroupFrom(from, old, mode, carry) ==
    [name    |-> NameOf(carry, old, from),
     members |-> IF Into(old, mode) THEN old.members \cup from.members
                                    ELSE from.members]

\* Show::transfer
Transferred(s, source, target, mode, carry) ==
    LET from == s[source]
        old  == Held(s, target)
    IN  CASE Kind(source) = "list"     -> ListFrom(from, old, mode, carry)
          [] Kind(source) = "preset"   -> PresetFrom(from, old, mode, carry)
          [] Kind(source) = "group"    -> GroupFrom(from, old, mode, carry)
          [] Kind(source) = "executor" -> from

\* Show::copy_cue: a merge brings the values and leaves the rest of the cue.
CueFrom(s, q, n, r, m, mode, carry) ==
    LET from == s[List(q)].cues[n]
        old  == IF HasCue(s, r, m) THEN s[List(r)].cues[m] ELSE Absent
    IN  IF Into(old, mode) THEN [old EXCEPT !.parts = from.parts ++ @]
        ELSE [from EXCEPT !.name = NameOf(carry, old, from)]

\* Show::repoint: the executors that played a list, the links to a preset.
Repoint(s, source, target) ==
    CASE Kind(source) = "list" ->
            [x \in { Executor(e) : e \in Players(s, source[2]) } |->
                [s[x] EXCEPT !.list = target[2]]] ++ s
      [] Kind(source) = "preset" ->
            MapParts(s, [f \in Fixtures |-> [part \in Parts |->
                IF part.link = source[2] THEN [part EXCEPT !.link = target[2]] ELSE part]])
      [] OTHER -> s

WithCue(s, q, n, cue)  == [s EXCEPT ![List(q)].cues = With(@, n, cue)]
WithoutCue(s, q, n)    == [s EXCEPT ![List(q)].cues = Restrict(@, DOMAIN @ \ {n})]

-----------------------------------------------------------------------------
(* What a store builds out of a programmer                                 *)

Nothing == [f \in {} |-> Absent]
EmptyProgrammer == [selection |-> {}, manual |-> {}, groups |-> {},
                    values |-> Nothing]

\* Programmer::touched and cue_parts: the values that still resolve, with the
\* links to presets that are still there.  A stored value tracks.
StoredParts(s) ==
    LET held == s[Programmer].values
    IN  [f \in DOMAIN held \cap Driven(s) |->
            [value |-> held[f].value, only |-> FALSE,
             link  |-> IF held[f].link # Absent /\ There(s, Preset(held[f].link))
                       THEN held[f].link ELSE Absent]]

\* blank_cue
BlankCue == [name |-> Usual, times |-> Usual, parts |-> Nothing]

\* Programmer::cue
StoredCue(s, q, n, mode) ==
    LET old == IF HasCue(s, q, n) THEN s[List(q)].cues[n] ELSE BlankCue
    IN  [old EXCEPT !.parts =
            CASE mode = "merge"    -> StoredParts(s) ++ @
              [] mode = "override" -> StoredParts(s)
              [] mode = "remove"   -> Restrict(@, DOMAIN @ \ DOMAIN StoredParts(s))]

\* Its refusals: nothing to store, or nothing to take out.
MayStoreCue(s, q, n, mode) ==
    /\ There(s, List(q))
    /\ IF mode = "remove"
       THEN HasCue(s, q, n) /\ DOMAIN s[List(q)].cues[n].parts
                                 \cap DOMAIN StoredParts(s) # {}
       ELSE DOMAIN StoredParts(s) # {}

\* append_number
NextCue(cues) == 1 + Max({0} \cup DOMAIN cues)

\* Programmer::sequence
StoredCues(s, cues, mode) ==
    LET new == [BlankCue EXCEPT !.parts = StoredParts(s)]
    IN  CASE mode = "append"   -> With(cues, NextCue(cues), new)
          [] mode = "override" -> [n \in {1} |-> new]
          [] mode = "merge"    -> [n \in DOMAIN cues |->
                [cues[n] EXCEPT !.parts = StoredParts(s) ++ @]]

\* CueTrack::inherited: for each fixture the cue does not name, what the last
\* cue before it handed on.
Inherited(cues, n) ==
    LET before(f) == { k \in DOMAIN cues : k < n /\ f \in DOMAIN cues[k].parts
                                             /\ ~ cues[k].parts[f].only }
    IN  [f \in { g \in Fixtures \ DOMAIN cues[n].parts : before(g) # {} } |->
            [value |-> cues[Max(before(f))].parts[f].value,
             link  |-> Absent, only |-> FALSE]]
=============================================================================
