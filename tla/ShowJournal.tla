----------------------------- MODULE ShowJournal ----------------------------
(***************************************************************************)
(* The commands that edit a show and the Oops journal that takes edits     *)
(* back, over the data of ShowModel:                                       *)
(*   crates/prism-core/src/journal.rs     UndoRecord, Journal              *)
(*   crates/prism-core/src/file.rs        image, record, undo, redo,       *)
(*                                        restore, import_rig, the finish_ *)
(*                                        half of a command,               *)
(*                                        follow_cue_edit                  *)
(*   crates/prism-core/src/command.rs, show.rs, objects.rs, programmer.rs  *)
(*                                                                         *)
(* An image is a pair <<name, value>> and restoring one is writing it      *)
(* back.  A command that names no list means the selected one and one that *)
(* names an executor may mean its list (Label, Color): by the time a scope *)
(* is read both have been resolved, and here they name what they reach.    *)
(* Oops is the command that reaches the journal: over a standing line the  *)
(* key is a backspace and never gets here.                                 *)
(***************************************************************************)
EXTENDS ShowModel

CONSTANTS Capacity,     \* Journal::CAPACITY
          Repertoires   \* bounds: by name, the commands an operator gives
                        \* (verbs), how many (steps), what they may name
                        \* (reach), and the shows to start with

\* What a venue's rig file plans: a profile for a type, and fixtures that want a
\* number and an address or leave them open.
RigFiles == [profiles : Partial(Types, Profiles),
             fixtures : Seq([number : {Absent} \cup Nat, type : Nat,
                             at : {Absent} \cup Addresses, hang : Settings])]

ASSUME JournalAssumption ==
    /\ Capacity \in Nat \ {0}
    /\ \A name \in DOMAIN Repertoires :
         /\ Repertoires[name].steps \in Nat
         /\ \A s \in Repertoires[name].shows : IsState(s)
         /\ Repertoires[name].reach \in
              [fixtures : SUBSET Fixtures, types : SUBSET Types, groups : SUBSET Groups,
               marks : SUBSET Marks, presets : SUBSET Presets, lists : SUBSET Lists,
               cues : SUBSET CueNumbers, executors : SUBSET Executors,
               settings : SUBSET Settings, colors : SUBSET Colors,
               profiles : SUBSET Profiles, rigs : SUBSET RigFiles, modes : SUBSET STRING]

VARIABLES
    state,      \* name -> what the show, the programmer and the session hold
    done,       \* Journal::done
    undone,     \* Journal::undone
    refused,    \* whether the last command was answered with an error
    saved,      \* what the show file holds
    given,      \* the repertoire commands are given from
    steps       \* how many have been given

vars == <<state, done, undone, refused, saved, given, steps>>

-----------------------------------------------------------------------------
(* The journal                                                             *)

\* What a record covers: names, and by the reference of another name what
\* refers to it and the list that is being edited.
RefersTo(name) == <<"referrers", name>>
Edited         == <<"edited", 0>>

InAscending(kind, ids) ==
    [i \in 1 .. Cardinality(ids) |->
        <<kind, CHOOSE id \in ids : Cardinality({ k \in ids : k < id }) = i - 1>>]

\* Mutant of Referrers: the cues that follow a preset are forgotten.
ReferrersOfLists(name, s) ==
    IF Kind(name) = "list" THEN InAscending("executor", Players(s, name[2])) ELSE << >>

\* ShowFile::referrer_images
Referrers(name, s) ==
    CASE Kind(name) = "preset" -> InAscending("list", Users(s, name[2]))
      [] Kind(name) = "list"   -> InAscending("executor", Players(s, name[2]))
      [] OTHER                 -> << >>

Covered(name, s) ==
    CASE Kind(name) = "referrers" -> Referrers(name[2], s)
      [] Kind(name) = "edited"    -> <<List(s[CueEdit].list)>>
      [] OTHER                    -> <<name>>

\* ShowFile::image
ImagesOf(names, s) ==
    LET covered == FlattenSeq([i \in DOMAIN names |-> Covered(names[i], s)])
    IN  [i \in DOMAIN covered |-> <<covered[i], Held(s, covered[i])>>]

\* Mutant of Push: the branch that was left can still be walked.
PushAndKeep(record) ==
    /\ undone' = undone
    /\ done' = Append(IF Len(done) = Capacity THEN Tail(done) ELSE done, record)

\* Mutant of Push: the ring is one longer than it says.
PushOneMore(record) ==
    /\ undone' = << >>
    /\ done' = Append(IF Len(done) > Capacity THEN Tail(done) ELSE done, record)

\* Journal::push
Push(record) ==
    /\ undone' = << >>
    /\ done' = Append(IF Len(done) = Capacity THEN Tail(done) ELSE done, record)

\* What an operator may take back: everything but where the faders stand and
\* which list is selected, which no edit moves by itself.
Undoable(s) ==
    [n \in DOMAIN s \ {Selected} |->
        IF Kind(n) = "list" THEN [s[n] EXCEPT !.master = Full, !.fade = Rest]
                            ELSE s[n]]

\* Bound: a command of the repertoire is given.
Given(verb) ==
    /\ verb \in Repertoires[given].verbs
    /\ steps < Repertoires[given].steps /\ steps' = steps + 1
    /\ UNCHANGED given

\* ShowFile::apply_one of a command that is not refused: it is imaged, carried
\* out, imaged again, and filed if the images differ.  `was` and `is` are not
\* in the code: the whole state before and after, for the properties.
Do(verb, names, next) ==
    /\ Given(verb)
    /\ state' = next /\ refused' = FALSE
    /\ UNCHANGED saved
    /\ LET record == [before |-> ImagesOf(names, state),
                      after  |-> ImagesOf(names, next),
                      was    |-> Undoable(state), is |-> Undoable(next)]
       IN  IF record.before # record.after THEN Push(record)
                                           ELSE UNCHANGED <<done, undone>>

\* One that is not undoable: no image, no record.
Operate(verb, next) ==
    /\ Given(verb)
    /\ state' = next /\ refused' = FALSE
    /\ UNCHANGED <<done, undone, saved>>

\* One that is refused when part of it is already written.
Fail(verb, half) ==
    /\ Given(verb)
    /\ state' = half /\ refused' = TRUE
    /\ UNCHANGED <<done, undone, saved>>

\* Mutant of PutBack: the crossfade goes back with the list.
PutBackWhole(s, image) == Put(s, image[1], image[2])

\* One image written back.  Where a hand left the crossfade is not taken back.
PutBack(s, image) ==
    LET name == image[1]
        value == image[2]
    IN  Put(s, name,
            IF Kind(name) = "list" /\ value # Absent /\ There(s, name)
            THEN [value EXCEPT !.fade = s[name].fade] ELSE value)

\* Fixtures out, then the rest as imaged, then fixtures in, then the desk.
Turn(image) ==
    CASE image[1] \in DeskNames                              -> "desk"
      [] Kind(image[1]) = "fixture" /\ image[2] = Absent     -> "out"
      [] Kind(image[1]) = "fixture" /\ image[2] # Absent     -> "in"
      [] OTHER                                               -> "rest"

\* One image, unless one before it was refused.  The desk refuses none.
Written(r, image) ==
    IF ~ r.ok THEN r
    ELSE IF image[1] \in DeskNames
         THEN [r EXCEPT !.state = [@ EXCEPT ![image[1]] = image[2]]]
         ELSE IF Accepts(r.state, image[1], image[2])
              THEN [r EXCEPT !.state = PutBack(@, image)]
              ELSE [r EXCEPT !.ok = FALSE]

\* The images whose turn it is, each in its place.
Pass(r, images, turn) ==
    LET after[i \in 0 .. Len(images)] ==
            IF i = 0 THEN r
            ELSE IF Turn(images[i]) = turn THEN Written(after[i - 1], images[i])
                                           ELSE after[i - 1]
    IN  after[Len(images)]

\* The fallible half.  What is written before a refusal stays written.
RestoreShow(r, images) ==
    Pass(Pass(Pass(r, images, "out"), images, "rest"), images, "in")

RestoreDesk(r, images) == Pass(r, images, "desk")

\* Mutant of Restore: the half that cannot fail goes first.
RestoreDeskFirst(s, images) ==
    RestoreShow(RestoreDesk([ok |-> TRUE, state |-> s], images), images)

\* Mutant of Restore: the programmer is not taken back.
RestoreNoDesk(s, images) == RestoreShow([ok |-> TRUE, state |-> s], images)

\* ShowFile::restore
Restore(s, images) ==
    RestoreDesk(RestoreShow([ok |-> TRUE, state |-> s], images), images)

\* ShowFile::undo: a step that is refused goes back where it was.
Oops ==
    /\ Given("oops")
    /\ done # << >> /\ UNCHANGED saved
    /\ LET answer == Restore(state, Last(done).before)
       IN  /\ state' = answer.state /\ refused' = ~ answer.ok
           /\ IF answer.ok
              THEN done' = Front(done) /\ undone' = Append(undone, Last(done))
              ELSE UNCHANGED <<done, undone>>

\* ShowFile::redo
Redo ==
    /\ Given("redo")
    /\ undone # << >> /\ UNCHANGED saved
    /\ LET answer == Restore(state, Last(undone).after)
       IN  /\ state' = answer.state /\ refused' = ~ answer.ok
           /\ IF answer.ok
              THEN undone' = Front(undone) /\ done' = Append(done, Last(undone))
              ELSE UNCHANGED <<done, undone>>

\* ShowStore::save: the show and the session, as they stand.
Save ==
    /\ Given("save")
    /\ saved' = state /\ refused' = FALSE
    /\ UNCHANGED <<state, done, undone>>

\* ShowStore::load: the show and the session of the file, no programmer and no
\* journal.
Open ==
    /\ Given("open")
    /\ state' = [saved EXCEPT ![Programmer] = EmptyProgrammer]
    /\ done' = << >> /\ undone' = << >> /\ refused' = FALSE
    /\ UNCHANGED saved

-----------------------------------------------------------------------------
(* The rig                                                                 *)

\* Show::apply_patch_fixture: a repatch leaves the fixture hanging where it is.
PatchedAs(s, f, type, at) ==
    Put(s, Fixture(f),
        [type |-> type, at |-> at,
         hang |-> IF f \in Patched(s) THEN s[Fixture(f)].hang ELSE Usual])

PatchFixture(f, type, at) ==
    LET next == PatchedAs(state, f, type, at)
    IN  /\ Accepts(state, Fixture(f), next[Fixture(f)])
        /\ Do("patch", <<Fixture(f)>>, next)

\* Nothing cascades: groups, presets and cues keep naming it.
UnpatchFixture(f) ==
    /\ f \in Patched(state)
    /\ Do("unpatch", <<Fixture(f)>>, Put(state, Fixture(f), Absent))

\* Nor do they follow it to another number.
RenumberFixture(f, g) ==
    /\ f \in Patched(state) /\ (f = g \/ g \notin Patched(state))
    /\ Do("renumber", <<Fixture(f), Fixture(g)>>,
          Put(Without(state, {Fixture(f)}), Fixture(g), state[Fixture(f)]))

\* places: fixture -> where it is to hang.
PlaceFixtures(places) ==
    /\ DOMAIN places \subseteq Patched(state)
    /\ Do("place", InAscending("place", DOMAIN places),
          [n \in DOMAIN state |->
              IF Kind(n) = "fixture" /\ n[2] \in DOMAIN places
              THEN [state[n] EXCEPT !.hang = places[n[2]]] ELSE state[n]])

\* set: mark -> what it becomes.  Removals first.
EditMarks(set, remove) ==
    LET kept == Without(state, { Mark(m) : m \in remove })
    IN  /\ Cardinality(MarksSet(kept) \cup DOMAIN set) <= MaxMarks
        /\ Do("mark", InAscending("mark", DOMAIN set \cup remove),
              [n \in { Mark(m) : m \in DOMAIN set } |-> set[n[2]]] ++ kept)

\* ShowFile::finish_embed: the library's copy of a profile.
EmbedFixtureType(t, profile) ==
    /\ Accepts(state, Type(t), profile)
    /\ Do("embed", <<Type(t)>>, Put(state, Type(t), profile))

\* ShowFile::finish_patch_fixtures: fixture -> address, and the library's copy
\* of the profile, which is embedded with them, or Absent.
PatchFixtures(t, addresses, copy) ==
    LET profile  == IF copy # Absent THEN copy ELSE Held(state, Type(t))
        embedded == IF copy # Absent THEN Put(state, Type(t), copy) ELSE state
    IN  /\ profile # Absent /\ DOMAIN addresses # {}
        /\ DOMAIN addresses \cap Patched(state) = {}
        /\ \A f \in DOMAIN addresses : Fits(addresses[f], profile.size)
        /\ copy # Absent => Accepts(state, Type(t), copy)
        /\ Do("patchMany",
              Append(InAscending("fixture", DOMAIN addresses), Type(t)),
              [n \in { Fixture(f) : f \in DOMAIN addresses } |->
                  [type |-> t, at |-> addresses[n[2]], hang |-> Usual]] ++ embedded)

\* The number a planned fixture is patched under: the plan's where it is free.
NumberFor(entry, taken) ==
    IF entry.number # Absent /\ entry.number \notin taken
    THEN entry.number ELSE Min((1 .. 1 + Cardinality(taken)) \ taken)

\* The plan of a venue's rig, as fixture -> what is patched.  What has no
\* profile, no address or no room is left out.
PlanOf(rig, s) ==
    LET HasRoom(entry) ==
            /\ entry.type \in DOMAIN rig.profiles /\ entry.at # Absent
            /\ Fits(entry.at, rig.profiles[entry.type].size)
        plan[i \in 0 .. Len(rig.fixtures)] ==
            IF i = 0 THEN Nothing
            ELSE IF ~ HasRoom(rig.fixtures[i]) THEN plan[i - 1]
            ELSE LET entry == rig.fixtures[i]
                 IN  With(plan[i - 1],
                          NumberFor(entry, Patched(s) \cup DOMAIN plan[i - 1]),
                          [type |-> entry.type, at |-> entry.at, hang |-> entry.hang])
    IN  plan[Len(rig.fixtures)]

\* ShowFile::import_rig: the profiles one by one, then the fixtures.  A profile
\* that is refused leaves those before it embedded.
ImportRig(rig) ==
    LET plan    == PlanOf(rig, state)
        wanted  == { plan[f].type : f \in DOMAIN plan }
        bad     == { t \in wanted : ~ Accepts(state, Type(t), rig.profiles[t]) }
        Embedded(ts) == [n \in { Type(t) : t \in ts } |-> rig.profiles[n[2]]] ++ state
    IN  /\ DOMAIN plan # {}
        /\ DOMAIN plan \subseteq Fixtures     \* bound
        /\ IF bad = {}
           THEN Do("importRig",
                   InAscending("fixture", DOMAIN plan) \o InAscending("type", wanted),
                   [n \in { Fixture(f) : f \in DOMAIN plan } |-> plan[n[2]]]
                       ++ Embedded(wanted))
           ELSE Fail("importRig", Embedded({ t \in wanted : t < Min(bad) }))

-----------------------------------------------------------------------------
(* The programmer, and the update state that follows it                    *)

DeskImages == <<Programmer, CueEdit>>
Desk       == state[Programmer]
Editing    == state[CueEdit]

\* `touched`: the edit has moved since the cue was loaded.
Touched == IF Editing = Absent THEN Absent ELSE [Editing EXCEPT !.modified = TRUE]

\* A programmer command, with what it leaves in the programmer.
Program(verb, next) ==
    Do(verb, DeskImages,
       [state EXCEPT ![Programmer] = next, ![CueEdit] = Touched])

\* ProgrammerState::clear_selection
Deselected == [Desk EXCEPT !.selection = {}, !.manual = {}, !.groups = {}]

\* What is picked by hand stays when a group that also holds it is switched off.
SelectFixtures(chosen, mode) ==
    LET base == IF mode = "set" THEN Deselected ELSE Desk
        out  == IF mode = "toggle" THEN chosen \cap base.selection ELSE {}
    IN  /\ chosen \subseteq Patched(state)
        /\ Program("select",
              [base EXCEPT !.selection = (@ \cup chosen) \ out,
                           !.manual    = (@ \cup chosen) \ out])

\* A group is a switch: off takes back what neither a hand nor another group
\* that is on still holds.
SelectGroup(g, mode) ==
    LET members == state[Group(g)].members
        base    == IF mode = "set" THEN Deselected ELSE Desk
        others  == base.groups \ {g}
        held    == base.manual \cup UNION { state[Group(o)].members :
                        o \in { h \in others : There(state, Group(h)) } }
    IN  /\ There(state, Group(g)) /\ members \subseteq Patched(state)
        /\ Program("selectGroup",
              IF mode = "toggle" /\ g \in base.groups
              THEN [base EXCEPT !.groups = others,
                                !.selection = @ \ (members \ held)]
              ELSE [base EXCEPT !.groups = @ \cup {g},
                                !.selection = @ \cup members])

\* The selected fixtures a value can be set on.
InHand == Desk.selection \cap Driven(state)

SetAttribute(value) ==
    Program("set", [Desk EXCEPT !.values =
        [f \in InHand |-> [value |-> value, link |-> Absent]] ++ @])

\* `nudge`: a relative move saturates.
Nudge(base, delta) == CHOOSE v \in Values :
    \/ v = base + delta
    \/ base + delta < 0 /\ v = 0
    \/ base + delta > MaxValue /\ v = MaxValue

NudgeAttribute(delta) ==
    Program("set", [Desk EXCEPT !.values =
        [f \in InHand |->
            [value |-> Nudge(IF f \in DOMAIN Desk.values THEN Desk.values[f].value
                                                          ELSE Default, delta),
             link |-> Absent]] ++ @])

ApplyPreset(p) ==
    /\ There(state, Preset(p))
    /\ LET held == state[Preset(p)].values
       IN  Program("apply", [Desk EXCEPT !.values =
             [f \in DOMAIN held \cap InHand |-> [value |-> held[f], link |-> p]] ++ @])

\* The selection first, then the values; the update state goes with the values.
ClearProgrammer ==
    LET next == IF Desk.selection # {} THEN Deselected
                                       ELSE [Desk EXCEPT !.values = Nothing]
    IN  Do("clear", DeskImages,
           [state EXCEPT ![Programmer] = next,
                         ![CueEdit] = IF DOMAIN next.values = {} THEN Absent ELSE @])

\* Programmer::load_cue leaves out what no longer resolves.
EditCue(q, n) ==
    /\ HasCue(state, q, n)
    /\ LET parts  == state[List(q)].cues[n].parts
           loaded == [f \in DOMAIN parts \cap Driven(state) |->
                        [value |-> parts[f].value, link |-> parts[f].link]]
       IN  Do("edit", <<List(q)>> \o DeskImages,
              [state EXCEPT ![Programmer] = [EmptyProgrammer EXCEPT
                                  !.selection = DOMAIN loaded, !.values = loaded],
                            ![CueEdit] = [list |-> q, cue |-> n, modified |-> FALSE]])

-----------------------------------------------------------------------------
(* Storing                                                                 *)

StoreCue(q, n, mode) ==
    LET cue == StoredCue(state, q, n, mode)
    IN  /\ MayStoreCue(state, q, n, mode) /\ PlayableCue(state, cue)
        /\ Do("storeCue", <<List(q)>> \o DeskImages,
              [WithCue(state, q, n, cue) EXCEPT ![CueEdit] =
                  IF mode = "override" /\ Editing # Absent
                     /\ Editing.list = q /\ Editing.cue = n
                  THEN [Editing EXCEPT !.modified = FALSE] ELSE Touched])

\* A StoreCue in Override mode into the cue being edited.
Update ==
    /\ Editing # Absent
    /\ MayStoreCue(state, Editing.list, Editing.cue, "override")
    /\ Do("update", <<Edited>> \o DeskImages,
          [WithCue(state, Editing.list, Editing.cue,
                   StoredCue(state, Editing.list, Editing.cue, "override"))
              EXCEPT ![CueEdit].modified = FALSE])

\* A new list may be empty, and is put in force.
StoreSequence(q, mode) ==
    LET new   == ~ There(state, List(q))
        base  == IF new THEN [name |-> Usual, color |-> Absent, cues |-> Nothing,
                              master |-> Full, fade |-> Rest]
                        ELSE state[List(q)]
        empty == DOMAIN StoredParts(state) = {}
        cues  == IF empty THEN base.cues ELSE StoredCues(state, base.cues, mode)
    IN  /\ empty => new
        /\ mode = "merge" /\ ~ empty => DOMAIN base.cues # {}
        /\ DOMAIN cues \subseteq CueNumbers     \* bound
        /\ Playable(state, cues)
        /\ Do("storeList", <<List(q), Selected>> \o DeskImages,
              With([state EXCEPT ![Selected] = IF new THEN q ELSE @,
                                 ![CueEdit] = Touched],
                   List(q), [base EXCEPT !.cues = cues]))

\* Programmer::group: the selection, not the values.
StoreGroup(g, name, mode) ==
    LET old  == Held(state, Group(g))
        next == [name    |-> IF old # Absent THEN old.name ELSE name,
                 members |-> IF Into(old, mode) THEN old.members \cup Desk.selection
                                                ELSE Desk.selection]
    IN  /\ Desk.selection # {} /\ Accepts(state, Group(g), next)
        /\ Do("storeGroup", <<Group(g)>> \o DeskImages,
              [Put(state, Group(g), next) EXCEPT ![CueEdit] = Touched])

\* Programmer::preset, then Show::store_preset, which relinks the cues.  The
\* lists it reaches are imaged with it, after it.
StorePreset(p, name, color, mode) ==
    LET old    == Held(state, Preset(p))
        held   == IF old = Absent THEN Nothing ELSE old.values
        fresh  == [f \in DOMAIN StoredParts(state) |-> StoredParts(state)[f].value]
        values == CASE mode = "merge"    -> fresh ++ held
                    [] mode = "override" -> fresh
                    [] mode = "remove"   -> Restrict(held, DOMAIN held \ DOMAIN fresh)
        next   == [name   |-> name, values |-> values,
                   color  |-> IF color = Absent /\ old # Absent THEN old.color
                                                                ELSE color]
    IN  /\ old # Absent \/ (mode # "remove" /\ DOMAIN fresh # {})
        /\ mode = "remove" => values # held
        /\ Accepts(state, Preset(p), next)
        /\ Do("storePreset", <<Preset(p), RefersTo(Preset(p))>> \o DeskImages,
              [Put(state, Preset(p), next) EXCEPT ![CueEdit] = Touched])

AssignExecutor(x, q) ==
    LET old == Held(state, Executor(x))
    IN  /\ q # Absent => There(state, List(q))
        /\ q = Absent => old # Absent
        /\ Do("assign", <<Executor(x)>>,
              Put(state, Executor(x),
                  [list |-> q, keys |-> IF old = Absent THEN Usual ELSE old.keys]))

ConfigureExecutor(x, keys) ==
    /\ There(state, Executor(x))
    /\ Do("configure", <<Executor(x)>>, [state EXCEPT ![Executor(x)].keys = keys])

-----------------------------------------------------------------------------
(* Delete, Copy, Move, Label and Color                                     *)

\* A list that a cue names by its preset, and an executor by its list, keep
\* naming what is gone.
Delete(name) ==
    /\ There(state, name)
    /\ Do(IF Kind(name) = "preset" THEN "deletePreset" ELSE "delete",
          <<name, CueEdit>>, Put(state, name, Absent))

IsEdited(q, n) == Editing # Absent /\ Editing.list = q /\ Editing.cue = n

DeleteCue(q, n) ==
    /\ HasCue(state, q, n)
    /\ Do("deleteCue", <<List(q), CueEdit>>,
          [WithoutCue(state, q, n) EXCEPT ![CueEdit] =
              IF IsEdited(q, n) THEN Absent ELSE @])

\* Show::check_pair, and what the write into the other place refuses.
MayTransfer(source, target, mode, carry) ==
    /\ Kind(source) = Kind(target) /\ source # target /\ There(state, source)
    /\ Accepts(state, target, Transferred(state, source, target, mode, carry))

\* "overwrite" tells a copy onto a preset from the others, for the bounds.
Copy(source, target, mode) ==
    /\ MayTransfer(source, target, mode, FALSE)
    /\ Do(IF Kind(target) = "preset" /\ There(state, target) THEN "overwrite"
                                                             ELSE "copy",
          <<source, target, RefersTo(source), CueEdit>>,
          Put(state, target, Transferred(state, source, target, mode, FALSE)))

\* What referred to the source refers to the target.
Move(source, target, mode) ==
    /\ Kind(source) # "executor" /\ MayTransfer(source, target, mode, TRUE)
    /\ Do("move", <<source, target, RefersTo(source), CueEdit>>,
          Without(Repoint(Put(state, target,
                              Transferred(state, source, target, mode, TRUE)),
                          source, target), {source}))

CopyCue(q, n, r, m, mode) ==
    /\ <<q, n>> # <<r, m>> /\ HasCue(state, q, n) /\ There(state, List(r))
    /\ LET cue == CueFrom(state, q, n, r, m, mode, FALSE)
       IN  /\ PlayableCue(state, cue)
           /\ Do("copyCue", <<List(q), List(r), CueEdit>>, WithCue(state, r, m, cue))

\* The edit of a cue goes with it.
MoveCue(q, n, r, m, mode) ==
    /\ <<q, n>> # <<r, m>> /\ HasCue(state, q, n) /\ There(state, List(r))
    /\ LET cue == CueFrom(state, q, n, r, m, mode, TRUE)
       IN  /\ PlayableCue(state, cue)
           /\ Do("moveCue", <<List(q), List(r), CueEdit>>,
                 [WithoutCue(WithCue(state, r, m, cue), q, n) EXCEPT ![CueEdit] =
                     IF IsEdited(q, n) THEN [@ EXCEPT !.list = r, !.cue = m] ELSE @])

\* Show::swap_executors writes the target, then the source.  If what the target
\* held is not accepted, the first write stands and the move is refused.
MoveExecutor(x, y) ==
    LET from == Held(state, Executor(x))
        held == Held(state, Executor(y))
        half == Put(state, Executor(y), from)
    IN  /\ x # y /\ from # Absent /\ Accepts(state, Executor(y), from)
        /\ IF Accepts(half, Executor(x), held)
           THEN Do("moveExecutor", <<Executor(x), Executor(y), CueEdit>>,
                   Put(half, Executor(x), held))
           ELSE Fail("moveExecutor", half)

\* An executor's label is its list's.  No cue is relinked.
Label(name, label) ==
    /\ There(state, name) /\ Kind(name) # "executor"
    /\ Do("label", <<name, CueEdit>>, [state EXCEPT ![name].name = label])

LabelCue(q, n, label) ==
    /\ HasCue(state, q, n)
    /\ Do("label", <<List(q), CueEdit>>, [state EXCEPT ![List(q)].cues[n].name = label])

Color(name, color) ==
    /\ There(state, name) /\ Kind(name) \in {"list", "preset"}
    /\ Do("color", <<name>>, [state EXCEPT ![name].color = color])

SetCueProperty(q, n, times) ==
    /\ HasCue(state, q, n)
    /\ Do("setCue", <<List(q), CueEdit>>,
          [state EXCEPT ![List(q)].cues[n].times = times])

\* A blocking cue is given what it inherits.
SetCueTracking(q, n, mode) ==
    /\ HasCue(state, q, n)
    /\ Do("setTracking", <<List(q), CueEdit>>,
          [state EXCEPT ![List(q)].cues[n].parts =
              [f \in DOMAIN @ |-> [@[f] EXCEPT !.only = (mode = "cueOnly")]]
                ++ IF mode = "block" THEN Inherited(state[List(q)].cues, n)
                                     ELSE Nothing])

-----------------------------------------------------------------------------
(* Operating the desk: no image, no record                                 *)

SetMaster(q, level) ==
    /\ There(state, List(q))
    /\ Operate("master", [state EXCEPT ![List(q)].master = level])

SetCrossfade(q, level) ==
    /\ There(state, List(q))
    /\ Operate("crossfade", [state EXCEPT ![List(q)].fade = level])

SelectSequence(q) == Operate("selectList", [state EXCEPT ![Selected] = q])

\* Bound: no command is given any more.
Quiet == steps = Repertoires[given].steps /\ UNCHANGED vars

-----------------------------------------------------------------------------
Init ==
    /\ given \in DOMAIN Repertoires
    /\ state \in Repertoires[given].shows /\ saved = state
    /\ done = << >> /\ undone = << >>
    /\ refused = FALSE /\ steps = 0

\* Bounds: what a command of the repertoire may name, while one is given.
Reach ==
    LET reach == Repertoires[given].reach
    IN  IF steps < Repertoires[given].steps THEN reach
                                            ELSE [what \in DOMAIN reach |-> {}]
Modes(all) == { mode \in all : mode \in Reach.modes }

Patching ==
    \/ \E f \in Reach.fixtures :
          \/ UnpatchFixture(f)
          \/ \E t \in Reach.types, at \in Addresses : PatchFixture(f, t, at)
          \/ \E g \in Reach.fixtures : RenumberFixture(f, g)
    \/ \E fs \in SUBSET Reach.fixtures \ {{}} :
          \/ \E places \in [fs -> Reach.settings] : PlaceFixtures(places)
          \/ \E t \in Reach.types, at \in [fs -> Addresses],
                copy \in Reach.profiles \cup {Absent} : PatchFixtures(t, at, copy)
    \/ \E in, out \in SUBSET Reach.marks : \E set \in [in -> Reach.settings] :
          in \cup out # {} /\ EditMarks(set, out)
    \/ \E t \in Reach.types, profile \in Reach.profiles : EmbedFixtureType(t, profile)
    \/ \E rig \in Reach.rigs : ImportRig(rig)

Programming ==
    \/ \E mode \in Modes({"set", "add", "toggle"}) :
          \/ \E chosen \in SUBSET Reach.fixtures : SelectFixtures(chosen, mode)
          \/ \E g \in Reach.groups : SelectGroup(g, mode)
    \/ \E value \in Values : SetAttribute(value)
    \/ \E delta \in {-1, 1} : NudgeAttribute(delta)
    \/ \E p \in Reach.presets : ApplyPreset(p)
    \/ \E q \in Reach.lists, n \in Reach.cues : EditCue(q, n)
    \/ ClearProgrammer

Storing ==
    \/ \E mode \in Modes({"merge", "override", "remove"}) :
          \/ \E q \in Reach.lists, n \in Reach.cues : StoreCue(q, n, mode)
          \/ \E p \in Reach.presets, name \in Reach.settings,
                color \in Reach.colors : StorePreset(p, name, color, mode)
    \/ \E mode \in Modes({"append", "override", "merge"}), q \in Reach.lists :
          StoreSequence(q, mode)
    \/ \E mode \in Modes({"merge", "override"}), g \in Reach.groups,
          name \in Reach.settings : StoreGroup(g, name, mode)
    \/ Update
    \/ \E x \in Reach.executors :
          \/ \E q \in Reach.lists \cup {Absent} : AssignExecutor(x, q)
          \/ \E keys \in Reach.settings : ConfigureExecutor(x, keys)

\* The objects in reach.
InReach == { Group(g) : g \in Reach.groups } \cup { Preset(p) : p \in Reach.presets }
           \cup { List(q) : q \in Reach.lists }
           \cup { Executor(x) : x \in Reach.executors }

Rearranging ==
    \/ \E name \in InReach : Delete(name)
    \/ \E source, target \in InReach, mode \in Modes({"merge", "override"}) :
          Copy(source, target, mode) \/ Move(source, target, mode)
    \/ \E x, y \in Reach.executors : MoveExecutor(x, y)
    \/ \E name \in InReach, setting \in Reach.settings : Label(name, setting)
    \/ \E name \in InReach, color \in Reach.colors : Color(name, color)

Cueing ==
    \E q \in Reach.lists, n \in Reach.cues :
        \/ DeleteCue(q, n)
        \/ \E r \in Reach.lists, m \in Reach.cues,
              mode \in Modes({"merge", "override"}) :
              CopyCue(q, n, r, m, mode) \/ MoveCue(q, n, r, m, mode)
        \/ \E setting \in Reach.settings :
              LabelCue(q, n, setting) \/ SetCueProperty(q, n, setting)
        \/ \E mode \in {"track", "cueOnly", "block"} : SetCueTracking(q, n, mode)

Operating == \E q \in Reach.lists :
    SelectSequence(q) \/ \E level \in Levels : SetMaster(q, level) \/ SetCrossfade(q, level)

Next == Patching \/ Programming \/ Storing \/ Rearranging \/ Cueing \/ Operating
          \/ Oops \/ Redo \/ Save \/ Open \/ Quiet

Spec == Init /\ [][Next]_vars

-----------------------------------------------------------------------------
\* An image names something that is there or may be, and holds a value of its kind.
IsImage(im) == im[2] = Absent \/ IsValue(im[1], im[2])
IsRecord(r) == /\ \A i \in DOMAIN r.before : IsImage(r.before[i])
               /\ \A i \in DOMAIN r.after : IsImage(r.after[i])

\* Every piece of state and every image holds a value of its own kind: what an
\* undo writes back is something the show could have held (Image).
TypeOK ==
    /\ IsState(state) /\ IsState(saved)
    /\ \A i \in DOMAIN done : IsRecord(done[i])
    /\ \A i \in DOMAIN undone : IsRecord(undone[i])
    /\ refused \in BOOLEAN /\ steps \in 0 .. Repertoires[given].steps

\* The two stacks are one line of history with the desk standing on it: what
\* one step left is what the next one found, the last step done left what is
\* there now, and the next step to redo found it.  So every Oops takes exactly
\* one command back and every Redo puts exactly one back, however many of each
\* went before and whatever the ring has dropped (Journal, ShowFile::restore).
HistoryIsALine ==
    LET line == done \o Reverse(undone)
        here == Undoable(state)
    IN  /\ \A i \in 1 .. Len(line) - 1 : line[i].is = line[i + 1].was
        /\ done # << >> => Last(done).is = here
        /\ undone # << >> => Last(undone).was = here

\* Every image is of its own kind and the journal is bounded, both stacks
\* together: "Bounded by `done`, which is the only thing that fills it"
\* (Journal::undone).
JournalFits == TypeOK /\ Len(done) + Len(undone) <= Capacity

BothHaveList(q) == There(state, List(q)) /\ There(state', List(q))

\* Neither Oops nor Redo moves a crossfade fader under the operator's hand:
\* "Where a hand left the crossfade is not taken back" (restore, B59).
CrossfadeStays ==
    [][Oops \/ Redo => \A q \in Lists : BothHaveList(q)
         => state'[List(q)].fade = state[List(q)].fade]_vars

\* The record holds what the command found under this name: the value, or of a
\* fixture that is only hung elsewhere its place.
Imaged(record, name) ==
    \E i \in DOMAIN record.before :
        LET image == record.before[i]
        IN  \/ image = <<name, Held(state, name)>>
            \/ /\ Kind(name) = "fixture" /\ There(state, name) /\ There(state', name)
               /\ image = <<Place(name[2]), state[name].hang>>
               /\ state'[name] = [state[name] EXCEPT !.hang = state'[name].hang]

\* A copy or a move onto a preset, whose cues it relinks without an image of them
\* (README, section 6).
OntoPreset ==
    \E source, target \in InReach, mode \in Modes({"merge", "override"}) :
        Kind(target) = "preset" /\ (Copy(source, target, mode) \/ Move(source, target, mode))

\* What a step changes and the last record done does not hold as it was.
Unimaged == { name \in DOMAIN state \cup DOMAIN state' :
                 /\ Held(state', name) # Held(state, name)
                 /\ done' # << >> => ~ Imaged(Last(done'), name) }

\* What an edit changes, also in passing - the cues a preset carries with it, the
\* executors that follow a list - its record holds as it was, so that an Oops has
\* something to take back (ShowFile::image, referrer_images).
EditsAreImaged ==
    [][Unimaged # {} => \/ Operating \/ Oops \/ Redo \/ Open
                        \/ refused' \/ OntoPreset]_vars

\* A restored image stands again: as it was taken, but for the crossfade of a list
\* that is there.
StandsAgain(image) ==
    Held(state', image[1]) =
        IF Kind(image[1]) = "list" /\ image[2] # Absent /\ There(state, image[1])
        THEN [image[2] EXCEPT !.fade = state[image[1]].fade] ELSE image[2]

\* An Oops or a Redo that is not refused brings back every image of its record,
\* whatever the images before and after it carry with them when they are
\* written (ShowFile::restore).
ImagesStandAgain ==
    [][/\ Oops /\ ~ refused' => \A i \in DOMAIN Last(done).before :
                                   StandsAgain(Last(done).before[i])
       /\ Redo /\ ~ refused' => \A i \in DOMAIN Last(undone).after :
                                   StandsAgain(Last(undone).after[i])]_vars

\* What an edit does can be taken back.
EditsComeBack == EditsAreImaged /\ ImagesStandAgain /\ CrossfadeStays

\* A command that is refused changes nothing at all: "No half is changed after
\* an error, and nothing is journaled" (ShowFile::apply), "a refusal must leave
\* every model byte-identical rather than half walked back" (restore).
RefusalChangesNothing ==
    [][refused' => UNCHANGED <<state, done, undone>>]_vars

\* An Oops right after the step that files this record, and a Redo right after that
\* Oops where one may be given: what they bring back is all that was there.
Cancels(record) ==
    LET back  == Restore(state', record.before)
        again == Restore(state, record.after)
    IN  /\ back.ok => Undoable(back.state) = Undoable(state)
        /\ "redo" \in Repertoires[given].verbs /\ again.ok
             => Undoable(again.state) = Undoable(state')

\* A step that is not filed changes nothing that could be taken back, and one that
\* is filed is taken back as a whole by an Oops right after it.
EditsCancel ==
    [][~ (Oops \/ Redo \/ Open \/ refused') =>
         IF done' = done THEN Undoable(state') = Undoable(state)
                         ELSE Cancels(Last(done'))]_vars

\* Every operation is done as a whole or not at all, and a filed one can be taken
\* back as a whole: apply returns the `before' and `after' that undo and redo hand
\* to restore, and an error leaves the show as it was (ShowFile::apply, undo, redo).
StepsAreWhole == RefusalChangesNothing /\ EditsCancel
=============================================================================
