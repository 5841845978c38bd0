---------------------------- MODULE MCShowJournal ---------------------------
(* Shows for the runs of ShowJournal: each is what a few commands leave and  *)
(* a file holds.  Type 1 has the attribute and takes one channel, type 2     *)
(* takes two and does not have it.                                           *)
EXTENDS ShowJournal

CONSTANT Other    \* a second setting

Dimmer == [size |-> 1, drives |-> TRUE]
Relay  == [size |-> 2, drives |-> FALSE]
Dead   == [size |-> 0, drives |-> TRUE]

Hanging(type, at)  == [type |-> type, at |-> at, hang |-> Usual]
Part(value, link)  == [value |-> value, link |-> link, only |-> FALSE]
Cue(parts)         == [BlankCue EXCEPT !.parts = parts]
Playing(cues)      == [name |-> Usual, color |-> Absent, cues |-> cues,
                       master |-> Full, fade |-> Rest]
Look(values)       == [name |-> Usual, color |-> Absent, values |-> values]
Keys(q)            == [list |-> q, keys |-> Usual]
Holding(fs)        == [name |-> Usual, members |-> fs]

\* A desk with two profiles and nothing patched.
Bare == Programmer :> EmptyProgrammer @@ CueEdit :> Absent @@ Selected :> Absent
          @@ Type(1) :> Dimmer @@ Type(2) :> Relay

\* Fixture 1 patched; both.
Rig  == Fixture(1) :> Hanging(1, 1) @@ Bare
Rigs == Fixture(2) :> Hanging(1, 2) @@ Rig

\* Fixture 1 in preset 1, in a cue of list 1 that follows it, on executor 1.
Follows(rig) == Preset(1) :> Look(1 :> 0) @@ List(1) :> Playing(1 :> Cue(1 :> Part(0, 1)))
                  @@ Executor(1) :> Keys(1) @@ rig
Linked == Follows(Rig)

\* And a list 2, on executor 2.
TwoLists == List(2) :> Playing(1 :> Cue(1 :> Part(1, Absent)))
              @@ Executor(2) :> Keys(2) @@ Linked

\* And a second preset.
TwoPresets == Preset(2) :> Look(1 :> 1) @@ TwoLists

\* Two groups that share a fixture.
Grouped == Group(1) :> Holding({1, 2}) @@ Group(2) :> Holding({2}) @@ Rigs

\* A list whose second cue leaves a fixture to what the first gave it.
Tracked == List(1) :> Playing(1 :> Cue(1 :> Part(1, Absent))
                              @@ 2 :> Cue(2 :> Part(1, Absent)))
             @@ Executor(1) :> Keys(1) @@ Rigs

\* And its first cue being edited, with a value for the second's fixture added.
Reworked ==
    [Tracked EXCEPT ![CueEdit] = [list |-> 1, cue |-> 1, modified |-> TRUE],
                    ![Programmer] = [EmptyProgrammer EXCEPT !.selection = {2},
                        !.manual = {2},
                        !.values = [f \in {1, 2} |-> [value |-> f - 1,
                                                      link |-> Absent]]]]

\* A mark, and a fixture in a group.
Marked == Mark(1) :> Usual @@ Group(1) :> Holding({1}) @@ Rig

\* A venue's plan: one fixture that wants number 1, one with no address, one of
\* the relay that has no room at its address, one of it that has.
Venue == [profiles |-> 1 :> Dimmer @@ 2 :> Relay,
          fixtures |-> << [number |-> 1, type |-> 1, at |-> 2, hang |-> Usual],
                          [number |-> 2, type |-> 1, at |-> Absent, hang |-> Usual],
                          [number |-> Absent, type |-> 2, at |-> 2, hang |-> Usual],
                          [number |-> Absent, type |-> 2, at |-> 1, hang |-> Other] >>]

NoReach == [fixtures |-> {}, types |-> {}, groups |-> {}, marks |-> {},
            presets |-> {}, lists |-> {}, cues |-> {}, executors |-> {},
            settings |-> {Usual}, colors |-> {Absent}, profiles |-> {}, rigs |-> {},
            modes |-> {}]

Journaling == {"oops", "redo"}

\* A few commands for a long walk up and down the journal; storing and deleting;
\* the commands that carry a change to what refers to it, without Redo (README,
\* section 6); the rig; the groups; the cues of a list.
AllRepertoires ==
  [walking |->
     [verbs |-> {"select", "set", "storeCue", "assign", "crossfade", "open"}
                  \cup Journaling,
      steps |-> 9, shows |-> {Linked},
      reach |-> [NoReach EXCEPT !.fixtures = {1}, !.lists = {1}, !.cues = {1},
                    !.executors = {1}, !.modes = {"set", "override"}]],
   storing |->
     [verbs |-> {"patch", "unpatch", "select", "set", "apply", "clear", "edit",
                 "storeCue", "update", "storeList", "storePreset", "assign",
                 "delete", "deleteCue", "master", "crossfade", "selectList",
                 "save", "open"} \cup Journaling,
      steps |-> 5, shows |-> {Rig, Linked},
      reach |-> [NoReach EXCEPT !.fixtures = {1}, !.types = {1}, !.presets = {1},
                    !.lists = {1}, !.cues = {1}, !.executors = {1},
                    !.modes = {"set", "override"}]],
   rearranging |->
     [verbs |-> {"edit", "storeCue", "update", "storeList", "assign", "deleteCue",
                 "clear", "master", "crossfade", "selectList", "copy", "move",
                 "moveExecutor", "label", "color", "oops"},
      steps |-> 3, shows |-> {TwoLists, TwoPresets},
      reach |-> [NoReach EXCEPT !.presets = {1, 2}, !.lists = {1, 2},
                    !.cues = {1}, !.executors = {1, 2},
                    !.settings = {Usual, Other}, !.colors = {Absent, Other},
                    !.modes = {"merge", "override"}]],
   rigging |->
     [verbs |-> {"patch", "unpatch", "renumber", "place", "mark", "embed",
                 "patchMany", "importRig"} \cup Journaling,
      steps |-> 3, shows |-> {Bare, Marked, Rigs},
      reach |-> [NoReach EXCEPT !.fixtures = {1, 2}, !.types = {1, 2},
                    !.marks = {1, 2}, !.settings = {Usual, Other},
                    !.profiles = {Relay, Dead}, !.rigs = {Venue}]],
   grouping |->
     [verbs |-> {"select", "selectGroup", "storeGroup", "copy", "move", "delete",
                 "label", "color", "clear"} \cup Journaling,
      steps |-> 4, shows |-> {Grouped},
      reach |-> [NoReach EXCEPT !.fixtures = {1, 2}, !.groups = {1, 2},
                    !.settings = {Usual, Other}, !.colors = {Absent, Other},
                    !.modes = {"set", "add", "toggle", "merge", "override"}]],
   cueing |->
     [verbs |-> {"edit", "set", "storeCue", "update", "deleteCue", "copyCue",
                 "moveCue", "setCue", "setTracking", "label", "color",
                 "storeList", "configure"} \cup Journaling,
      steps |-> 3, shows |-> {Tracked, Reworked},
      reach |-> [NoReach EXCEPT !.lists = {1, 2}, !.cues = {1, 2},
                    !.executors = {1}, !.settings = {Usual, Other},
                    !.colors = {Absent, Other},
                    !.modes = {"merge", "override", "remove", "append"}]]]

\* As a function, which TLC evaluates once.
MCRepertoires == [name \in DOMAIN AllRepertoires |-> AllRepertoires[name]]
=============================================================================
