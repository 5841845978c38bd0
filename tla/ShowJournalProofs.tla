-------------------------- MODULE ShowJournalProofs -------------------------
EXTENDS ShowJournal, FiniteSetTheorems, WellFoundedInduction, TLAPS

LEMMA Least ==
    ASSUME NEW T, T \subseteq Nat, T # {}
    PROVE  \E n \in T : \A m \in T : n <= m
<1> DEFINE R == {p \in Nat \X Nat : p[1] < p[2]}
<1>1. IsWellFoundedOn(R, Nat)
  BY NatLessThanWellFounded DEF OpToRel
<1> HIDE DEF R
<1>2. PICK n \in T : \A m \in T : ~ (<<m, n>> \in R)
  BY <1>1, WFMin
<1>3. ASSUME NEW m \in T PROVE n <= m
  <2>1. m \in Nat /\ n \in Nat
    OBVIOUS
  <2>2. SUFFICES ASSUME m < n PROVE <<m, n>> \in R
    BY <1>2, <2>1
  <2>3. <<m, n>> \in Nat \X Nat
    BY <2>1
  <2>4. <<m, n>>[1] < <<m, n>>[2]
    BY <2>1, <2>2
  <2> QED BY <2>3, <2>4 DEF R
<1> QED BY <1>3

\* Induction up to n, of a set.
LEMMA Climb ==
    ASSUME NEW n \in Nat, NEW T, 0 \in T, \A i \in 1 .. n : i - 1 \in T => i \in T
    PROVE  \A i \in 0 .. n : i \in T
<1> DEFINE Out == {i \in 0 .. n : i \notin T}
<1> SUFFICES ASSUME Out # {} PROVE FALSE
  OBVIOUS
<1>1. PICK i \in Out : \A m \in Out : i <= m
  <2>1. Out \subseteq Nat
    OBVIOUS
  <2> QED BY <2>1, Least
<1>2. i \in 1 .. n /\ i - 1 \in 0 .. n
  BY <1>1
<1>3. i - 1 \in T
  BY <1>1, <1>2
<1> QED BY <1>1, <1>2, <1>3

\* A function that is defined by recursion on a number is what it says it is:
\* g begins with base, and F takes it from one number to the next.
Recurs(g, n, S, base, F) ==
    /\ g \in [0 .. n -> S]
    /\ g[0] = base
    /\ \A i \in 1 .. n : g[i] = F[i][g[i - 1]]

LEMMA Recursion ==
    ASSUME NEW n \in Nat, NEW S, NEW base \in S, NEW F \in [1 .. n -> [S -> S]]
    PROVE  \E g : Recurs(g, n, S, base, F)
<1> DEFINE T == {m \in 0 .. n : \E g : Recurs(g, m, S, base, F)}
<1>1. 0 \in T
  <2> DEFINE g == [i \in 0 .. 0 |-> base]
  <2>1. Recurs(g, 0, S, base, F)
    BY DEF Recurs
  <2> HIDE DEF g
  <2> QED BY <2>1
<1>2. ASSUME NEW m \in 1 .. n, m - 1 \in T PROVE m \in T
  <2>1. m - 1 \in 0 .. n /\ m \in 0 .. n /\ m - 1 >= 0
    OBVIOUS
  <2>2. PICK g : Recurs(g, m - 1, S, base, F)
    BY <1>2
  <2> DEFINE h == [i \in 0 .. m |-> IF i = m THEN F[m][g[m - 1]] ELSE g[i]]
  <2>3. g \in [0 .. m - 1 -> S] /\ F[m][g[m - 1]] \in S
    BY <2>1, <2>2 DEF Recurs
  <2>4. h \in [0 .. m -> S] /\ h[0] = base
    BY <2>1, <2>2, <2>3 DEF Recurs
  <2>5. ASSUME NEW i \in 1 .. m PROVE h[i] = F[i][h[i - 1]]
    <3>1. i - 1 \in 0 .. m - 1 /\ h[i - 1] = g[i - 1]
      BY <2>1
    <3>2. CASE i = m
      BY <2>1, <3>1, <3>2
    <3>3. CASE i # m
      <4>1. i \in 1 .. m - 1 /\ h[i] = g[i]
        BY <2>1, <3>3
      <4> QED BY <2>2, <3>1, <4>1 DEF Recurs
    <3> QED BY <3>2, <3>3
  <2> HIDE DEF h
  <2>6. Recurs(h, m, S, base, F)
    BY <2>4, <2>5 DEF Recurs
  <2> QED BY <2>1, <2>6
<1> HIDE DEF T
<1>3. \A i \in 0 .. n : i \in T
  BY <1>1, <1>2, Climb
<1>4. n \in T
  BY <1>3
<1> QED BY <1>4 DEF T


-----------------------------------------------------------------------------
(* Names                                                                   *)

ShowKinds == {"fixture", "type", "group", "mark", "preset", "list", "executor"}
DeskKinds == {"programmer", "cueEdit", "selected"}

\* A name says of what kind it is and which.
LEMMA Kinds ==
    /\ \A f : Kind(Fixture(f)) = "fixture" /\ Fixture(f)[2] = f
    /\ \A f : Kind(Place(f)) = "place" /\ Place(f)[2] = f
    /\ \A t : Kind(Type(t)) = "type" /\ Type(t)[2] = t
    /\ \A g : Kind(Group(g)) = "group" /\ Group(g)[2] = g
    /\ \A m : Kind(Mark(m)) = "mark" /\ Mark(m)[2] = m
    /\ \A p : Kind(Preset(p)) = "preset" /\ Preset(p)[2] = p
    /\ \A q : Kind(List(q)) = "list" /\ List(q)[2] = q
    /\ \A x : Kind(Executor(x)) = "executor" /\ Executor(x)[2] = x
    /\ Kind(Programmer) = "programmer" /\ Kind(CueEdit) = "cueEdit"
    /\ Kind(Selected) = "selected"
BY DEF Kind, Fixture, Place, Type, Group, Mark, Preset, List, Executor, Programmer,
       CueEdit, Selected

LEMMA Named ==
    /\ \A f \in Fixtures : Fixture(f) \in ShowNames
    /\ \A t \in Types : Type(t) \in ShowNames
    /\ \A g \in Groups : Group(g) \in ShowNames
    /\ \A m \in Marks : Mark(m) \in ShowNames
    /\ \A p \in Presets : Preset(p) \in ShowNames
    /\ \A q \in Lists : List(q) \in ShowNames
    /\ \A x \in Executors : Executor(x) \in ShowNames
    /\ Programmer \in DeskNames /\ CueEdit \in DeskNames /\ Selected \in DeskNames
    /\ ShowNames \subseteq Names /\ DeskNames \subseteq Names
BY DEF Names, ShowNames, DeskNames, Objects

\* What a name of each kind names.
LEMMA Naming ==
    ASSUME NEW n \in Names
    PROVE  /\ Kind(n) = "fixture" => n[2] \in Fixtures /\ n = Fixture(n[2])
           /\ Kind(n) = "type" => n[2] \in Types /\ n = Type(n[2])
           /\ Kind(n) = "group" => n[2] \in Groups /\ n = Group(n[2])
           /\ Kind(n) = "mark" => n[2] \in Marks /\ n = Mark(n[2])
           /\ Kind(n) = "preset" => n[2] \in Presets /\ n = Preset(n[2])
           /\ Kind(n) = "list" => n[2] \in Lists /\ n = List(n[2])
           /\ Kind(n) = "executor" => n[2] \in Executors /\ n = Executor(n[2])
           /\ Kind(n) = "programmer" => n = Programmer
           /\ Kind(n) = "cueEdit" => n = CueEdit
           /\ Kind(n) = "selected" => n = Selected
           /\ Kind(n) \in ShowKinds \cup DeskKinds
           /\ n \in ShowNames <=> Kind(n) \in ShowKinds
           /\ n \in DeskNames <=> Kind(n) \in DeskKinds
<1>1. CASE n \in DeskNames
  <2>1. n = Programmer \/ n = CueEdit \/ n = Selected
    BY <1>1 DEF DeskNames
  <2>2. Kind(n) \in DeskKinds /\ Kind(n) \notin ShowKinds
    BY <2>1, Kinds DEF DeskKinds, ShowKinds
  <2>3. n \notin ShowNames
    <3>1. \A m \in ShowNames : Kind(m) \in ShowKinds
      BY Kinds DEF ShowNames, Objects, ShowKinds
    <3> QED BY <2>2, <3>1
  <2> QED BY <1>1, <2>1, <2>2, <2>3, Kinds DEF ShowKinds
<1>2. CASE n \notin DeskNames
  <2>1. n \in ShowNames
    BY <1>2 DEF Names
  <2>2. \/ \E f \in Fixtures : n = Fixture(f)
        \/ \E t \in Types : n = Type(t)
        \/ \E m \in Marks : n = Mark(m)
        \/ \E g \in Groups : n = Group(g)
        \/ \E p \in Presets : n = Preset(p)
        \/ \E q \in Lists : n = List(q)
        \/ \E x \in Executors : n = Executor(x)
    BY <2>1 DEF ShowNames, Objects
  <2>3. Kind(n) \in ShowKinds /\ Kind(n) \notin DeskKinds
    BY <2>2, Kinds DEF ShowKinds, DeskKinds
  <2> QED BY <1>2, <2>1, <2>2, <2>3, Kinds DEF DeskKinds
<1> QED BY <1>1, <1>2

-----------------------------------------------------------------------------
(* Values                                                                  *)

IsCues(cues) == /\ IsMap(cues) /\ DOMAIN cues \subseteq CueNumbers
                /\ \A n \in DOMAIN cues : IsCue(cues[n])

\* What a value of each kind is.
LEMMA ValueOf ==
    ASSUME NEW v
    PROVE  /\ \A f : IsValue(Fixture(f), v) <=>
                       v \in [type : Types, at : Addresses, hang : Settings]
           /\ \A f : IsValue(Place(f), v) <=> v \in Settings
           /\ \A t : IsValue(Type(t), v) <=> v \in Profiles
           /\ \A g : IsValue(Group(g), v) <=> v \in [name : Settings, members : SUBSET Fixtures]
           /\ \A m : IsValue(Mark(m), v) <=> v \in Settings
           /\ \A p : IsValue(Preset(p), v) <=>
                       /\ v \in [name : Settings, color : Colors, values : {v.values}]
                       /\ IsPartial(v.values, Fixtures, Values)
           /\ \A q : IsValue(List(q), v) <=> IsList(v)
           /\ \A x : IsValue(Executor(x), v) <=> v \in [list : {Absent} \cup Lists, keys : Settings]
           /\ IsValue(Programmer, v) <=>
                /\ v \in [selection : SUBSET Fixtures, manual : SUBSET Fixtures,
                          groups : SUBSET Groups, values : {v.values}]
                /\ IsPartial(v.values, Fixtures, Touches)
           /\ IsValue(CueEdit, v) <=> v \in {Absent} \cup CueEdits
           /\ IsValue(Selected, v) <=> v \in {Absent} \cup Lists
BY Kinds DEF IsValue

LEMMA PartialWith ==
    ASSUME NEW f, NEW D, NEW R, IsPartial(f, D, R), NEW k \in D, NEW v \in R
    PROVE  IsPartial(With(f, k, v), D, R)
BY DEF IsPartial, With

LEMMA PartialOver ==
    ASSUME NEW f, NEW g, NEW D, NEW R, IsPartial(f, D, R), IsPartial(g, D, R)
    PROVE  IsPartial(f ++ g, D, R)
BY DEF IsPartial, ++

LEMMA PartialLess ==
    ASSUME NEW f, NEW D, NEW R, IsPartial(f, D, R), NEW S, S \subseteq DOMAIN f
    PROVE  IsPartial(Restrict(f, S), D, R)
BY DEF IsPartial, Restrict

LEMMA NothingIsPartial ==
    ASSUME NEW D, NEW R
    PROVE  IsPartial(Nothing, D, R) /\ DOMAIN Nothing = {}
BY DEF IsPartial, Nothing

LEMMA CueFields ==
    ASSUME NEW c, IsCue(c)
    PROVE  /\ c.name \in Settings /\ c.times \in Settings /\ IsPartial(c.parts, Fixtures, Parts)
           /\ c = [name |-> c.name, times |-> c.times, parts |-> c.parts]
BY DEF IsCue

LEMMA CueIs ==
    ASSUME NEW name \in Settings, NEW times \in Settings, NEW parts,
           IsPartial(parts, Fixtures, Parts)
    PROVE  IsCue([name |-> name, times |-> times, parts |-> parts])
BY DEF IsCue

LEMMA CueParts ==
    ASSUME NEW c, IsCue(c), NEW parts, IsPartial(parts, Fixtures, Parts)
    PROVE  IsCue([c EXCEPT !.parts = parts]) /\ [c EXCEPT !.parts = parts].parts = parts
<1> DEFINE d == [c EXCEPT !.parts = parts]
<1>1. c = [name |-> c.name, times |-> c.times, parts |-> c.parts] /\ c.name \in Settings
      /\ c.times \in Settings
  BY CueFields
<1>2. d = [name |-> c.name, times |-> c.times, parts |-> parts]
  BY <1>1
<1> HIDE DEF d
<1>3. IsCue(d)
  BY <1>1, <1>2, CueIs
<1> QED BY <1>2, <1>3 DEF d

LEMMA CueNameTimes ==
    ASSUME NEW c, IsCue(c), NEW x \in Settings
    PROVE  IsCue([c EXCEPT !.name = x]) /\ IsCue([c EXCEPT !.times = x])
<1>1. /\ c = [name |-> c.name, times |-> c.times, parts |-> c.parts] /\ c.name \in Settings
      /\ c.times \in Settings /\ IsPartial(c.parts, Fixtures, Parts)
  BY CueFields
<1>2. [c EXCEPT !.name = x] = [name |-> x, times |-> c.times, parts |-> c.parts]
  BY <1>1
<1>3. [c EXCEPT !.times = x] = [name |-> c.name, times |-> x, parts |-> c.parts]
  BY <1>1
<1>4. IsCue([name |-> x, times |-> c.times, parts |-> c.parts])
      /\ IsCue([name |-> c.name, times |-> x, parts |-> c.parts])
  BY <1>1, CueIs
<1> QED BY <1>2, <1>3, <1>4

LEMMA ListFields ==
    ASSUME NEW l, IsList(l)
    PROVE  /\ l.name \in Settings /\ l.color \in Colors /\ l.master \in Levels
           /\ l.fade \in Levels /\ IsCues(l.cues)
           /\ l = [name |-> l.name, color |-> l.color, master |-> l.master,
                   fade |-> l.fade, cues |-> l.cues]
BY DEF IsList, IsCues

LEMMA ListIs ==
    ASSUME NEW name \in Settings, NEW color \in Colors, NEW master \in Levels,
           NEW fade \in Levels, NEW cues, IsCues(cues)
    PROVE  IsList([name |-> name, color |-> color, master |-> master, fade |-> fade,
                   cues |-> cues])
BY DEF IsList, IsCues

\* A list with one field changed.
LEMMA ListChanged ==
    ASSUME NEW l, IsList(l)
    PROVE  /\ \A c : IsCues(c) => IsList([l EXCEPT !.cues = c])
           /\ \A v \in Settings : IsList([l EXCEPT !.name = v])
           /\ \A v \in Colors : IsList([l EXCEPT !.color = v])
           /\ \A v \in Levels : IsList([l EXCEPT !.master = v])
           /\ \A v \in Levels : IsList([l EXCEPT !.fade = v])
<1>1. /\ l.name \in Settings /\ l.color \in Colors /\ l.master \in Levels
      /\ l.fade \in Levels /\ IsCues(l.cues)
      /\ l = [name |-> l.name, color |-> l.color, master |-> l.master,
              fade |-> l.fade, cues |-> l.cues]
  BY ListFields
<1>2. ASSUME NEW c, IsCues(c) PROVE IsList([l EXCEPT !.cues = c])
  <2>1. [l EXCEPT !.cues = c] = [name |-> l.name, color |-> l.color, master |-> l.master,
                                 fade |-> l.fade, cues |-> c]
    BY <1>1
  <2>2. IsList([name |-> l.name, color |-> l.color, master |-> l.master,
                fade |-> l.fade, cues |-> c])
    BY <1>1, <1>2, ListIs
  <2> QED BY <2>1, <2>2
<1>3. ASSUME NEW v \in Settings PROVE IsList([l EXCEPT !.name = v])
  <2>1. [l EXCEPT !.name = v] = [name |-> v, color |-> l.color, master |-> l.master,
                                 fade |-> l.fade, cues |-> l.cues]
    BY <1>1
  <2>2. IsList([name |-> v, color |-> l.color, master |-> l.master,
                fade |-> l.fade, cues |-> l.cues])
    BY <1>1, <1>3, ListIs
  <2> QED BY <2>1, <2>2
<1>4. ASSUME NEW v \in Colors PROVE IsList([l EXCEPT !.color = v])
  <2>1. [l EXCEPT !.color = v] = [name |-> l.name, color |-> v, master |-> l.master,
                                 fade |-> l.fade, cues |-> l.cues]
    BY <1>1
  <2>2. IsList([name |-> l.name, color |-> v, master |-> l.master,
                fade |-> l.fade, cues |-> l.cues])
    BY <1>1, <1>4, ListIs
  <2> QED BY <2>1, <2>2
<1>5. ASSUME NEW v \in Levels PROVE IsList([l EXCEPT !.master = v])
  <2>1. [l EXCEPT !.master = v] = [name |-> l.name, color |-> l.color, master |-> v,
                                 fade |-> l.fade, cues |-> l.cues]
    BY <1>1
  <2>2. IsList([name |-> l.name, color |-> l.color, master |-> v,
                fade |-> l.fade, cues |-> l.cues])
    BY <1>1, <1>5, ListIs
  <2> QED BY <2>1, <2>2
<1>6. ASSUME NEW v \in Levels PROVE IsList([l EXCEPT !.fade = v])
  <2>1. [l EXCEPT !.fade = v] = [name |-> l.name, color |-> l.color, master |-> l.master,
                                 fade |-> v, cues |-> l.cues]
    BY <1>1
  <2>2. IsList([name |-> l.name, color |-> l.color, master |-> l.master,
                fade |-> v, cues |-> l.cues])
    BY <1>1, <1>6, ListIs
  <2> QED BY <2>1, <2>2
<1> QED BY <1>2, <1>3, <1>4, <1>5, <1>6

LEMMA PresetFields ==
    ASSUME NEW v, NEW p, IsValue(Preset(p), v)
    PROVE  /\ v.name \in Settings /\ v.color \in Colors /\ IsPartial(v.values, Fixtures, Values)
           /\ v = [name |-> v.name, color |-> v.color, values |-> v.values]
BY ValueOf

LEMMA PresetIs ==
    ASSUME NEW name \in Settings, NEW color \in Colors, NEW values,
           IsPartial(values, Fixtures, Values), NEW p
    PROVE  IsValue(Preset(p), [name |-> name, color |-> color, values |-> values])
<1> DEFINE v == [name |-> name, color |-> color, values |-> values]
<1>1. v \in [name : Settings, color : Colors, values : {v.values}] /\ v.values = values
  OBVIOUS
<1> HIDE DEF v
<1> QED BY <1>1, ValueOf DEF v

LEMMA DeskFields ==
    ASSUME NEW v, IsValue(Programmer, v)
    PROVE  /\ v.selection \in SUBSET Fixtures /\ v.manual \in SUBSET Fixtures
           /\ v.groups \in SUBSET Groups /\ IsPartial(v.values, Fixtures, Touches)
           /\ v = [selection |-> v.selection, manual |-> v.manual, groups |-> v.groups,
                   values |-> v.values]
BY ValueOf

LEMMA DeskMade ==
    ASSUME NEW selection \in SUBSET Fixtures, NEW manual \in SUBSET Fixtures,
           NEW groups \in SUBSET Groups, NEW values, IsPartial(values, Fixtures, Touches)
    PROVE  IsValue(Programmer, [selection |-> selection, manual |-> manual,
                                groups |-> groups, values |-> values])
<1> DEFINE v == [selection |-> selection, manual |-> manual, groups |-> groups,
                 values |-> values]
<1>1. /\ v \in [selection : SUBSET Fixtures, manual : SUBSET Fixtures,
                groups : SUBSET Groups, values : {v.values}]
      /\ v.values = values
  OBVIOUS
<1> HIDE DEF v
<1> QED BY <1>1, ValueOf DEF v

-----------------------------------------------------------------------------
(* States                                                                  *)

LEMMA StateWith ==
    ASSUME NEW s, IsState(s), NEW n \in Names, NEW v, IsValue(n, v)
    PROVE  IsState(With(s, n, v))
BY DEF IsState, With, IsMap

LEMMA StateSet ==
    ASSUME NEW s, IsState(s), NEW n, NEW v, IsValue(n, v)
    PROVE  IsState([s EXCEPT ![n] = v])
BY DEF IsState, IsMap

LEMMA StateOver ==
    ASSUME NEW s, IsState(s), NEW t, DOMAIN t \subseteq Names,
           \A n \in DOMAIN t : IsValue(n, t[n])
    PROVE  IsState(t ++ s)
BY DEF IsState, ++, IsMap

LEMMA StateWithout ==
    ASSUME NEW s, IsState(s), NEW names, \A n \in DeskNames : n \notin names
    PROVE  IsState(Without(s, names))
BY DEF IsState, IsMap, Without, Restrict

LEMMA InState ==
    ASSUME NEW s, IsState(s)
    PROVE  /\ \A n \in DOMAIN s : n \in Names /\ IsValue(n, s[n])
           /\ {Programmer, CueEdit, Selected} \subseteq DOMAIN s
           /\ IsValue(Programmer, s[Programmer]) /\ IsValue(CueEdit, s[CueEdit])
           /\ IsValue(Selected, s[Selected])
BY DEF IsState, DeskNames

LEMMA ListsAll ==
    ASSUME NEW l, IsList(l)
    PROVE  l \in AllLists
<1>1. /\ l.name \in Settings /\ l.color \in Colors /\ l.master \in Levels
      /\ l.fade \in Levels /\ IsCues(l.cues)
      /\ l = [name |-> l.name, color |-> l.color, master |-> l.master,
              fade |-> l.fade, cues |-> l.cues]
  BY ListFields
<1>2. ASSUME NEW c, IsCue(c) PROVE c \in AllCues
  <2>1. /\ c.name \in Settings /\ c.times \in Settings /\ IsPartial(c.parts, Fixtures, Parts)
        /\ c = [name |-> c.name, times |-> c.times, parts |-> c.parts]
    BY <1>2, CueFields
  <2>2. c.parts \in Partial(Fixtures, Parts)
    BY <2>1 DEF IsPartial, Partial
  <2> QED BY <2>1, <2>2 DEF AllCues
<1>3. l.cues \in Partial(CueNumbers, AllCues)
  <2>1. l.cues \in [DOMAIN l.cues -> AllCues]
    BY <1>1, <1>2 DEF IsCues, IsMap
  <2>2. DOMAIN l.cues \in SUBSET CueNumbers
    BY <1>1 DEF IsCues
  <2> QED BY <2>1, <2>2 DEF Partial
<1> QED BY <1>1, <1>3 DEF AllLists

LEMMA ListIsThere ==
    ASSUME NEW l, IsList(l)
    PROVE  l # Absent
BY ListsAll, AbsentAssumption

-----------------------------------------------------------------------------
(* The writes                                                              *)

\* A change to the parts of the cues leaves the rest of a state alone.
LEMMA PartsChange ==
    ASSUME NEW s, IsState(s), NEW change, change \in [Fixtures -> [Parts -> Parts]]
    PROVE  LET t == MapParts(s, change) IN
           /\ IsState(t) /\ DOMAIN t = DOMAIN s
           /\ \A n \in DOMAIN s : Kind(n) # "list" => t[n] = s[n]
           /\ \A n \in DOMAIN s : Kind(n) = "list" =>
                t[n].fade = s[n].fade
           /\ \A n \in DOMAIN s :
                /\ Kind(n) = "list"
                /\ \A k \in DOMAIN s[n].cues : \A f \in DOMAIN s[n].cues[k].parts :
                     change[f][s[n].cues[k].parts[f]] = s[n].cues[k].parts[f]
                => t[n] = s[n]
<1> DEFINE t == MapParts(s, change)
           Parted(parts) == [f \in DOMAIN parts |-> change[f][parts[f]]]
           Cued(cues) == ChangedIn(cues, change)
<1>1. DOMAIN t = DOMAIN s /\ IsMap(t)
  BY DEF MapParts, IsMap
<1>2. \A n \in DOMAIN s : Kind(n) # "list" => t[n] = s[n]
  BY DEF MapParts
<1>3. ASSUME NEW parts, IsPartial(parts, Fixtures, Parts)
      PROVE  IsPartial(Parted(parts), Fixtures, Parts)
  BY <1>3 DEF IsPartial
<1>0. ASSUME NEW cues
      PROVE  Cued(cues) = [n \in DOMAIN cues |->
                             [cues[n] EXCEPT !.parts = Parted(cues[n].parts)]]
  BY DEF ChangedIn
<1>4. ASSUME NEW cues, IsCues(cues) PROVE IsCues(Cued(cues))
  <2>1. ASSUME NEW n \in DOMAIN cues
        PROVE  IsCue([cues[n] EXCEPT !.parts = Parted(cues[n].parts)])
    <3>1. IsCue(cues[n])
      BY <1>4 DEF IsCues
    <3>2. IsPartial(cues[n].parts, Fixtures, Parts)
      BY <3>1, CueFields
    <3>3. IsPartial(Parted(cues[n].parts), Fixtures, Parts)
      BY <1>3, <3>2
    <3> HIDE DEF Parted
    <3> QED BY <3>1, <3>3, CueParts
  <2>2. Cued(cues) = [n \in DOMAIN cues |->
                        [cues[n] EXCEPT !.parts = Parted(cues[n].parts)]]
    BY <1>0
  <2> HIDE DEF Parted, Cued
  <2> QED BY <1>4, <2>1, <2>2 DEF IsCues, IsMap
<1>5. ASSUME NEW n \in DOMAIN s, Kind(n) = "list"
      PROVE  /\ IsList(s[n]) /\ t[n] = [s[n] EXCEPT !.cues = Cued(s[n].cues)]
             /\ IsList(t[n]) /\ IsValue(n, t[n]) /\ t[n].fade = s[n].fade
  <2>1. n = List(n[2]) /\ IsValue(n, s[n])
    BY <1>5, Naming, InState
  <2>2. IsList(s[n])
    BY <2>1, ValueOf
  <2>3. t[n] = [s[n] EXCEPT !.cues = Cued(s[n].cues)]
    BY <1>5 DEF MapParts
  <2>4. IsCues(Cued(s[n].cues))
    BY <1>4, <2>2, ListFields
  <2> HIDE DEF Cued, t
  <2>5. IsList(t[n])
    BY <2>2, <2>3, <2>4, ListChanged
  <2>6. t[n].fade = s[n].fade
    BY <2>2, <2>3, ListFields
  <2>7. IsValue(n, t[n])
    BY <2>1, <2>5, ValueOf
  <2> QED BY <2>2, <2>3, <2>5, <2>6, <2>7
<1>6. ASSUME NEW n \in DOMAIN s, Kind(n) = "list",
             \A k \in DOMAIN s[n].cues : \A f \in DOMAIN s[n].cues[k].parts :
                 change[f][s[n].cues[k].parts[f]] = s[n].cues[k].parts[f]
      PROVE  t[n] = s[n]
  <2>1. IsList(s[n]) /\ t[n] = [s[n] EXCEPT !.cues = Cued(s[n].cues)]
    BY <1>5, <1>6
  <2> DEFINE cues == s[n].cues
  <2>2. IsCues(cues) /\ s[n] = [name |-> s[n].name, color |-> s[n].color,
             master |-> s[n].master, fade |-> s[n].fade, cues |-> cues]
    BY <2>1, ListFields
  <2>3. ASSUME NEW k \in DOMAIN cues
        PROVE  [cues[k] EXCEPT !.parts = Parted(cues[k].parts)] = cues[k]
    <3>1. IsCue(cues[k])
      BY <2>2 DEF IsCues
    <3>2. IsPartial(cues[k].parts, Fixtures, Parts)
          /\ cues[k] = [name |-> cues[k].name, times |-> cues[k].times,
                        parts |-> cues[k].parts]
      BY <3>1, CueFields
    <3>3. Parted(cues[k].parts) = cues[k].parts
      BY <1>6, <3>2 DEF IsPartial
    <3> HIDE DEF cues, Parted
    <3> QED BY <3>2, <3>3
  <2>4. Cued(cues) = cues
    <3>1. Cued(cues) = [k \in DOMAIN cues |->
                          [cues[k] EXCEPT !.parts = Parted(cues[k].parts)]]
      BY <1>0
    <3> HIDE DEF cues, Parted, Cued
    <3> QED BY <2>2, <2>3, <3>1 DEF IsCues, IsMap
  <2> HIDE DEF Cued, cues
  <2>5. [s[n] EXCEPT !.cues = cues] = s[n]
    BY <2>2
  <2> QED BY <2>1, <2>4, <2>5 DEF cues
<1>7. IsState(t)
  <2>1. \A n \in DOMAIN t : IsValue(n, t[n])
    BY <1>1, <1>2, <1>5, InState
  <2> QED BY <1>1, <2>1 DEF IsState
<1> HIDE DEF t
<1> QED BY <1>1, <1>2, <1>5, <1>6, <1>7 DEF t

LEMMA PartWith ==
    ASSUME NEW part \in Parts
    PROVE  /\ \A v \in Values : [part EXCEPT !.value = v] \in Parts
           /\ \A q \in Presets : [part EXCEPT !.link = q] \in Parts
           /\ \A b \in BOOLEAN : [part EXCEPT !.only = b] \in Parts
BY DEF Parts

\* store_preset relinks the cues that follow the preset and nothing else.
LEMMA Relinks ==
    ASSUME NEW s, IsState(s), NEW p, NEW values, IsPartial(values, Fixtures, Values)
    PROVE  LET t == Relink(s, p, values) IN
           /\ IsState(t) /\ DOMAIN t = DOMAIN s
           /\ \A n \in DOMAIN s : Kind(n) # "list" => t[n] = s[n]
           /\ \A n \in DOMAIN s : Kind(n) = "list" => t[n].fade = s[n].fade
           /\ \A n \in DOMAIN s : Kind(n) = "list" /\ ~ Links(s[n].cues, p) => t[n] = s[n]
<1> DEFINE change == [f \in Fixtures |-> [part \in Parts |->
                IF part.link = p /\ f \in DOMAIN values
                THEN [part EXCEPT !.value = values[f]] ELSE part]]
           t == MapParts(s, change)
<1>1. Relink(s, p, values) = t
  BY DEF Relink
<1>2. change \in [Fixtures -> [Parts -> Parts]]
  BY PartWith DEF IsPartial
<1>3. \A f \in Fixtures : \A part \in Parts : part.link # p => change[f][part] = part
  OBVIOUS
<1>4. ASSUME NEW n \in DOMAIN s, Kind(n) = "list", ~ Links(s[n].cues, p),
             NEW k \in DOMAIN s[n].cues, NEW f \in DOMAIN s[n].cues[k].parts
      PROVE  change[f][s[n].cues[k].parts[f]] = s[n].cues[k].parts[f]
  <2>1. s[n].cues[k].parts[f].link # p
    BY <1>4 DEF Links
  <2>2. IsList(s[n])
    BY <1>4, Naming, InState, ValueOf
  <2>3. IsCue(s[n].cues[k])
    BY <2>2, ListFields DEF IsCues
  <2>4. f \in Fixtures /\ s[n].cues[k].parts[f] \in Parts
    BY <2>3, CueFields DEF IsPartial
  <2> HIDE DEF change
  <2> QED BY <1>3, <2>1, <2>4
<1> HIDE DEF change
<1> QED BY <1>1, <1>2, <1>4, PartsChange

\* What names a write may be given, and with what.
Writable(s, n, v) ==
    \/ n \in ShowNames /\ (v = Absent \/ IsValue(n, v))
    \/ \E f \in Patched(s) : n = Place(f) /\ v \in Settings

LEMMA Patching_ ==
    ASSUME NEW s, IsState(s)
    PROVE  \A f \in Fixtures : f \in Patched(s) <=> Fixture(f) \in DOMAIN s
BY DEF Patched, There

LEMMA FixtureHangs ==
    ASSUME NEW s, IsState(s), NEW f \in Patched(s), NEW v \in Settings
    PROVE  /\ s[Fixture(f)] \in [type : Types, at : Addresses, hang : Settings]
           /\ IsValue(Fixture(f), [s[Fixture(f)] EXCEPT !.hang = v])
<1>1. Fixture(f) \in DOMAIN s /\ IsValue(Fixture(f), s[Fixture(f)])
  BY InState DEF Patched, There
<1>2. s[Fixture(f)] \in [type : Types, at : Addresses, hang : Settings]
  BY <1>1, ValueOf
<1>3. [s[Fixture(f)] EXCEPT !.hang = v] \in [type : Types, at : Addresses, hang : Settings]
  BY <1>2
<1> QED BY <1>2, <1>3, ValueOf

\* A write writes the name it is given, and beside it only the cues that follow a
\* preset; and never a crossfade.
KeepsOthers(s, n, t) ==
    \A m \in Names \ {n} :
         /\ m \in DOMAIN t <=> m \in DOMAIN s
         /\ m \in DOMAIN s /\ Kind(m) = "list" => t[m].fade = s[m].fade
         /\ /\ m \in DOMAIN s
            /\ Kind(n) = "preset" /\ Kind(m) = "list" => ~ Links(s[m].cues, n[2])
            => t[m] = s[m]

PutDoes(s, n, v, t) ==
    /\ IsState(t)
    /\ n \in Names => /\ n \in DOMAIN t <=> v # Absent
                      /\ v # Absent => t[n] = v
                      /\ KeepsOthers(s, n, t)
    /\ Kind(n) = "place" =>
         /\ DOMAIN t = DOMAIN s /\ t[Fixture(n[2])] = [s[Fixture(n[2])] EXCEPT !.hang = v]
         /\ t[Fixture(n[2])].hang = v /\ Fixture(n[2]) \in DOMAIN s
         /\ \A m \in DOMAIN s \ {Fixture(n[2])} : t[m] = s[m]

LEMMA Puts ==
    ASSUME NEW s, IsState(s), NEW n, NEW v, Writable(s, n, v)
    PROVE  PutDoes(s, n, v, Put(s, n, v))
<1> DEFINE t == Put(s, n, v)
<1>1. CASE \E f \in Patched(s) : n = Place(f) /\ v \in Settings
  <2>1. PICK f \in Patched(s) : n = Place(f) /\ v \in Settings
    BY <1>1
  <2>2. Kind(n) = "place" /\ n[2] = f /\ v # Absent
    BY <2>1, Kinds, ShowAssumption
  <2> DEFINE name == Fixture(f)
             value == [s[name] EXCEPT !.hang = v]
  <2>3. t = [s EXCEPT ![name] = value]
    BY <2>2 DEF Put
  <2> HIDE DEF t
  <2>4. IsValue(name, value) /\ value.hang = v /\ name \in DOMAIN s
    BY <2>1, FixtureHangs DEF Patched, There
  <2> HIDE DEF value, name
  <2>5. IsState(t)
    BY <2>3, <2>4, StateSet
  <2>6. n \notin Names
    BY <2>2, Naming DEF ShowKinds, DeskKinds
  <2>7. DOMAIN t = DOMAIN s /\ t[name] = value /\ \A m \in DOMAIN s \ {name} : t[m] = s[m]
    BY <2>3, <2>4
  <2> QED BY <2>2, <2>4, <2>5, <2>6, <2>7 DEF PutDoes, t, name, value
<1>2. CASE n \in ShowNames /\ v = Absent
  <2>1. t = Without(s, {n})
    BY <1>2 DEF Put
  <2>2. n \notin DeskNames /\ n \in Names /\ Kind(n) # "place"
    BY <1>2, Naming, Named DEF ShowKinds, DeskKinds
  <2>3. IsState(t)
    BY <2>1, <2>2, StateWithout
  <2>4. DOMAIN t = DOMAIN s \ {n} /\ \A m \in DOMAIN s \ {n} : t[m] = s[m]
    BY <2>1 DEF Without, Restrict
  <2> HIDE DEF t
  <2>5. PutDoes(s, n, v, t)
    BY <1>2, <2>2, <2>3, <2>4 DEF PutDoes, KeepsOthers
  <2> QED BY <2>5 DEF t
<1>3. CASE n \in ShowNames /\ v # Absent /\ IsValue(n, v) /\ Kind(n) # "preset"
  <2>1. Kind(n) # "place" /\ n \in Names
    BY <1>3, Naming, Named DEF ShowKinds, DeskKinds
  <2>2. t = With(s, n, v)
    BY <1>3, <2>1 DEF Put
  <2>3. IsState(t)
    BY <1>3, <2>1, <2>2, StateWith
  <2>4. DOMAIN t = {n} \cup DOMAIN s /\ t[n] = v /\ \A m \in DOMAIN s \ {n} : t[m] = s[m]
    BY <2>2 DEF With
  <2> HIDE DEF t
  <2>5. PutDoes(s, n, v, t)
    BY <1>3, <2>1, <2>3, <2>4 DEF PutDoes, KeepsOthers
  <2> QED BY <2>5 DEF t
<1>4. CASE n \in ShowNames /\ v # Absent /\ IsValue(n, v) /\ Kind(n) = "preset"
  <2>1. n \in Names /\ n = Preset(n[2])
    BY <1>4, Naming, Named
  <2> DEFINE r == Relink(s, n[2], v.values)
  <2>2. t = With(r, n, v)
    BY <1>4 DEF Put
  <2>3. IsPartial(v.values, Fixtures, Values)
    BY <1>4, <2>1, PresetFields
  <2>4. /\ IsState(r) /\ DOMAIN r = DOMAIN s
        /\ \A m \in DOMAIN s : Kind(m) # "list" => r[m] = s[m]
        /\ \A m \in DOMAIN s : Kind(m) = "list" => r[m].fade = s[m].fade
        /\ \A m \in DOMAIN s : Kind(m) = "list" /\ ~ Links(s[m].cues, n[2]) => r[m] = s[m]
    BY <2>3, Relinks
  <2> HIDE DEF r
  <2>5. IsState(t)
    BY <1>4, <2>1, <2>2, <2>4, StateWith
  <2>6. DOMAIN t = {n} \cup DOMAIN r /\ t[n] = v /\ \A m \in DOMAIN r \ {n} : t[m] = r[m]
    BY <2>2 DEF With
  <2> HIDE DEF t
  <2>7. PutDoes(s, n, v, t)
    BY <1>4, <2>1, <2>4, <2>5, <2>6 DEF PutDoes, KeepsOthers
  <2> QED BY <2>7 DEF t
<1> HIDE DEF t
<1> QED BY <1>1, <1>2, <1>3, <1>4 DEF Writable, t

-----------------------------------------------------------------------------
(* Sequences                                                               *)

\* How many of a set come before one of them tells them apart, and there is one
\* with each number before it.
LEMMA Ranks ==
    ASSUME NEW ids, ids \subseteq Nat, IsFiniteSet(ids)
    PROVE  /\ Cardinality(ids) \in Nat
           /\ \A i \in 1 .. Cardinality(ids) :
                \E id \in ids : Cardinality({ k \in ids : k < id }) = i - 1
           /\ \A id \in ids : Cardinality({ k \in ids : k < id }) + 1
                                \in 1 .. Cardinality(ids)
           /\ \A id, other \in ids :
                Cardinality({ k \in ids : k < id }) = Cardinality({ k \in ids : k < other })
                => id = other
<1> DEFINE N == Cardinality(ids)
           Below(id) == { k \in ids : k < id }
           rank == [id \in ids |-> Cardinality(Below(id))]
<1>1. N \in Nat
  BY FS_CardinalityType
<1>2. ASSUME NEW id \in ids PROVE IsFiniteSet(Below(id)) /\ Cardinality(Below(id)) \in Nat
  <2>1. Below(id) \subseteq ids
    OBVIOUS
  <2> QED BY <2>1, FS_Subset, FS_CardinalityType
<1>3. ASSUME NEW id \in ids, NEW more, more \subseteq ids, Below(id) \subseteq more, id \in more
      PROVE  IsFiniteSet(more) /\ Cardinality(Below(id)) + 1 <= Cardinality(more)
  <2>1. IsFiniteSet(more)
    BY <1>3, FS_Subset
  <2>2. id \notin Below(id)
    BY SMT
  <2>3. Cardinality(Below(id) \cup {id}) = Cardinality(Below(id)) + 1
        /\ IsFiniteSet(Below(id) \cup {id})
    BY <1>2, <2>2, FS_AddElement
  <2>4. Below(id) \cup {id} \subseteq more
    BY <1>3
  <2>5. Cardinality(Below(id) \cup {id}) <= Cardinality(more)
    BY <2>1, <2>4, FS_Subset
  <2> QED BY <2>1, <2>3, <2>5
<1>4. ASSUME NEW id \in ids PROVE rank[id] \in 0 .. N - 1
  <2>1. Cardinality(Below(id)) + 1 <= N
    BY <1>3
  <2> QED BY <1>1, <1>2, <2>1
<1>5. ASSUME NEW id \in ids, NEW other \in ids, id < other
      PROVE  rank[id] < rank[other]
  <2>1. Below(other) \subseteq ids /\ Below(id) \subseteq Below(other) /\ id \in Below(other)
    <3>1. ids \subseteq Nat /\ id \in Nat /\ other \in Nat
      OBVIOUS
    <3>2. \A k \in ids : k < id => k < other
      BY <1>5, <3>1
    <3> QED BY <1>5, <3>2
  <2>2. Cardinality(Below(id)) + 1 <= Cardinality(Below(other))
    BY <1>3, <2>1
  <2> QED BY <1>2, <2>2
<1> HIDE DEF Below
<1>6. ASSUME NEW id \in ids, NEW other \in ids, rank[id] = rank[other]
      PROVE  id = other
  <2>1. id \in Nat /\ other \in Nat /\ rank[id] \in Nat /\ rank[other] \in Nat
    BY <1>4, <1>1
  <2>2. ~ (id < other) /\ ~ (other < id)
    BY <1>5, <1>6, <2>1
  <2> QED BY <2>1, <2>2
<1>7. ASSUME NEW i \in 1 .. N PROVE \E id \in ids : rank[id] = i - 1
  <2> SUFFICES ASSUME \A id \in ids : rank[id] # i - 1 PROVE FALSE
    OBVIOUS
  <2> DEFINE others == (0 .. N - 1) \ {i - 1}
  <2>1. IsFiniteSet(0 .. N - 1) /\ Cardinality(0 .. N - 1) = N
    <3>1. 0 \in Int /\ N - 1 \in Int
      BY <1>1
    <3>2. /\ IsFiniteSet(0 .. N - 1)
          /\ Cardinality(0 .. N - 1) = IF 0 > N - 1 THEN 0 ELSE (N - 1) - 0 + 1
      BY <3>1, FS_Interval
    <3> QED BY <1>1, <3>2
  <2>2. i - 1 \in 0 .. N - 1
    BY <1>1
  <2>3. IsFiniteSet(others) /\ Cardinality(others) = N - 1
    BY <2>1, <2>2, FS_RemoveElement
  <2>4. rank \in [ids -> others]
    BY <1>4
  <2>5. Cardinality(others) < Cardinality(ids)
    BY <1>1, <2>3
  <2> HIDE DEF others, rank
  <2>6. \E x, y \in ids : x # y /\ rank[x] = rank[y]
    BY <2>3, <2>4, <2>5, FS_PigeonHole
  <2> QED BY <1>6, <2>6
<1>8. \A id \in ids : rank[id] + 1 \in 1 .. N
  BY <1>1, <1>4
<1> QED BY <1>1, <1>6, <1>7, <1>8 DEF Below

\* A set in ascending order: each of it, once named by its kind.
LEMMA Ascending ==
    ASSUME NEW kind, NEW ids, ids \subseteq Nat, IsFiniteSet(ids)
    PROVE  /\ InAscending(kind, ids) \in Seq({ <<kind, id>> : id \in ids })
           /\ \A id \in ids : \E i \in DOMAIN InAscending(kind, ids) :
                InAscending(kind, ids)[i] = <<kind, id>>
<1> DEFINE N == Cardinality(ids)
           Rank(id) == Cardinality({ k \in ids : k < id })
           Ranked(i) == CHOOSE id \in ids : Rank(id) = i - 1
           s == InAscending(kind, ids)
<1>1. /\ N \in Nat
      /\ \A i \in 1 .. N : \E id \in ids : Rank(id) = i - 1
      /\ \A id \in ids : Rank(id) + 1 \in 1 .. N
      /\ \A id, other \in ids : Rank(id) = Rank(other) => id = other
  BY Ranks
<1>2. s = [i \in 1 .. N |-> <<kind, Ranked(i)>>]
  BY DEF InAscending
<1> HIDE DEF s, N, Rank
<1>3. \A i \in 1 .. N : Ranked(i) \in ids /\ Rank(Ranked(i)) = i - 1
  BY <1>1
<1> HIDE DEF Ranked
<1>4. s \in Seq({ <<kind, id>> : id \in ids })
  BY <1>1, <1>2, <1>3
<1>5. ASSUME NEW id \in ids PROVE \E i \in DOMAIN s : s[i] = <<kind, id>>
  <2>1. PICK r \in 1 .. N : r = Rank(id) + 1
    BY <1>1
  <2>2. Rank(Ranked(r)) = Rank(id)
    <3>1. Rank(Ranked(r)) = r - 1
      BY <1>3
    <3>2. r - 1 = Rank(id)
      <4>1. Rank(id) + 1 \in 1 .. N
        BY <1>1
      <4>2. Rank(id) \in Nat
        BY FS_Subset, FS_CardinalityType DEF Rank
      <4> QED BY <2>1, <4>2
    <3> QED BY <3>1, <3>2
  <2>3. Ranked(r) = id
    BY <1>1, <1>3, <2>2
  <2> QED BY <1>2, <2>3
<1> QED BY <1>4, <1>5 DEF s

\* Sequences one after the other: what is in the whole is in one of them, in
\* their order, and what is in one of them is in the whole.
Laid(whole, seqs, n, S) ==
    /\ whole \in Seq(S)
    /\ \E from \in [1 .. Len(whole) -> 1 .. n] :
         /\ \A k \in 1 .. Len(whole) : \E j \in 1 .. Len(seqs[from[k]]) :
              whole[k] = seqs[from[k]][j]
         /\ \A k, l \in 1 .. Len(whole) : k < l => from[k] <= from[l]
    /\ \A i \in 1 .. n : \A j \in 1 .. Len(seqs[i]) :
         \E k \in 1 .. Len(whole) : whole[k] = seqs[i][j]

LEMMA LaidEmpty ==
    ASSUME NEW S, NEW seqs
    PROVE  Laid(<< >>, seqs, 0, S)
<1> DEFINE from == [k \in 1 .. 0 |-> k]
<1>1. from \in [1 .. 0 -> 1 .. 0] /\ Len(<< >>) = 0 /\ << >> \in Seq(S)
  OBVIOUS
<1>2. \A k \in 1 .. Len(<< >>) : FALSE
  BY <1>1
<1>3. \A i \in 1 .. 0 : FALSE
  OBVIOUS
<1>4. from \in [1 .. Len(<< >>) -> 1 .. 0]
  BY <1>1
<1> HIDE DEF from
<1> QED BY <1>1, <1>2, <1>3, <1>4 DEF Laid

LEMMA LaidOneMore ==
    ASSUME NEW S, NEW seqs, seqs \in Seq(Seq(S)), NEW n \in Nat, n + 1 \in 1 .. Len(seqs),
           NEW whole, Laid(whole, seqs, n, S)
    PROVE  Laid(whole \o seqs[n + 1], seqs, n + 1, S)
<1> DEFINE next == seqs[n + 1]
           all == whole \o next
<1>1. whole \in Seq(S) /\ next \in Seq(S)
  BY DEF Laid
<1>2. PICK from \in [1 .. Len(whole) -> 1 .. n] :
         /\ \A k \in 1 .. Len(whole) : \E j \in 1 .. Len(seqs[from[k]]) :
              whole[k] = seqs[from[k]][j]
         /\ \A k, l \in 1 .. Len(whole) : k < l => from[k] <= from[l]
  BY DEF Laid
<1>3. \A i \in 1 .. n : \A j \in 1 .. Len(seqs[i]) :
         \E k \in 1 .. Len(whole) : whole[k] = seqs[i][j]
  BY DEF Laid
<1>4. /\ all \in Seq(S) /\ Len(all) = Len(whole) + Len(next)
      /\ \A k \in 1 .. Len(whole) : all[k] = whole[k]
      /\ \A k \in 1 .. Len(next) : all[Len(whole) + k] = next[k]
      /\ Len(whole) \in Nat /\ Len(next) \in Nat
  BY <1>1
<1> HIDE DEF all, next
<1> DEFINE origin == [k \in 1 .. Len(all) |-> IF k <= Len(whole) THEN from[k] ELSE n + 1]
<1>5. origin \in [1 .. Len(all) -> 1 .. n + 1]
  BY <1>4
<1>6. ASSUME NEW k \in 1 .. Len(all)
      PROVE  \E j \in 1 .. Len(seqs[origin[k]]) : all[k] = seqs[origin[k]][j]
  <2>1. CASE k <= Len(whole)
    <3>1. k \in 1 .. Len(whole) /\ origin[k] = from[k] /\ all[k] = whole[k]
      BY <1>4, <2>1
    <3> QED BY <1>2, <3>1
  <2>2. CASE ~ (k <= Len(whole))
    <3>1. k - Len(whole) \in 1 .. Len(next) /\ origin[k] = n + 1
          /\ all[k] = next[k - Len(whole)]
      <4>1. k - Len(whole) \in 1 .. Len(next)
        BY <1>4, <2>2
      <4>2. Len(whole) + (k - Len(whole)) = k
        BY <1>4
      <4> QED BY <1>4, <2>2, <4>1, <4>2
    <3> QED BY <3>1 DEF next
  <2> QED BY <2>1, <2>2
<1>7. ASSUME NEW k \in 1 .. Len(all), NEW l \in 1 .. Len(all), k < l
      PROVE  origin[k] <= origin[l]
  <2>1. CASE l <= Len(whole)
    <3>1. k \in 1 .. Len(whole) /\ l \in 1 .. Len(whole)
      BY <1>4, <1>7, <2>1
    <3> QED BY <1>2, <1>7, <3>1, <1>4
  <2>2. CASE ~ (l <= Len(whole))
    <3>1. origin[l] = n + 1 /\ origin[k] \in 1 .. n + 1
      BY <1>5, <2>2
    <3> QED BY <3>1
  <2> QED BY <2>1, <2>2
<1>8. ASSUME NEW i \in 1 .. n + 1, NEW j \in 1 .. Len(seqs[i])
      PROVE  \E k \in 1 .. Len(all) : all[k] = seqs[i][j]
  <2>1. CASE i = n + 1
    <3>1. j \in 1 .. Len(next) /\ next[j] = seqs[i][j]
      BY <2>1 DEF next
    <3>2. Len(whole) + j \in 1 .. Len(all) /\ all[Len(whole) + j] = next[j]
      BY <1>4, <3>1
    <3> QED BY <3>1, <3>2
  <2>2. CASE i # n + 1
    <3>1. i \in 1 .. n
      BY <2>2
    <3>2. PICK k \in 1 .. Len(whole) : whole[k] = seqs[i][j]
      BY <1>3, <3>1
    <3> QED BY <1>4, <3>2
  <2> QED BY <2>1, <2>2
<1> HIDE DEF origin
<1>9. Laid(all, seqs, n + 1, S)
  BY <1>4, <1>5, <1>6, <1>7, <1>8 DEF Laid
<1> QED BY <1>9 DEF all, next

LEMMA Flattened ==
    ASSUME NEW S, NEW seqs, seqs \in Seq(Seq(S))
    PROVE  Laid(FlattenSeq(seqs), seqs, Len(seqs), S)
<1> DEFINE n == Len(seqs)
           Flat(g) == g = [i \in 1 .. n |-> IF i = 1 THEN seqs[i] ELSE g[i - 1] \o seqs[i]]
           F == [i \in 1 .. n |-> [whole \in Seq(S) |-> whole \o seqs[i]]]
<1>1. n \in Nat /\ \A i \in 1 .. n : seqs[i] \in Seq(S)
  OBVIOUS
<1>2. CASE n = 0
  <2>1. seqs = << >> /\ FlattenSeq(seqs) = << >>
    BY <1>2 DEF FlattenSeq
  <2> QED BY <1>2, <2>1, LaidEmpty
<1>3. CASE n # 0
  <2>1. FlattenSeq(seqs) = (CHOOSE g : Flat(g))[n]
    BY <1>3 DEF FlattenSeq
  <2>2. F \in [1 .. n -> [Seq(S) -> Seq(S)]] /\ << >> \in Seq(S)
    BY <1>1
  <2>3. \A i \in 1 .. n : \A whole \in Seq(S) : F[i][whole] = whole \o seqs[i]
    OBVIOUS
  <2> HIDE DEF F
  <2>4. PICK r : Recurs(r, n, Seq(S), << >>, F)
    BY <1>1, <2>2, Recursion
  <2>5. r \in [0 .. n -> Seq(S)] /\ r[0] = << >>
        /\ \A i \in 1 .. n : r[i] = r[i - 1] \o seqs[i]
    <3>1. \A i \in 1 .. n : i - 1 \in 0 .. n
      BY <1>1
    <3> QED BY <2>3, <2>4, <3>1 DEF Recurs
  <2> DEFINE g == [i \in 1 .. n |-> r[i]]
  <2>6. Flat(g)
    <3>1. ASSUME NEW i \in 1 .. n
          PROVE  g[i] = IF i = 1 THEN seqs[i] ELSE g[i - 1] \o seqs[i]
      <4>1. CASE i = 1
        <5>1. g[i] = << >> \o seqs[i]
          <6>1. g[i] = r[i] /\ i - 1 = 0
            BY <4>1
          <6> QED BY <2>5, <6>1
        <5>2. seqs[i] \in Seq(S)
          BY <1>1
        <5> QED BY <4>1, <5>1, <5>2
      <4>2. CASE i # 1
        <5>1. i - 1 \in 1 .. n
          BY <1>1, <4>2
        <5> QED BY <2>5, <4>2, <5>1
      <4> QED BY <4>1, <4>2
    <3> QED BY <3>1
  <2> DEFINE flat == CHOOSE h : Flat(h)
  <2>7. Flat(flat)
    BY <2>6
  <2>8. DOMAIN flat = 1 .. n /\ \A i \in 1 .. n :
           flat[i] = IF i = 1 THEN seqs[i] ELSE flat[i - 1] \o seqs[i]
    BY <2>7
  <2> HIDE DEF flat, Flat
  <2> DEFINE T == {0} \cup { i \in 1 .. n : Laid(flat[i], seqs, i, S) }
  <2>9. Laid(<< >>, seqs, 0, S)
    BY LaidEmpty
  <2>10. ASSUME NEW i \in 1 .. n, i - 1 \in T PROVE i \in T
    <3> DEFINE m == i - 1
               before == IF i = 1 THEN << >> ELSE flat[m]
    <3>1. m \in Nat /\ m + 1 = i /\ (i # 1 => m \in 1 .. n /\ m # 0)
      BY <1>1
    <3>2. Laid(before, seqs, m, S)
      BY <2>9, <2>10, <3>1
    <3>3. flat[i] = before \o seqs[i]
      <4>1. << >> \o seqs[i] = seqs[i]
        BY <1>1
      <4> QED BY <2>8, <4>1
    <3> HIDE DEF m, before
    <3>4. Laid(before \o seqs[m + 1], seqs, m + 1, S)
      BY <3>1, <3>2, LaidOneMore
    <3> QED BY <3>1, <3>3, <3>4
  <2>11. 0 \in T
    OBVIOUS
  <2> HIDE DEF T
  <2>12. \A i \in 0 .. n : i \in T
    BY <1>1, <2>10, <2>11, Climb
  <2>13. Laid(flat[n], seqs, n, S)
    BY <1>1, <1>3, <2>12 DEF T
  <2> QED BY <2>1, <2>13 DEF flat
<1> QED BY <1>2, <1>3

-----------------------------------------------------------------------------
(* Images                                                                  *)

\* What an image may be of, when it is taken.
Imageable(s) == Names \cup { Place(f) : f \in Patched(s) }

\* What a record may cover.
Scopes(s) == Imageable(s) \cup { RefersTo(n) : n \in Names }
             \cup { n \in {Edited} : s[CueEdit] # Absent }

\* A scope that may cover a list.
BringsLists(scope) ==
    Kind(scope) = "list" \/ Kind(scope) = "edited" \/ Kind(scope) = "referrers"

\* A list is imaged after a preset, which it may be linked to; and where a fixture
\* hangs is not imaged with a fixture.
WellNamed(names, s) ==
    /\ names \in Seq(Scopes(s))
    /\ \A i, j \in 1 .. Len(names) :
         /\ i < j /\ BringsLists(names[i]) => Kind(names[j]) # "preset"
         /\ Kind(names[i]) = "place" => Kind(names[j]) = "place"

\* Images that can be written back, in their order.
Sound(images) ==
    /\ Len(images) \in Nat /\ DOMAIN images = 1 .. Len(images)
    /\ \A i \in DOMAIN images :
         /\ \/ images[i][1] \in Names
            \/ \E f \in Fixtures : images[i][1] = Place(f) /\ images[i][2] # Absent
         /\ IsImage(images[i])
         /\ images[i][1] \in DeskNames => IsValue(images[i][1], images[i][2])
    /\ \A i, j \in DOMAIN images :
         /\ images[i][1] = images[j][1] => images[i][2] = images[j][2]
         /\ i < j /\ Kind(images[i][1]) = "list" => Kind(images[j][1]) # "preset"
         /\ Kind(images[i][1]) = "place" => Kind(images[j][1]) # "fixture"

\* The names of a record, one after the other.
CoveredOf(names, s) == FlattenSeq([i \in DOMAIN names |-> Covered(names[i], s)])

LEMMA ScopeKinds ==
    ASSUME NEW s, IsState(s), NEW scope \in Scopes(s)
    PROVE  \/ /\ scope \in Imageable(s)
              /\ Kind(scope) \in ShowKinds \cup DeskKinds \cup {"place"}
           \/ \E n \in Names : scope = RefersTo(n) /\ Kind(scope) = "referrers"
                               /\ scope[2] = n
           \/ scope = Edited /\ Kind(scope) = "edited" /\ s[CueEdit] # Absent
BY Naming, Kinds DEF Scopes, Imageable, RefersTo, Edited, Kind, Place

\* The ids of a state are finite sets of numbers.
LEMMA Reached ==
    ASSUME NEW s, IsState(s)
    PROVE  /\ \A p : Users(s, p) \subseteq Lists /\ Users(s, p) \subseteq Nat
                     /\ IsFiniteSet(Users(s, p))
           /\ \A q : Players(s, q) \subseteq Executors /\ Players(s, q) \subseteq Nat
                     /\ IsFiniteSet(Players(s, q))
<1>1. Lists \subseteq Nat /\ IsFiniteSet(Lists) /\ Executors \subseteq Nat
      /\ IsFiniteSet(Executors)
  BY ShowAssumption
<1>2. ASSUME NEW p
      PROVE  Users(s, p) \subseteq Lists /\ Users(s, p) \subseteq Nat /\ IsFiniteSet(Users(s, p))
  <2>1. Users(s, p) \subseteq Lists
    BY DEF Users, ListsIn
  <2> QED BY <1>1, <2>1, FS_Subset
<1>3. ASSUME NEW q
      PROVE  /\ Players(s, q) \subseteq Executors /\ Players(s, q) \subseteq Nat
             /\ IsFiniteSet(Players(s, q))
  <2>1. Players(s, q) \subseteq Executors
    BY DEF Players
  <2> QED BY <1>1, <2>1, FS_Subset
<1> QED BY <1>2, <1>3

LEMMA Covers ==
    ASSUME NEW s, IsState(s), NEW scope \in Scopes(s)
    PROVE  /\ Covered(scope, s) \in Seq(Imageable(s))
           /\ \A j \in 1 .. Len(Covered(scope, s)) :
                /\ Kind(Covered(scope, s)[j]) = "list" => BringsLists(scope)
                /\ Kind(Covered(scope, s)[j]) = "preset" => Kind(scope) = "preset"
                /\ Kind(Covered(scope, s)[j]) = "place" <=> Kind(scope) = "place"
           /\ \A j, k \in 1 .. Len(Covered(scope, s)) :
                Kind(Covered(scope, s)[j]) = Kind(Covered(scope, s)[k])
<1> DEFINE covered == Covered(scope, s)
           Fine == /\ covered \in Seq(Imageable(s))
                   /\ \A j \in 1 .. Len(covered) :
                        /\ Kind(covered[j]) = "list" => BringsLists(scope)
                        /\ Kind(covered[j]) = "preset" => Kind(scope) = "preset"
                        /\ Kind(covered[j]) = "place" <=> Kind(scope) = "place"
                   /\ \A j, k \in 1 .. Len(covered) : Kind(covered[j]) = Kind(covered[k])
<1> SUFFICES Fine
  OBVIOUS
<1>1. ASSUME NEW n, n \in Imageable(s), covered = <<n>>, scope = n
      PROVE  Fine
  <2>1. covered \in Seq(Imageable(s)) /\ Len(covered) = 1 /\ covered[1] = n
    BY <1>1
  <2> HIDE DEF covered
  <2>2. \A j \in 1 .. Len(covered) : covered[j] = n
    BY <2>1
  <2> QED BY <1>1, <2>1, <2>2 DEF BringsLists
<1>2. ASSUME NEW kind, kind \in {"list", "executor"}, NEW ids, ids \subseteq Nat,
             IsFiniteSet(ids), \A id \in ids : <<kind, id>> \in Names,
             covered = InAscending(kind, ids), Kind(scope) = "referrers"
      PROVE  Fine
  <2>1. covered \in Seq({ <<kind, id>> : id \in ids })
    BY <1>2, Ascending
  <2>2. { <<kind, id>> : id \in ids } \subseteq Imageable(s)
    BY <1>2 DEF Imageable
  <2> HIDE DEF covered
  <2>3. covered \in Seq(Imageable(s))
    BY <2>1, <2>2
  <2>4. \A j \in 1 .. Len(covered) : covered[j] \in { <<kind, id>> : id \in ids }
    BY <2>1
  <2>5. \A j \in 1 .. Len(covered) : Kind(covered[j]) = kind
    BY <2>4 DEF Kind
  <2> QED BY <1>2, <2>3, <2>5 DEF BringsLists
<1>3. CASE scope \in Imageable(s) /\ Kind(scope) \in ShowKinds \cup DeskKinds \cup {"place"}
  <2>1. Covered(scope, s) = <<scope>>
    BY <1>3 DEF Covered, ShowKinds, DeskKinds
  <2> QED BY <1>1, <1>3, <2>1
<1>4. CASE \E n \in Names : scope = RefersTo(n) /\ Kind(scope) = "referrers" /\ scope[2] = n
  <2>1. PICK n \in Names : scope = RefersTo(n) /\ Kind(scope) = "referrers" /\ scope[2] = n
    BY <1>4
  <2>2. covered = Referrers(n, s)
    BY <2>1 DEF Covered
  <2>3. CASE Kind(n) = "preset"
    <3>1. covered = InAscending("list", Users(s, n[2]))
      BY <2>2, <2>3 DEF Referrers
    <3>2. \A id \in Users(s, n[2]) : <<"list", id>> \in Names
      BY Reached, Named DEF List
    <3> HIDE DEF covered, Fine
    <3> QED BY <1>2, <2>1, <3>1, <3>2, Reached
  <2>4. CASE Kind(n) = "list"
    <3>1. covered = InAscending("executor", Players(s, n[2]))
      BY <2>2, <2>4 DEF Referrers
    <3>2. \A id \in Players(s, n[2]) : <<"executor", id>> \in Names
      BY Reached, Named DEF Executor
    <3> HIDE DEF covered, Fine
    <3> QED BY <1>2, <2>1, <3>1, <3>2, Reached
  <2>5. CASE Kind(n) # "preset" /\ Kind(n) # "list"
    <3>1. covered = << >>
      BY <2>2, <2>5 DEF Referrers
    <3> HIDE DEF covered
    <3>2. covered \in Seq(Imageable(s)) /\ Len(covered) = 0
      BY <3>1
    <3> QED BY <3>2
  <2> QED BY <2>3, <2>4, <2>5
<1>5. CASE scope = Edited /\ Kind(scope) = "edited" /\ s[CueEdit] # Absent
  <2>1. covered = <<List(s[CueEdit].list)>>
    BY <1>5 DEF Covered
  <2>2. s[CueEdit] \in CueEdits
    BY <1>5, InState, ValueOf
  <2>3. s[CueEdit].list \in Lists
    BY <2>2 DEF CueEdits
  <2> DEFINE n == List(s[CueEdit].list)
  <2>4. n \in Imageable(s) /\ Kind(n) = "list"
    BY <2>3, Named, Kinds DEF Imageable
  <2> HIDE DEF n
  <2>5. covered \in Seq(Imageable(s)) /\ Len(covered) = 1 /\ covered[1] = n
    BY <2>1, <2>4 DEF n
  <2> HIDE DEF covered
  <2>6. \A j \in 1 .. Len(covered) : covered[j] = n
    BY <2>5
  <2> QED BY <1>5, <2>4, <2>5, <2>6 DEF BringsLists
<1> HIDE DEF Fine
<1> QED BY <1>3, <1>4, <1>5, ScopeKinds

\* What is held under a name that can be imaged is an image of its kind.
LEMMA HeldIsImage ==
    ASSUME NEW s, IsState(s), NEW n \in Imageable(s)
    PROVE  /\ Held(s, n) = Absent \/ IsValue(n, Held(s, n))
           /\ Kind(n) = "place" => Held(s, n) # Absent
           /\ n \in DeskNames => IsValue(n, Held(s, n))
<1>1. CASE \E f \in Patched(s) : n = Place(f)
  <2>1. PICK f \in Patched(s) : n = Place(f)
    BY <1>1
  <2>2. Kind(n) = "place" /\ Held(s, n) = s[Fixture(f)].hang
    BY <2>1, Kinds DEF Held
  <2>3. f \in Fixtures /\ Fixture(f) \in DOMAIN s
    BY DEF Patched, There
  <2>4. s[Fixture(f)] \in [type : Types, at : Addresses, hang : Settings]
    BY <2>3, InState, ValueOf
  <2>5. s[Fixture(f)].hang \in Settings
    BY <2>4
  <2>6. n \notin DeskNames /\ s[Fixture(f)].hang # Absent
    BY <2>2, <2>5, Kinds, ShowAssumption DEF DeskNames
  <2> QED BY <2>1, <2>2, <2>5, <2>6, ValueOf
<1>2. CASE n \in Names
  <2>1. Kind(n) # "place"
    BY <1>2, Naming DEF ShowKinds, DeskKinds
  <2>2. CASE n \in DOMAIN s
    <3>1. Held(s, n) = s[n] /\ IsValue(n, s[n])
      BY <2>1, <2>2, InState DEF Held, There
    <3> QED BY <2>1, <3>1
  <2>3. CASE n \notin DOMAIN s
    <3>1. Held(s, n) = Absent /\ n \notin DeskNames
      BY <2>1, <2>3, InState DEF Held, There, DeskNames
    <3> QED BY <2>1, <3>1
  <2> QED BY <2>2, <2>3
<1> QED BY <1>1, <1>2 DEF Imageable

\* The images of a record can be written back, and each is what is held under its
\* name; each scope is in it with all it covers.
LEMMA Images ==
    ASSUME NEW s, IsState(s), NEW names, WellNamed(names, s)
    PROVE  LET images == ImagesOf(names, s) IN
           /\ Sound(images)
           /\ \A i \in DOMAIN images : images[i][2] = Held(s, images[i][1])
                                      /\ images[i] = <<images[i][1], images[i][2]>>
           /\ \A k \in 1 .. Len(names) : \A j \in 1 .. Len(Covered(names[k], s)) :
                \E i \in DOMAIN images : images[i][1] = Covered(names[k], s)[j]
<1> DEFINE S == Imageable(s)
           seqs == [k \in DOMAIN names |-> Covered(names[k], s)]
           covered == FlattenSeq(seqs)
           images == ImagesOf(names, s)
<1>1. names \in Seq(Scopes(s)) /\ Len(names) \in Nat /\ DOMAIN names = 1 .. Len(names)
      /\ \A k \in 1 .. Len(names) : names[k] \in Scopes(s)
  BY DEF WellNamed
<1>2. \A k \in 1 .. Len(names) : Covered(names[k], s) \in Seq(S)
  BY <1>1, Covers
<1>3. seqs \in Seq(Seq(S)) /\ Len(seqs) = Len(names)
  <2>1. seqs = [k \in 1 .. Len(names) |-> Covered(names[k], s)]
    BY <1>1
  <2> HIDE DEF S
  <2>2. seqs \in [1 .. Len(names) -> Seq(S)]
    BY <1>2, <2>1
  <2> HIDE DEF seqs
  <2> QED BY <1>1, <2>2
<1>4. Laid(covered, seqs, Len(names), S)
  <2> HIDE DEF S, seqs
  <2> QED BY <1>3, Flattened
<1>5. \A k \in 1 .. Len(names) : seqs[k] = Covered(names[k], s)
  BY <1>1
<1>6. images = [i \in DOMAIN covered |-> <<covered[i], Held(s, covered[i])>>]
  BY DEF ImagesOf
<1> HIDE DEF seqs, covered, images
<1>7. covered \in Seq(S) /\ Len(covered) \in Nat /\ DOMAIN covered = 1 .. Len(covered)
  <2>1. covered \in Seq(S)
    BY <1>4 DEF Laid
  <2> HIDE DEF S
  <2> QED BY <2>1
<1>8. PICK from \in [1 .. Len(covered) -> 1 .. Len(names)] :
         /\ \A k \in 1 .. Len(covered) : \E j \in 1 .. Len(seqs[from[k]]) :
              covered[k] = seqs[from[k]][j]
         /\ \A k, l \in 1 .. Len(covered) : k < l => from[k] <= from[l]
  BY <1>4 DEF Laid
<1>9. /\ DOMAIN images = 1 .. Len(covered) /\ Len(images) = Len(covered)
      /\ \A i \in 1 .. Len(covered) :
           images[i][1] = covered[i] /\ images[i][2] = Held(s, covered[i])
           /\ images[i] = <<images[i][1], images[i][2]>>
  BY <1>6, <1>7
<1>10. ASSUME NEW i \in DOMAIN images
       PROVE  /\ images[i][1] \in S
              /\ \/ images[i][1] \in Names
                 \/ \E f \in Fixtures : images[i][1] = Place(f) /\ images[i][2] # Absent
              /\ IsImage(images[i])
              /\ images[i][1] \in DeskNames => IsValue(images[i][1], images[i][2])
  <2>1. images[i][1] \in S
    <3> HIDE DEF S
    <3> QED BY <1>7, <1>9
  <2>2. images[i][2] = Held(s, images[i][1])
    BY <1>9
  <2>3. IsImage(images[i]) /\ (images[i][1] \in DeskNames => IsValue(images[i][1], images[i][2]))
    BY <2>1, <2>2, HeldIsImage DEF IsImage
  <2>4. images[i][1] \in Names \/ \E f \in Patched(s) : images[i][1] = Place(f)
    BY <2>1 DEF Imageable
  <2>5. ASSUME NEW f \in Patched(s), images[i][1] = Place(f)
        PROVE  f \in Fixtures /\ images[i][2] # Absent
    BY <2>1, <2>2, <2>5, HeldIsImage, Kinds DEF Patched
  <2> QED BY <2>1, <2>3, <2>4, <2>5
<1>11. ASSUME NEW i \in 1 .. Len(covered)
       PROVE  /\ from[i] \in 1 .. Len(names)
              /\ Kind(covered[i]) = "list" => BringsLists(names[from[i]])
              /\ Kind(covered[i]) = "preset" => Kind(names[from[i]]) = "preset"
              /\ Kind(covered[i]) = "place" <=> Kind(names[from[i]]) = "place"
              /\ \A l \in 1 .. Len(covered) : from[i] = from[l] =>
                   Kind(covered[i]) = Kind(covered[l])
  <2>1. from[i] \in 1 .. Len(names) /\ names[from[i]] \in Scopes(s)
        /\ seqs[from[i]] = Covered(names[from[i]], s)
    BY <1>1, <1>5
  <2>2. PICK j \in 1 .. Len(Covered(names[from[i]], s)) :
           covered[i] = Covered(names[from[i]], s)[j]
    BY <1>8, <2>1
  <2>3. ASSUME NEW l \in 1 .. Len(covered), from[i] = from[l]
        PROVE  Kind(covered[i]) = Kind(covered[l])
    <3>1. PICK k \in 1 .. Len(Covered(names[from[i]], s)) :
             covered[l] = Covered(names[from[i]], s)[k]
      BY <1>8, <2>1, <2>3
    <3> QED BY <2>1, <2>2, <3>1, Covers
  <2> QED BY <2>1, <2>2, <2>3, Covers
<1>12. ASSUME NEW i \in DOMAIN images, NEW j \in DOMAIN images
       PROVE  /\ images[i][1] = images[j][1] => images[i][2] = images[j][2]
              /\ i < j /\ Kind(images[i][1]) = "list" => Kind(images[j][1]) # "preset"
              /\ Kind(images[i][1]) = "place" => Kind(images[j][1]) # "fixture"
  <2>1. i \in 1 .. Len(covered) /\ j \in 1 .. Len(covered)
        /\ images[i][1] = covered[i] /\ images[j][1] = covered[j]
    BY <1>9
  <2>2. images[i][1] = images[j][1] => images[i][2] = images[j][2]
    BY <1>9, <2>1
  <2>3. ASSUME i < j, Kind(covered[i]) = "list", Kind(covered[j]) = "preset" PROVE FALSE
    <3>1. BringsLists(names[from[i]]) /\ Kind(names[from[j]]) = "preset"
      BY <1>11, <2>1, <2>3
    <3>2. from[i] # from[j]
      <4>1. from[i] = from[j] => Kind(covered[i]) = Kind(covered[j])
        BY <1>11, <2>1
      <4> QED BY <2>3, <4>1
    <3>3. from[i] < from[j]
      <4>1. from[i] <= from[j]
        BY <1>8, <2>1, <2>3
      <4>2. from[i] \in 1 .. Len(names) /\ from[j] \in 1 .. Len(names)
        BY <1>11, <2>1
      <4> QED BY <1>1, <3>2, <4>1, <4>2
    <3> QED BY <1>11, <2>1, <3>1, <3>3 DEF WellNamed
  <2>4. ASSUME Kind(covered[i]) = "place", Kind(covered[j]) = "fixture" PROVE FALSE
    <3>1. Kind(names[from[i]]) = "place" /\ Kind(names[from[j]]) # "place"
      BY <1>11, <2>1, <2>4
    <3> QED BY <1>11, <2>1, <3>1 DEF WellNamed
  <2> QED BY <2>1, <2>2, <2>3, <2>4
<1>13. Sound(images)
  BY <1>7, <1>9, <1>10, <1>12 DEF Sound
<1>14. ASSUME NEW k \in 1 .. Len(names), NEW j \in 1 .. Len(Covered(names[k], s))
       PROVE  \E i \in DOMAIN images : images[i][1] = Covered(names[k], s)[j]
  <2>1. PICK i \in 1 .. Len(covered) : covered[i] = seqs[k][j]
    <3>1. j \in 1 .. Len(seqs[k])
      BY <1>5
    <3> QED BY <1>4, <3>1 DEF Laid
  <2> QED BY <1>5, <1>9, <2>1
<1>15. \A i \in DOMAIN images : images[i][2] = Held(s, images[i][1])
                                /\ images[i] = <<images[i][1], images[i][2]>>
  BY <1>9
<1> HIDE DEF S
<1> QED BY <1>13, <1>14, <1>15 DEF images

-----------------------------------------------------------------------------
(* Images written back                                                     *)

AllValues ==
    [type : Types, at : Addresses, hang : Settings] \cup Profiles
    \cup [name : Settings, members : SUBSET Fixtures]
    \cup [name : Settings, color : Colors, values : Partial(Fixtures, Values)]
    \cup AllLists \cup [list : {Absent} \cup Lists, keys : Settings]
    \cup [selection : SUBSET Fixtures, manual : SUBSET Fixtures,
          groups : SUBSET Groups, values : Partial(Fixtures, Touches)]
    \cup {Absent} \cup CueEdits \cup Lists \cup Settings

States  == { s \in Partial(Names, AllValues) : IsState(s) }
Answers == [ok : BOOLEAN, state : States]

LEMMA ValuesAll ==
    ASSUME NEW n \in Names, NEW v, IsValue(n, v)
    PROVE  v \in AllValues
<1>1. CASE Kind(n) = "preset"
  <2>1. /\ v.name \in Settings /\ v.color \in Colors /\ IsPartial(v.values, Fixtures, Values)
        /\ v = [name |-> v.name, color |-> v.color, values |-> v.values]
    BY <1>1, Naming, PresetFields
  <2>2. v.values \in Partial(Fixtures, Values)
    BY <2>1 DEF IsPartial, Partial
  <2>3. v \in [name : Settings, color : Colors, values : Partial(Fixtures, Values)]
    BY <2>1, <2>2
  <2> QED BY <2>3 DEF AllValues
<1>2. CASE Kind(n) = "programmer"
  <2>1. /\ v.selection \in SUBSET Fixtures /\ v.manual \in SUBSET Fixtures
        /\ v.groups \in SUBSET Groups /\ IsPartial(v.values, Fixtures, Touches)
        /\ v = [selection |-> v.selection, manual |-> v.manual, groups |-> v.groups,
                values |-> v.values]
    BY <1>2, Naming, DeskFields
  <2>2. v.values \in Partial(Fixtures, Touches)
    BY <2>1 DEF IsPartial, Partial
  <2>3. v \in [selection : SUBSET Fixtures, manual : SUBSET Fixtures,
               groups : SUBSET Groups, values : Partial(Fixtures, Touches)]
    BY <2>1, <2>2
  <2> QED BY <2>3 DEF AllValues
<1>3. CASE Kind(n) = "list"
  <2>1. v \in AllLists
    BY <1>3, Naming, ValueOf, ListsAll
  <2> QED BY <2>1 DEF AllValues
<1>4. CASE Kind(n) \in {"fixture", "type", "group", "mark", "executor", "cueEdit", "selected"}
  <2>1. \/ v \in [type : Types, at : Addresses, hang : Settings] \/ v \in Profiles
        \/ v \in [name : Settings, members : SUBSET Fixtures] \/ v \in Settings
        \/ v \in [list : {Absent} \cup Lists, keys : Settings]
        \/ v \in {Absent} \cup CueEdits \/ v \in {Absent} \cup Lists
    BY <1>4, Naming, ValueOf
  <2> QED BY <2>1 DEF AllValues
<1> QED BY <1>1, <1>2, <1>3, <1>4, Naming DEF ShowKinds, DeskKinds

LEMMA StatesAll ==
    ASSUME NEW s, IsState(s)
    PROVE  s \in States
<1>1. DOMAIN s \in SUBSET Names /\ s = [n \in DOMAIN s |-> s[n]]
  BY DEF IsState, IsMap
<1>2. s \in [DOMAIN s -> AllValues]
  BY <1>1, InState, ValuesAll
<1>3. s \in Partial(Names, AllValues)
  BY <1>1, <1>2 DEF Partial
<1> QED BY <1>3 DEF States

\* What an image is to be when it is back: of a list that is there, the crossfade
\* is left alone.
Due(s, image) ==
    IF Kind(image[1]) = "list" /\ image[2] # Absent /\ There(s, image[1])
    THEN [image[2] EXCEPT !.fade = s[image[1]].fade] ELSE image[2]

Stood(s, t, image) ==
    /\ Held(t, image[1]) = Due(s, image)
    /\ \A f : image[1] = Place(f) => Fixture(f) \in DOMAIN t

\* How the crossfades stand in t while images are written back over s.
Fades(s, t, images) ==
    \A q \in Lists : LET n == List(q) IN
        /\ n \in DOMAIN s /\ n \in DOMAIN t => t[n].fade = s[n].fade
        /\ n \in DOMAIN s /\ n \notin DOMAIN t =>
             \E i \in DOMAIN images : images[i][1] = n /\ images[i][2] = Absent
        /\ n \notin DOMAIN s /\ n \in DOMAIN t =>
             \E i \in DOMAIN images : /\ images[i][1] = n /\ images[i][2] # Absent
                                      /\ t[n].fade = images[i][2].fade

\* The images in W are back in place, over s.
Walked(s, r, images, W) ==
    /\ r \in Answers
    /\ Fades(s, r.state, images)
    /\ r.ok => \A i \in W : Stood(s, r.state, images[i])

LEMMA AnswerState ==
    ASSUME NEW r \in Answers
    PROVE  IsState(r.state) /\ r.ok \in BOOLEAN /\ r = [ok |-> r.ok, state |-> r.state]
BY DEF Answers, States

\* What PutBack writes is what is due.
LEMMA PutsDue ==
    ASSUME NEW s, IsState(s), NEW t, IsState(t), NEW images, Sound(images),
           Fades(s, t, images), NEW j \in DOMAIN images, images[j][1] \notin DeskNames,
           Accepts(t, images[j][1], images[j][2])
    PROVE  LET n == images[j][1]
               v == Due(s, images[j])
           IN  /\ PutBack(t, images[j]) = Put(t, n, v)
               /\ Writable(t, n, v)
               /\ v = Absent <=> images[j][2] = Absent
               /\ Kind(n) = "list" /\ v # Absent =>
                    v.fade = IF n \in DOMAIN s THEN s[n].fade ELSE images[j][2].fade
<1> DEFINE n == images[j][1]
           u == images[j][2]
           v == Due(s, images[j])
           back == PutBack(t, images[j])
           onto == IF Kind(n) = "list" /\ u # Absent /\ There(t, n)
                   THEN [u EXCEPT !.fade = t[n].fade] ELSE u
<1>1. back = Put(t, n, onto)
  BY DEF PutBack
<1>2. v = IF Kind(n) = "list" /\ u # Absent /\ n \in DOMAIN s
          THEN [u EXCEPT !.fade = s[n].fade] ELSE u
  BY DEF Due, There
<1>3. onto = IF Kind(n) = "list" /\ u # Absent /\ n \in DOMAIN t
             THEN [u EXCEPT !.fade = t[n].fade] ELSE u
  BY DEF There
<1>4. /\ n \in Names \/ \E f \in Fixtures : n = Place(f) /\ u # Absent
      /\ u = Absent \/ IsValue(n, u)
      /\ \A i \in DOMAIN images : images[i][1] = n => images[i][2] = u
  BY DEF Sound, IsImage
<1>5. n \notin DeskNames /\ Accepts(t, n, u)
  OBVIOUS
<1> HIDE DEF v, onto, back, n, u
<1>6. CASE Kind(n) = "list" /\ u # Absent
  <2>1. n \in Names
    BY <1>4, <1>6, Kinds
  <2>2. n[2] \in Lists /\ n = List(n[2])
    BY <1>6, <2>1, Naming
  <2>3. IsList(u)
    BY <1>4, <1>6, <2>2, ValueOf
  <2>4. u.fade \in Levels /\ u = [name |-> u.name, color |-> u.color, master |-> u.master,
                                  fade |-> u.fade, cues |-> u.cues]
    BY <2>3, ListFields
  <2>5. [u EXCEPT !.fade = u.fade] = u
    BY <2>4
  <2>6. n \in DOMAIN s => n \in DOMAIN t
    BY <1>4, <1>6, <2>2 DEF Fades
  <2>7. n \in DOMAIN s /\ n \in DOMAIN t => t[n].fade = s[n].fade
    BY <2>2 DEF Fades
  <2>8. n \notin DOMAIN s /\ n \in DOMAIN t => t[n].fade = u.fade
    BY <1>4, <2>2 DEF Fades
  <2>9. onto = v
    BY <1>2, <1>3, <1>6, <2>5, <2>6, <2>7, <2>8
  <2>10. n \in DOMAIN s => s[n].fade \in Levels
    BY <2>2, InState, ValueOf, ListFields
  <2>11. IsList(v)
    BY <1>2, <1>6, <2>3, <2>10, ListChanged
  <2>12. v # Absent /\ IsValue(n, v)
    BY <2>2, <2>11, ListIsThere, ValueOf
  <2>13. v.fade = IF n \in DOMAIN s THEN s[n].fade ELSE u.fade
    BY <1>2, <1>6, <2>4
  <2>14. n \in ShowNames
    BY <2>2, Named
  <2>15. Writable(t, n, v)
    BY <2>12, <2>14 DEF Writable
  <2> QED BY <1>1, <1>6, <2>9, <2>12, <2>13, <2>15 DEF v, back, n, u
<1>7. CASE ~ (Kind(n) = "list" /\ u # Absent)
  <2>1. v = u /\ onto = u
    BY <1>2, <1>3, <1>7
  <2>2. Writable(t, n, u)
    <3>1. CASE n \in Names
      <4>1. n \in ShowNames
        BY <1>5, <3>1 DEF Names
      <4> QED BY <1>4, <4>1 DEF Writable
    <3>2. CASE \E f \in Fixtures : n = Place(f) /\ u # Absent
      <4>1. PICK f \in Fixtures : n = Place(f) /\ u # Absent
        BY <3>2
      <4>2. u \in Settings
        BY <1>4, <4>1, ValueOf
      <4>3. Kind(n) = "place" /\ n[2] = f
        BY <4>1, Kinds
      <4>4. f \in Patched(t)
        BY <1>5, <4>1, <4>3 DEF Accepts, MayBe
      <4> QED BY <4>1, <4>2, <4>4 DEF Writable
    <3> QED BY <1>4, <3>1, <3>2
  <2> QED BY <1>1, <1>7, <2>1, <2>2 DEF v, back, n, u
<1> QED BY <1>6, <1>7

\* One image more is back, and those before it still are.
LEMMA PutBackStep ==
    ASSUME NEW s, IsState(s), NEW t, IsState(t), NEW images, Sound(images),
           Fades(s, t, images), NEW j \in DOMAIN images, images[j][1] \notin DeskNames,
           Accepts(t, images[j][1], images[j][2]),
           NEW W, W \subseteq DOMAIN images, \A i \in W : Stood(s, t, images[i]),
           \A i \in W : ~ (Kind(images[i][1]) = "list" /\ Kind(images[j][1]) = "preset")
    PROVE  LET next == PutBack(t, images[j]) IN
           /\ IsState(next) /\ Fades(s, next, images)
           /\ \A i \in W \cup {j} : Stood(s, next, images[i])
<1> DEFINE n == images[j][1]
           v == Due(s, images[j])
           next == PutBack(t, images[j])
<1>1. /\ next = Put(t, n, v) /\ Writable(t, n, v)
      /\ v = Absent <=> images[j][2] = Absent
      /\ Kind(n) = "list" /\ v # Absent =>
           v.fade = IF n \in DOMAIN s THEN s[n].fade ELSE images[j][2].fade
  BY PutsDue
<1>2. PutDoes(t, n, v, next)
  BY <1>1, Puts
<1>3. n \in Names \/ \E f \in Fixtures : n = Place(f)
  BY DEF Sound
<1>4. n \in Names => Kind(n) # "place"
  BY Naming DEF ShowKinds, DeskKinds
<1> HIDE DEF next
<1>5. IsState(next)
  BY <1>2 DEF PutDoes
<1>6. CASE n \in Names
  <2>1. Kind(n) # "place"
    BY <1>4, <1>6
  <2>2. /\ n \in DOMAIN next <=> v # Absent
        /\ v # Absent => next[n] = v
    BY <1>2, <1>6 DEF PutDoes
  <2>0. KeepsOthers(t, n, next)
    BY <1>2, <1>6 DEF PutDoes
  <2> HIDE DEF v, n
  <2>3. ASSUME NEW m \in Names \ {n}, ~ (Kind(m) = "list" /\ Kind(n) = "preset")
        PROVE  (m \in DOMAIN next <=> m \in DOMAIN t) /\ (m \in DOMAIN t => next[m] = t[m])
    BY <2>0, <2>3 DEF KeepsOthers
  <2>4. ASSUME NEW m \in Names \ {n}, Kind(m) = "list"
        PROVE  (m \in DOMAIN next <=> m \in DOMAIN t)
               /\ (m \in DOMAIN t => next[m].fade = t[m].fade)
    BY <2>0, <2>4 DEF KeepsOthers
  <2>5. Fades(s, next, images)
    <3> SUFFICES ASSUME NEW q \in Lists
                 PROVE  LET l == List(q) IN
                   /\ l \in DOMAIN s /\ l \in DOMAIN next => next[l].fade = s[l].fade
                   /\ l \in DOMAIN s /\ l \notin DOMAIN next =>
                        \E i \in DOMAIN images : images[i][1] = l /\ images[i][2] = Absent
                   /\ l \notin DOMAIN s /\ l \in DOMAIN next =>
                        \E i \in DOMAIN images : /\ images[i][1] = l /\ images[i][2] # Absent
                                                 /\ next[l].fade = images[i][2].fade
      BY DEF Fades
    <3> DEFINE l == List(q)
    <3>1. l \in Names /\ Kind(l) = "list"
      BY Named, Kinds
    <3>2. /\ l \in DOMAIN s /\ l \in DOMAIN t => t[l].fade = s[l].fade
          /\ l \in DOMAIN s /\ l \notin DOMAIN t =>
               \E i \in DOMAIN images : images[i][1] = l /\ images[i][2] = Absent
          /\ l \notin DOMAIN s /\ l \in DOMAIN t =>
               \E i \in DOMAIN images : /\ images[i][1] = l /\ images[i][2] # Absent
                                        /\ t[l].fade = images[i][2].fade
      BY DEF Fades
    <3> HIDE DEF l
    <3>3. CASE l = n
      <4>1. images[j][1] = l
        BY <3>3 DEF n
      <4> QED BY <1>1, <2>2, <3>1, <3>3, <4>1 DEF v, n, l
    <3>4. CASE l # n
      <4>1. (l \in DOMAIN next <=> l \in DOMAIN t)
            /\ (l \in DOMAIN t => next[l].fade = t[l].fade)
        BY <2>4, <3>1, <3>4
      <4> QED BY <3>2, <4>1 DEF l
    <3> QED BY <3>3, <3>4
  <2>6. Held(next, n) = v
    BY <2>1, <2>2 DEF Held, There
  <2>7. ASSUME NEW i \in W \cup {j}, images[i][1] = n PROVE Stood(s, next, images[i])
    <3>1. images[i][2] = images[j][2] /\ images[j][1] = n
      BY <2>7 DEF Sound, n
    <3>2. Due(s, images[i]) = v
      BY <2>7, <3>1 DEF Due, v
    <3>3. \A f : images[i][1] # Place(f)
      BY <2>1, <2>7, Kinds
    <3> QED BY <2>6, <2>7, <3>2, <3>3 DEF Stood
  <2>8. ASSUME NEW i \in W, images[i][1] # n PROVE Stood(s, next, images[i])
    <3>0. /\ images[i][1] \in Names \/ \E f \in Fixtures : images[i][1] = Place(f)
          /\ Kind(images[i][1]) = "place" => Kind(n) # "fixture"
      BY DEF Sound, n
    <3>1. CASE images[i][1] \in Names
      <4> DEFINE m == images[i][1]
      <4>1. Kind(m) # "place" /\ \A f : m # Place(f)
        BY <3>1, Naming, Kinds DEF ShowKinds, DeskKinds
      <4>2. (m \in DOMAIN next <=> m \in DOMAIN t) /\ (m \in DOMAIN t => next[m] = t[m])
        <5>1. m \in Names \ {n}
          BY <2>8, <3>1
        <5>2. ~ (Kind(m) = "list" /\ Kind(n) = "preset")
          BY DEF n
        <5> QED BY <2>3, <5>1, <5>2
      <4> HIDE DEF m
      <4>3. Held(next, m) = Held(t, m)
        BY <4>1, <4>2 DEF Held, There
      <4> QED BY <4>1, <4>3 DEF Stood, m
    <3>2. CASE \E f \in Fixtures : images[i][1] = Place(f)
      <4>1. PICK f \in Fixtures : images[i][1] = Place(f)
        BY <3>2
      <4>2. Fixture(f) \in Names \ {n} /\ Kind(Fixture(f)) = "fixture"
            /\ Kind(Place(f)) = "place" /\ Place(f)[2] = f
        BY <3>0, <4>1, Named, Kinds
      <4>3. Fixture(f) \in DOMAIN t
        BY <4>1 DEF Stood
      <4>4. Fixture(f) \in DOMAIN next /\ next[Fixture(f)] = t[Fixture(f)]
        BY <2>3, <4>2, <4>3
      <4>5. Held(next, Place(f)) = Held(t, Place(f))
        BY <4>2, <4>4 DEF Held
      <4>6. \A g : Place(f) = Place(g) => g = f
        BY DEF Place
      <4> QED BY <4>1, <4>4, <4>5, <4>6 DEF Stood
    <3> QED BY <3>0, <3>1, <3>2
  <2>9. images[j][1] = n
    BY DEF n
  <2> QED BY <1>5, <2>5, <2>7, <2>8, <2>9 DEF next
<1>7. CASE \E f \in Fixtures : n = Place(f)
  <2>1. PICK f \in Fixtures : n = Place(f)
    BY <1>7
  <2>2. Kind(n) = "place" /\ n[2] = f
    BY <2>1, Kinds
  <2>3. /\ DOMAIN next = DOMAIN t /\ next[Fixture(f)].hang = v /\ Fixture(f) \in DOMAIN t
        /\ \A m \in DOMAIN t \ {Fixture(f)} : next[m] = t[m]
    BY <1>2, <2>2 DEF PutDoes
  <2> HIDE DEF v, n
  <2>4. Fades(s, next, images)
    <3>1. ASSUME NEW q \in Lists
          PROVE  /\ List(q) \in DOMAIN next <=> List(q) \in DOMAIN t
                 /\ List(q) \in DOMAIN t => next[List(q)] = t[List(q)]
      <4>1. List(q) # Fixture(f)
        BY Kinds
      <4> QED BY <2>3, <4>1
    <3> QED BY <3>1 DEF Fades
  <2>5. ASSUME NEW i \in W \cup {j} PROVE Stood(s, next, images[i])
    <3>0. /\ images[i][1] \in Names \/ \E g \in Fixtures : images[i][1] = Place(g)
          /\ Kind(images[i][1]) # "fixture"
      BY <2>2 DEF Sound, n
    <3>1. CASE images[i][1] = n
      <4>1. images[i][2] = images[j][2] /\ images[j][1] = n
        BY <3>1 DEF Sound, n
      <4>2. Due(s, images[i]) = v
        BY <3>1, <4>1 DEF Due, v
      <4>3. \A g : Place(f) = Place(g) => g = f
        BY DEF Place
      <4>4. Held(next, n) = v
        BY <2>2, <2>3 DEF Held
      <4> QED BY <2>1, <2>3, <3>1, <4>2, <4>3, <4>4 DEF Stood
    <3>2. CASE images[i][1] # n /\ images[i][1] \in Names
      <4> DEFINE m == images[i][1]
      <4>1. Kind(m) # "place" /\ m # Fixture(f) /\ i \in W /\ \A g : m # Place(g)
        <5>1. i \in W
          BY <3>2 DEF n
        <5> QED BY <3>0, <3>2, <5>1, Naming, Kinds DEF ShowKinds, DeskKinds
      <4> HIDE DEF m
      <4>2. Held(next, m) = Held(t, m)
        BY <2>3, <4>1 DEF Held, There
      <4> QED BY <4>1, <4>2 DEF Stood, m
    <3>3. CASE images[i][1] # n /\ \E g \in Fixtures : images[i][1] = Place(g)
      <4>1. PICK g \in Fixtures : images[i][1] = Place(g)
        BY <3>3
      <4>2. i \in W
        BY <3>3 DEF n
      <4>3. g # f /\ Kind(Place(g)) = "place" /\ Place(g)[2] = g
        BY <2>1, <3>3, <4>1, Kinds
      <4>4. Fixture(g) # Fixture(f) /\ Fixture(g) \in DOMAIN t
        <5>1. Fixture(g) # Fixture(f)
          BY <4>3 DEF Fixture
        <5> QED BY <4>1, <4>2, <5>1 DEF Stood
      <4>5. Held(next, Place(g)) = Held(t, Place(g))
        BY <2>3, <4>3, <4>4 DEF Held
      <4>6. \A h : Place(g) = Place(h) => h = g
        BY DEF Place
      <4> QED BY <2>3, <4>1, <4>2, <4>4, <4>5, <4>6 DEF Stood
    <3> QED BY <3>0, <3>1, <3>2, <3>3
  <2> QED BY <1>5, <2>4, <2>5 DEF next
<1> QED BY <1>3, <1>6, <1>7

\* Whose turn an image is.
LEMMA Turns ==
    ASSUME NEW image
    PROVE  /\ Turn(image) \in {"desk", "out", "in", "rest"}
           /\ Turn(image) \in {"out", "in"} => Kind(image[1]) = "fixture"
           /\ image[1] \notin DeskNames /\ Kind(image[1]) # "fixture" => Turn(image) = "rest"
BY Kinds DEF Turn, DeskNames

LEMMA WrittenStep ==
    ASSUME NEW s, IsState(s), NEW images, Sound(images), NEW W, W \subseteq DOMAIN images,
           NEW r, Walked(s, r, images, W), NEW j \in DOMAIN images,
           \A i \in W : ~ (Kind(images[i][1]) = "list" /\ Kind(images[j][1]) = "preset")
    PROVE  Walked(s, Written(r, images[j]), images, W \cup {j})
<1> DEFINE n == images[j][1]
           v == images[j][2]
           t == r.state
           w == Written(r, images[j])
<1>1. /\ r \in Answers /\ IsState(t) /\ r.ok \in BOOLEAN /\ r = [ok |-> r.ok, state |-> t]
      /\ Fades(s, t, images)
      /\ r.ok => \A i \in W : Stood(s, t, images[i])
  BY AnswerState DEF Walked
<1>2. CASE ~ r.ok
  <2>1. w = r
    BY <1>2 DEF Written
  <2> QED BY <1>1, <1>2, <2>1 DEF Walked
<1>3. CASE r.ok /\ n \in DeskNames
  <2> DEFINE next == [t EXCEPT ![n] = v]
  <2>1. w = [ok |-> TRUE, state |-> next]
    BY <1>1, <1>3 DEF Written
  <2>2. IsValue(n, v) /\ n \in DOMAIN t /\ n \in Names
    BY <1>1, <1>3 DEF Sound, IsState, Names
  <2>3. IsState(next)
    BY <1>1, <2>2, StateSet
  <2>4. DOMAIN next = DOMAIN t /\ next[n] = v /\ \A m \in DOMAIN t \ {n} : next[m] = t[m]
    BY <2>2
  <2>5. Kind(n) \in DeskKinds
    BY <1>3, <2>2, Naming
  <2> HIDE DEF next
  <2>6. Fades(s, next, images)
    <3>1. ASSUME NEW q \in Lists
          PROVE  /\ List(q) \in DOMAIN next <=> List(q) \in DOMAIN t
                 /\ List(q) \in DOMAIN t => next[List(q)] = t[List(q)]
      <4>1. List(q) # n
        BY <2>5, Kinds DEF DeskKinds
      <4> QED BY <2>4, <4>1
    <3> QED BY <1>1, <3>1 DEF Fades
  <2>7. ASSUME NEW i \in W \cup {j} PROVE Stood(s, next, images[i])
    <3>1. images[i][1] \in Names \/ \E g \in Fixtures : images[i][1] = Place(g)
      BY DEF Sound
    <3>2. CASE images[i][1] = n
      <4>1. images[i][2] = v
        BY <3>2 DEF Sound
      <4>2. Kind(n) # "list" /\ Kind(n) # "place" /\ \A g : n # Place(g)
        BY <2>5, Kinds DEF DeskKinds
      <4>3. Held(next, n) = v
        BY <2>2, <2>4, <4>2 DEF Held, There
      <4> QED BY <3>2, <4>1, <4>2, <4>3 DEF Stood, Due
    <3>3. CASE images[i][1] # n /\ images[i][1] \in Names
      <4> DEFINE m == images[i][1]
      <4>1. i \in W /\ Kind(m) # "place" /\ \A g : m # Place(g)
        BY <3>3, Naming, Kinds DEF ShowKinds, DeskKinds
      <4>2. Held(next, m) = Held(t, m)
        BY <2>4, <3>3, <4>1 DEF Held, There
      <4> QED BY <1>1, <1>3, <4>1, <4>2 DEF Stood
    <3>4. CASE images[i][1] # n /\ \E g \in Fixtures : images[i][1] = Place(g)
      <4>1. PICK g \in Fixtures : images[i][1] = Place(g)
        BY <3>4
      <4>2. i \in W
        BY <3>4
      <4>3. Kind(Place(g)) = "place" /\ Place(g)[2] = g /\ Fixture(g) # n
        BY <2>5, Kinds DEF DeskKinds
      <4>4. Stood(s, t, images[i])
        BY <1>1, <1>3, <4>2
      <4>5. Fixture(g) \in DOMAIN t
        BY <4>1, <4>4 DEF Stood
      <4>6. Held(next, Place(g)) = Held(t, Place(g))
        BY <2>4, <4>3, <4>5 DEF Held
      <4>7. \A h : Place(g) = Place(h) => h = g
        BY DEF Place
      <4> QED BY <2>4, <4>1, <4>4, <4>5, <4>6, <4>7 DEF Stood
    <3> QED BY <3>1, <3>2, <3>3, <3>4
  <2>8. w \in Answers /\ w.state = next
    BY <2>1, <2>3, StatesAll DEF Answers
  <2> HIDE DEF w
  <2> QED BY <2>6, <2>7, <2>8 DEF Walked, w
<1>4. CASE r.ok /\ n \notin DeskNames /\ Accepts(t, n, v)
  <2> DEFINE next == PutBack(t, images[j])
  <2>1. w = [ok |-> TRUE, state |-> next]
    BY <1>1, <1>4 DEF Written
  <2>2. /\ IsState(next) /\ Fades(s, next, images)
        /\ \A i \in W \cup {j} : Stood(s, next, images[i])
    BY <1>1, <1>4, PutBackStep
  <2> HIDE DEF next
  <2>3. w \in Answers /\ w.state = next
    BY <2>1, <2>2, StatesAll DEF Answers
  <2> HIDE DEF w
  <2> QED BY <2>2, <2>3 DEF Walked, w
<1>5. CASE r.ok /\ n \notin DeskNames /\ ~ Accepts(t, n, v)
  <2>1. w = [ok |-> FALSE, state |-> t]
    BY <1>1, <1>5 DEF Written
  <2>2. w \in Answers /\ w.state = t /\ ~ w.ok
    BY <1>1, <2>1, StatesAll DEF Answers
  <2> HIDE DEF w, t
  <2> QED BY <1>1, <2>2 DEF Walked, w, t
<1> QED BY <1>1, <1>2, <1>3, <1>4, <1>5

\* Nothing is back yet.
LEMMA WalkedNone ==
    ASSUME NEW r \in Answers, NEW images
    PROVE  Walked(r.state, r, images, {})
BY DEF Walked, Fades

\* A pass goes over the images one by one.
LEMMA PassSteps ==
    ASSUME NEW images, Sound(images), NEW r \in Answers, NEW turn
    PROVE  \E after \in [0 .. Len(images) -> Answers] :
             /\ after[0] = r
             /\ \A i \in 1 .. Len(images) :
                  after[i] = IF Turn(images[i]) = turn
                             THEN Written(after[i - 1], images[i]) ELSE after[i - 1]
             /\ Pass(r, images, turn) = after[Len(images)]
<1> DEFINE n == Len(images)
           Next_(a, i) == IF Turn(images[i]) = turn THEN Written(a, images[i]) ELSE a
           IsPass(g) == g = [i \in 0 .. n |-> IF i = 0 THEN r
                                ELSE IF Turn(images[i]) = turn
                                     THEN Written(g[i - 1], images[i]) ELSE g[i - 1]]
           F == [i \in 1 .. n |-> [a \in Answers |-> Next_(a, i)]]
<1>1. n \in Nat /\ DOMAIN images = 1 .. n
  BY DEF Sound
<1>2. Pass(r, images, turn) = (CHOOSE g : IsPass(g))[n]
  BY DEF Pass
<1>3. ASSUME NEW a \in Answers, NEW i \in 1 .. n
      PROVE  Next_(a, i) \in Answers
  <2>1. Walked(a.state, a, images, {}) /\ IsState(a.state)
    BY WalkedNone, AnswerState
  <2>2. Walked(a.state, Written(a, images[i]), images, {} \cup {i})
    BY <1>1, <2>1, WrittenStep
  <2> QED BY <2>2 DEF Walked
<1> HIDE DEF n
<1>4. F \in [1 .. n -> [Answers -> Answers]]
  <2> HIDE DEF Next_
  <2> QED BY <1>3
<1>5. \A i \in 1 .. n : \A a \in Answers : F[i][a] = Next_(a, i)
  OBVIOUS
<1> HIDE DEF F
<1>6. PICK g : Recurs(g, n, Answers, r, F)
  BY <1>1, <1>4, Recursion
<1>7. g \in [0 .. n -> Answers] /\ g[0] = r
      /\ \A i \in 1 .. n : g[i] = Next_(g[i - 1], i)
  <2>1. \A i \in 1 .. n : i - 1 \in 0 .. n
    BY <1>1
  <2> QED BY <1>5, <1>6, <2>1 DEF Recurs
<1>8. IsPass(g)
  <2>1. ASSUME NEW i \in 0 .. n
        PROVE  g[i] = IF i = 0 THEN r
                      ELSE IF Turn(images[i]) = turn
                           THEN Written(g[i - 1], images[i]) ELSE g[i - 1]
    <3>1. i # 0 => i \in 1 .. n
      BY <1>1
    <3> QED BY <1>7, <3>1
  <2> QED BY <1>7, <2>1
<1> DEFINE after == CHOOSE h : IsPass(h)
<1>9. IsPass(after)
  BY <1>8
<1>10. after = [i \in 0 .. n |-> after[i]] /\ after[0] = r
       /\ \A i \in 1 .. n : after[i] = Next_(after[i - 1], i)
  <2> HIDE DEF after
  <2>1. after = [i \in 0 .. n |-> after[i]]
    BY <1>9
  <2>2. \A i \in 0 .. n : after[i] = IF i = 0 THEN r
                      ELSE IF Turn(images[i]) = turn
                           THEN Written(after[i - 1], images[i]) ELSE after[i - 1]
    BY <1>9
  <2>3. 0 \in 0 .. n /\ \A i \in 1 .. n : i \in 0 .. n /\ i # 0
    BY <1>1
  <2> QED BY <2>1, <2>2, <2>3
<1> HIDE DEF after, IsPass
<1> DEFINE T == { i \in 0 .. n : after[i] \in Answers }
<1>11. 0 \in T /\ \A i \in 1 .. n : i - 1 \in T => i \in T
  <2>1. 0 \in T
    BY <1>1, <1>10
  <2>2. ASSUME NEW i \in 1 .. n, after[i - 1] \in Answers PROVE after[i] \in Answers
    <3>1. after[i] = Next_(after[i - 1], i)
      BY <1>10
    <3> HIDE DEF Next_
    <3> QED BY <1>3, <2>2, <3>1
  <2>3. \A i \in 1 .. n : i \in 0 .. n
    BY <1>1
  <2> QED BY <2>1, <2>2, <2>3
<1> HIDE DEF T
<1>12. \A i \in 0 .. n : i \in T
  BY <1>1, <1>11, Climb
<1>13. after \in [0 .. n -> Answers]
  BY <1>10, <1>12 DEF T
<1>14. /\ after[0] = r
       /\ \A i \in 1 .. n : after[i] = IF Turn(images[i]) = turn
                                        THEN Written(after[i - 1], images[i])
                                        ELSE after[i - 1]
       /\ Pass(r, images, turn) = after[n]
  BY <1>2, <1>10 DEF after
<1> QED BY <1>13, <1>14 DEF n

\* One pass over the images.  A list that is back already is not reached by a
\* preset of the same pass.
LEMMA PassWalks ==
    ASSUME NEW s, IsState(s), NEW images, Sound(images), NEW W, W \subseteq DOMAIN images,
           NEW r, Walked(s, r, images, W), NEW turn,
           turn = "rest" => \A i \in W : Kind(images[i][1]) # "list"
    PROVE  Walked(s, Pass(r, images, turn), images,
                  W \cup { i \in DOMAIN images : Turn(images[i]) = turn })
<1> DEFINE n == Len(images)
           Next_(a, i) == IF Turn(images[i]) = turn THEN Written(a, images[i]) ELSE a
<1>1. n \in Nat /\ DOMAIN images = 1 .. n
  BY DEF Sound
<1>2. r \in Answers
  BY DEF Walked
<1>3. PICK after \in [0 .. n -> Answers] :
        /\ after[0] = r
        /\ \A i \in 1 .. n : after[i] = Next_(after[i - 1], i)
        /\ Pass(r, images, turn) = after[n]
  BY <1>2, PassSteps
<1> HIDE DEF n
<1> DEFINE Upto(i) == W \cup { k \in 1 .. n : k <= i /\ Turn(images[k]) = turn }
           Back(i) == Walked(s, after[i], images, Upto(i))
           T == { i \in 0 .. n : Back(i) }
<1>4. 0 \in T
  <2>1. Upto(0) = W
    OBVIOUS
  <2> HIDE DEF Upto
  <2>2. Back(0)
    BY <1>3, <2>1
  <2> HIDE DEF Back
  <2> QED BY <1>1, <2>2
<1>5. ASSUME NEW i \in 1 .. n, i - 1 \in T PROVE i \in T
  <2>1. Walked(s, after[i - 1], images, Upto(i - 1)) /\ Upto(i - 1) \subseteq DOMAIN images
    BY <1>1, <1>5
  <2>2. after[i] = Next_(after[i - 1], i)
    BY <1>3
  <2>3. CASE Turn(images[i]) # turn
    <3>1. Upto(i) = Upto(i - 1)
      BY <1>1, <2>3
    <3>2. after[i] = after[i - 1]
      BY <2>2, <2>3
    <3> HIDE DEF Upto
    <3>3. Back(i)
      BY <2>1, <3>1, <3>2
    <3> HIDE DEF Back
    <3> QED BY <1>1, <3>3
  <2>4. CASE Turn(images[i]) = turn
    <3>1. Upto(i) = Upto(i - 1) \cup {i}
      BY <1>1, <2>4
    <3>2. ASSUME NEW k \in Upto(i - 1), Kind(images[k][1]) = "list",
                 Kind(images[i][1]) = "preset"
          PROVE  FALSE
      <4>1. turn = "rest"
        <5>1. images[i][1] \notin DeskNames
          BY <3>2, Kinds DEF DeskNames
        <5>2. Kind(images[i][1]) # "fixture"
          BY <3>2
        <5>3. Turn(images[i]) = "rest"
          BY <5>1, <5>2, Turns
        <5> QED BY <2>4, <5>3
      <4>2. k \notin W
        BY <3>2, <4>1
      <4>3. k \in DOMAIN images /\ k < i /\ i \in DOMAIN images
        BY <1>1, <4>2
      <4> QED BY <3>2, <4>3 DEF Sound
    <3>3. i \in DOMAIN images
      BY <1>1
    <3> HIDE DEF Upto
    <3>4. Walked(s, Written(after[i - 1], images[i]), images, Upto(i - 1) \cup {i})
      <4> HIDE DEF Next_, Back, T
      <4> QED BY <2>1, <3>2, <3>3, WrittenStep
    <3>5. Back(i)
      BY <2>2, <2>4, <3>1, <3>4
    <3> HIDE DEF Back
    <3> QED BY <1>1, <3>5
  <2> QED BY <2>3, <2>4
<1> HIDE DEF T
<1>6. \A i \in 0 .. n : i \in T
  BY <1>1, <1>4, <1>5, Climb
<1>7. Walked(s, after[n], images, Upto(n))
  <2>1. n \in T
    BY <1>1, <1>6
  <2> HIDE DEF Upto
  <2> QED BY <2>1 DEF T
<1>8. Upto(n) = W \cup { i \in DOMAIN images : Turn(images[i]) = turn }
  BY <1>1
<1> QED BY <1>3, <1>7, <1>8

\* Oops and Redo: what is written is a state, no crossfade is moved, and every image
\* is back unless one was refused.
LEMMA Restores ==
    ASSUME NEW s, IsState(s), NEW images, Sound(images)
    PROVE  Walked(s, Restore(s, images), images, DOMAIN images)
<1> DEFINE Of(turn) == { i \in DOMAIN images : Turn(images[i]) = turn }
           begun == [ok |-> TRUE, state |-> s]
           out  == Pass(begun, images, "out")
           rest == Pass(out, images, "rest")
           in   == Pass(rest, images, "in")
           desk == Pass(in, images, "desk")
<1>1. begun \in Answers /\ begun.state = s
  BY StatesAll DEF Answers
<1>2. Walked(s, begun, images, {})
  BY <1>1, WalkedNone
<1> HIDE DEF begun
<1>3. Walked(s, out, images, {} \cup Of("out"))
  <2>1. {} \subseteq DOMAIN images
    OBVIOUS
  <2> QED BY <1>2, <2>1, PassWalks
<1>4. \A i \in {} \cup Of("out") : Kind(images[i][1]) # "list"
  BY Turns
<1> HIDE DEF out
<1> HIDE DEF Of
<1>40. \A turn : Of(turn) = { i \in DOMAIN images : Turn(images[i]) = turn }
                /\ Of(turn) \subseteq DOMAIN images
  BY DEF Of
<1>5. Walked(s, rest, images, {} \cup Of("out") \cup Of("rest"))
  BY <1>3, <1>4, <1>40, PassWalks
<1> HIDE DEF rest
<1>6. Walked(s, in, images, {} \cup Of("out") \cup Of("rest") \cup Of("in"))
  BY <1>5, <1>40, PassWalks
<1> HIDE DEF in
<1>7. Walked(s, desk, images, {} \cup Of("out") \cup Of("rest") \cup Of("in") \cup Of("desk"))
  BY <1>6, <1>40, PassWalks
<1>8. {} \cup Of("out") \cup Of("rest") \cup Of("in") \cup Of("desk") = DOMAIN images
  BY Turns DEF Of
<1>9. Restore(s, images) = desk
  BY DEF Restore, RestoreDesk, RestoreShow, begun, out, rest, in
<1> QED BY <1>7, <1>8, <1>9

-----------------------------------------------------------------------------
(* States that differ only where a hand may have moved a fader             *)

\* Two values under a name that are the same but for the faders of a list.
SameAt(n, u, v) ==
    IF Kind(n) = "list"
    THEN u.name = v.name /\ u.color = v.color /\ u.cues = v.cues
    ELSE u = v

\* Two states that are the same but for those and for which list is selected.
Alike(s, t) ==
    \A n \in Names \ {Selected} :
        (n \in DOMAIN s <=> n \in DOMAIN t) /\ (n \in DOMAIN s => SameAt(n, s[n], t[n]))

LEMMA ListAtRest ==
    ASSUME NEW u, IsList(u)
    PROVE  [u EXCEPT !.master = Full, !.fade = Rest]
             = [name |-> u.name, color |-> u.color, master |-> Full,
                fade |-> Rest, cues |-> u.cues]
<1> DEFINE l == [u EXCEPT !.master = Full]
           R == [name : {u.name}, color : {u.color}, master : {u.master},
                 fade : {u.fade}, cues : {u.cues}]
<1>1. u \in R
  BY ListFields
<1>2. l \in [name : {u.name}, color : {u.color}, master : {Full},
              fade : {u.fade}, cues : {u.cues}]
  BY <1>1
<1> HIDE DEF l
<1>3. [l EXCEPT !.fade = Rest] \in [name : {u.name}, color : {u.color}, master : {Full},
                                     fade : {Rest}, cues : {u.cues}]
  BY <1>2
<1>4. [l EXCEPT !.fade = Rest] = [name |-> u.name, color |-> u.color, master |-> Full,
                                  fade |-> Rest, cues |-> u.cues]
  BY <1>3
<1>5. [u EXCEPT !.master = Full, !.fade = Rest] = [l EXCEPT !.fade = Rest]
  BY DEF l
<1> QED BY <1>4, <1>5

LEMMA ListAlike ==
    ASSUME NEW u, IsList(u), NEW v, IsList(v)
    PROVE  [u EXCEPT !.master = Full, !.fade = Rest] = [v EXCEPT !.master = Full, !.fade = Rest]
             <=> u.name = v.name /\ u.color = v.color /\ u.cues = v.cues
<1> DEFINE a == [u EXCEPT !.master = Full, !.fade = Rest]
           b == [v EXCEPT !.master = Full, !.fade = Rest]
<1>1. /\ a = [name |-> u.name, color |-> u.color, master |-> Full,
              fade |-> Rest, cues |-> u.cues]
      /\ b = [name |-> v.name, color |-> v.color, master |-> Full,
              fade |-> Rest, cues |-> v.cues]
  BY ListAtRest
<1> HIDE DEF a, b
<1>2. a.name = u.name /\ a.color = u.color /\ a.cues = u.cues
      /\ b.name = v.name /\ b.color = v.color /\ b.cues = v.cues
  BY <1>1
<1>3. a = b <=> u.name = v.name /\ u.color = v.color /\ u.cues = v.cues
  BY <1>1, <1>2
<1> QED BY <1>3 DEF a, b

\* It is what Undoable leaves of a state that tells two of them apart.
LEMMA UndoableIs ==
    ASSUME NEW s, IsState(s), NEW t, IsState(t)
    PROVE  Undoable(s) = Undoable(t) <=> Alike(s, t)
<1> DEFINE U(n, v) == IF Kind(n) = "list" THEN [v EXCEPT !.master = Full, !.fade = Rest]
                                           ELSE v
           a == Undoable(s)
           b == Undoable(t)
<1>1. /\ a = [n \in DOMAIN s \ {Selected} |-> U(n, s[n])]
      /\ b = [n \in DOMAIN t \ {Selected} |-> U(n, t[n])]
  BY DEF Undoable
<1>2. ASSUME NEW n \in Names, n \in DOMAIN s, n \in DOMAIN t
      PROVE  U(n, s[n]) = U(n, t[n]) <=> SameAt(n, s[n], t[n])
  <2>1. CASE Kind(n) = "list"
    <3>1. IsList(s[n]) /\ IsList(t[n])
      BY <1>2, <2>1, Naming, InState, ValueOf
    <3> QED BY <2>1, <3>1, ListAlike DEF SameAt
  <2>2. CASE Kind(n) # "list"
    BY <2>2 DEF SameAt
  <2> QED BY <2>1, <2>2
<1>3. DOMAIN s \subseteq Names /\ DOMAIN t \subseteq Names
  BY DEF IsState
<1> HIDE DEF U, a, b
<1>4. /\ DOMAIN a = DOMAIN s \ {Selected} /\ DOMAIN b = DOMAIN t \ {Selected}
      /\ \A n \in DOMAIN a : a[n] = U(n, s[n])
      /\ \A n \in DOMAIN b : b[n] = U(n, t[n])
  BY <1>1
<1>5. ASSUME a = b PROVE Alike(s, t)
  <2> SUFFICES ASSUME NEW n \in Names \ {Selected}
               PROVE  (n \in DOMAIN s <=> n \in DOMAIN t)
                      /\ (n \in DOMAIN s => SameAt(n, s[n], t[n]))
    BY DEF Alike
  <2>1. n \in DOMAIN s <=> n \in DOMAIN t
    BY <1>4, <1>5
  <2>2. ASSUME n \in DOMAIN s PROVE SameAt(n, s[n], t[n])
    <3>1. n \in DOMAIN a /\ n \in DOMAIN b /\ n \in DOMAIN t
      BY <1>4, <2>1, <2>2
    <3>2. U(n, s[n]) = U(n, t[n])
      BY <1>4, <1>5, <3>1
    <3> QED BY <1>2, <2>2, <3>1, <3>2
  <2> QED BY <2>1, <2>2
<1>6. ASSUME Alike(s, t) PROVE a = b
  <2>1. DOMAIN a = DOMAIN b
    BY <1>3, <1>4, <1>6 DEF Alike
  <2>2. ASSUME NEW n \in DOMAIN a PROVE a[n] = b[n]
    <3>1. n \in Names \ {Selected} /\ n \in DOMAIN s /\ n \in DOMAIN t
      BY <1>3, <1>4, <2>1
    <3>2. SameAt(n, s[n], t[n])
      BY <1>6, <3>1 DEF Alike
    <3> QED BY <1>2, <1>4, <2>1, <3>1, <3>2
  <2>3. a = [n \in DOMAIN a |-> a[n]] /\ b = [n \in DOMAIN b |-> b[n]]
    BY <1>1
  <2> QED BY <2>1, <2>2, <2>3
<1> QED BY <1>5, <1>6 DEF a, b

\* What two such states agree on.
LEMMA AlikeNames ==
    ASSUME NEW s, IsState(s), NEW t, IsState(t), Alike(s, t)
    PROVE  /\ \A n \in ShowNames : n \in DOMAIN s <=> n \in DOMAIN t
           /\ \A n \in ShowNames : n \in DOMAIN s /\ Kind(n) # "list" => s[n] = t[n]
           /\ \A n \in ShowNames : n \in DOMAIN s /\ Kind(n) = "list" =>
                /\ s[n].name = t[n].name /\ s[n].color = t[n].color
                /\ s[n].cues = t[n].cues
           /\ Patched(s) = Patched(t) /\ MarksSet(s) = MarksSet(t)
           /\ \A x : Standing(s, x) = Standing(t, x)
<1>1. ASSUME NEW n \in ShowNames
      PROVE  /\ n \in DOMAIN s <=> n \in DOMAIN t
             /\ n \in DOMAIN s => SameAt(n, s[n], t[n])
  <2>1. n \in Names \ {Selected}
    <3>1. n \in Names /\ Kind(n) \in ShowKinds
      BY <1>1, Named, Naming
    <3> QED BY <3>1, Kinds DEF ShowKinds
  <2> QED BY <2>1 DEF Alike
<1>2. Patched(s) = Patched(t) /\ MarksSet(s) = MarksSet(t)
  BY <1>1, Named DEF Patched, MarksSet, There
<1>3. ASSUME NEW x PROVE Standing(s, x) = Standing(t, x)
  <2>1. ASSUME NEW f \in Patched(s) PROVE s[Fixture(f)] = t[Fixture(f)]
    <3>1. Fixture(f) \in ShowNames /\ Fixture(f) \in DOMAIN s /\ Kind(Fixture(f)) = "fixture"
      BY Named, Kinds DEF Patched, There
    <3> QED BY <1>1, <3>1 DEF SameAt
  <2> QED BY <1>2, <2>1 DEF Standing
<1> QED BY <1>1, <1>2, <1>3 DEF SameAt

\* What the show refuses is the same for both.
LEMMA AcceptsAlike ==
    ASSUME NEW s, IsState(s), NEW t, IsState(t), Alike(s, t), NEW n, NEW v,
           n \in ShowNames \/ \E f \in Fixtures : n = Place(f),
           v = Absent \/ IsValue(n, v)
    PROVE  Accepts(s, n, v) <=> Accepts(t, n, v)
<1>1. /\ \A m \in ShowNames : m \in DOMAIN s <=> m \in DOMAIN t
      /\ \A m \in ShowNames : m \in DOMAIN s /\ Kind(m) # "list" => s[m] = t[m]
      /\ Patched(s) = Patched(t) /\ MarksSet(s) = MarksSet(t)
      /\ \A x : Standing(s, x) = Standing(t, x)
  BY AlikeNames
<1>2. CASE v = Absent
  <2>1. CASE n \in ShowNames
    <3>1. There(s, n) <=> There(t, n)
      BY <1>1, <2>1 DEF There
    <3>2. MayGo(s, n) <=> MayGo(t, n)
      BY <1>1, <3>1 DEF MayGo
    <3> QED BY <1>2, <3>2 DEF Accepts
  <2>2. CASE \E f \in Fixtures : n = Place(f)
    <3>1. Kind(n) = "place" /\ n \notin Names
      BY <2>2, Kinds, Naming DEF ShowKinds, DeskKinds
    <3>2. ~ There(s, n) /\ ~ There(t, n)
      BY <3>1 DEF There, IsState
    <3>3. ~ MayGo(s, n) /\ ~ MayGo(t, n)
      BY <3>1, <3>2 DEF MayGo
    <3> QED BY <1>2, <3>3 DEF Accepts
  <2> QED BY <2>1, <2>2
<1>3. CASE v # Absent /\ IsValue(n, v)
  <2> SUFFICES MayBe(s, n, v) <=> MayBe(t, n, v)
    BY <1>3 DEF Accepts
  <2>1. CASE \E f \in Fixtures : n = Place(f)
    <3>1. Kind(n) = "place"
      BY <2>1, Kinds
    <3> QED BY <1>1, <3>1 DEF MayBe
  <2>2. CASE n \in ShowNames
    <3>0. n \in Names /\ Kind(n) \in ShowKinds
      BY <2>2, Named, Naming
    <3>1. CASE Kind(n) = "fixture"
      <4>1. v.type \in Types
        <5>1. v \in [type : Types, at : Addresses, hang : Settings]
          BY <1>3, <3>0, <3>1, Naming, ValueOf
        <5> QED BY <5>1
      <4>2. Type(v.type) \in ShowNames /\ Kind(Type(v.type)) = "type"
        BY <4>1, Named, Kinds
      <4>3. /\ There(s, Type(v.type)) <=> There(t, Type(v.type))
            /\ There(s, Type(v.type)) => s[Type(v.type)] = t[Type(v.type)]
        BY <1>1, <4>2 DEF There
      <4> QED BY <3>1, <4>3 DEF MayBe
    <3>2. CASE Kind(n) = "type"
      <4>1. ASSUME NEW f \in Standing(s, n[2]) PROVE s[Fixture(f)].at = t[Fixture(f)].at
        <5>1. Fixture(f) \in ShowNames /\ Fixture(f) \in DOMAIN s
              /\ Kind(Fixture(f)) = "fixture"
          BY Named, Kinds DEF Standing, Patched, There
        <5> QED BY <1>1, <5>1
      <4> QED BY <1>1, <3>2, <4>1 DEF MayBe
    <3>3. CASE Kind(n) \in {"mark", "group", "preset"}
      BY <1>1, <3>3 DEF MayBe
    <3>4. CASE Kind(n) = "list"
      <4>1. IsList(v)
        BY <1>3, <3>0, <3>4, Naming, ValueOf
      <4>2. ASSUME NEW k \in DOMAIN v.cues
            PROVE  PlayableCue(s, v.cues[k]) <=> PlayableCue(t, v.cues[k])
        <5> DEFINE cue == v.cues[k]
        <5>1. IsPartial(cue.parts, Fixtures, Parts)
          BY <4>1, ListFields, CueFields DEF IsCues
        <5> HIDE DEF cue
        <5>2. ASSUME NEW f \in DOMAIN cue.parts, cue.parts[f].link # Absent
              PROVE  There(s, Preset(cue.parts[f].link)) <=> There(t, Preset(cue.parts[f].link))
          <6>1. cue.parts[f].link \in Presets
            BY <5>1, <5>2 DEF IsPartial, Parts
          <6>2. Preset(cue.parts[f].link) \in ShowNames
            BY <6>1, Named
          <6> QED BY <1>1, <6>2 DEF There
        <5>3. PlayableCue(s, cue) <=> PlayableCue(t, cue)
          BY <1>1, <5>2 DEF PlayableCue
        <5> QED BY <5>3 DEF cue
      <4>3. Playable(s, v.cues) <=> Playable(t, v.cues)
        BY <4>2 DEF Playable
      <4> QED BY <3>4, <4>3 DEF MayBe
    <3>5. CASE Kind(n) = "executor"
      <4>1. v.list # Absent => v.list \in Lists
        <5>1. v \in [list : {Absent} \cup Lists, keys : Settings]
          BY <1>3, <3>0, <3>5, Naming, ValueOf
        <5> QED BY <5>1
      <4>2. v.list # Absent => (There(s, List(v.list)) <=> There(t, List(v.list)))
        BY <1>1, <4>1, Named DEF There
      <4> QED BY <3>5, <4>2 DEF MayBe
    <3> QED BY <3>0, <3>1, <3>2, <3>3, <3>4, <3>5 DEF ShowKinds
  <2> QED BY <2>1, <2>2
<1> QED BY <1>2, <1>3

\* And they stay alike when the same is written to both.
LEMMA RelinksAlike ==
    ASSUME NEW s, IsState(s), NEW t, IsState(t), Alike(s, t), NEW p, NEW values,
           IsPartial(values, Fixtures, Values)
    PROVE  Alike(Relink(s, p, values), Relink(t, p, values))
<1> DEFINE change == [f \in Fixtures |-> [part \in Parts |->
                IF part.link = p /\ f \in DOMAIN values
                THEN [part EXCEPT !.value = values[f]] ELSE part]]
           New(l) == [l EXCEPT !.cues = ChangedIn(l.cues, change)]
           a == Relink(s, p, values)
           b == Relink(t, p, values)
<1>1. /\ a = [n \in DOMAIN s |-> IF Kind(n) # "list" THEN s[n] ELSE New(s[n])]
      /\ b = [n \in DOMAIN t |-> IF Kind(n) # "list" THEN t[n] ELSE New(t[n])]
  BY DEF Relink, MapParts
<1>2. ASSUME NEW l, IsList(l), NEW k, IsList(k),
             l.name = k.name /\ l.color = k.color /\ l.cues = k.cues
      PROVE  /\ New(l).name = New(k).name /\ New(l).color = New(k).color
             /\ New(l).cues = New(k).cues
  <2> DEFINE cues == ChangedIn(l.cues, change)
  <2>1. New(l) = [l EXCEPT !.cues = cues] /\ New(k) = [k EXCEPT !.cues = cues]
    BY <1>2
  <2>2. /\ l = [name |-> l.name, color |-> l.color, master |-> l.master,
                fade |-> l.fade, cues |-> l.cues]
        /\ k = [name |-> k.name, color |-> k.color, master |-> k.master,
                fade |-> k.fade, cues |-> k.cues]
    BY <1>2, ListFields
  <2> HIDE DEF cues, New
  <2>3. /\ New(l).name = l.name /\ New(l).color = l.color /\ New(l).cues = cues
        /\ New(k).name = k.name /\ New(k).color = k.color /\ New(k).cues = cues
    BY <2>1, <2>2
  <2> QED BY <1>2, <2>3
<1> HIDE DEF New, a, b
<1>3. ASSUME NEW n \in Names \ {Selected}
      PROVE  (n \in DOMAIN a <=> n \in DOMAIN b) /\ (n \in DOMAIN a => SameAt(n, a[n], b[n]))
  <2>1. (n \in DOMAIN s <=> n \in DOMAIN t) /\ (n \in DOMAIN s => SameAt(n, s[n], t[n]))
    BY DEF Alike
  <2>2. CASE n \in DOMAIN s /\ Kind(n) = "list"
    <3>1. IsList(s[n]) /\ IsList(t[n])
      BY <2>1, <2>2, Naming, InState, ValueOf
    <3>2. a[n] = New(s[n]) /\ b[n] = New(t[n])
      BY <1>1, <2>1, <2>2
    <3> QED BY <1>1, <1>2, <2>1, <2>2, <3>1, <3>2 DEF SameAt
  <2>3. CASE n \in DOMAIN s /\ Kind(n) # "list"
    BY <1>1, <2>1, <2>3 DEF SameAt
  <2>4. CASE n \notin DOMAIN s
    BY <1>1, <2>1, <2>4
  <2> QED BY <2>2, <2>3, <2>4
<1> QED BY <1>3 DEF Alike, a, b

LEMMA PutsAlike ==
    ASSUME NEW s, IsState(s), NEW t, IsState(t), Alike(s, t), NEW n, NEW v, NEW w,
           Writable(s, n, v), Writable(t, n, w),
           v = Absent <=> w = Absent, v # Absent => SameAt(n, v, w)
    PROVE  Alike(Put(s, n, v), Put(t, n, w))
<1> DEFINE a == Put(s, n, v)
           b == Put(t, n, w)
<1>1. CASE \E f \in Patched(s) : n = Place(f) /\ v \in Settings
  <2>1. PICK f \in Patched(s) : n = Place(f) /\ v \in Settings
    BY <1>1
  <2>2. Kind(n) = "place" /\ n[2] = f /\ v # Absent /\ w # Absent /\ w = v
    BY <2>1, Kinds, ShowAssumption DEF SameAt
  <2> DEFINE name == Fixture(f)
  <2>3. name \in DOMAIN s /\ name \in DOMAIN t /\ s[name] = t[name] /\ name \in Names
        /\ Kind(name) = "fixture"
    <3>1. name \in ShowNames /\ name \in DOMAIN s /\ Kind(name) = "fixture"
      BY Named, Kinds DEF Patched, There
    <3> QED BY <3>1, AlikeNames, Named
  <2> DEFINE value == [s[name] EXCEPT !.hang = v]
  <2>4. a = [s EXCEPT ![name] = value] /\ b = [t EXCEPT ![name] = value]
    BY <2>2, <2>3 DEF Put
  <2> HIDE DEF a, b, value, name
  <2> QED BY <2>3, <2>4 DEF Alike, SameAt, a, b
<1>2. CASE n \in ShowNames /\ v = Absent
  <2>1. a = Without(s, {n}) /\ b = Without(t, {n})
    BY <1>2 DEF Put
  <2>2. /\ DOMAIN a = DOMAIN s \ {n} /\ \A m \in DOMAIN s \ {n} : a[m] = s[m]
        /\ DOMAIN b = DOMAIN t \ {n} /\ \A m \in DOMAIN t \ {n} : b[m] = t[m]
    BY <2>1 DEF Without, Restrict
  <2> HIDE DEF a, b
  <2>3. Alike(a, b)
    BY <2>2 DEF Alike
  <2> QED BY <2>3 DEF a, b
<1>3. ASSUME NEW r, NEW q, Alike(r, q), a = With(r, n, v), b = With(q, n, w), v # Absent
      PROVE  Alike(a, b)
  <2>1. /\ DOMAIN a = {n} \cup DOMAIN r /\ a[n] = v /\ \A m \in DOMAIN r \ {n} : a[m] = r[m]
        /\ DOMAIN b = {n} \cup DOMAIN q /\ b[n] = w /\ \A m \in DOMAIN q \ {n} : b[m] = q[m]
    BY <1>3 DEF With
  <2> HIDE DEF a, b
  <2>2. ASSUME NEW m \in Names \ {Selected}
        PROVE  (m \in DOMAIN a <=> m \in DOMAIN b) /\ (m \in DOMAIN a => SameAt(m, a[m], b[m]))
    <3>1. (m \in DOMAIN r <=> m \in DOMAIN q) /\ (m \in DOMAIN r => SameAt(m, r[m], q[m]))
      BY <1>3 DEF Alike
    <3>2. CASE m = n
      BY <1>3, <2>1, <3>2
    <3>3. CASE m # n
      BY <2>1, <3>1, <3>3
    <3> QED BY <3>2, <3>3
  <2> QED BY <2>2 DEF Alike
<1>4. CASE n \in ShowNames /\ v # Absent /\ Kind(n) # "preset"
  <2>1. Kind(n) # "place"
    BY <1>4, Naming, Named DEF ShowKinds, DeskKinds
  <2>2. a = With(s, n, v) /\ b = With(t, n, w)
    BY <1>4, <2>1 DEF Put
  <2> QED BY <1>3, <1>4, <2>2
<1>5. CASE n \in ShowNames /\ v # Absent /\ Kind(n) = "preset"
  <2>1. w = v
    BY <1>5 DEF SameAt
  <2>2. IsValue(n, v)
    BY <1>1, <1>5, Kinds DEF Writable
  <2>3. IsPartial(v.values, Fixtures, Values)
    <3>1. n = Preset(n[2])
      BY <1>5, Naming, Named
    <3> QED BY <2>2, <3>1, PresetFields
  <2> DEFINE r == Relink(s, n[2], v.values)
             q == Relink(t, n[2], v.values)
  <2>4. a = With(r, n, v) /\ b = With(q, n, w)
    BY <1>5, <2>1 DEF Put
  <2>5. Alike(r, q)
    BY <2>3, RelinksAlike
  <2> HIDE DEF r, q, a, b
  <2>6. v # Absent
    BY <1>5
  <2> QED BY <1>3, <2>4, <2>5, <2>6 DEF a, b
<1> QED BY <1>1, <1>2, <1>4, <1>5 DEF Writable

\* Two answers that are alike.
AnswersAlike(q, r) == q.ok = r.ok /\ Alike(q.state, r.state)

LEMMA WrittenAlike ==
    ASSUME NEW images, Sound(images), NEW j \in DOMAIN images,
           NEW q \in Answers, NEW r \in Answers, AnswersAlike(q, r)
    PROVE  AnswersAlike(Written(q, images[j]), Written(r, images[j]))
<1> DEFINE n == images[j][1]
           v == images[j][2]
           s == q.state
           t == r.state
           image == images[j]
<1>1. /\ IsState(s) /\ q.ok \in BOOLEAN /\ q = [ok |-> q.ok, state |-> s]
      /\ IsState(t) /\ r.ok \in BOOLEAN /\ r = [ok |-> r.ok, state |-> t]
      /\ q.ok = r.ok /\ Alike(s, t)
  BY AnswerState DEF AnswersAlike
<1>2. /\ n \in Names \/ \E f \in Fixtures : n = Place(f) /\ v # Absent
      /\ v = Absent \/ IsValue(n, v)
  BY DEF Sound, IsImage
<1>3. CASE ~ q.ok
  <2>1. Written(q, image) = q /\ Written(r, image) = r
    BY <1>1, <1>3 DEF Written
  <2> QED BY <2>1
<1>4. CASE q.ok /\ n \in DeskNames
  <2> DEFINE a == [s EXCEPT ![n] = v]
             b == [t EXCEPT ![n] = v]
  <2>1. Written(q, image) = [ok |-> TRUE, state |-> a]
        /\ Written(r, image) = [ok |-> TRUE, state |-> b]
    BY <1>1, <1>4 DEF Written
  <2>2. /\ DOMAIN a = DOMAIN s /\ \A m \in DOMAIN s : a[m] = IF m = n THEN v ELSE s[m]
        /\ DOMAIN b = DOMAIN t /\ \A m \in DOMAIN t : b[m] = IF m = n THEN v ELSE t[m]
    OBVIOUS
  <2>3. Kind(n) # "list"
    BY <1>4, Kinds DEF DeskNames
  <2> HIDE DEF a, b, n, v, s, t, image
  <2>4. Alike(a, b)
    BY <1>1, <2>2, <2>3 DEF Alike, SameAt
  <2>5. AnswersAlike([ok |-> TRUE, state |-> a], [ok |-> TRUE, state |-> b])
    BY <2>4 DEF AnswersAlike
  <2> QED BY <2>1, <2>5 DEF image
<1>5. CASE q.ok /\ n \notin DeskNames
  <2>1. n \in ShowNames \/ \E f \in Fixtures : n = Place(f) /\ v # Absent
    BY <1>2, <1>5 DEF Names
  <2>2. Accepts(s, n, v) <=> Accepts(t, n, v)
    BY <1>1, <1>2, <2>1, AcceptsAlike
  <2>3. CASE ~ Accepts(s, n, v)
    <3>1. Written(q, image) = [ok |-> FALSE, state |-> s]
          /\ Written(r, image) = [ok |-> FALSE, state |-> t]
      BY <1>1, <1>5, <2>2, <2>3 DEF Written
    <3> QED BY <1>1, <3>1 DEF AnswersAlike
  <2>4. CASE Accepts(s, n, v)
    <3> DEFINE Back(x) == IF Kind(n) = "list" /\ v # Absent /\ There(x, n)
                          THEN [v EXCEPT !.fade = x[n].fade] ELSE v
               a == PutBack(s, image)
               b == PutBack(t, image)
    <3>1. a = Put(s, n, Back(s)) /\ b = Put(t, n, Back(t))
      BY DEF PutBack
    <3>2. Written(q, image) = [ok |-> TRUE, state |-> a]
          /\ Written(r, image) = [ok |-> TRUE, state |-> b]
      BY <1>1, <1>5, <2>2, <2>4 DEF Written
    <3> HIDE DEF a, b
    <3>3. ASSUME NEW x, IsState(x), Accepts(x, n, v)
          PROVE  /\ Writable(x, n, Back(x)) /\ (Back(x) = Absent <=> v = Absent)
                 /\ Kind(n) = "list" /\ v # Absent =>
                      /\ Back(x).name = v.name /\ Back(x).color = v.color
                      /\ Back(x).cues = v.cues
                 /\ Kind(n) # "list" => Back(x) = v
      <4>1. CASE Kind(n) = "list" /\ v # Absent
        <5>0. n \in ShowNames
          BY <2>1, <4>1, Kinds
        <5>1. n \in Names /\ n = List(n[2])
          BY <4>1, <5>0, Named, Naming
        <5>2. IsList(v)
          BY <1>2, <4>1, <5>1, ValueOf
        <5>3. There(x, n) => x[n].fade \in Levels
          BY <3>3, <5>1, InState, ValueOf, ListFields DEF There
        <5>4. IsList(Back(x))
          BY <4>1, <5>2, <5>3, ListChanged
        <5>5. v = [name |-> v.name, color |-> v.color, master |-> v.master,
                   fade |-> v.fade, cues |-> v.cues]
          BY <5>2, ListFields
        <5>6. Back(x) = v \/ Back(x) = [v EXCEPT !.fade = x[n].fade]
          OBVIOUS
        <5> HIDE DEF Back, v, n
        <5>7. /\ Back(x).name = v.name /\ Back(x).color = v.color
              /\ Back(x).cues = v.cues
          BY <5>5, <5>6
        <5>8. Back(x) # Absent /\ IsValue(n, Back(x))
          BY <5>1, <5>4, ListIsThere, ValueOf
        <5> QED BY <4>1, <5>0, <5>7, <5>8 DEF Writable
      <4>2. CASE ~ (Kind(n) = "list" /\ v # Absent)
        <5>1. Back(x) = v
          BY <4>2
        <5>2. Writable(x, n, v)
          <6>1. CASE n \in ShowNames
            BY <1>2, <6>1 DEF Writable
          <6>2. CASE \E f \in Fixtures : n = Place(f) /\ v # Absent
            <7>1. PICK f \in Fixtures : n = Place(f) /\ v # Absent
              BY <6>2
            <7>2. IsValue(Place(f), v)
              BY <1>2, <7>1
            <7>3. v \in Settings
              BY <7>2, ValueOf
            <7>4. Kind(n) = "place" /\ n[2] = f /\ v \in Settings
              BY <7>1, <7>3, Kinds
            <7>5. f \in Patched(x)
              BY <3>3, <7>1, <7>4 DEF Accepts, MayBe
            <7> QED BY <7>1, <7>4, <7>5 DEF Writable
          <6> QED BY <2>1, <6>1, <6>2
        <5> HIDE DEF Back
        <5> QED BY <4>2, <5>1, <5>2
      <4> QED BY <4>1, <4>2
    <3> DEFINE x == Back(s)
               y == Back(t)
    <3>4. /\ Writable(s, n, x) /\ (x = Absent <=> v = Absent)
          /\ Writable(t, n, y) /\ (y = Absent <=> v = Absent)
          /\ x # Absent => SameAt(n, x, y)
      <4>1. /\ Writable(s, n, x) /\ (x = Absent <=> v = Absent)
            /\ Kind(n) = "list" /\ v # Absent =>
                 /\ x.name = v.name /\ x.color = v.color /\ x.cues = v.cues
            /\ Kind(n) # "list" => x = v
        BY <1>1, <2>4, <3>3
      <4>2. /\ Writable(t, n, y) /\ (y = Absent <=> v = Absent)
            /\ Kind(n) = "list" /\ v # Absent =>
                 /\ y.name = v.name /\ y.color = v.color /\ y.cues = v.cues
            /\ Kind(n) # "list" => y = v
        BY <1>1, <2>2, <2>4, <3>3
      <4> HIDE DEF x, y, n, v
      <4> QED BY <4>1, <4>2 DEF SameAt
    <3> HIDE DEF x, y, n, v, s, t
    <3>5. Alike(Put(s, n, x), Put(t, n, y))
      BY <1>1, <3>4, PutsAlike
    <3>6. Alike(a, b)
      BY <3>1, <3>5 DEF x, y
    <3>7. AnswersAlike([ok |-> TRUE, state |-> a], [ok |-> TRUE, state |-> b])
      BY <3>6 DEF AnswersAlike
    <3> QED BY <3>2, <3>7 DEF image
  <2> QED BY <2>3, <2>4
<1> QED BY <1>3, <1>4, <1>5

LEMMA PassAlike ==
    ASSUME NEW images, Sound(images), NEW q \in Answers, NEW r \in Answers,
           AnswersAlike(q, r), NEW turn
    PROVE  AnswersAlike(Pass(q, images, turn), Pass(r, images, turn))
<1> DEFINE n == Len(images)
<1>1. n \in Nat /\ DOMAIN images = 1 .. n
  BY DEF Sound
<1>2. PICK a \in [0 .. n -> Answers] :
        /\ a[0] = q
        /\ \A i \in 1 .. n : a[i] = IF Turn(images[i]) = turn
                                    THEN Written(a[i - 1], images[i]) ELSE a[i - 1]
        /\ Pass(q, images, turn) = a[n]
  BY PassSteps
<1>3. PICK b \in [0 .. n -> Answers] :
        /\ b[0] = r
        /\ \A i \in 1 .. n : b[i] = IF Turn(images[i]) = turn
                                    THEN Written(b[i - 1], images[i]) ELSE b[i - 1]
        /\ Pass(r, images, turn) = b[n]
  BY PassSteps
<1> HIDE DEF n
<1> DEFINE T == { i \in 0 .. n : AnswersAlike(a[i], b[i]) }
<1>4. 0 \in T
  BY <1>1, <1>2, <1>3
<1>5. ASSUME NEW i \in 1 .. n, i - 1 \in T PROVE i \in T
  <2>1. i - 1 \in 0 .. n /\ i \in 0 .. n /\ i \in DOMAIN images
    BY <1>1
  <2>2. a[i - 1] \in Answers /\ b[i - 1] \in Answers /\ AnswersAlike(a[i - 1], b[i - 1])
    BY <1>5, <2>1
  <2>3. AnswersAlike(a[i], b[i])
    BY <1>2, <1>3, <2>1, <2>2, WrittenAlike
  <2> QED BY <2>1, <2>3
<1> HIDE DEF T
<1>6. \A i \in 0 .. n : i \in T
  BY <1>1, <1>4, <1>5, Climb
<1>7. n \in 0 .. n
  BY <1>1
<1> QED BY <1>2, <1>3, <1>6, <1>7 DEF T

LEMMA PassAnswers ==
    ASSUME NEW images, Sound(images), NEW r \in Answers, NEW turn
    PROVE  Pass(r, images, turn) \in Answers
<1>1. Len(images) \in Nat
  BY DEF Sound
<1>2. \E after \in [0 .. Len(images) -> Answers] :
        Pass(r, images, turn) = after[Len(images)]
  BY PassSteps
<1> QED BY <1>1, <1>2

\* Where the faders stand and which list is selected makes no difference to what
\* an Oops or a Redo takes back, nor to whether it is refused.
LEMMA RestoresAlike ==
    ASSUME NEW s, IsState(s), NEW t, IsState(t), NEW images, Sound(images),
           Undoable(s) = Undoable(t)
    PROVE  /\ Restore(s, images).ok = Restore(t, images).ok
           /\ Undoable(Restore(s, images).state) = Undoable(Restore(t, images).state)
<1> DEFINE q == [ok |-> TRUE, state |-> s]
           r == [ok |-> TRUE, state |-> t]
           Out(a)  == Pass(a, images, "out")
           Mid(a)  == Pass(a, images, "rest")
           In(a)   == Pass(a, images, "in")
           End(a)  == Pass(a, images, "desk")
<1>1. q \in Answers /\ r \in Answers
  BY StatesAll DEF Answers
<1>2. AnswersAlike(q, r)
  BY UndoableIs DEF AnswersAlike
<1>3. Restore(s, images) = End(In(Mid(Out(q)))) /\ Restore(t, images) = End(In(Mid(Out(r))))
  BY DEF Restore, RestoreDesk, RestoreShow
<1>4. ASSUME NEW a \in Answers
      PROVE  Out(a) \in Answers /\ Mid(a) \in Answers /\ In(a) \in Answers /\ End(a) \in Answers
  BY PassAnswers
<1>5. ASSUME NEW a \in Answers, NEW b \in Answers, AnswersAlike(a, b)
      PROVE  /\ AnswersAlike(Out(a), Out(b)) /\ AnswersAlike(Mid(a), Mid(b))
             /\ AnswersAlike(In(a), In(b)) /\ AnswersAlike(End(a), End(b))
  BY <1>5, PassAlike
<1> HIDE DEF q, r, Out, Mid, In, End
<1>6. Out(q) \in Answers /\ Out(r) \in Answers /\ AnswersAlike(Out(q), Out(r))
  BY <1>1, <1>2, <1>4, <1>5
<1>7. /\ Mid(Out(q)) \in Answers /\ Mid(Out(r)) \in Answers
      /\ AnswersAlike(Mid(Out(q)), Mid(Out(r)))
  BY <1>4, <1>5, <1>6
<1>8. /\ In(Mid(Out(q))) \in Answers /\ In(Mid(Out(r))) \in Answers
      /\ AnswersAlike(In(Mid(Out(q))), In(Mid(Out(r))))
  BY <1>4, <1>5, <1>7
<1>9. /\ Restore(s, images) \in Answers /\ Restore(t, images) \in Answers
      /\ AnswersAlike(Restore(s, images), Restore(t, images))
  BY <1>3, <1>4, <1>5, <1>8
<1>10. IsState(Restore(s, images).state) /\ IsState(Restore(t, images).state)
  BY <1>9, AnswerState
<1> QED BY <1>9, <1>10, UndoableIs DEF AnswersAlike

-----------------------------------------------------------------------------
(* The invariant                                                           *)

Stack(stack) ==
    /\ \E S : stack \in Seq(S)
    /\ \A i \in DOMAIN stack : Sound(stack[i].before) /\ Sound(stack[i].after)

\* Everything is of its kind, what the journal holds can be written back, and both
\* stacks together are no longer than the ring.
IInv ==
    /\ given \in DOMAIN Repertoires
    /\ IsState(state) /\ IsState(saved)
    /\ Stack(done) /\ Stack(undone)
    /\ Len(done) + Len(undone) <= Capacity
    /\ refused \in BOOLEAN /\ steps \in 0 .. Repertoires[given].steps

LEMMA StackFacts ==
    ASSUME NEW st, Stack(st)
    PROVE  Len(st) \in Nat /\ DOMAIN st = 1 .. Len(st)
           /\ (st # << >> => Len(st) \in 1 .. Len(st) /\ Len(st) > 0)
<1>1. PICK S : st \in Seq(S)
  BY DEF Stack
<1> QED BY <1>1

LEMMA StackEmpty == Stack(<< >>) /\ Len(<< >>) = 0
<1>1. << >> \in Seq({}) /\ Len(<< >>) = 0 /\ \A i \in DOMAIN << >> : FALSE
  OBVIOUS
<1> QED BY <1>1 DEF Stack

LEMMA StackAppend ==
    ASSUME NEW st, Stack(st), NEW r, Sound(r.before), Sound(r.after)
    PROVE  Stack(Append(st, r)) /\ Len(Append(st, r)) = Len(st) + 1
<1>1. PICK S : st \in Seq(S)
  BY DEF Stack
<1>2. st \in Seq(S \cup {r})
  BY <1>1
<1>3. /\ Append(st, r) \in Seq(S \cup {r}) /\ Len(Append(st, r)) = Len(st) + 1
      /\ DOMAIN Append(st, r) = 1 .. Len(st) + 1 /\ DOMAIN st = 1 .. Len(st)
      /\ Len(st) \in Nat
      /\ \A i \in 1 .. Len(st) : Append(st, r)[i] = st[i]
      /\ Append(st, r)[Len(st) + 1] = r
  BY <1>2
<1>4. ASSUME NEW i \in 1 .. Len(st) + 1
      PROVE  Sound(Append(st, r)[i].before) /\ Sound(Append(st, r)[i].after)
  <2>1. CASE i = Len(st) + 1
    BY <1>3, <2>1
  <2>2. CASE i # Len(st) + 1
    <3>1. i \in 1 .. Len(st)
      BY <1>3, <2>2
    <3> QED BY <1>3, <3>1 DEF Stack
  <2> QED BY <2>1, <2>2
<1> QED BY <1>3, <1>4 DEF Stack

LEMMA StackTail ==
    ASSUME NEW st, Stack(st), st # << >>
    PROVE  Stack(Tail(st)) /\ Len(Tail(st)) = Len(st) - 1
<1>1. PICK S : st \in Seq(S)
  BY DEF Stack
<1>2. /\ Tail(st) \in Seq(S) /\ Len(Tail(st)) = Len(st) - 1
      /\ DOMAIN Tail(st) = 1 .. Len(st) - 1 /\ Len(st) \in Nat /\ DOMAIN st = 1 .. Len(st)
      /\ \A i \in 1 .. Len(st) - 1 : Tail(st)[i] = st[i + 1]
  BY <1>1
<1>3. \A i \in 1 .. Len(st) - 1 : i + 1 \in DOMAIN st
  BY <1>2
<1>4. \A i \in DOMAIN Tail(st) : Sound(Tail(st)[i].before) /\ Sound(Tail(st)[i].after)
  BY <1>2, <1>3 DEF Stack
<1> QED BY <1>2, <1>4 DEF Stack

LEMMA StackFront ==
    ASSUME NEW st, Stack(st), st # << >>
    PROVE  /\ Stack(Front(st)) /\ Len(Front(st)) = Len(st) - 1
           /\ Sound(Last(st).before) /\ Sound(Last(st).after)
<1>1. PICK S : st \in Seq(S)
  BY DEF Stack
<1>2. Len(st) \in Nat /\ Len(st) > 0 /\ DOMAIN st = 1 .. Len(st) /\ Last(st) = st[Len(st)]
  BY <1>1 DEF Last
<1>3. /\ Front(st) \in Seq(S) /\ Len(Front(st)) = Len(st) - 1
      /\ DOMAIN Front(st) = 1 .. Len(st) - 1
      /\ \A i \in 1 .. Len(st) - 1 : Front(st)[i] = st[i]
  BY <1>1, <1>2 DEF Front
<1>4. \A i \in 1 .. Len(st) - 1 : i \in DOMAIN st
  BY <1>2
<1>5. \A i \in DOMAIN Front(st) : Sound(Front(st)[i].before) /\ Sound(Front(st)[i].after)
  BY <1>3, <1>4 DEF Stack
<1>6. Sound(Last(st).before) /\ Sound(Last(st).after)
  BY <1>2 DEF Stack
<1> QED BY <1>3, <1>5, <1>6 DEF Stack

LEMMA GivenOnce ==
    ASSUME IInv, NEW verb, Given(verb)
    PROVE  given' \in DOMAIN Repertoires /\ steps' \in 0 .. Repertoires'[given'].steps
<1>1. Repertoires[given].steps \in Nat
  BY JournalAssumption DEF IInv
<1>2. steps < Repertoires[given].steps /\ steps' = steps + 1 /\ given' = given
  BY DEF Given
<1> QED BY <1>1, <1>2 DEF IInv

-----------------------------------------------------------------------------
(* Edits                                                                   *)

\* What an edit leaves can be imaged like what it found.
Fit(names, next) == IsState(next) /\ WellNamed(names, state) /\ WellNamed(names, next)

\* What it changes it has an image of.
Frame(names, next) ==
    \A n \in DOMAIN state \cup DOMAIN next : Held(next, n) # Held(state, n) =>
        \E k \in 1 .. Len(names) : \E j \in 1 .. Len(Covered(names[k], state)) :
            LET m == Covered(names[k], state)[j] IN
            \/ m = n
            \/ /\ Kind(n) = "fixture" /\ n \in DOMAIN state /\ n \in DOMAIN next
               /\ m = Place(n[2])
               /\ next[n] = [state[n] EXCEPT !.hang = next[n].hang]

Filed == \E verb, names, next : Do(verb, names, next) /\ Fit(names, next)

FiledWhole == \E verb, names, next :
    Do(verb, names, next) /\ Fit(names, next) /\ Frame(names, next)

LEMMA FiledKeeps ==
    ASSUME IInv, Filed
    PROVE  IInv'
<1>1. PICK verb, names, next : Do(verb, names, next) /\ Fit(names, next)
  BY DEF Filed
<1>2. Given(verb) /\ state' = next /\ refused' = FALSE /\ saved' = saved
  BY <1>1 DEF Do
<1>3. IsState(state)' /\ IsState(saved)' /\ refused' \in BOOLEAN
  BY <1>1, <1>2 DEF Fit, IInv
<1>4. given' \in DOMAIN Repertoires /\ steps' \in 0 .. Repertoires[given'].steps
  BY <1>2, GivenOnce
<1>5. Sound(ImagesOf(names, state)) /\ Sound(ImagesOf(names, next))
  <2>1. IsState(state) /\ IsState(next) /\ WellNamed(names, state) /\ WellNamed(names, next)
    BY <1>1 DEF Fit, IInv
  <2> QED BY <2>1, Images
<1>6. Stack(done') /\ Stack(undone') /\ Len(done') + Len(undone') <= Capacity
  <2> DEFINE record == [before |-> ImagesOf(names, state),
                        after  |-> ImagesOf(names, next),
                        was    |-> Undoable(state), is |-> Undoable(next)]
             kept == IF Len(done) = Capacity THEN Tail(done) ELSE done
  <2>1. CASE UNCHANGED <<done, undone>>
    BY <2>1 DEF IInv
  <2>2. CASE Push(record)
    <3>1. undone' = << >> /\ done' = Append(kept, record)
      BY <2>2 DEF Push
    <3>2. Sound(record.before) /\ Sound(record.after)
      BY <1>5
    <3>3. Stack(done) /\ Len(done) \in Nat /\ Len(undone) \in Nat /\ Capacity \in Nat \ {0}
          /\ Len(done) + Len(undone) <= Capacity
      BY StackFacts, JournalAssumption DEF IInv
    <3>4. Stack(kept) /\ Len(kept) \in Nat /\ Len(kept) + 1 <= Capacity
      <4>1. CASE Len(done) = Capacity
        <5>1. done # << >>
          BY <3>3, <4>1, StackEmpty
        <5> QED BY <3>3, <4>1, <5>1, StackTail
      <4>2. CASE Len(done) # Capacity
        BY <3>3, <4>2
      <4> QED BY <4>1, <4>2
    <3> HIDE DEF record, kept
    <3>5. Stack(done') /\ Len(done') = Len(kept) + 1
      BY <3>1, <3>2, <3>4, StackAppend
    <3> QED BY <3>1, <3>4, <3>5, StackEmpty
  <2>3. Push(record) \/ UNCHANGED <<done, undone>>
    BY <1>1 DEF Do
  <2> QED BY <2>1, <2>2, <2>3
<1> QED BY <1>3, <1>4, <1>6 DEF IInv

LEMMA PushLast ==
    ASSUME IInv, NEW record, Push(record)
    PROVE  done' # << >> /\ Last(done') = record
<1> DEFINE kept == IF Len(done) = Capacity THEN Tail(done) ELSE done
<1>1. done' = Append(kept, record)
  BY DEF Push
<1>2. Stack(done) /\ Capacity \in Nat \ {0}
  BY JournalAssumption DEF IInv
<1>3. Stack(kept)
  <2>1. Len(done) = Capacity => done # << >>
    BY <1>2, StackEmpty
  <2> QED BY <1>2, <2>1, StackTail
<1> HIDE DEF kept
<1>4. PICK S : kept \in Seq(S)
  BY <1>3 DEF Stack
<1>5. kept \in Seq(S \cup {record})
  BY <1>4
<1>6. /\ Append(kept, record) \in Seq(S \cup {record})
      /\ Len(Append(kept, record)) = Len(kept) + 1 /\ Len(kept) \in Nat
      /\ Append(kept, record)[Len(kept) + 1] = record
  BY <1>5
<1>7. Append(kept, record) # << >>
  BY <1>6
<1> QED BY <1>1, <1>6, <1>7 DEF Last

\* What an edit changes its record holds, and because it changes it is filed.
LEMMA FiledImages ==
    ASSUME IInv, FiledWhole
    PROVE  Unimaged = {}
<1>1. PICK verb, names, next : Do(verb, names, next) /\ Fit(names, next) /\ Frame(names, next)
  BY DEF FiledWhole
<1> DEFINE before == ImagesOf(names, state)
           after == ImagesOf(names, next)
           record == [before |-> before, after  |-> after,
                      was    |-> Undoable(state), is |-> Undoable(next)]
<1>2. state' = next /\ (before # after => Push(record))
  BY <1>1 DEF Do
<1>3. IsState(state) /\ IsState(next) /\ WellNamed(names, state) /\ WellNamed(names, next)
  BY <1>1 DEF Fit, IInv
<1>4. /\ DOMAIN before = 1 .. Len(before) /\ DOMAIN after = 1 .. Len(after)
      /\ \A i \in DOMAIN before : before[i][2] = Held(state, before[i][1])
                                  /\ before[i] = <<before[i][1], before[i][2]>>
      /\ \A i \in DOMAIN after : after[i][2] = Held(next, after[i][1])
      /\ \A k \in 1 .. Len(names) : \A j \in 1 .. Len(Covered(names[k], state)) :
                \E i \in DOMAIN before : before[i][1] = Covered(names[k], state)[j]
  BY <1>3, Images DEF Sound
<1> HIDE DEF before, after
<1> SUFFICES ASSUME NEW n \in DOMAIN state \cup DOMAIN next, Held(next, n) # Held(state, n)
             PROVE  done' # << >> /\ Imaged(Last(done'), n)
  BY <1>2 DEF Unimaged
<1>5. PICK k \in 1 .. Len(names) : \E j \in 1 .. Len(Covered(names[k], state)) :
          LET m == Covered(names[k], state)[j] IN
          \/ m = n
          \/ /\ Kind(n) = "fixture" /\ n \in DOMAIN state /\ n \in DOMAIN next
             /\ m = Place(n[2])
             /\ next[n] = [state[n] EXCEPT !.hang = next[n].hang]
  BY <1>1 DEF Frame
<1>6. PICK j \in 1 .. Len(Covered(names[k], state)) :
          LET m == Covered(names[k], state)[j] IN
          \/ m = n
          \/ /\ Kind(n) = "fixture" /\ n \in DOMAIN state /\ n \in DOMAIN next
             /\ m = Place(n[2])
             /\ next[n] = [state[n] EXCEPT !.hang = next[n].hang]
  BY <1>5
<1>7. PICK i \in DOMAIN before : before[i][1] = Covered(names[k], state)[j]
  BY <1>4
<1>8. CASE before[i][1] = n
  <2>1. before[i] = <<n, Held(state, n)>>
    BY <1>4, <1>8
  <2>2. before # after
    <3> SUFFICES ASSUME before = after PROVE FALSE
      OBVIOUS
    <3>1. after[i][1] = n /\ after[i][2] = Held(next, n) /\ after[i][2] = Held(state, n)
      BY <1>4, <1>8
    <3> QED BY <3>1
  <2>3. Imaged(record, n)
    <3>1. record.before = before
      OBVIOUS
    <3> HIDE DEF record
    <3> QED BY <2>1, <3>1 DEF Imaged
  <2>4. done' # << >> /\ Last(done') = record
    <3>1. Push(record)
      BY <1>2, <2>2
    <3> HIDE DEF record
    <3> QED BY <3>1, PushLast
  <2> QED BY <2>3, <2>4
<1>9. CASE /\ Kind(n) = "fixture" /\ n \in DOMAIN state /\ n \in DOMAIN next
           /\ before[i][1] = Place(n[2])
           /\ next[n] = [state[n] EXCEPT !.hang = next[n].hang]
  <2>1. n[2] \in Fixtures /\ n = Fixture(n[2]) /\ Kind(Place(n[2])) = "place"
        /\ Place(n[2])[2] = n[2] /\ Kind(n) # "place"
    BY <1>3, <1>9, Naming, InState, Kinds
  <2>2. Held(state, Place(n[2])) = state[n].hang /\ Held(next, Place(n[2])) = next[n].hang
    BY <2>1 DEF Held
  <2>3. before[i] = <<Place(n[2]), state[n].hang>>
    BY <1>4, <1>9, <2>2
  <2>4. state[n].hang # next[n].hang
    <3>1. state[n] \in [type : Types, at : Addresses, hang : Settings]
      BY <1>3, <1>9, <2>1, InState, ValueOf
    <3>2. state[n] # next[n]
      BY <1>9, <2>1 DEF Held, There
    <3>3. [state[n] EXCEPT !.hang = state[n].hang] = state[n]
      BY <3>1
    <3> QED BY <1>9, <3>2, <3>3
  <2>5. before # after
    <3> SUFFICES ASSUME before = after PROVE FALSE
      OBVIOUS
    <3>1. after[i][1] = Place(n[2]) /\ after[i][2] = next[n].hang
          /\ after[i][2] = state[n].hang
      BY <1>4, <1>9, <2>2
    <3> QED BY <2>4, <3>1
  <2>6. Imaged(record, n)
    <3>1. record.before = before /\ state'[n] = [state[n] EXCEPT !.hang = state'[n].hang]
          /\ There(state, n) /\ There(state', n)
      BY <1>2, <1>9 DEF There
    <3> HIDE DEF record
    <3> QED BY <1>9, <2>3, <3>1 DEF Imaged
  <2>7. done' # << >> /\ Last(done') = record
    <3>1. Push(record)
      BY <1>2, <2>5
    <3> HIDE DEF record
    <3> QED BY <3>1, PushLast
  <2> QED BY <2>6, <2>7
<1> QED BY <1>6, <1>7, <1>8, <1>9

-----------------------------------------------------------------------------
(* The steps that are no edits                                             *)

\* What Oops and Redo answer.
LEMMA Restored ==
    ASSUME IInv, NEW images, Sound(images)
    PROVE  LET answer == Restore(state, images) IN
           /\ IsState(answer.state) /\ answer.ok \in BOOLEAN
           /\ Fades(state, answer.state, images)
           /\ answer.ok => \A i \in DOMAIN images : Stood(state, answer.state, images[i])
<1>1. Walked(state, Restore(state, images), images, DOMAIN images)
  BY Restores DEF IInv
<1> QED BY <1>1, AnswerState DEF Walked

LEMMA OopsKeeps ==
    ASSUME IInv, Oops
    PROVE  IInv'
<1> DEFINE answer == Restore(state, Last(done).before)
<1>1. /\ Given("oops") /\ done # << >> /\ saved' = saved
      /\ state' = answer.state /\ refused' = ~ answer.ok
      /\ IF answer.ok
         THEN done' = Front(done) /\ undone' = Append(undone, Last(done))
         ELSE UNCHANGED <<done, undone>>
  BY DEF Oops
<1>2. Stack(done) /\ Stack(undone) /\ Len(done) + Len(undone) <= Capacity
      /\ Len(done) \in Nat /\ Len(undone) \in Nat /\ Capacity \in Nat
  BY StackFacts, JournalAssumption DEF IInv
<1>3. /\ Stack(Front(done)) /\ Len(Front(done)) = Len(done) - 1
      /\ Sound(Last(done).before) /\ Sound(Last(done).after)
  BY <1>1, <1>2, StackFront
<1>4. IsState(answer.state) /\ answer.ok \in BOOLEAN
  BY <1>3, Restored
<1> HIDE DEF answer
<1>5. given' \in DOMAIN Repertoires /\ steps' \in 0 .. Repertoires[given'].steps
  BY <1>1, GivenOnce
<1>6. Stack(done') /\ Stack(undone') /\ Len(done') + Len(undone') <= Capacity
  <2>1. CASE answer.ok
    <3>1. done' = Front(done) /\ undone' = Append(undone, Last(done))
      BY <1>1, <2>1
    <3>2. /\ Stack(Append(undone, Last(done)))
          /\ Len(Append(undone, Last(done))) = Len(undone) + 1
      BY <1>2, <1>3, StackAppend
    <3> QED BY <1>2, <1>3, <3>1, <3>2
  <2>2. CASE ~ answer.ok
    BY <1>1, <1>2, <2>2
  <2> QED BY <2>1, <2>2
<1> QED BY <1>1, <1>4, <1>5, <1>6 DEF IInv

LEMMA RedoKeeps ==
    ASSUME IInv, Redo
    PROVE  IInv'
<1> DEFINE answer == Restore(state, Last(undone).after)
<1>1. /\ Given("redo") /\ undone # << >> /\ saved' = saved
      /\ state' = answer.state /\ refused' = ~ answer.ok
      /\ IF answer.ok
         THEN undone' = Front(undone) /\ done' = Append(done, Last(undone))
         ELSE UNCHANGED <<done, undone>>
  BY DEF Redo
<1>2. Stack(done) /\ Stack(undone) /\ Len(done) + Len(undone) <= Capacity
      /\ Len(done) \in Nat /\ Len(undone) \in Nat /\ Capacity \in Nat
  BY StackFacts, JournalAssumption DEF IInv
<1>3. /\ Stack(Front(undone)) /\ Len(Front(undone)) = Len(undone) - 1
      /\ Sound(Last(undone).before) /\ Sound(Last(undone).after)
  BY <1>1, <1>2, StackFront
<1>4. IsState(answer.state) /\ answer.ok \in BOOLEAN
  BY <1>3, Restored
<1> HIDE DEF answer
<1>5. given' \in DOMAIN Repertoires /\ steps' \in 0 .. Repertoires[given'].steps
  BY <1>1, GivenOnce
<1>6. Stack(done') /\ Stack(undone') /\ Len(done') + Len(undone') <= Capacity
  <2>1. CASE answer.ok
    <3>1. undone' = Front(undone) /\ done' = Append(done, Last(undone))
      BY <1>1, <2>1
    <3>2. /\ Stack(Append(done, Last(undone)))
          /\ Len(Append(done, Last(undone))) = Len(done) + 1
      BY <1>2, <1>3, StackAppend
    <3> QED BY <1>2, <1>3, <3>1, <3>2
  <2>2. CASE ~ answer.ok
    BY <1>1, <1>2, <2>2
  <2> QED BY <2>1, <2>2
<1> QED BY <1>1, <1>4, <1>5, <1>6 DEF IInv

LEMMA SaveKeeps ==
    ASSUME IInv, Save
    PROVE  IInv'
<1>1. given' \in DOMAIN Repertoires /\ steps' \in 0 .. Repertoires[given'].steps
  BY GivenOnce DEF Save
<1>2. state' = state /\ saved' = state /\ refused' = FALSE /\ done' = done /\ undone' = undone
  BY DEF Save
<1> QED BY <1>1, <1>2 DEF IInv

LEMMA EmptyDesk == IsValue(Programmer, EmptyProgrammer)
<1>1. IsPartial(Nothing, Fixtures, Touches)
  BY NothingIsPartial
<1> QED BY <1>1, DeskMade DEF EmptyProgrammer

LEMMA OpenKeeps ==
    ASSUME IInv, Open
    PROVE  IInv'
<1>1. given' \in DOMAIN Repertoires /\ steps' \in 0 .. Repertoires[given'].steps
  BY GivenOnce DEF Open
<1>2. /\ state' = [saved EXCEPT ![Programmer] = EmptyProgrammer]
      /\ saved' = saved /\ refused' = FALSE /\ done' = << >> /\ undone' = << >>
  BY DEF Open
<1>3. IsState(state')
  BY <1>2, EmptyDesk, StateSet DEF IInv
<1>4. Stack(done') /\ Stack(undone') /\ Len(done') + Len(undone') <= Capacity
  BY <1>2, StackEmpty, JournalAssumption
<1> QED BY <1>1, <1>2, <1>3, <1>4 DEF IInv

\* A command that keeps no record: operating the desk, or one that is refused.
LEMMA Unfiled ==
    ASSUME IInv, NEW verb, Given(verb), IsState(state'), refused' \in BOOLEAN,
           UNCHANGED <<done, undone, saved>>
    PROVE  IInv'
<1>1. given' \in DOMAIN Repertoires /\ steps' \in 0 .. Repertoires[given'].steps
  BY GivenOnce
<1> QED BY <1>1 DEF IInv

LEMMA OperateKeeps ==
    ASSUME IInv, NEW verb, NEW next, Operate(verb, next), IsState(next)
    PROVE  IInv'
BY Unfiled DEF Operate

LEMMA FailKeeps ==
    ASSUME IInv, NEW verb, NEW half, Fail(verb, half), IsState(half)
    PROVE  IInv' /\ refused'
<1>1. Given(verb) /\ state' = half /\ refused' = TRUE /\ UNCHANGED <<done, undone, saved>>
  BY DEF Fail
<1> QED BY <1>1, Unfiled

LEMMA QuietKeeps ==
    ASSUME IInv, UNCHANGED vars
    PROVE  IInv'
BY DEF IInv, vars

\* No crossfade moves under an Oops or a Redo.
LEMMA CrossfadeStep ==
    ASSUME IInv, Oops \/ Redo, NEW q \in Lists, BothHaveList(q)
    PROVE  state'[List(q)].fade = state[List(q)].fade
<1>1. \E images : Sound(images) /\ state' = Restore(state, images).state
  <2>1. CASE Oops
    <3>1. done # << >> /\ state' = Restore(state, Last(done).before).state
      BY <2>1 DEF Oops
    <3> QED BY <3>1, StackFront DEF IInv
  <2>2. CASE Redo
    <3>1. undone # << >> /\ state' = Restore(state, Last(undone).after).state
      BY <2>2 DEF Redo
    <3> QED BY <3>1, StackFront DEF IInv
  <2> QED BY <2>1, <2>2
<1>2. PICK images : Sound(images) /\ state' = Restore(state, images).state
  BY <1>1
<1>3. Fades(state, state', images)
  BY <1>2, Restored
<1>4. List(q) \in DOMAIN state /\ List(q) \in DOMAIN state'
  BY DEF BothHaveList, There
<1> QED BY <1>3, <1>4 DEF Fades

\* What is restored stands.
LEMMA StandsStep ==
    ASSUME IInv, NEW images, Sound(images),
           state' = Restore(state, images).state, Restore(state, images).ok
    PROVE  \A i \in DOMAIN images : StandsAgain(images[i])
<1>1. \A i \in DOMAIN images : Stood(state, state', images[i])
  BY Restored
<1> QED BY <1>1 DEF Stood, Due, StandsAgain

LEMMA ImagesStep ==
    ASSUME IInv
    PROVE  /\ Oops /\ ~ refused' => \A i \in DOMAIN Last(done).before :
                                       StandsAgain(Last(done).before[i])
           /\ Redo /\ ~ refused' => \A i \in DOMAIN Last(undone).after :
                                       StandsAgain(Last(undone).after[i])
<1>1. ASSUME Oops, ~ refused'
      PROVE  \A i \in DOMAIN Last(done).before : StandsAgain(Last(done).before[i])
  <2> DEFINE images == Last(done).before
  <2>1. /\ done # << >> /\ state' = Restore(state, images).state
        /\ refused' = ~ Restore(state, images).ok
    BY <1>1 DEF Oops
  <2>2. Sound(images)
    BY <2>1, StackFront DEF IInv
  <2>3. Restore(state, images).ok
    BY <1>1, <2>1, <2>2, Restored
  <2> HIDE DEF images
  <2>4. \A i \in DOMAIN images : StandsAgain(images[i])
    BY <2>1, <2>2, <2>3, StandsStep
  <2> QED BY <2>4 DEF images
<1>2. ASSUME Redo, ~ refused'
      PROVE  \A i \in DOMAIN Last(undone).after : StandsAgain(Last(undone).after[i])
  <2> DEFINE images == Last(undone).after
  <2>1. /\ undone # << >> /\ state' = Restore(state, images).state
        /\ refused' = ~ Restore(state, images).ok
    BY <1>2 DEF Redo
  <2>2. Sound(images)
    BY <2>1, StackFront DEF IInv
  <2>3. Restore(state, images).ok
    BY <1>2, <2>1, <2>2, Restored
  <2> HIDE DEF images
  <2>4. \A i \in DOMAIN images : StandsAgain(images[i])
    BY <2>1, <2>2, <2>3, StandsStep
  <2> QED BY <2>4 DEF images
<1> QED BY <1>1, <1>2

-----------------------------------------------------------------------------
(* What a command writes                                                   *)

\* t is a state that differs from s under no other names than these.
Wrote(S, s, t) ==
    /\ IsState(t)
    /\ \A n \in Names \ S : /\ n \in DOMAIN t <=> n \in DOMAIN s
                            /\ n \in DOMAIN s => t[n] = s[n]

LEMMA WroteNothing ==
    ASSUME NEW s, IsState(s), NEW S
    PROVE  Wrote(S, s, s)
BY DEF Wrote

LEMMA WroteSet ==
    ASSUME NEW S, NEW s, NEW t, Wrote(S, s, t), NEW n \in S, NEW v, IsValue(n, v)
    PROVE  Wrote(S, s, [t EXCEPT ![n] = v])
<1>1. IsState([t EXCEPT ![n] = v])
  BY StateSet DEF Wrote
<1> QED BY <1>1 DEF Wrote

LEMMA WroteWith ==
    ASSUME NEW S, NEW s, NEW t, Wrote(S, s, t), NEW n \in S, n \in Names, NEW v, IsValue(n, v)
    PROVE  Wrote(S, s, With(t, n, v))
<1>1. IsState(With(t, n, v))
  BY StateWith DEF Wrote
<1> QED BY <1>1 DEF Wrote, With

LEMMA WroteOver ==
    ASSUME NEW S, NEW s, NEW t, Wrote(S, s, t), NEW u, DOMAIN u \subseteq S,
           DOMAIN u \subseteq Names, \A n \in DOMAIN u : IsValue(n, u[n])
    PROVE  Wrote(S, s, u ++ t)
<1>1. IsState(u ++ t)
  BY StateOver DEF Wrote
<1> QED BY <1>1 DEF Wrote, ++

LEMMA WroteWithout ==
    ASSUME NEW S, NEW s, NEW t, Wrote(S, s, t), NEW names, names \subseteq S,
           \A n \in DeskNames : n \notin names
    PROVE  Wrote(S, s, Without(t, names))
<1>1. IsState(Without(t, names))
  BY StateWithout DEF Wrote
<1> QED BY <1>1 DEF Wrote, Without, Restrict

\* A write of anything but a preset that is there.
LEMMA WrotePut ==
    ASSUME NEW S, NEW s, NEW t, Wrote(S, s, t), NEW n \in S, n \in ShowNames, NEW v,
           v = Absent \/ IsValue(n, v), Kind(n) # "preset" \/ v = Absent
    PROVE  Wrote(S, s, Put(t, n, v))
<1>1. n \notin DeskNames /\ n \in Names /\ Kind(n) # "place"
  BY Naming, Named DEF ShowKinds, DeskKinds
<1>2. CASE v = Absent
  <2>1. Put(t, n, v) = Without(t, {n})
    BY <1>2 DEF Put
  <2> QED BY <1>1, <2>1, WroteWithout
<1>3. CASE v # Absent
  <2>1. Put(t, n, v) = With(t, n, v)
    BY <1>1, <1>3 DEF Put
  <2> QED BY <1>1, <1>3, <2>1, WroteWith
<1> QED BY <1>2, <1>3

LEMMA Same ==
    ASSUME NEW S, NEW s, IsState(s), NEW t, Wrote(S, s, t), NEW n \in Names \ S
    PROVE  Held(t, n) = Held(s, n)
<1>1. Kind(n) # "place"
  BY Naming DEF ShowKinds, DeskKinds
<1> QED BY <1>1 DEF Wrote, Held, There

\* What a command writes is what its record covers by name.
LEMMA NamedFrame ==
    ASSUME IsState(state), NEW names, NEW next, NEW S, Wrote(S, state, next),
           \A n \in S : n \in Names =>
              \E k \in 1 .. Len(names) : names[k] = n
    PROVE  Frame(names, next)
<1> SUFFICES ASSUME NEW n \in DOMAIN state \cup DOMAIN next, Held(next, n) # Held(state, n)
             PROVE  \E k \in 1 .. Len(names) : \E j \in 1 .. Len(Covered(names[k], state)) :
                        Covered(names[k], state)[j] = n
  BY DEF Frame
<1>1. n \in Names
  BY DEF Wrote, IsState
<1>2. n \in S
  BY <1>1, Same
<1>3. PICK k \in 1 .. Len(names) : names[k] = n
  BY <1>1, <1>2
<1>4. Kind(n) # "referrers" /\ Kind(n) # "edited"
  BY <1>1, Naming DEF ShowKinds, DeskKinds
<1>5. Covered(names[k], state) = <<n>>
  BY <1>3, <1>4 DEF Covered
<1> QED BY <1>5

\* The names of a record that lists its objects first, presets before lists, and no
\* preset after the second.
LEMMA Orderly ==
    ASSUME NEW s, NEW names \in Seq(Scopes(s)),
           \A i \in 1 .. Len(names) : Kind(names[i]) # "place",
           \A i, j \in 1 .. Len(names) :
              i < j /\ BringsLists(names[i]) => Kind(names[j]) # "preset"
    PROVE  WellNamed(names, s)
BY DEF WellNamed

LEMMA OneName ==
    ASSUME NEW s, NEW a \in Scopes(s), Kind(a) # "place"
    PROVE  WellNamed(<<a>>, s)
<1> DEFINE names == <<a>>
<1>1. names \in Seq(Scopes(s)) /\ Len(names) = 1 /\ names[1] = a
  OBVIOUS
<1> HIDE DEF names
<1>2. WellNamed(names, s)
  BY <1>1, Orderly
<1> QED BY <1>2 DEF names

LEMMA TwoNames ==
    ASSUME NEW s, NEW a \in Scopes(s), NEW b \in Scopes(s),
           Kind(a) # "place", Kind(b) # "place", BringsLists(a) => Kind(b) # "preset"
    PROVE  WellNamed(<<a, b>>, s)
<1> DEFINE names == <<a, b>>
<1>1. names \in Seq(Scopes(s)) /\ Len(names) = 2 /\ names[1] = a /\ names[2] = b
  OBVIOUS
<1> HIDE DEF names
<1>2. \A i \in 1 .. Len(names) : i = 1 \/ i = 2
  BY <1>1
<1>3. WellNamed(names, s)
  BY <1>1, <1>2, Orderly
<1> QED BY <1>3 DEF names

LEMMA ThreeNames ==
    ASSUME NEW s, NEW a \in Scopes(s), NEW b \in Scopes(s), NEW c \in Scopes(s),
           Kind(a) # "place", Kind(b) # "place", Kind(c) # "place",
           BringsLists(a) => Kind(b) # "preset", Kind(c) # "preset"
    PROVE  WellNamed(<<a, b, c>>, s)
<1> DEFINE names == <<a, b, c>>
<1>1. names \in Seq(Scopes(s)) /\ Len(names) = 3
      /\ names[1] = a /\ names[2] = b /\ names[3] = c
  OBVIOUS
<1> HIDE DEF names
<1>2. \A i \in 1 .. Len(names) : i = 1 \/ i = 2 \/ i = 3
  BY <1>1
<1>3. WellNamed(names, s)
  BY <1>1, <1>2, Orderly
<1> QED BY <1>3 DEF names

LEMMA FourNames ==
    ASSUME NEW s, NEW a \in Scopes(s), NEW b \in Scopes(s), NEW c \in Scopes(s),
           NEW d \in Scopes(s),
           Kind(a) # "place", Kind(b) # "place", Kind(c) # "place", Kind(d) # "place",
           BringsLists(a) => Kind(b) # "preset", Kind(c) # "preset", Kind(d) # "preset"
    PROVE  WellNamed(<<a, b, c, d>>, s)
<1> DEFINE names == <<a, b, c, d>>
<1>1. names \in Seq(Scopes(s)) /\ Len(names) = 4
      /\ names[1] = a /\ names[2] = b /\ names[3] = c /\ names[4] = d
  OBVIOUS
<1> HIDE DEF names
<1>2. \A i \in 1 .. Len(names) : i = 1 \/ i = 2 \/ i = 3 \/ i = 4
  BY <1>1
<1>3. WellNamed(names, s)
  BY <1>1, <1>2, Orderly
<1> QED BY <1>3 DEF names

LEMMA Plain ==
    ASSUME NEW n \in Names
    PROVE  Kind(n) # "place" /\ (BringsLists(n) <=> Kind(n) = "list")
           /\ \A s : n \in Scopes(s)
BY Naming DEF ShowKinds, DeskKinds, BringsLists, Scopes, Imageable

LEMMA DeskPlain ==
    /\ Programmer \in Names /\ CueEdit \in Names /\ Selected \in Names
    /\ Kind(Programmer) \notin {"list", "preset"} /\ Kind(CueEdit) \notin {"list", "preset"}
    /\ Kind(Selected) \notin {"list", "preset"}
BY Named, Kinds

\* A command whose record names what it writes.
LEMMA FilesOne ==
    ASSUME IInv, NEW a \in Names, NEW verb, NEW next, Do(verb, <<a>>, next),
           Wrote({a}, state, next)
    PROVE  FiledWhole
<1>1. WellNamed(<<a>>, state) /\ WellNamed(<<a>>, next)
  BY Plain, OneName
<1>2. \A n \in {a} : \E k \in 1 .. Len(<<a>>) : <<a>>[k] = n
  OBVIOUS
<1>3. Frame(<<a>>, next)
  BY <1>2, NamedFrame DEF IInv
<1> QED BY <1>1, <1>3 DEF FiledWhole, Fit, Wrote

LEMMA FilesTwo ==
    ASSUME IInv, NEW a \in Names, NEW b \in Names, NEW verb, NEW next,
           Do(verb, <<a, b>>, next), Wrote({a, b}, state, next),
           Kind(a) = "list" => Kind(b) # "preset"
    PROVE  FiledWhole
<1>1. WellNamed(<<a, b>>, state) /\ WellNamed(<<a, b>>, next)
  BY Plain, TwoNames
<1>2. \A n \in {a, b} : \E k \in 1 .. Len(<<a, b>>) : <<a, b>>[k] = n
  <2>1. Len(<<a, b>>) = 2 /\ <<a, b>>[1] = a /\ <<a, b>>[2] = b /\ 1 \in 1 .. 2 /\ 2 \in 1 .. 2
    OBVIOUS
  <2> QED BY <2>1
<1>3. Frame(<<a, b>>, next)
  BY <1>2, NamedFrame DEF IInv
<1> QED BY <1>1, <1>3 DEF FiledWhole, Fit, Wrote

LEMMA FilesThree ==
    ASSUME IInv, NEW a \in Names, NEW b \in Names, NEW c \in Names, NEW verb, NEW next,
           Do(verb, <<a, b, c>>, next), Wrote({a, b, c}, state, next),
           Kind(a) = "list" => Kind(b) # "preset", Kind(c) # "preset"
    PROVE  FiledWhole
<1>1. WellNamed(<<a, b, c>>, state) /\ WellNamed(<<a, b, c>>, next)
  BY Plain, ThreeNames
<1>2. \A n \in {a, b, c} : \E k \in 1 .. Len(<<a, b, c>>) : <<a, b, c>>[k] = n
  <2>1. /\ Len(<<a, b, c>>) = 3 /\ <<a, b, c>>[1] = a /\ <<a, b, c>>[2] = b
        /\ <<a, b, c>>[3] = c /\ 1 \in 1 .. 3 /\ 2 \in 1 .. 3 /\ 3 \in 1 .. 3
    OBVIOUS
  <2> QED BY <2>1
<1>3. Frame(<<a, b, c>>, next)
  BY <1>2, NamedFrame DEF IInv
<1> QED BY <1>1, <1>3 DEF FiledWhole, Fit, Wrote

LEMMA FilesFour ==
    ASSUME IInv, NEW a \in Names, NEW b \in Names, NEW c \in Names, NEW d \in Names,
           NEW verb, NEW next,
           Do(verb, <<a, b, c, d>>, next), Wrote({a, b, c, d}, state, next),
           Kind(a) = "list" => Kind(b) # "preset", Kind(c) # "preset", Kind(d) # "preset"
    PROVE  FiledWhole
<1>1. WellNamed(<<a, b, c, d>>, state) /\ WellNamed(<<a, b, c, d>>, next)
  BY Plain, FourNames
<1>2. \A n \in {a, b, c, d} : \E k \in 1 .. Len(<<a, b, c, d>>) : <<a, b, c, d>>[k] = n
  <2>1. /\ Len(<<a, b, c, d>>) = 4 /\ <<a, b, c, d>>[1] = a /\ <<a, b, c, d>>[2] = b
        /\ <<a, b, c, d>>[3] = c /\ <<a, b, c, d>>[4] = d
        /\ 1 \in 1 .. 4 /\ 2 \in 1 .. 4 /\ 3 \in 1 .. 4 /\ 4 \in 1 .. 4
    OBVIOUS
  <2> QED BY <2>1
<1>3. Frame(<<a, b, c, d>>, next)
  BY <1>2, NamedFrame DEF IInv
<1> QED BY <1>1, <1>3 DEF FiledWhole, Fit, Wrote

LEMMA Joined ==
    ASSUME NEW S, NEW s \in Seq(S), NEW t \in Seq(S)
    PROVE  /\ s \o t \in Seq(S) /\ Len(s \o t) = Len(s) + Len(t)
           /\ Len(s) \in Nat /\ Len(t) \in Nat
           /\ \A i \in 1 .. Len(s) : (s \o t)[i] = s[i]
           /\ \A i \in 1 .. Len(t) : (s \o t)[Len(s) + i] = t[i]
OBVIOUS

LEMMA SameSequence ==
    ASSUME NEW S, NEW s \in Seq(S), NEW t \in Seq(S), Len(s) = Len(t),
           \A i \in 1 .. Len(s) : s[i] = t[i]
    PROVE  s = t
OBVIOUS

LEMMA JoinedLiterals ==
    ASSUME NEW a, NEW b, NEW c, NEW d
    PROVE  /\ <<a>> \o <<c, d>> = <<a, c, d>>
           /\ <<a, b>> \o <<c, d>> = <<a, b, c, d>>
<1>1. <<a>> \o <<c, d>> = <<a, c, d>>
  <2> DEFINE S == {a, c, d}
             s == <<a>>
             t == <<c, d>>
             u == <<a, c, d>>
             w == s \o t
  <2>1. s \in Seq(S) /\ t \in Seq(S) /\ u \in Seq(S)
    OBVIOUS
  <2>2. /\ Len(s) = 1 /\ Len(t) = 2 /\ Len(u) = 3
        /\ s[1] = a /\ t[1] = c /\ t[2] = d
        /\ u[1] = a /\ u[2] = c /\ u[3] = d
    OBVIOUS
  <2> HIDE DEF s, t, u, S
  <2>3. /\ w \in Seq(S) /\ Len(w) = Len(s) + Len(t)
        /\ \A i \in 1 .. Len(s) : w[i] = s[i]
        /\ \A i \in 1 .. Len(t) : w[Len(s) + i] = t[i]
    BY <2>1, Joined
  <2> HIDE DEF w
  <2>4. w[1] = a /\ w[2] = c /\ w[3] = d
    BY <2>2, <2>3
  <2>5. \A i \in 1 .. 3 : i = 1 \/ i = 2 \/ i = 3
    OBVIOUS
  <2>6. \A i \in 1 .. Len(w) : w[i] = u[i]
    BY <2>2, <2>3, <2>4, <2>5
  <2>7. w = u
    <3>1. Len(w) = Len(u)
      BY <2>2, <2>3
    <3> QED BY <2>1, <2>3, <2>6, <3>1, SameSequence
  <2> QED BY <2>7 DEF w, s, t, u
<1>2. <<a, b>> \o <<c, d>> = <<a, b, c, d>>
  <2> DEFINE S == {a, b, c, d}
             s == <<a, b>>
             t == <<c, d>>
             u == <<a, b, c, d>>
             w == s \o t
  <2>1. s \in Seq(S) /\ t \in Seq(S) /\ u \in Seq(S)
    OBVIOUS
  <2>2. /\ Len(s) = 2 /\ Len(t) = 2 /\ Len(u) = 4
        /\ s[1] = a /\ s[2] = b /\ t[1] = c /\ t[2] = d
        /\ u[1] = a /\ u[2] = b /\ u[3] = c /\ u[4] = d
    OBVIOUS
  <2> HIDE DEF s, t, u, S
  <2>3. /\ w \in Seq(S) /\ Len(w) = Len(s) + Len(t)
        /\ \A i \in 1 .. Len(s) : w[i] = s[i]
        /\ \A i \in 1 .. Len(t) : w[Len(s) + i] = t[i]
    BY <2>1, Joined
  <2> HIDE DEF w
  <2>4. w[1] = a /\ w[2] = b /\ w[3] = c /\ w[4] = d
    BY <2>2, <2>3
  <2>5. \A i \in 1 .. 4 : i = 1 \/ i = 2 \/ i = 3 \/ i = 4
    OBVIOUS
  <2>6. \A i \in 1 .. Len(w) : w[i] = u[i]
    BY <2>2, <2>3, <2>4, <2>5
  <2>7. w = u
    <3>1. Len(w) = Len(u)
      BY <2>2, <2>3
    <3> QED BY <2>1, <2>3, <2>6, <3>1, SameSequence
  <2> QED BY <2>7 DEF w, s, t, u
<1> QED BY <1>1, <1>2

\* Records with the programmer and the update state after what they are of.
LEMMA DeskAfter ==
    ASSUME NEW a, NEW b
    PROVE  /\ DeskImages = <<Programmer, CueEdit>>
           /\ <<a>> \o DeskImages = <<a, Programmer, CueEdit>>
           /\ <<a, b>> \o DeskImages = <<a, b, Programmer, CueEdit>>
BY JoinedLiterals DEF DeskImages

-----------------------------------------------------------------------------
(* The rig                                                                 *)

LEMMA FilesMany ==
    ASSUME IInv, NEW names \in Seq(Names), NEW verb, NEW next, Do(verb, names, next),
           \A i \in 1 .. Len(names) : Kind(names[i]) # "preset",
           NEW S, Wrote(S, state, next),
           \A n \in S : \E k \in 1 .. Len(names) : names[k] = n
    PROVE  FiledWhole
<1>1. \A i \in 1 .. Len(names) : names[i] \in Names /\ Kind(names[i]) # "place"
  BY Plain
<1>2. ASSUME NEW s PROVE WellNamed(names, s)
  <2>1. Names \subseteq Scopes(s)
    BY DEF Scopes, Imageable
  <2>2. names \in Seq(Scopes(s))
    BY <2>1
  <2> QED BY <1>1, <2>2, Orderly
<1>3. Frame(names, next)
  BY NamedFrame DEF IInv
<1> QED BY <1>2, <1>3 DEF FiledWhole, Fit, Wrote

LEMMA HangIs ==
    ASSUME IInv, NEW f \in Fixtures, NEW type \in Types, NEW at \in Addresses, NEW hang \in Settings
    PROVE  IsValue(Fixture(f), [type |-> type, at |-> at, hang |-> hang])
BY ValueOf

LEMMA PatchFixtureFiles ==
    ASSUME IInv, NEW f \in Fixtures, NEW type \in Types, NEW at \in Addresses,
           PatchFixture(f, type, at)
    PROVE  FiledWhole
<1> DEFINE hang == IF f \in Patched(state) THEN state[Fixture(f)].hang ELSE Usual
           value == [type |-> type, at |-> at, hang |-> hang]
           next == Put(state, Fixture(f), value)
<1>1. Do("patch", <<Fixture(f)>>, next)
  BY DEF PatchFixture, PatchedAs
<1>2. IsState(state)
  BY DEF IInv
<1>3. hang \in Settings
  BY <1>2, FixtureHangs, ShowAssumption
<1> HIDE DEF hang
<1>4. IsValue(Fixture(f), value)
  BY <1>3, HangIs
<1> HIDE DEF value
<1>5. Wrote({Fixture(f)}, state, next)
  BY <1>2, <1>4, WroteNothing, WrotePut, Named, Kinds
<1> HIDE DEF next
<1> QED BY <1>1, <1>5, FilesOne, Named

LEMMA UnpatchFixtureFiles ==
    ASSUME IInv, NEW f \in Fixtures, UnpatchFixture(f)
    PROVE  FiledWhole
<1> DEFINE next == Put(state, Fixture(f), Absent)
<1>1. Do("unpatch", <<Fixture(f)>>, next) /\ IsState(state)
  BY DEF UnpatchFixture, IInv
<1>2. Wrote({Fixture(f)}, state, next)
  BY <1>1, WroteNothing, WrotePut, Named
<1> HIDE DEF next
<1> QED BY <1>1, <1>2, FilesOne, Named

LEMMA RenumberFixtureFiles ==
    ASSUME IInv, NEW f \in Fixtures, NEW g \in Fixtures, RenumberFixture(f, g)
    PROVE  FiledWhole
<1> DEFINE S == {Fixture(f), Fixture(g)}
           gone == Without(state, {Fixture(f)})
           next == Put(gone, Fixture(g), state[Fixture(f)])
<1>1. Do("renumber", <<Fixture(f), Fixture(g)>>, next) /\ IsState(state) /\ f \in Patched(state)
  BY DEF RenumberFixture, IInv
<1>2. Wrote(S, state, gone)
  <2>1. \A n \in DeskNames : n \notin {Fixture(f)}
    BY Kinds DEF DeskNames
  <2> QED BY <1>1, <2>1, WroteNothing, WroteWithout
<1>3. IsValue(Fixture(g), state[Fixture(f)])
  <2>1. Fixture(f) \in DOMAIN state
    BY <1>1 DEF Patched, There
  <2>2. state[Fixture(f)] \in [type : Types, at : Addresses, hang : Settings]
    BY <1>1, <2>1, InState, ValueOf
  <2> QED BY <2>2, ValueOf
<1> HIDE DEF gone
<1>4. Wrote(S, state, next)
  BY <1>2, <1>3, WrotePut, Named, Kinds
<1> HIDE DEF next
<1>5. Fixture(f) \in Names /\ Fixture(g) \in Names /\ Kind(Fixture(f)) = "fixture"
  BY Named, Kinds
<1> QED BY <1>1, <1>4, <1>5, FilesTwo

\* Of each fixture that is hung elsewhere, the place is imaged.
LEMMA PlaceFixturesFiles ==
    ASSUME IInv, NEW fs \in SUBSET Fixtures, NEW places \in [fs -> Settings],
           PlaceFixtures(places)
    PROVE  FiledWhole
<1> DEFINE names == InAscending("place", fs)
           next == [n \in DOMAIN state |->
                       IF Kind(n) = "fixture" /\ n[2] \in fs
                       THEN [state[n] EXCEPT !.hang = places[n[2]]] ELSE state[n]]
<1>1. DOMAIN places = fs /\ fs \subseteq Patched(state) /\ Do("place", names, next)
  BY DEF PlaceFixtures
<1>2. IsState(state)
  BY DEF IInv
<1>3. fs \subseteq Nat /\ IsFiniteSet(fs)
  BY ShowAssumption, FS_Subset
<1>4. names \in Seq({ <<"place", f>> : f \in fs })
      /\ \A f \in fs : \E i \in DOMAIN names : names[i] = <<"place", f>>
  BY <1>3, Ascending
<1> HIDE DEF names
<1>5. DOMAIN next = DOMAIN state
      /\ \A n \in DOMAIN state : next[n] = IF Kind(n) = "fixture" /\ n[2] \in fs
                       THEN [state[n] EXCEPT !.hang = places[n[2]]] ELSE state[n]
  OBVIOUS
<1>6. IsMap(next)
  BY DEF IsMap
<1> HIDE DEF next
<1>7. ASSUME NEW n \in DOMAIN state, Kind(n) = "fixture", n[2] \in fs
      PROVE  /\ IsValue(n, next[n]) /\ next[n] = [state[n] EXCEPT !.hang = places[n[2]]]
             /\ next[n].hang = places[n[2]] /\ n = Fixture(n[2])
  <2>1. n = Fixture(n[2])
    BY <1>2, <1>7, InState, Naming
  <2>2. next[n] = [state[n] EXCEPT !.hang = places[n[2]]]
    BY <1>5, <1>7
  <2>3. state[n] \in [type : Types, at : Addresses, hang : Settings]
    BY <1>2, <2>1, InState, ValueOf
  <2>4. places[n[2]] \in Settings
    BY <1>7
  <2>5. next[n] \in [type : Types, at : Addresses, hang : Settings]
        /\ next[n].hang = places[n[2]]
    BY <2>2, <2>3, <2>4
  <2> QED BY <2>1, <2>2, <2>5, ValueOf
<1>8. IsState(next)
  <2>1. \A n \in DOMAIN next : IsValue(n, next[n])
    BY <1>2, <1>5, <1>7, InState
  <2> QED BY <1>2, <1>5, <1>6, <2>1 DEF IsState
<1>9. Patched(next) = Patched(state)
  BY <1>5 DEF Patched, There
<1>10. ASSUME NEW s, Patched(s) = Patched(state) PROVE WellNamed(names, s)
  <2>1. { <<"place", f>> : f \in fs } \subseteq Scopes(s)
    BY <1>1, <1>10 DEF Scopes, Imageable, Place
  <2>2. names \in Seq(Scopes(s))
    BY <1>4, <2>1
  <2>3. \A i \in 1 .. Len(names) : Kind(names[i]) = "place"
    <3>1. \A i \in 1 .. Len(names) : names[i] \in { <<"place", f>> : f \in fs }
      BY <1>4
    <3> QED BY <3>1 DEF Kind
  <2> QED BY <2>2, <2>3 DEF WellNamed
<1>11. Frame(names, next)
  <2> SUFFICES ASSUME NEW n \in DOMAIN state \cup DOMAIN next, Held(next, n) # Held(state, n)
               PROVE  \E k \in 1 .. Len(names) : \E j \in 1 .. Len(Covered(names[k], state)) :
                         LET m == Covered(names[k], state)[j] IN
                         /\ Kind(n) = "fixture" /\ n \in DOMAIN state /\ n \in DOMAIN next
                         /\ m = Place(n[2])
                         /\ next[n] = [state[n] EXCEPT !.hang = next[n].hang]
    BY DEF Frame
  <2>1. n \in DOMAIN state /\ n \in Names
    BY <1>2, <1>5, InState
  <2>2. Kind(n) # "place"
    BY <2>1, Naming DEF ShowKinds, DeskKinds
  <2>3. next[n] # state[n]
    BY <1>5, <2>1, <2>2 DEF Held, There
  <2>4. Kind(n) = "fixture" /\ n[2] \in fs
    BY <1>5, <2>1, <2>3
  <2>5. PICK k \in DOMAIN names : names[k] = Place(n[2])
    BY <1>4, <2>4 DEF Place
  <2>6. k \in 1 .. Len(names)
    BY <1>4, <2>5
  <2>7. Covered(names[k], state) = <<Place(n[2])>>
    BY <2>5, Kinds DEF Covered
  <2> QED BY <1>5, <1>7, <2>1, <2>4, <2>6, <2>7
<1> QED BY <1>1, <1>8, <1>9, <1>10, <1>11 DEF FiledWhole, Fit

\* Objects of one kind, in ascending order.
LEMMA AscendingNames ==
    ASSUME NEW kind, kind \in {"mark", "fixture", "type"}, NEW ids, ids \subseteq Nat,
           IsFiniteSet(ids), \A id \in ids : <<kind, id>> \in Names
    PROVE  LET names == InAscending(kind, ids) IN
           /\ names \in Seq(Names)
           /\ \A i \in 1 .. Len(names) : Kind(names[i]) # "preset"
           /\ \A id \in ids : \E k \in 1 .. Len(names) : names[k] = <<kind, id>>
<1> DEFINE names == InAscending(kind, ids)
<1>1. names \in Seq({ <<kind, id>> : id \in ids })
      /\ \A id \in ids : \E i \in DOMAIN names : names[i] = <<kind, id>>
  BY Ascending
<1>2. { <<kind, id>> : id \in ids } \subseteq Names
  OBVIOUS
<1> DEFINE K == { <<kind, id>> : id \in ids }
<1> HIDE DEF names, K
<1>3. names \in Seq(Names) /\ DOMAIN names = 1 .. Len(names)
      /\ \A i \in 1 .. Len(names) : names[i] \in K
  <2>1. names \in Seq(K) /\ K \subseteq Names
    BY <1>1, <1>2 DEF K
  <2> QED BY <2>1
<1>4. \A i \in 1 .. Len(names) : names[i] \in { <<kind, id>> : id \in ids }
  BY <1>3 DEF K
<1>5. \A i \in 1 .. Len(names) : Kind(names[i]) = kind
  BY <1>4 DEF Kind
<1> QED BY <1>1, <1>3, <1>5 DEF names

LEMMA EditMarksFiles ==
    ASSUME IInv, NEW in \in SUBSET Marks, NEW set \in [in -> Settings],
           NEW remove \in SUBSET Marks, EditMarks(set, remove)
    PROVE  FiledWhole
<1> DEFINE gone == { Mark(m) : m \in remove }
           kept == Without(state, gone)
           new == [n \in { Mark(m) : m \in in } |-> set[n[2]]]
           next == new ++ kept
           names == InAscending("mark", in \cup remove)
           S == { Mark(m) : m \in in \cup remove }
<1>1. Do("mark", names, next)
  BY DEF EditMarks
<1>2. IsState(state)
  BY DEF IInv
<1>3. Wrote(S, state, kept)
  <2>1. gone \subseteq S /\ \A n \in DeskNames : n \notin gone
    BY Kinds DEF DeskNames
  <2> HIDE DEF gone, S
  <2> QED BY <1>2, <2>1, WroteNothing, WroteWithout
<1>4. Wrote(S, state, next)
  <2>1. DOMAIN new \subseteq S /\ DOMAIN new \subseteq Names
    BY Named
  <2>2. \A n \in DOMAIN new : IsValue(n, new[n])
    <3>1. ASSUME NEW m \in in PROVE IsValue(Mark(m), new[Mark(m)])
      <4>1. new[Mark(m)] = set[m]
        BY Kinds
      <4> QED BY <4>1, ValueOf
    <3> QED BY <3>1
  <2> HIDE DEF new, S, kept
  <2> QED BY <1>3, <2>1, <2>2, WroteOver
<1>5. /\ names \in Seq(Names)
      /\ \A i \in 1 .. Len(names) : Kind(names[i]) # "preset"
      /\ \A id \in in \cup remove : \E k \in 1 .. Len(names) : names[k] = <<"mark", id>>
  <2>1. in \cup remove \subseteq Nat /\ IsFiniteSet(in \cup remove)
    <3>1. in \cup remove \subseteq Marks /\ Marks \subseteq Nat /\ IsFiniteSet(Marks)
      BY ShowAssumption
    <3> QED BY <3>1, FS_Subset
  <2>2. \A id \in in \cup remove : <<"mark", id>> \in Names
    BY Named DEF Mark
  <2> QED BY <2>1, <2>2, AscendingNames
<1>6. \A n \in S : \E k \in 1 .. Len(names) : names[k] = n
  BY <1>5 DEF Mark
<1> HIDE DEF names, S, next
<1> QED BY <1>1, <1>4, <1>5, <1>6, FilesMany

LEMMA EmbedFixtureTypeFiles ==
    ASSUME IInv, NEW type \in Types, NEW profile \in Profiles, EmbedFixtureType(type, profile)
    PROVE  FiledWhole
<1> DEFINE next == Put(state, Type(type), profile)
<1>1. Do("embed", <<Type(type)>>, next) /\ IsState(state)
  BY DEF EmbedFixtureType, IInv
<1>2. Wrote({Type(type)}, state, next)
  BY <1>1, WroteNothing, WrotePut, Named, Kinds, ValueOf
<1> HIDE DEF next
<1> QED BY <1>1, <1>2, FilesOne, Named

\* The fixtures of a plan, over a show.
LEMMA WroteFixtures ==
    ASSUME NEW S, NEW s, NEW t, Wrote(S, s, t), NEW fs \in SUBSET Fixtures, NEW new,
           DOMAIN new = { Fixture(f) : f \in fs },
           \A f \in fs : /\ Fixture(f) \in S
                         /\ new[Fixture(f)] \in [type : Types, at : Addresses, hang : Settings]
    PROVE  Wrote(S, s, new ++ t)
<1>1. DOMAIN new \subseteq S /\ DOMAIN new \subseteq Names
  BY Named
<1>2. \A n \in DOMAIN new : IsValue(n, new[n])
  BY ValueOf
<1> QED BY <1>1, <1>2, WroteOver

LEMMA FixtureIds ==
    ASSUME NEW fs \in SUBSET Fixtures
    PROVE  LET names == InAscending("fixture", fs) IN
           /\ names \in Seq(Names)
           /\ \A i \in 1 .. Len(names) : Kind(names[i]) # "preset"
           /\ \A f \in fs : \E k \in 1 .. Len(names) : names[k] = Fixture(f)
<1>1. fs \subseteq Nat /\ IsFiniteSet(fs)
  BY ShowAssumption, FS_Subset
<1>2. \A f \in fs : <<"fixture", f>> \in Names
  BY Named DEF Fixture
<1> QED BY <1>1, <1>2, AscendingNames DEF Fixture

LEMMA PatchFixturesFiles ==
    ASSUME IInv, NEW type \in Types, NEW fs \in SUBSET Fixtures,
           NEW addresses \in [fs -> Addresses], NEW copy \in Profiles \cup {Absent},
           PatchFixtures(type, addresses, copy)
    PROVE  FiledWhole
<1> DEFINE embedded == IF copy # Absent THEN Put(state, Type(type), copy) ELSE state
           new == [n \in { Fixture(f) : f \in fs } |->
                     [type |-> type, at |-> addresses[n[2]], hang |-> Usual]]
           next == new ++ embedded
           some == InAscending("fixture", fs)
           names == Append(some, Type(type))
           S == { Fixture(f) : f \in fs } \cup {Type(type)}
<1>1. Do("patchMany", names, next)
  BY DEF PatchFixtures
<1>2. IsState(state)
  BY DEF IInv
<1>3. Wrote(S, state, embedded)
  <2>1. copy # Absent => IsValue(Type(type), copy)
    BY ValueOf
  <2>2. Type(type) \in S /\ Type(type) \in ShowNames /\ Kind(Type(type)) = "type"
    BY Named, Kinds
  <2> HIDE DEF S
  <2> QED BY <1>2, <2>1, <2>2, WroteNothing, WrotePut
<1>4. Wrote(S, state, next)
  <2>1. DOMAIN new = { Fixture(f) : f \in fs }
    OBVIOUS
  <2>2. \A f \in fs : /\ Fixture(f) \in S
                      /\ new[Fixture(f)] \in [type : Types, at : Addresses, hang : Settings]
    <3>1. ASSUME NEW f \in fs
          PROVE  /\ new[Fixture(f)] = [type |-> type, at |-> addresses[f], hang |-> Usual]
                 /\ addresses[f] \in Addresses
      BY Kinds
    <3> QED BY <3>1, ShowAssumption
  <2> HIDE DEF S, embedded, new
  <2> QED BY <1>3, <2>1, <2>2, WroteFixtures
<1>5. /\ some \in Seq(Names)
      /\ \A i \in 1 .. Len(some) : Kind(some[i]) # "preset"
      /\ \A f \in fs : \E k \in 1 .. Len(some) : some[k] = Fixture(f)
  BY FixtureIds
<1> HIDE DEF some
<1>6. /\ names \in Seq(Names) /\ Len(names) = Len(some) + 1 /\ Len(some) \in Nat
      /\ \A i \in 1 .. Len(some) : names[i] = some[i]
      /\ names[Len(some) + 1] = Type(type)
  BY <1>5, Named
<1> HIDE DEF names
<1>7. \A i \in 1 .. Len(names) : Kind(names[i]) # "preset"
  <2>1. \A i \in 1 .. Len(names) : i \in 1 .. Len(some) \/ i = Len(some) + 1
    BY <1>6
  <2> QED BY <1>5, <1>6, <2>1, Kinds
<1>8. \A n \in S : \E k \in 1 .. Len(names) : names[k] = n
  <2>1. ASSUME NEW f \in fs PROVE \E k \in 1 .. Len(names) : names[k] = Fixture(f)
    BY <1>5, <1>6
  <2>2. Len(some) + 1 \in 1 .. Len(names)
    BY <1>6
  <2> QED BY <1>6, <2>1, <2>2
<1> HIDE DEF next, S
<1> QED BY <1>1, <1>4, <1>6, <1>7, <1>8, FilesMany

LEMMA LowestIs ==
    ASSUME NEW T, T \subseteq Nat, T # {}
    PROVE  Min(T) \in T
<1>1. \E n \in T : \A m \in T : n =< m
  BY Least
<1> QED BY <1>1 DEF Min

\* A number that is not taken.
LEMMA NumberIs ==
    ASSUME NEW entry, entry.number \in {Absent} \cup Nat,
           NEW taken, taken \subseteq Nat, IsFiniteSet(taken)
    PROVE  NumberFor(entry, taken) \in Nat
<1> DEFINE N == Cardinality(taken)
           free == (1 .. 1 + N) \ taken
<1>1. N \in Nat
  BY FS_CardinalityType
<1>2. free # {}
  <2> SUFFICES ASSUME 1 .. 1 + N \subseteq taken PROVE FALSE
    OBVIOUS
  <2>1. /\ IsFiniteSet(1 .. 1 + N)
        /\ Cardinality(1 .. 1 + N) = IF 1 > 1 + N THEN 0 ELSE (1 + N) - 1 + 1
    <3>1. 1 \in Int /\ 1 + N \in Int
      BY <1>1
    <3> QED BY <3>1, FS_Interval
  <2>2. Cardinality(1 .. 1 + N) <= N
    BY FS_Subset
  <2> QED BY <1>1, <2>1, <2>2
<1>3. free \subseteq Nat
  BY <1>1
<1> HIDE DEF free, N
<1>4. Min(free) \in Nat
  BY <1>2, <1>3, LowestIs
<1>5. entry.number # Absent => entry.number \in Nat
  OBVIOUS
<1> QED BY <1>4, <1>5 DEF NumberFor, free, N

\* A rig file holds profiles of types and entries that may be patched.
LEMMA RigIs ==
    ASSUME NEW rig \in RigFiles
    PROVE  /\ DOMAIN rig.profiles \subseteq Types
           /\ \A t \in DOMAIN rig.profiles : rig.profiles[t] \in Profiles
           /\ Len(rig.fixtures) \in Nat
           /\ \A i \in 1 .. Len(rig.fixtures) : rig.fixtures[i] \in
                [number : {Absent} \cup Nat, type : Nat, at : {Absent} \cup Addresses,
                 hang : Settings]
<1>1. rig.profiles \in Partial(Types, Profiles)
      /\ rig.fixtures \in Seq([number : {Absent} \cup Nat, type : Nat,
                               at : {Absent} \cup Addresses, hang : Settings])
  BY DEF RigFiles
<1>2. PICK S \in SUBSET Types : rig.profiles \in [S -> Profiles]
  BY <1>1 DEF Partial
<1>3. DOMAIN rig.profiles \subseteq Types
      /\ \A t \in DOMAIN rig.profiles : rig.profiles[t] \in Profiles
  BY <1>2
<1> DEFINE E == [number : {Absent} \cup Nat, type : Nat, at : {Absent} \cup Addresses,
                 hang : Settings]
<1>4. rig.fixtures \in Seq(E)
  BY <1>1
<1> HIDE DEF E
<1>5. Len(rig.fixtures) \in Nat /\ \A i \in 1 .. Len(rig.fixtures) : rig.fixtures[i] \in E
  BY <1>4
<1> QED BY <1>3, <1>5 DEF E

\* What is planned has a profile of the file, an address and a place.
LEMMA Plans ==
    ASSUME NEW s, IsState(s), NEW rig \in RigFiles
    PROVE  \A f \in DOMAIN PlanOf(rig, s) :
              /\ PlanOf(rig, s)[f] \in [type : Types, at : Addresses, hang : Settings]
              /\ PlanOf(rig, s)[f].type \in DOMAIN rig.profiles
<1> DEFINE n == Len(rig.fixtures)
           HasRoom(entry) ==
               /\ entry.type \in DOMAIN rig.profiles /\ entry.at # Absent
               /\ Fits(entry.at, rig.profiles[entry.type].size)
           Hung(entry) == [type |-> entry.type, at |-> entry.at, hang |-> entry.hang]
           Added(i, p) == With(p, NumberFor(rig.fixtures[i], Patched(s) \cup DOMAIN p),
                               Hung(rig.fixtures[i]))
           Step(i, p) == IF ~ HasRoom(rig.fixtures[i]) THEN p ELSE Added(i, p)
           Room == { h \in [type : Types, at : Addresses, hang : Settings] :
                        h.type \in DOMAIN rig.profiles }
           Plan == { p \in Partial(Nat, Room) : IsFiniteSet(DOMAIN p) }
           F == [i \in 1 .. n |-> [p \in Plan |-> Step(i, p)]]
           IsPlan(g) == g = [i \in 0 .. n |->
               IF i = 0 THEN Nothing
               ELSE IF ~ HasRoom(rig.fixtures[i]) THEN g[i - 1]
               ELSE LET entry == rig.fixtures[i]
                    IN  With(g[i - 1],
                             NumberFor(entry, Patched(s) \cup DOMAIN g[i - 1]),
                             [type |-> entry.type, at |-> entry.at, hang |-> entry.hang])]
<1>1. /\ n \in Nat /\ DOMAIN rig.profiles \subseteq Types
      /\ \A i \in 1 .. n : rig.fixtures[i] \in
           [number : {Absent} \cup Nat, type : Nat, at : {Absent} \cup Addresses,
            hang : Settings]
  BY RigIs
<1>2. PlanOf(rig, s) = (CHOOSE g : IsPlan(g))[n]
  BY DEF PlanOf
<1>3. Patched(s) \subseteq Nat /\ IsFiniteSet(Patched(s))
  <2>1. Patched(s) \subseteq Fixtures /\ Fixtures \subseteq Nat /\ IsFiniteSet(Fixtures)
    BY ShowAssumption DEF Patched
  <2> QED BY <2>1, FS_Subset
<1>4. \A p : p \in Plan <=> IsPartial(p, Nat, Room) /\ IsFiniteSet(DOMAIN p)
  BY DEF Partial, IsPartial
<1>5. Nothing \in Plan
  BY <1>4, NothingIsPartial, FS_EmptySet
<1> HIDE DEF n
<1>6. ASSUME NEW i \in 1 .. n, NEW p \in Plan PROVE Step(i, p) \in Plan
  <2> DEFINE entry == rig.fixtures[i]
             taken == Patched(s) \cup DOMAIN p
  <2>1. entry.number \in {Absent} \cup Nat /\ entry.hang \in Settings
        /\ entry.at \in {Absent} \cup Addresses
    BY <1>1
  <2>2. IsPartial(p, Nat, Room) /\ IsFiniteSet(DOMAIN p)
    BY <1>4
  <2>3. CASE HasRoom(entry)
    <3>1. Hung(entry) \in Room
      BY <1>1, <2>1, <2>3
    <3>2. taken \subseteq Nat /\ IsFiniteSet(taken)
      BY <1>3, <2>2, FS_Union DEF IsPartial
    <3> DEFINE k == NumberFor(entry, taken)
               v == Hung(entry)
    <3>3. k \in Nat
      <4> HIDE DEF entry, taken
      <4> QED BY <2>1, <3>2, NumberIs
    <3>4. Step(i, p) = With(p, k, v)
      BY <2>3
    <3> HIDE DEF k, v, Step, Room
    <3>5. IsPartial(With(p, k, v), Nat, Room)
      BY <2>2, <3>1, <3>3, PartialWith DEF v
    <3>6. DOMAIN With(p, k, v) = DOMAIN p \cup {k}
      BY DEF With
    <3>7. IsFiniteSet(DOMAIN With(p, k, v))
      BY <2>2, <3>6, FS_AddElement
    <3> QED BY <1>4, <3>4, <3>5, <3>7
  <2>4. CASE ~ HasRoom(entry)
    BY <2>4
  <2> QED BY <2>3, <2>4
<1>7. F \in [1 .. n -> [Plan -> Plan]]
  <2> HIDE DEF Step, Plan
  <2> QED BY <1>6
<1>8. \A i \in 1 .. n : \A p \in Plan : F[i][p] = Step(i, p)
  OBVIOUS
<1> HIDE DEF F, Plan
<1>9. PICK g : Recurs(g, n, Plan, Nothing, F)
  BY <1>1, <1>5, <1>7, Recursion
<1>10. g \in [0 .. n -> Plan] /\ g[0] = Nothing
       /\ \A i \in 1 .. n : g[i] = Step(i, g[i - 1])
  <2>1. \A i \in 1 .. n : i - 1 \in 0 .. n
    BY <1>1
  <2> QED BY <1>8, <1>9, <2>1 DEF Recurs
<1>11. IsPlan(g)
  <2>1. ASSUME NEW i \in 0 .. n
        PROVE  g[i] = IF i = 0 THEN Nothing ELSE Step(i, g[i - 1])
    <3>1. i # 0 => i \in 1 .. n
      BY <1>1
    <3> QED BY <1>10, <3>1
  <2> QED BY <1>10, <2>1
<1> DEFINE plan == CHOOSE h : IsPlan(h)
<1>12. IsPlan(plan)
  BY <1>11
<1> HIDE DEF plan
<1>13. plan[0] = Nothing /\ \A i \in 1 .. n : plan[i] = Step(i, plan[i - 1])
  <2>1. \A i \in 0 .. n : plan[i] = IF i = 0 THEN Nothing ELSE Step(i, plan[i - 1])
    BY <1>12
  <2>2. 0 \in 0 .. n /\ \A i \in 1 .. n : i \in 0 .. n /\ i # 0
    BY <1>1
  <2> HIDE DEF Step
  <2> QED BY <2>1, <2>2
<1> HIDE DEF IsPlan, Step
<1> DEFINE T == { i \in 0 .. n : plan[i] \in Plan }
<1>14. 0 \in T
  BY <1>1, <1>5, <1>13
<1>15. ASSUME NEW i \in 1 .. n, i - 1 \in T PROVE i \in T
  BY <1>1, <1>6, <1>13, <1>15
<1> HIDE DEF T
<1>16. \A i \in 0 .. n : i \in T
  BY <1>1, <1>14, <1>15, Climb
<1>17. plan[n] \in Plan
  BY <1>1, <1>16 DEF T
<1>18. IsPartial(plan[n], Nat, Room)
  BY <1>4, <1>17
<1>19. PlanOf(rig, s) = plan[n]
  BY <1>2 DEF plan
<1>20. \A f \in DOMAIN plan[n] : plan[n][f] \in Room
  <2> HIDE DEF Room
  <2> QED BY <1>18 DEF IsPartial
<1> QED BY <1>19, <1>20

LEMMA TypeIds ==
    ASSUME NEW ts \in SUBSET Types
    PROVE  LET names == InAscending("type", ts) IN
           /\ names \in Seq(Names)
           /\ \A i \in 1 .. Len(names) : Kind(names[i]) # "preset"
           /\ \A t \in ts : \E k \in 1 .. Len(names) : names[k] = Type(t)
<1>1. ts \subseteq Nat /\ IsFiniteSet(ts)
  BY ShowAssumption, FS_Subset
<1>2. \A t \in ts : <<"type", t>> \in Names
  BY Named DEF Type
<1> QED BY <1>1, <1>2, AscendingNames DEF Type

\* A venue's rig is filed whole, or it is refused with the profiles before the one
\* that is not accepted embedded.
LEMMA ImportRigFiles ==
    ASSUME IInv, NEW rig \in RigFiles, ImportRig(rig)
    PROVE  FiledWhole \/ \E half : Fail("importRig", half) /\ IsState(half)
<1> DEFINE plan   == PlanOf(rig, state)
           wanted == { plan[f].type : f \in DOMAIN plan }
           bad    == { t \in wanted : ~ Accepts(state, Type(t), rig.profiles[t]) }
           Embedded(ts) == [n \in { Type(t) : t \in ts } |-> rig.profiles[n[2]]] ++ state
           new    == [n \in { Fixture(f) : f \in DOMAIN plan } |-> plan[n[2]]]
           some   == InAscending("fixture", DOMAIN plan)
           types  == InAscending("type", wanted)
           half   == Embedded({ t \in wanted : t < Min(bad) })
           S == { Fixture(f) : f \in DOMAIN plan } \cup { Type(t) : t \in wanted }
<1>1. /\ DOMAIN plan \subseteq Fixtures
      /\ IF bad = {}
         THEN Do("importRig", some \o types, new ++ Embedded(wanted))
         ELSE Fail("importRig", half)
  BY DEF ImportRig
<1>2. IsState(state)
  BY DEF IInv
<1>3. \A f \in DOMAIN plan :
         /\ plan[f] \in [type : Types, at : Addresses, hang : Settings]
         /\ plan[f].type \in DOMAIN rig.profiles
  BY <1>2, Plans
<1> HIDE DEF plan
<1>4. wanted \subseteq Types /\ wanted \subseteq DOMAIN rig.profiles
  BY <1>3
<1> HIDE DEF wanted
<1>5. ASSUME NEW ts, ts \subseteq wanted, NEW U, { Type(t) : t \in ts } \subseteq U
      PROVE  Wrote(U, state, Embedded(ts))
  <2> DEFINE u == [n \in { Type(t) : t \in ts } |-> rig.profiles[n[2]]]
  <2>1. DOMAIN u \subseteq U /\ DOMAIN u \subseteq Names
    BY <1>4, <1>5, Named
  <2>2. \A n \in DOMAIN u : IsValue(n, u[n])
    <3>1. ASSUME NEW t \in ts PROVE IsValue(Type(t), u[Type(t)])
      <4>1. u[Type(t)] = rig.profiles[t] /\ rig.profiles[t] \in Profiles
        BY <1>4, <1>5, Kinds, RigIs
      <4> QED BY <4>1, ValueOf
    <3> QED BY <3>1
  <2>3. Embedded(ts) = u ++ state
    OBVIOUS
  <2> HIDE DEF u, Embedded
  <2> QED BY <1>2, <2>1, <2>2, <2>3, WroteNothing, WroteOver
<1> DEFINE embedded == Embedded(wanted)
<1>6. CASE bad # {}
  <2>1. Fail("importRig", half)
    BY <1>1, <1>6
  <2> DEFINE ts == { t \in wanted : t < Min(bad) }
             U == { Type(t) : t \in ts }
  <2>2. ts \subseteq wanted /\ U \subseteq U /\ { Type(t) : t \in ts } \subseteq U
    OBVIOUS
  <2>3. half = Embedded(ts)
    OBVIOUS
  <2> HIDE DEF Embedded, ts, U, half
  <2>4. Wrote(U, state, half)
    BY <1>5, <2>2, <2>3
  <2> QED BY <2>1, <2>4 DEF Wrote
<1>7. CASE bad = {}
  <2> DEFINE names == some \o types
             next == new ++ embedded
  <2>1. Do("importRig", names, next)
    BY <1>1, <1>7
  <2>2. Wrote(S, state, embedded)
    <3>1. wanted \subseteq wanted /\ { Type(t) : t \in wanted } \subseteq S
      OBVIOUS
    <3> HIDE DEF Embedded, S
    <3> QED BY <1>5, <3>1
  <2>3. Wrote(S, state, next)
    <3>1. DOMAIN new = { Fixture(f) : f \in DOMAIN plan } /\ DOMAIN plan \in SUBSET Fixtures
      BY <1>1
    <3>2. \A f \in DOMAIN plan :
             /\ Fixture(f) \in S
             /\ new[Fixture(f)] \in [type : Types, at : Addresses, hang : Settings]
      <4>1. \A f \in DOMAIN plan : new[Fixture(f)] = plan[f]
        BY Kinds
      <4> QED BY <1>3, <4>1
    <3> HIDE DEF S, embedded, new
    <3> QED BY <2>2, <3>1, <3>2, WroteFixtures
  <2>4. /\ some \in Seq(Names)
        /\ \A i \in 1 .. Len(some) : Kind(some[i]) # "preset"
        /\ \A f \in DOMAIN plan : \E k \in 1 .. Len(some) : some[k] = Fixture(f)
    BY <1>1, FixtureIds
  <2>5. /\ types \in Seq(Names)
        /\ \A i \in 1 .. Len(types) : Kind(types[i]) # "preset"
        /\ \A t \in wanted : \E k \in 1 .. Len(types) : types[k] = Type(t)
    BY <1>4, TypeIds
  <2> HIDE DEF some, types
  <2>6. /\ names \in Seq(Names) /\ Len(names) = Len(some) + Len(types)
        /\ Len(some) \in Nat /\ Len(types) \in Nat
        /\ \A i \in 1 .. Len(some) : names[i] = some[i]
        /\ \A i \in 1 .. Len(types) : names[Len(some) + i] = types[i]
    BY <2>4, <2>5, Joined
  <2> HIDE DEF names
  <2>7. ASSUME NEW i \in 1 .. Len(names) PROVE Kind(names[i]) # "preset"
    <3>1. CASE i <= Len(some)
      BY <2>4, <2>6, <3>1
    <3>2. CASE ~ (i <= Len(some))
      <4>1. i - Len(some) \in 1 .. Len(types) /\ Len(some) + (i - Len(some)) = i
        BY <2>6, <3>2
      <4> QED BY <2>5, <2>6, <4>1
    <3> QED BY <3>1, <3>2
  <2>8. \A n \in S : \E k \in 1 .. Len(names) : names[k] = n
    <3>1. ASSUME NEW f \in DOMAIN plan PROVE \E k \in 1 .. Len(names) : names[k] = Fixture(f)
      BY <2>4, <2>6
    <3>2. ASSUME NEW t \in wanted PROVE \E k \in 1 .. Len(names) : names[k] = Type(t)
      <4>1. PICK k \in 1 .. Len(types) : types[k] = Type(t)
        BY <2>5
      <4>2. Len(some) + k \in 1 .. Len(names)
        BY <2>6
      <4> QED BY <2>6, <4>1, <4>2
    <3> QED BY <3>1, <3>2
  <2> HIDE DEF next, S
  <2> QED BY <2>1, <2>3, <2>6, <2>7, <2>8, FilesMany
<1> QED BY <1>6, <1>7

-----------------------------------------------------------------------------
(* The programmer                                                          *)

LEMMA TouchedIs ==
    ASSUME IInv
    PROVE  IsValue(CueEdit, Touched)
<1>1. state[CueEdit] \in {Absent} \cup CueEdits
  BY InState, ValueOf DEF IInv
<1>2. Touched \in {Absent} \cup CueEdits
  BY <1>1 DEF Touched, Editing, CueEdits
<1> QED BY <1>2, ValueOf

LEMMA DeskIs ==
    ASSUME IInv
    PROVE  IsValue(Programmer, Desk) /\ IsValue(Programmer, Deselected)
<1>1. IsValue(Programmer, Desk)
  BY InState DEF Desk, IInv
<1>2. /\ Desk.selection \in SUBSET Fixtures /\ Desk.manual \in SUBSET Fixtures
      /\ Desk.groups \in SUBSET Groups /\ IsPartial(Desk.values, Fixtures, Touches)
      /\ Desk = [selection |-> Desk.selection, manual |-> Desk.manual,
                 groups |-> Desk.groups, values |-> Desk.values]
  BY <1>1, DeskFields
<1>3. Deselected = [selection |-> {}, manual |-> {}, groups |-> {}, values |-> Desk.values]
  <2>1. [Desk EXCEPT !.selection = {}] = [selection |-> {}, manual |-> Desk.manual,
                                          groups |-> Desk.groups, values |-> Desk.values]
    BY <1>2
  <2> DEFINE a == [Desk EXCEPT !.selection = {}]
             b == [a EXCEPT !.manual = {}]
  <2> HIDE DEF a
  <2>2. a = [selection |-> {}, manual |-> Desk.manual, groups |-> Desk.groups,
             values |-> Desk.values]
    BY <2>1 DEF a
  <2>3. b = [selection |-> {}, manual |-> {}, groups |-> Desk.groups, values |-> Desk.values]
    BY <2>2
  <2> HIDE DEF b
  <2>4. [b EXCEPT !.groups = {}] = [selection |-> {}, manual |-> {}, groups |-> {},
                                    values |-> Desk.values]
    BY <2>3
  <2> QED BY <2>4 DEF Deselected, a, b
<1>4. IsValue(Programmer, [selection |-> {}, manual |-> {}, groups |-> {},
                           values |-> Desk.values])
  BY <1>2, DeskMade
<1> QED BY <1>1, <1>3, <1>4

\* A programmer with what is picked, and with other values.
LEMMA DeskPicked ==
    ASSUME NEW base, IsValue(Programmer, base)
    PROVE  /\ \A selection, manual \in SUBSET Fixtures :
                IsValue(Programmer, [base EXCEPT !.selection = selection, !.manual = manual])
           /\ \A groups \in SUBSET Groups, selection \in SUBSET Fixtures :
                IsValue(Programmer, [base EXCEPT !.groups = groups, !.selection = selection])
           /\ \A values : IsPartial(values, Fixtures, Touches) =>
                IsValue(Programmer, [base EXCEPT !.values = values])
<1>1. /\ base.selection \in SUBSET Fixtures /\ base.manual \in SUBSET Fixtures
      /\ base.groups \in SUBSET Groups /\ IsPartial(base.values, Fixtures, Touches)
      /\ base = [selection |-> base.selection, manual |-> base.manual,
                 groups |-> base.groups, values |-> base.values]
  BY DeskFields
<1>2. ASSUME NEW selection \in SUBSET Fixtures, NEW manual \in SUBSET Fixtures
      PROVE  IsValue(Programmer, [base EXCEPT !.selection = selection, !.manual = manual])
  <2>1. [base EXCEPT !.selection = selection, !.manual = manual]
          = [selection |-> selection, manual |-> manual, groups |-> base.groups,
             values |-> base.values]
    <3> DEFINE a == [base EXCEPT !.selection = selection]
    <3>1. a = [selection |-> selection, manual |-> base.manual, groups |-> base.groups,
               values |-> base.values]
      BY <1>1
    <3> HIDE DEF a
    <3>2. [a EXCEPT !.manual = manual] = [selection |-> selection, manual |-> manual,
              groups |-> base.groups, values |-> base.values]
      BY <3>1
    <3> QED BY <3>2 DEF a
  <2>2. IsValue(Programmer, [selection |-> selection, manual |-> manual,
                             groups |-> base.groups, values |-> base.values])
    BY <1>1, <1>2, DeskMade
  <2> QED BY <2>1, <2>2
<1>3. ASSUME NEW groups \in SUBSET Groups, NEW selection \in SUBSET Fixtures
      PROVE  IsValue(Programmer, [base EXCEPT !.groups = groups, !.selection = selection])
  <2>1. [base EXCEPT !.groups = groups, !.selection = selection]
          = [selection |-> selection, manual |-> base.manual, groups |-> groups,
             values |-> base.values]
    <3> DEFINE a == [base EXCEPT !.groups = groups]
    <3>1. a = [selection |-> base.selection, manual |-> base.manual, groups |-> groups,
               values |-> base.values]
      BY <1>1
    <3> HIDE DEF a
    <3>2. [a EXCEPT !.selection = selection] = [selection |-> selection,
              manual |-> base.manual, groups |-> groups, values |-> base.values]
      BY <3>1
    <3> QED BY <3>2 DEF a
  <2>2. IsValue(Programmer, [selection |-> selection, manual |-> base.manual,
                             groups |-> groups, values |-> base.values])
    BY <1>1, <1>3, DeskMade
  <2> QED BY <2>1, <2>2
<1>4. ASSUME NEW values, IsPartial(values, Fixtures, Touches)
      PROVE  IsValue(Programmer, [base EXCEPT !.values = values])
  <2>1. [base EXCEPT !.values = values]
          = [selection |-> base.selection, manual |-> base.manual,
             groups |-> base.groups, values |-> values]
    BY <1>1
  <2>2. IsValue(Programmer, [selection |-> base.selection, manual |-> base.manual,
                             groups |-> base.groups, values |-> values])
    BY <1>1, <1>4, DeskMade
  <2> QED BY <2>1, <2>2
<1> QED BY <1>2, <1>3, <1>4

\* The desk of a state after a command.
LEMMA WroteDesk ==
    ASSUME NEW S, NEW s, NEW t, Wrote(S, s, t), Programmer \in S, CueEdit \in S,
           NEW desk, IsValue(Programmer, desk), NEW edit, IsValue(CueEdit, edit)
    PROVE  /\ Wrote(S, s, [t EXCEPT ![Programmer] = desk, ![CueEdit] = edit])
           /\ Wrote(S, s, [t EXCEPT ![CueEdit] = edit])
<1> DEFINE u == [t EXCEPT ![Programmer] = desk]
<1>1. Wrote(S, s, u)
  BY WroteSet
<1>2. [t EXCEPT ![Programmer] = desk, ![CueEdit] = edit] = [u EXCEPT ![CueEdit] = edit]
  OBVIOUS
<1> HIDE DEF u
<1>3. Wrote(S, s, [u EXCEPT ![CueEdit] = edit]) /\ Wrote(S, s, [t EXCEPT ![CueEdit] = edit])
  BY <1>1, WroteSet
<1> QED BY <1>2, <1>3

LEMMA ProgramFiles ==
    ASSUME IInv, NEW verb, NEW next, Program(verb, next), IsValue(Programmer, next)
    PROVE  FiledWhole
<1> DEFINE t == [state EXCEPT ![Programmer] = next, ![CueEdit] = Touched]
<1>1. Do(verb, <<Programmer, CueEdit>>, t)
  BY DeskAfter DEF Program
<1>2. IsValue(CueEdit, Touched) /\ IsState(state)
  BY TouchedIs DEF IInv
<1>3. Wrote({Programmer, CueEdit}, state, t)
  BY <1>2, WroteNothing, WroteDesk
<1> HIDE DEF t
<1> QED BY <1>1, <1>3, FilesTwo, DeskPlain

LEMMA SelectFixturesFiles ==
    ASSUME IInv, NEW chosen \in SUBSET Fixtures, NEW mode, SelectFixtures(chosen, mode)
    PROVE  FiledWhole
<1> DEFINE base == IF mode = "set" THEN Deselected ELSE Desk
           out == IF mode = "toggle" THEN chosen \cap base.selection ELSE {}
           selection == (base.selection \cup chosen) \ out
           manual == (base.manual \cup chosen) \ out
           next == [base EXCEPT !.selection = selection, !.manual = manual]
<1>1. Program("select", next)
  BY DEF SelectFixtures
<1>2. IsValue(Programmer, base)
  BY DeskIs
<1> HIDE DEF base
<1>3. selection \in SUBSET Fixtures /\ manual \in SUBSET Fixtures
  BY <1>2, DeskFields
<1> HIDE DEF selection, manual
<1>4. IsValue(Programmer, next)
  BY <1>2, <1>3, DeskPicked
<1> QED BY <1>1, <1>4, ProgramFiles

LEMMA MembersAre ==
    ASSUME NEW s, IsState(s), NEW g, There(s, Group(g))
    PROVE  s[Group(g)].members \in SUBSET Fixtures /\ s[Group(g)].name \in Settings
BY InState, ValueOf DEF There

LEMMA SelectGroupFiles ==
    ASSUME IInv, NEW g \in Groups, NEW mode, SelectGroup(g, mode)
    PROVE  FiledWhole
<1> DEFINE members == state[Group(g)].members
           base == IF mode = "set" THEN Deselected ELSE Desk
           others == base.groups \ {g}
           held == base.manual \cup UNION { state[Group(o)].members :
                        o \in { h \in others : There(state, Group(h)) } }
           off == [base EXCEPT !.groups = others, !.selection = base.selection \ (members \ held)]
           on == [base EXCEPT !.groups = base.groups \cup {g},
                              !.selection = base.selection \cup members]
           next == IF mode = "toggle" /\ g \in base.groups THEN off ELSE on
<1>1. Program("selectGroup", next) /\ There(state, Group(g))
  BY DEF SelectGroup
<1>2. IsValue(Programmer, base)
  BY DeskIs
<1>3. members \in SUBSET Fixtures
  BY <1>1, MembersAre DEF IInv
<1> HIDE DEF base, members, held
<1>4. base.groups \in SUBSET Groups /\ base.selection \in SUBSET Fixtures
  BY <1>2, DeskFields
<1>5. IsValue(Programmer, off)
  BY <1>2, <1>4, DeskPicked
<1>6. IsValue(Programmer, on)
  <2>1. base.groups \cup {g} \in SUBSET Groups /\ base.selection \cup members \in SUBSET Fixtures
    BY <1>3, <1>4
  <2> QED BY <1>2, <2>1, DeskPicked
<1> HIDE DEF off, on
<1> QED BY <1>1, <1>5, <1>6, ProgramFiles

\* A value over what the programmer holds.
LEMMA ValuesOver ==
    ASSUME IInv, NEW verb, NEW new, IsPartial(new, Fixtures, Touches),
           Program(verb, [Desk EXCEPT !.values = new ++ @])
    PROVE  FiledWhole
<1>1. IsValue(Programmer, Desk)
  BY DeskIs
<1>2. IsPartial(new ++ Desk.values, Fixtures, Touches)
  BY <1>1, DeskFields, PartialOver
<1> DEFINE values == new ++ Desk.values
<1>3. Program(verb, [Desk EXCEPT !.values = values])
  OBVIOUS
<1> HIDE DEF values
<1>4. IsValue(Programmer, [Desk EXCEPT !.values = values])
  BY <1>1, <1>2, DeskPicked DEF values
<1> QED BY <1>3, <1>4, ProgramFiles

LEMMA InHandIs ==
    ASSUME IInv
    PROVE  InHand \subseteq Fixtures
BY DeskIs, DeskFields DEF InHand

LEMMA SetAttributeFiles ==
    ASSUME IInv, NEW value \in Values, SetAttribute(value)
    PROVE  FiledWhole
<1> DEFINE new == [f \in InHand |-> [value |-> value, link |-> Absent]]
<1>1. Program("set", [Desk EXCEPT !.values = new ++ @])
  BY DEF SetAttribute
<1>2. IsPartial(new, Fixtures, Touches)
  BY InHandIs DEF IsPartial, Touches
<1> HIDE DEF new
<1> QED BY <1>1, <1>2, ValuesOver

LEMMA Nudged ==
    ASSUME NEW base \in Values, NEW delta \in {-1, 1}
    PROVE  Nudge(base, delta) \in Values
<1>1. MaxValue \in Nat
  BY ShowAssumption
<1>2. \E v \in Values : \/ v = base + delta
                        \/ base + delta < 0 /\ v = 0
                        \/ base + delta > MaxValue /\ v = MaxValue
  <2>1. base \in Nat /\ base <= MaxValue
    BY <1>1 DEF Values
  <2>2. CASE base + delta \in 0 .. MaxValue
    BY <2>2 DEF Values
  <2>3. CASE base + delta < 0
    BY <1>1, <2>3 DEF Values
  <2>4. CASE base + delta > MaxValue
    BY <1>1, <2>4 DEF Values
  <2> QED BY <1>1, <2>1, <2>2, <2>3, <2>4
<1> QED BY <1>2 DEF Nudge

LEMMA NudgeAttributeFiles ==
    ASSUME IInv, NEW delta \in {-1, 1}, NudgeAttribute(delta)
    PROVE  FiledWhole
<1> DEFINE From(f) == IF f \in DOMAIN Desk.values THEN Desk.values[f].value ELSE Default
           new == [f \in InHand |-> [value |-> Nudge(From(f), delta), link |-> Absent]]
<1>1. Program("set", [Desk EXCEPT !.values = new ++ @])
  BY DEF NudgeAttribute
<1>2. ASSUME NEW f \in InHand PROVE Nudge(From(f), delta) \in Values
  <2>1. f \in DOMAIN Desk.values => Desk.values[f] \in Touches
    BY DeskIs, DeskFields DEF IsPartial
  <2>2. Default \in Values
    BY ShowAssumption DEF Values
  <2>3. From(f) \in Values
    BY <2>1, <2>2 DEF Touches
  <2> QED BY <2>3, Nudged
<1>3. IsPartial(new, Fixtures, Touches)
  <2> HIDE DEF From
  <2> QED BY <1>2, InHandIs DEF IsPartial, Touches
<1> HIDE DEF new
<1> QED BY <1>1, <1>3, ValuesOver

LEMMA ApplyPresetFiles ==
    ASSUME IInv, NEW p \in Presets, ApplyPreset(p)
    PROVE  FiledWhole
<1> DEFINE held == state[Preset(p)].values
           new == [f \in DOMAIN held \cap InHand |-> [value |-> held[f], link |-> p]]
<1>1. Program("apply", [Desk EXCEPT !.values = new ++ @]) /\ There(state, Preset(p))
  BY DEF ApplyPreset
<1>2. IsPartial(held, Fixtures, Values)
  <2>1. IsValue(Preset(p), state[Preset(p)])
    BY <1>1, InState DEF There, IInv
  <2> QED BY <2>1, PresetFields
<1> HIDE DEF held
<1>3. IsPartial(new, Fixtures, Touches)
  BY <1>2 DEF IsPartial, Touches
<1> HIDE DEF new
<1> QED BY <1>1, <1>3, ValuesOver

LEMMA ClearProgrammerFiles ==
    ASSUME IInv, ClearProgrammer
    PROVE  FiledWhole
<1> DEFINE desk == IF Desk.selection # {} THEN Deselected ELSE [Desk EXCEPT !.values = Nothing]
           edit == IF DOMAIN desk.values = {} THEN Absent ELSE state[CueEdit]
           next == [state EXCEPT ![Programmer] = desk, ![CueEdit] = edit]
<1>1. Do("clear", <<Programmer, CueEdit>>, next)
  <2>1. next = [state EXCEPT ![Programmer] = desk,
                             ![CueEdit] = IF DOMAIN desk.values = {} THEN Absent ELSE @]
    <3>1. Programmer # CueEdit
      BY Kinds
    <3> HIDE DEF desk
    <3> QED BY <3>1
  <2> QED BY <2>1, DeskAfter DEF ClearProgrammer
<1>2. IsValue(Programmer, desk)
  BY DeskIs, DeskPicked, NothingIsPartial
<1> HIDE DEF desk
<1>3. IsState(state) /\ IsValue(CueEdit, edit)
  <2>1. IsState(state) /\ state[CueEdit] \in {Absent} \cup CueEdits
    BY InState, ValueOf DEF IInv
  <2>2. edit \in {Absent} \cup CueEdits
    BY <2>1
  <2> QED BY <2>1, <2>2, ValueOf
<1> HIDE DEF edit
<1>4. Wrote({Programmer, CueEdit}, state, next)
  BY <1>2, <1>3, WroteNothing, WroteDesk
<1> HIDE DEF next
<1> QED BY <1>1, <1>4, FilesTwo, DeskPlain

\* A list of the show, and a cue of it.
LEMMA CueOf ==
    ASSUME NEW s, IsState(s), NEW q, NEW n, HasCue(s, q, n)
    PROVE  /\ List(q) \in DOMAIN s /\ IsList(s[List(q)]) /\ IsCues(s[List(q)].cues)
           /\ n \in DOMAIN s[List(q)].cues /\ n \in CueNumbers
           /\ IsCue(s[List(q)].cues[n])
           /\ IsPartial(s[List(q)].cues[n].parts, Fixtures, Parts)
<1>1. List(q) \in DOMAIN s /\ n \in DOMAIN s[List(q)].cues
  BY DEF HasCue, There
<1>2. IsList(s[List(q)])
  BY <1>1, InState, ValueOf
<1>3. IsCues(s[List(q)].cues)
  BY <1>2, ListFields
<1>4. IsCue(s[List(q)].cues[n]) /\ n \in CueNumbers
  BY <1>1, <1>3 DEF IsCues
<1> QED BY <1>1, <1>2, <1>3, <1>4, CueFields

LEMMA EditCueFiles ==
    ASSUME IInv, NEW q \in Lists, NEW n, EditCue(q, n)
    PROVE  FiledWhole
<1> DEFINE parts == state[List(q)].cues[n].parts
           loaded == [f \in DOMAIN parts \cap Driven(state) |->
                        [value |-> parts[f].value, link |-> parts[f].link]]
           desk == [EmptyProgrammer EXCEPT !.selection = DOMAIN loaded, !.values = loaded]
           edit == [list |-> q, cue |-> n, modified |-> FALSE]
           next == [state EXCEPT ![Programmer] = desk, ![CueEdit] = edit]
<1>1. Do("edit", <<List(q), Programmer, CueEdit>>, next) /\ HasCue(state, q, n)
  BY DeskAfter DEF EditCue
<1>2. IsPartial(parts, Fixtures, Parts) /\ n \in CueNumbers
  BY <1>1, CueOf DEF IInv
<1> HIDE DEF parts
<1>3. IsPartial(loaded, Fixtures, Touches)
  BY <1>2 DEF IsPartial, Touches, Parts
<1>4. IsValue(Programmer, desk)
  <2>1. DOMAIN loaded \in SUBSET Fixtures
    BY <1>3 DEF IsPartial
  <2> HIDE DEF loaded
  <2>2. desk = [selection |-> DOMAIN loaded, manual |-> {}, groups |-> {}, values |-> loaded]
    <3> DEFINE a == [EmptyProgrammer EXCEPT !.selection = DOMAIN loaded]
    <3>1. a = [selection |-> DOMAIN loaded, manual |-> {}, groups |-> {}, values |-> Nothing]
      BY DEF EmptyProgrammer
    <3> HIDE DEF a
    <3>2. [a EXCEPT !.values = loaded] = [selection |-> DOMAIN loaded, manual |-> {},
                                          groups |-> {}, values |-> loaded]
      BY <3>1
    <3> QED BY <3>2 DEF a
  <2> HIDE DEF desk
  <2> QED BY <1>3, <2>1, <2>2, DeskMade
<1>5. IsValue(CueEdit, edit)
  BY <1>2, ValueOf DEF CueEdits
<1> HIDE DEF desk, edit
<1>6. Wrote({List(q), Programmer, CueEdit}, state, next)
  BY <1>4, <1>5, WroteNothing, WroteDesk DEF IInv
<1> HIDE DEF next
<1>7. List(q) \in Names /\ Kind(List(q)) = "list"
  BY Named, Kinds
<1> QED BY <1>1, <1>6, <1>7, FilesThree, DeskPlain

-----------------------------------------------------------------------------
(* Storing                                                                 *)

\* What a command writes is among what its record covers.
LEMMA CoveredFrame ==
    ASSUME IsState(state), NEW names, NEW next, NEW S, Wrote(S, state, next),
           \A n \in S : \E k \in 1 .. Len(names) :
              \E j \in 1 .. Len(Covered(names[k], state)) : Covered(names[k], state)[j] = n
    PROVE  Frame(names, next)
<1> SUFFICES ASSUME NEW n \in DOMAIN state \cup DOMAIN next, Held(next, n) # Held(state, n)
             PROVE  \E k \in 1 .. Len(names) : \E j \in 1 .. Len(Covered(names[k], state)) :
                        Covered(names[k], state)[j] = n
  BY DEF Frame
<1>1. n \in Names
  BY DEF Wrote, IsState
<1>2. n \in S
  BY <1>1, Same
<1> QED BY <1>2

\* What is held of a name is there.
LEMMA HeldIs ==
    ASSUME NEW s, IsState(s), NEW n \in Names, Held(s, n) # Absent
    PROVE  n \in DOMAIN s /\ Held(s, n) = s[n] /\ IsValue(n, s[n])
<1>1. Kind(n) # "place"
  BY Naming DEF ShowKinds, DeskKinds
<1>2. n \in DOMAIN s /\ Held(s, n) = s[n]
  BY <1>1 DEF Held, There
<1> QED BY <1>2, InState

LEMMA CuesWith ==
    ASSUME NEW cues, IsCues(cues), NEW n \in CueNumbers, NEW c, IsCue(c)
    PROVE  IsCues(With(cues, n, c))
BY DEF IsCues, With, IsMap

LEMMA CuesLess ==
    ASSUME NEW cues, IsCues(cues), NEW n
    PROVE  IsCues(Restrict(cues, DOMAIN cues \ {n}))
BY DEF IsCues, Restrict, IsMap

LEMMA CuesOver ==
    ASSUME NEW cues, IsCues(cues), NEW old, IsCues(old)
    PROVE  IsCues(cues ++ old)
BY DEF IsCues, ++, IsMap

LEMMA CuesSet ==
    ASSUME NEW cues, IsCues(cues), NEW n, NEW c, IsCue(c)
    PROVE  IsCues([cues EXCEPT ![n] = c])
BY DEF IsCues, IsMap

LEMMA NoCues == IsCues(Nothing)
BY DEF IsCues, Nothing, IsMap

\* A list that is there with other cues.
LEMMA OtherCues ==
    ASSUME NEW t, IsState(t), NEW q, List(q) \in DOMAIN t, NEW cues, IsCues(cues)
    PROVE  IsValue(List(q), [t[List(q)] EXCEPT !.cues = cues])
<1>1. IsList(t[List(q)])
  BY InState, ValueOf
<1> QED BY <1>1, ListChanged, ValueOf

\* A cue more, and a cue less.
LEMMA WroteCue ==
    ASSUME NEW S, NEW s, NEW t, Wrote(S, s, t), NEW q \in Lists, List(q) \in S,
           List(q) \in DOMAIN t, NEW n \in CueNumbers
    PROVE  /\ \A c : IsCue(c) => /\ Wrote(S, s, WithCue(t, q, n, c))
                                 /\ DOMAIN WithCue(t, q, n, c) = DOMAIN t
           /\ Wrote(S, s, WithoutCue(t, q, n))
           /\ DOMAIN WithoutCue(t, q, n) = DOMAIN t
<1> DEFINE cues == t[List(q)].cues
<1>1. IsState(t) /\ IsCues(cues)
  BY InState, ValueOf, ListFields DEF Wrote
<1>2. ASSUME NEW c, IsCue(c) PROVE Wrote(S, s, WithCue(t, q, n, c))
  <2> DEFINE more == With(cues, n, c)
             list == [t[List(q)] EXCEPT !.cues = more]
  <2>1. IsCues(more)
    BY <1>1, <1>2, CuesWith
  <2>2. WithCue(t, q, n, c) = [t EXCEPT ![List(q)] = list]
    BY DEF WithCue
  <2> HIDE DEF more
  <2>3. IsValue(List(q), list)
    BY <1>1, <2>1, OtherCues
  <2> HIDE DEF list
  <2>4. List(q) \in S
    OBVIOUS
  <2> DEFINE name == List(q)
  <2> HIDE DEF name
  <2>5. Wrote(S, s, [t EXCEPT ![name] = list])
    BY <2>3, <2>4, WroteSet DEF name
  <2> QED BY <2>2, <2>5 DEF name
<1>3. Wrote(S, s, WithoutCue(t, q, n))
  <2> DEFINE less == Restrict(cues, DOMAIN cues \ {n})
             list == [t[List(q)] EXCEPT !.cues = less]
  <2>1. IsCues(less)
    BY <1>1, CuesLess
  <2>2. WithoutCue(t, q, n) = [t EXCEPT ![List(q)] = list]
    BY DEF WithoutCue
  <2> HIDE DEF less
  <2>3. IsValue(List(q), list)
    BY <1>1, <2>1, OtherCues
  <2> HIDE DEF list
  <2>4. List(q) \in S
    OBVIOUS
  <2> DEFINE name == List(q)
  <2> HIDE DEF name
  <2>5. Wrote(S, s, [t EXCEPT ![name] = list])
    BY <2>3, <2>4, WroteSet DEF name
  <2> QED BY <2>2, <2>5 DEF name
<1>4. DOMAIN WithoutCue(t, q, n) = DOMAIN t /\ \A c : DOMAIN WithCue(t, q, n, c) = DOMAIN t
  BY DEF WithCue, WithoutCue
<1> QED BY <1>2, <1>3, <1>4

LEMMA StoredPartsAre ==
    ASSUME NEW s, IsState(s)
    PROVE  IsPartial(StoredParts(s), Fixtures, Parts)
<1> DEFINE held == s[Programmer].values
           Linked(f) == IF held[f].link # Absent /\ There(s, Preset(held[f].link))
                        THEN held[f].link ELSE Absent
<1>1. IsPartial(held, Fixtures, Touches)
  BY InState, DeskFields
<1>2. StoredParts(s) = [f \in DOMAIN held \cap Driven(s) |->
                          [value |-> held[f].value, only |-> FALSE, link |-> Linked(f)]]
  BY DEF StoredParts
<1> HIDE DEF held
<1>3. ASSUME NEW f \in DOMAIN held
      PROVE  [value |-> held[f].value, only |-> FALSE, link |-> Linked(f)] \in Parts
  BY <1>1 DEF IsPartial, Touches, Parts
<1> HIDE DEF Linked
<1> QED BY <1>1, <1>2, <1>3 DEF IsPartial

LEMMA BlankIs == IsCue(BlankCue)
BY NothingIsPartial, CueIs, ShowAssumption DEF BlankCue

LEMMA StoredCueIs ==
    ASSUME NEW s, IsState(s), NEW q, NEW n, NEW mode \in {"merge", "override", "remove"}
    PROVE  IsCue(StoredCue(s, q, n, mode))
<1> DEFINE old == IF HasCue(s, q, n) THEN s[List(q)].cues[n] ELSE BlankCue
           new == StoredParts(s)
           parts == CASE mode = "merge"    -> new ++ old.parts
                      [] mode = "override" -> new
                      [] mode = "remove"   -> Restrict(old.parts, DOMAIN old.parts \ DOMAIN new)
<1>1. StoredCue(s, q, n, mode) = [old EXCEPT !.parts = parts]
  BY DEF StoredCue
<1>2. IsCue(old)
  BY CueOf, BlankIs
<1>3. IsPartial(new, Fixtures, Parts) /\ IsPartial(old.parts, Fixtures, Parts)
  BY <1>2, StoredPartsAre, CueFields
<1> HIDE DEF old, new
<1>4. IsPartial(parts, Fixtures, Parts)
  <2>1. CASE mode = "merge"
    BY <1>3, <2>1, PartialOver
  <2>2. CASE mode = "override"
    BY <1>3, <2>2
  <2>3. CASE mode = "remove"
    BY <1>3, <2>3, PartialLess
  <2> QED BY <2>1, <2>2, <2>3
<1> HIDE DEF parts
<1> QED BY <1>1, <1>2, <1>4, CueParts

\* The update state, with what a command makes of an edit.
LEMMA EditIs ==
    ASSUME IInv, Editing # Absent
    PROVE  /\ Editing \in CueEdits /\ Editing.list \in Lists /\ Editing.cue \in CueNumbers
           /\ [Editing EXCEPT !.modified = FALSE] \in CueEdits
           /\ \A r \in Lists, m \in CueNumbers :
                 [Editing EXCEPT !.list = r, !.cue = m] \in CueEdits
<1>1. Editing \in CueEdits
  BY InState, ValueOf DEF Editing, IInv
<1>2. ASSUME NEW r \in Lists, NEW m \in CueNumbers
      PROVE  [Editing EXCEPT !.list = r, !.cue = m] \in CueEdits
  <2> DEFINE a == [Editing EXCEPT !.list = r]
  <2>1. a \in CueEdits
    BY <1>1 DEF CueEdits
  <2> HIDE DEF a
  <2>2. [a EXCEPT !.cue = m] \in CueEdits
    BY <2>1 DEF CueEdits
  <2> QED BY <2>2 DEF a
<1> QED BY <1>1, <1>2 DEF CueEdits

LEMMA WroteStored ==
    ASSUME IsState(state), NEW q \in Lists, NEW n \in CueNumbers, There(state, List(q)),
           NEW mode \in {"merge", "override", "remove"}, NEW S, List(q) \in S
    PROVE  Wrote(S, state, WithCue(state, q, n, StoredCue(state, q, n, mode)))
<1> DEFINE cue == StoredCue(state, q, n, mode)
<1>1. IsCue(cue)
  BY StoredCueIs
<1> HIDE DEF cue
<1>2. Wrote(S, state, WithCue(state, q, n, cue))
  BY <1>1, WroteNothing, WroteCue DEF There
<1> QED BY <1>2 DEF cue

LEMMA StoreCueFiles ==
    ASSUME IInv, NEW q \in Lists, NEW n \in CueNumbers,
           NEW mode \in {"merge", "override", "remove"}, StoreCue(q, n, mode)
    PROVE  FiledWhole
<1> DEFINE cue == StoredCue(state, q, n, mode)
           edit == IF mode = "override" /\ Editing # Absent
                      /\ Editing.list = q /\ Editing.cue = n
                   THEN [Editing EXCEPT !.modified = FALSE] ELSE Touched
           t == WithCue(state, q, n, cue)
           next == [t EXCEPT ![CueEdit] = edit]
           S == {List(q), Programmer, CueEdit}
<1>1. Do("storeCue", <<List(q), Programmer, CueEdit>>, next) /\ There(state, List(q))
  BY DeskAfter DEF StoreCue, MayStoreCue
<1>2. IsState(state)
  BY DEF IInv
<1>3. List(q) \in S /\ CueEdit \in S
  OBVIOUS
<1> HIDE DEF S
<1>4. Wrote(S, state, t)
  BY <1>1, <1>2, <1>3, WroteStored
<1>5. IsValue(CueEdit, edit)
  BY TouchedIs, EditIs, ValueOf
<1> HIDE DEF edit, t
<1>6. Wrote({List(q), Programmer, CueEdit}, state, next)
  BY <1>3, <1>4, <1>5, WroteSet DEF S
<1> HIDE DEF next
<1>7. List(q) \in Names /\ Kind(List(q)) = "list"
  BY Named, Kinds
<1> QED BY <1>1, <1>6, <1>7, FilesThree, DeskPlain

\* The list of the edit is imaged: it is the one that is being edited before and
\* after.
LEMMA UpdateFiles ==
    ASSUME IInv, Update
    PROVE  FiledWhole
<1> DEFINE q == Editing.list
           n == Editing.cue
           cue == StoredCue(state, q, n, "override")
           t == WithCue(state, q, n, cue)
           next == [t EXCEPT ![CueEdit] = [t[CueEdit] EXCEPT !.modified = FALSE]]
           names == <<Edited, Programmer, CueEdit>>
           S == {List(q), Programmer, CueEdit}
<1>1. Editing # Absent /\ There(state, List(q)) /\ Do("update", names, next)
  BY DeskAfter DEF Update, MayStoreCue
<1>2. IsState(state) /\ q \in Lists /\ n \in CueNumbers
  BY <1>1, EditIs DEF IInv
<1>3. Wrote(S, state, t) /\ t[CueEdit] = Editing
  <2>1. List(q) \in S
    OBVIOUS
  <2> HIDE DEF S
  <2>2. Wrote(S, state, t)
    BY <1>1, <1>2, <2>1, WroteStored
  <2>3. t[CueEdit] = state[CueEdit]
    BY Kinds DEF WithCue
  <2> QED BY <2>2, <2>3 DEF Editing
<1> HIDE DEF t
<1>4. next = [t EXCEPT ![CueEdit] = [Editing EXCEPT !.modified = FALSE]]
  BY <1>3
<1>5. IsValue(CueEdit, [Editing EXCEPT !.modified = FALSE])
      /\ [Editing EXCEPT !.modified = FALSE] # Absent
  BY <1>1, EditIs, ValueOf, AbsentAssumption
<1> DEFINE edit == [Editing EXCEPT !.modified = FALSE]
<1> HIDE DEF edit, next
<1>6. Wrote(S, state, next)
  BY <1>3, <1>4, <1>5, WroteSet DEF edit
<1>7. next[CueEdit] # Absent
  <2>1. CueEdit \in DOMAIN t
    BY <1>3, InState DEF Wrote
  <2> QED BY <1>4, <1>5, <2>1
<1>8. ASSUME NEW s, s[CueEdit] # Absent PROVE WellNamed(names, s)
  <2>1. Edited \in Scopes(s) /\ Kind(Edited) = "edited"
    BY <1>8 DEF Scopes, Edited, Kind
  <2> QED BY <2>1, DeskPlain, Plain, ThreeNames
<1>9. WellNamed(names, state) /\ WellNamed(names, next)
  BY <1>1, <1>7, <1>8 DEF Editing
<1>10. ASSUME NEW m \in S
       PROVE  \E k \in 1 .. Len(names) :
                 \E j \in 1 .. Len(Covered(names[k], state)) : Covered(names[k], state)[j] = m
  <2>1. Len(names) = 3 /\ names[1] = Edited /\ names[2] = Programmer /\ names[3] = CueEdit
        /\ 1 \in 1 .. 3 /\ 2 \in 1 .. 3 /\ 3 \in 1 .. 3
    OBVIOUS
  <2>2. Covered(Edited, state) = <<List(q)>>
    BY DEF Covered, Edited, Kind, Editing
  <2>3. Covered(Programmer, state) = <<Programmer>> /\ Covered(CueEdit, state) = <<CueEdit>>
    BY Kinds DEF Covered
  <2>4. \A x : Len(<<x>>) = 1 /\ <<x>>[1] = x /\ 1 \in 1 .. 1
    OBVIOUS
  <2> HIDE DEF names
  <2> QED BY <2>1, <2>2, <2>3, <2>4
<1> HIDE DEF names, S
<1>11. Frame(names, next)
  BY <1>2, <1>6, <1>10, CoveredFrame
<1> QED BY <1>1, <1>6, <1>9, <1>11 DEF FiledWhole, Fit, Wrote

LEMMA StoredCuesAre ==
    ASSUME NEW s, IsState(s), NEW cues, IsCues(cues),
           NEW mode \in {"append", "override", "merge"},
           DOMAIN StoredCues(s, cues, mode) \subseteq CueNumbers
    PROVE  IsCues(StoredCues(s, cues, mode))
<1> DEFINE new == [BlankCue EXCEPT !.parts = StoredParts(s)]
<1>1. IsCue(new) /\ IsPartial(StoredParts(s), Fixtures, Parts)
  BY StoredPartsAre, BlankIs, CueParts
<1>2. CASE mode = "append"
  <2>1. StoredCues(s, cues, mode) = With(cues, NextCue(cues), new)
    BY <1>2 DEF StoredCues
  <2> HIDE DEF new
  <2> QED BY <1>1, <2>1 DEF IsCues, With, IsMap
<1>3. CASE mode = "override"
  <2>1. StoredCues(s, cues, mode) = [n \in {1} |-> new]
    BY <1>3 DEF StoredCues
  <2> HIDE DEF new
  <2> QED BY <1>1, <2>1 DEF IsCues, IsMap
<1>4. CASE mode = "merge"
  <2> DEFINE Merged(n) == [cues[n] EXCEPT !.parts = StoredParts(s) ++ @]
  <2>1. StoredCues(s, cues, mode) = [n \in DOMAIN cues |-> Merged(n)]
    BY <1>4 DEF StoredCues
  <2>2. ASSUME NEW n \in DOMAIN cues PROVE IsCue(Merged(n))
    <3>1. IsCue(cues[n]) /\ IsPartial(cues[n].parts, Fixtures, Parts)
      BY CueFields DEF IsCues
    <3>2. IsPartial(StoredParts(s) ++ cues[n].parts, Fixtures, Parts)
      BY <1>1, <3>1, PartialOver
    <3> DEFINE parts == StoredParts(s) ++ cues[n].parts
    <3>3. Merged(n) = [cues[n] EXCEPT !.parts = parts]
      OBVIOUS
    <3> HIDE DEF Merged, parts
    <3> QED BY <3>1, <3>2, <3>3, CueParts DEF parts
  <2> HIDE DEF Merged
  <2> QED BY <2>1, <2>2 DEF IsCues, IsMap
<1> QED BY <1>2, <1>3, <1>4

LEMMA StoreSequenceFiles ==
    ASSUME IInv, NEW q \in Lists, NEW mode \in {"append", "override", "merge"},
           StoreSequence(q, mode)
    PROVE  FiledWhole
<1> DEFINE new == ~ There(state, List(q))
           base == IF new THEN [name |-> Usual, color |-> Absent, cues |-> Nothing,
                                master |-> Full, fade |-> Rest]
                          ELSE state[List(q)]
           empty == DOMAIN StoredParts(state) = {}
           cues == IF empty THEN base.cues ELSE StoredCues(state, base.cues, mode)
           selected == IF new THEN q ELSE state[Selected]
           t == [state EXCEPT ![Selected] = selected, ![CueEdit] = Touched]
           list == [base EXCEPT !.cues = cues]
           next == With(t, List(q), list)
           S == {List(q), Selected, Programmer, CueEdit}
<1>1. Do("storeList", <<List(q), Selected, Programmer, CueEdit>>, next)
      /\ DOMAIN cues \subseteq CueNumbers
  <2>1. [state EXCEPT ![Selected] = IF new THEN q ELSE @, ![CueEdit] = Touched] = t
    OBVIOUS
  <2> HIDE DEF t
  <2> QED BY <2>1, DeskAfter DEF StoreSequence
<1>2. IsState(state)
  BY DEF IInv
<1>3. IsList(base)
  <2>1. CASE new
    <3>1. Usual \in Settings /\ Absent \in Colors /\ Full \in Levels /\ Rest \in Levels
      BY ShowAssumption DEF Colors
    <3>2. IsList([name |-> Usual, color |-> Absent, master |-> Full, fade |-> Rest,
                  cues |-> Nothing])
      BY <3>1, NoCues, ListIs
    <3> QED BY <2>1, <3>2
  <2>2. CASE ~ new
    BY <1>2, <2>2, InState, ValueOf DEF There
  <2> QED BY <2>1, <2>2
<1> HIDE DEF base
<1>4. IsCues(cues)
  BY <1>1, <1>2, <1>3, ListFields, StoredCuesAre
<1> HIDE DEF cues
<1>5. IsValue(List(q), list)
  BY <1>3, <1>4, ListChanged, ValueOf
<1> HIDE DEF list
<1>6. IsValue(Selected, selected) /\ IsValue(CueEdit, Touched)
  <2>1. state[Selected] \in {Absent} \cup Lists
    BY <1>2, InState, ValueOf
  <2>2. selected \in {Absent} \cup Lists
    BY <2>1
  <2> QED BY <2>2, TouchedIs, ValueOf
<1> HIDE DEF selected
<1>7. Wrote(S, state, t)
  <2> DEFINE u == [state EXCEPT ![Selected] = selected]
  <2>1. Wrote(S, state, u)
    BY <1>2, <1>6, WroteNothing, WroteSet
  <2>2. t = [u EXCEPT ![CueEdit] = Touched]
    OBVIOUS
  <2> HIDE DEF u, t
  <2> QED BY <1>6, <2>1, <2>2, WroteSet
<1> HIDE DEF t
<1>8. Wrote(S, state, next)
  BY <1>5, <1>7, WroteWith, Named
<1> HIDE DEF next
<1>9. List(q) \in Names /\ Kind(List(q)) = "list"
  BY Named, Kinds
<1> QED BY <1>1, <1>8, <1>9, FilesFour, DeskPlain

LEMMA StoreGroupFiles ==
    ASSUME IInv, NEW g \in Groups, NEW name \in Settings, NEW mode, StoreGroup(g, name, mode)
    PROVE  FiledWhole
<1> DEFINE old == Held(state, Group(g))
           called == IF old # Absent THEN old.name ELSE name
           members == IF Into(old, mode) THEN old.members \cup Desk.selection
                                         ELSE Desk.selection
           group == [name |-> called, members |-> members]
           t == Put(state, Group(g), group)
           next == [t EXCEPT ![CueEdit] = Touched]
           S == {Group(g), Programmer, CueEdit}
<1>1. Do("storeGroup", <<Group(g), Programmer, CueEdit>>, next)
  BY DeskAfter DEF StoreGroup
<1>2. IsState(state) /\ Group(g) \in Names /\ Group(g) \in ShowNames
      /\ Kind(Group(g)) = "group"
  BY Named, Kinds DEF IInv
<1>3. old # Absent => old \in [name : Settings, members : SUBSET Fixtures]
  BY <1>2, HeldIs, ValueOf
<1>4. Desk.selection \in SUBSET Fixtures
  BY DeskIs, DeskFields
<1> HIDE DEF old
<1>5. called \in Settings /\ members \in SUBSET Fixtures
  BY <1>3, <1>4 DEF Into
<1>6. IsValue(Group(g), group)
  BY <1>5, ValueOf
<1> HIDE DEF group
<1>7. Wrote(S, state, t)
  BY <1>2, <1>6, WroteNothing, WrotePut
<1> HIDE DEF t
<1>8. Wrote(S, state, next)
  BY <1>7, TouchedIs, WroteSet
<1> HIDE DEF next
<1> QED BY <1>1, <1>2, <1>8, FilesThree, DeskPlain

\* A write of a preset, with the lists that follow it.
LEMMA WrotePreset ==
    ASSUME NEW s, IsState(s), NEW p \in Presets, NEW v, v = Absent \/ IsValue(Preset(p), v)
    PROVE  Wrote({Preset(p)} \cup { List(q) : q \in Users(s, p) }, s, Put(s, Preset(p), v))
<1> DEFINE n == Preset(p)
           S == {n} \cup { List(q) : q \in Users(s, p) }
           t == Put(s, n, v)
<1>1. n \in ShowNames /\ n \in Names /\ Kind(n) = "preset" /\ n[2] = p
  BY Named, Kinds
<1>2. PutDoes(s, n, v, t)
  <2> HIDE DEF n
  <2> QED BY <1>1, Puts DEF Writable, n
<1> HIDE DEF t
<1>3. IsState(t) /\ KeepsOthers(s, n, t)
  BY <1>1, <1>2 DEF PutDoes
<1> SUFFICES ASSUME NEW m \in Names \ S
             PROVE  /\ m \in DOMAIN t <=> m \in DOMAIN s
                    /\ m \in DOMAIN s => t[m] = s[m]
  BY <1>3 DEF Wrote, t
<1>4. m \in Names \ {n}
  OBVIOUS
<1>5. m \in DOMAIN s /\ Kind(m) = "list" => ~ Links(s[m].cues, p)
  <2> SUFFICES ASSUME m \in DOMAIN s, Kind(m) = "list", Links(s[m].cues, p) PROVE FALSE
    OBVIOUS
  <2>1. m = List(m[2]) /\ m[2] \in Lists
    BY Naming
  <2>2. m[2] \in Users(s, p)
    BY <2>1 DEF Users, ListsIn, There
  <2> QED BY <2>1, <2>2
<1> HIDE DEF n, S
<1> QED BY <1>1, <1>3, <1>4, <1>5 DEF KeepsOthers

LEMMA WroteMore ==
    ASSUME NEW S, NEW T, S \subseteq T, NEW s, NEW t, Wrote(S, s, t)
    PROVE  Wrote(T, s, t)
BY DEF Wrote

\* What refers to a preset, or to a list, is covered.
LEMMA ReferrersCovered ==
    ASSUME NEW s, IsState(s)
    PROVE  /\ \A p : \A q \in Users(s, p) :
                \E j \in 1 .. Len(Covered(RefersTo(Preset(p)), s)) :
                   Covered(RefersTo(Preset(p)), s)[j] = List(q)
           /\ \A q : \A x \in Players(s, q) :
                \E j \in 1 .. Len(Covered(RefersTo(List(q)), s)) :
                   Covered(RefersTo(List(q)), s)[j] = Executor(x)
<1>1. ASSUME NEW p, NEW q \in Users(s, p)
      PROVE  \E j \in 1 .. Len(Covered(RefersTo(Preset(p)), s)) :
                Covered(RefersTo(Preset(p)), s)[j] = List(q)
  <2> DEFINE covered == InAscending("list", Users(s, p))
  <2>1. Covered(RefersTo(Preset(p)), s) = covered
    BY Kinds DEF Covered, RefersTo, Referrers, Kind
  <2>2. Users(s, p) \subseteq Nat /\ IsFiniteSet(Users(s, p))
    BY Reached
  <2>3. covered \in Seq({ <<"list", id>> : id \in Users(s, p) })
        /\ \E j \in DOMAIN covered : covered[j] = <<"list", q>>
    BY <2>2, Ascending
  <2> HIDE DEF covered
  <2> QED BY <2>1, <2>3 DEF List
<1>2. ASSUME NEW q, NEW x \in Players(s, q)
      PROVE  \E j \in 1 .. Len(Covered(RefersTo(List(q)), s)) :
                Covered(RefersTo(List(q)), s)[j] = Executor(x)
  <2> DEFINE covered == InAscending("executor", Players(s, q))
  <2>1. Covered(RefersTo(List(q)), s) = covered
    BY Kinds DEF Covered, RefersTo, Referrers, Kind
  <2>2. Players(s, q) \subseteq Nat /\ IsFiniteSet(Players(s, q))
    BY Reached
  <2>3. covered \in Seq({ <<"executor", id>> : id \in Players(s, q) })
        /\ \E j \in DOMAIN covered : covered[j] = <<"executor", x>>
    BY <2>2, Ascending
  <2> HIDE DEF covered
  <2> QED BY <2>1, <2>3 DEF Executor
<1> QED BY <1>1, <1>2

LEMMA ItselfCovered ==
    ASSUME NEW n \in Names, NEW s
    PROVE  Len(Covered(n, s)) = 1 /\ Covered(n, s)[1] = n
<1>1. Kind(n) # "referrers" /\ Kind(n) # "edited"
  BY Naming DEF ShowKinds, DeskKinds
<1>2. Covered(n, s) = <<n>>
  BY <1>1 DEF Covered
<1> QED BY <1>2

\* Records of an object, another or what refers to it, and the desk.
Referred(b) == b \in Names \/ \E n \in Names : b = RefersTo(n)

LEMMA NamesReferred ==
    ASSUME NEW a \in Names, NEW b, Referred(b), NEW c, Referred(c), NEW d \in Names,
           Kind(a) = "list" => Kind(b) # "preset",
           Kind(c) # "preset", Kind(d) # "preset", NEW s
    PROVE  WellNamed(<<a, b, c, d>>, s)
<1>1. \A n : Kind(RefersTo(n)) = "referrers"
  BY DEF Kind, RefersTo
<1>2. b \in Scopes(s) /\ c \in Scopes(s) /\ a \in Scopes(s) /\ d \in Scopes(s)
  BY Plain DEF Scopes, Referred
<1>3. Kind(a) # "place" /\ Kind(b) # "place" /\ Kind(c) # "place" /\ Kind(d) # "place"
  BY <1>1, Plain DEF Referred
<1>4. BringsLists(a) <=> Kind(a) = "list"
  BY Plain
<1> QED BY <1>2, <1>3, <1>4, FourNames

LEMMA FilesReferred ==
    ASSUME IInv, NEW a \in Names, NEW b, Referred(b), NEW c, Referred(c), NEW d \in Names,
           Kind(a) = "list" => Kind(b) # "preset",
           Kind(c) # "preset", Kind(d) # "preset",
           NEW verb, NEW next, Do(verb, <<a, b, c, d>>, next),
           NEW S, Wrote(S, state, next),
           \A n \in S : \/ n = a \/ n = d
                        \/ b \in Names /\ n = b
                        \/ c \in Names /\ n = c
                        \/ \E j \in 1 .. Len(Covered(b, state)) : Covered(b, state)[j] = n
                        \/ \E j \in 1 .. Len(Covered(c, state)) : Covered(c, state)[j] = n
    PROVE  FiledWhole
<1> DEFINE names == <<a, b, c, d>>
<1>1. WellNamed(names, state) /\ WellNamed(names, next)
  BY NamesReferred
<1>2. /\ Len(names) = 4 /\ names[1] = a /\ names[2] = b /\ names[3] = c /\ names[4] = d
      /\ 1 \in 1 .. 4 /\ 2 \in 1 .. 4 /\ 3 \in 1 .. 4 /\ 4 \in 1 .. 4
  OBVIOUS
<1>3. \A n \in Names : 1 \in 1 .. Len(Covered(n, state)) /\ Covered(n, state)[1] = n
  <2>1. 1 \in 1 .. 1
    OBVIOUS
  <2> QED BY <2>1, ItselfCovered
<1>4. Do(verb, names, next)
  OBVIOUS
<1> HIDE DEF names
<1>5. \A n \in S : \E k \in 1 .. Len(names) :
        \E j \in 1 .. Len(Covered(names[k], state)) : Covered(names[k], state)[j] = n
  BY <1>2, <1>3
<1>6. Frame(names, next)
  BY <1>5, CoveredFrame DEF IInv
<1> QED BY <1>1, <1>4, <1>6 DEF FiledWhole, Fit, Wrote

LEMMA FiledReferred ==
    ASSUME IInv, NEW a \in Names, NEW b, Referred(b), NEW c, Referred(c), NEW d \in Names,
           Kind(a) = "list" => Kind(b) # "preset",
           Kind(c) # "preset", Kind(d) # "preset",
           NEW verb, NEW next, Do(verb, <<a, b, c, d>>, next), IsState(next)
    PROVE  Filed
<1>1. WellNamed(<<a, b, c, d>>, state) /\ WellNamed(<<a, b, c, d>>, next)
  BY NamesReferred
<1> QED BY <1>1 DEF Filed, Fit

LEMMA StorePresetFiles ==
    ASSUME IInv, NEW p \in Presets, NEW name \in Settings, NEW color \in Colors,
           NEW mode \in {"merge", "override", "remove"}, StorePreset(p, name, color, mode)
    PROVE  FiledWhole
<1> DEFINE old == Held(state, Preset(p))
           held == IF old = Absent THEN Nothing ELSE old.values
           stored == StoredParts(state)
           fresh == [f \in DOMAIN stored |-> stored[f].value]
           values == CASE mode = "merge"    -> fresh ++ held
                       [] mode = "override" -> fresh
                       [] mode = "remove"   -> Restrict(held, DOMAIN held \ DOMAIN fresh)
           shade == IF color = Absent /\ old # Absent THEN old.color ELSE color
           look == [name |-> name, values |-> values, color |-> shade]
           t == Put(state, Preset(p), look)
           next == [t EXCEPT ![CueEdit] = Touched]
           S == {Preset(p)} \cup { List(q) : q \in Users(state, p) }
           T == S \cup {CueEdit}
<1>1. Do("storePreset", <<Preset(p), RefersTo(Preset(p)), Programmer, CueEdit>>, next)
  BY DeskAfter DEF StorePreset
<1>2. IsState(state) /\ Preset(p) \in Names /\ Kind(Preset(p)) = "preset"
  BY Named, Kinds DEF IInv
<1>3. old # Absent => old.color \in Colors /\ IsPartial(old.values, Fixtures, Values)
  BY <1>2, HeldIs, PresetFields
<1> HIDE DEF old
<1>4. IsPartial(held, Fixtures, Values) /\ shade \in Colors
  BY <1>3, NothingIsPartial
<1>5. IsPartial(fresh, Fixtures, Values)
  <2>1. IsPartial(stored, Fixtures, Parts)
    BY <1>2, StoredPartsAre
  <2> HIDE DEF stored
  <2> QED BY <2>1 DEF IsPartial, Parts
<1> HIDE DEF held, fresh, shade
<1>6. IsPartial(values, Fixtures, Values)
  <2>1. CASE mode = "merge"
    BY <1>4, <1>5, <2>1, PartialOver
  <2>2. CASE mode = "override"
    BY <1>5, <2>2
  <2>3. CASE mode = "remove"
    BY <1>4, <2>3, PartialLess
  <2> QED BY <2>1, <2>2, <2>3
<1> HIDE DEF values
<1>7. IsValue(Preset(p), look)
  <2>1. look = [name |-> name, color |-> shade, values |-> values]
    OBVIOUS
  <2> HIDE DEF look
  <2> QED BY <1>4, <1>6, <2>1, PresetIs
<1> HIDE DEF look
<1>8. Wrote(S, state, t)
  BY <1>2, <1>7, WrotePreset
<1> HIDE DEF t, S
<1>9. Wrote(T, state, next)
  BY <1>8, TouchedIs, WroteMore, WroteSet
<1>10. \A n \in T : \/ n = Preset(p) \/ n = CueEdit
                    \/ \E j \in 1 .. Len(Covered(RefersTo(Preset(p)), state)) :
                          Covered(RefersTo(Preset(p)), state)[j] = n
  BY <1>2, ReferrersCovered DEF S
<1> HIDE DEF next, T
<1>11. Kind(RefersTo(Preset(p))) # "preset"
  BY DEF Kind, RefersTo
<1> DEFINE a == Preset(p)
           b == RefersTo(Preset(p))
<1>12. a \in Names /\ Referred(b) /\ Kind(a) # "list" /\ Referred(Programmer)
  BY <1>2, DeskPlain DEF Referred
<1>13. Do("storePreset", <<a, b, Programmer, CueEdit>>, next)
  BY <1>1
<1>14. \A n \in T : \/ n = a \/ n = CueEdit
                    \/ \E j \in 1 .. Len(Covered(b, state)) : Covered(b, state)[j] = n
  BY <1>10
<1> HIDE DEF a, b
<1> QED BY <1>9, <1>12, <1>13, <1>14, FilesReferred, DeskPlain

LEMMA AssignExecutorFiles ==
    ASSUME IInv, NEW x \in Executors, NEW q \in Lists \cup {Absent}, AssignExecutor(x, q)
    PROVE  FiledWhole
<1> DEFINE old == Held(state, Executor(x))
           keys == IF old = Absent THEN Usual ELSE old.keys
           value == [list |-> q, keys |-> keys]
           next == Put(state, Executor(x), value)
<1>1. Do("assign", <<Executor(x)>>, next)
  BY DEF AssignExecutor
<1>2. IsState(state) /\ Executor(x) \in Names /\ Executor(x) \in ShowNames
      /\ Kind(Executor(x)) = "executor"
  BY Named, Kinds DEF IInv
<1>3. old # Absent => old.keys \in Settings
  BY <1>2, HeldIs, ValueOf
<1> HIDE DEF old
<1>4. keys \in Settings
  BY <1>3, ShowAssumption
<1> HIDE DEF keys
<1>5. IsValue(Executor(x), value)
  BY <1>4, ValueOf
<1> HIDE DEF value
<1>6. Wrote({Executor(x)}, state, next)
  BY <1>2, <1>5, WroteNothing, WrotePut
<1> HIDE DEF next
<1> QED BY <1>1, <1>2, <1>6, FilesOne

LEMMA ConfigureExecutorFiles ==
    ASSUME IInv, NEW x \in Executors, NEW keys \in Settings, ConfigureExecutor(x, keys)
    PROVE  FiledWhole
<1> DEFINE value == [state[Executor(x)] EXCEPT !.keys = keys]
           next == [state EXCEPT ![Executor(x)] = value]
<1>1. Do("configure", <<Executor(x)>>, next) /\ There(state, Executor(x))
  BY DEF ConfigureExecutor
<1>2. IsState(state) /\ Executor(x) \in Names
  BY Named DEF IInv
<1>3. state[Executor(x)] \in [list : {Absent} \cup Lists, keys : Settings]
  BY <1>1, <1>2, InState, ValueOf DEF There
<1>4. value \in [list : {Absent} \cup Lists, keys : Settings]
  BY <1>3
<1> HIDE DEF value
<1>5. Wrote({Executor(x)}, state, next)
  BY <1>2, <1>4, ValueOf, WroteNothing, WroteSet
<1> HIDE DEF next
<1> QED BY <1>1, <1>2, <1>5, FilesOne

-----------------------------------------------------------------------------
(* Delete, Copy, Move, Label and Color                                     *)

LEMMA ObjectIs ==
    ASSUME NEW n \in Objects
    PROVE  /\ n \in ShowNames /\ n \in Names
           /\ Kind(n) \in {"group", "preset", "list", "executor"}
BY Kinds DEF Objects, ShowNames, Names

LEMMA DeleteFiles ==
    ASSUME IInv, NEW name \in Objects, Delete(name)
    PROVE  FiledWhole
<1> DEFINE verb == IF Kind(name) = "preset" THEN "deletePreset" ELSE "delete"
           next == Put(state, name, Absent)
<1>1. Do(verb, <<name, CueEdit>>, next) /\ IsState(state)
  BY DEF Delete, IInv
<1>2. Wrote({name, CueEdit}, state, next)
  BY <1>1, ObjectIs, WroteNothing, WrotePut
<1> HIDE DEF verb, next
<1> QED BY <1>1, <1>2, ObjectIs, FilesTwo, DeskPlain

LEMMA DeleteCueFiles ==
    ASSUME IInv, NEW q \in Lists, NEW n, DeleteCue(q, n)
    PROVE  FiledWhole
<1> DEFINE S == {List(q), CueEdit}
           t == WithoutCue(state, q, n)
           edit == IF IsEdited(q, n) THEN Absent ELSE t[CueEdit]
           next == [t EXCEPT ![CueEdit] = edit]
<1>1. Do("deleteCue", <<List(q), CueEdit>>, next) /\ HasCue(state, q, n) /\ IsState(state)
  BY DEF DeleteCue, IInv
<1>2. List(q) \in S /\ CueEdit \in S
  OBVIOUS
<1> HIDE DEF S
<1>3. Wrote(S, state, t)
  BY <1>1, <1>2, CueOf, WroteNothing, WroteCue
<1> HIDE DEF t
<1>4. IsValue(CueEdit, edit)
  <2>1. t[CueEdit] \in {Absent} \cup CueEdits
    BY <1>3, InState, ValueOf DEF Wrote
  <2>2. edit \in {Absent} \cup CueEdits
    BY <2>1
  <2> QED BY <2>2, ValueOf
<1> HIDE DEF edit
<1>5. Wrote({List(q), CueEdit}, state, next)
  BY <1>2, <1>3, <1>4, WroteSet DEF S
<1> HIDE DEF next
<1>6. List(q) \in Names
  BY Named
<1> QED BY <1>1, <1>5, <1>6, FilesTwo, DeskPlain

\* What a copy or a move brings is of the kind of the place it goes to.
LEMMA NamedOf ==
    ASSUME NEW carry, NEW old, NEW from, from.name \in Settings,
           old # Absent => old.name \in Settings
    PROVE  NameOf(carry, old, from) \in Settings
BY DEF NameOf

LEMMA ListFromIs ==
    ASSUME NEW from, IsList(from), NEW old, old # Absent => IsList(old), NEW mode, NEW carry
    PROVE  IsList(ListFrom(from, old, mode, carry))
<1> DEFINE name == NameOf(carry, old, from)
           color == IF ~ carry /\ old # Absent THEN old.color ELSE from.color
           cues == IF Into(old, mode) THEN from.cues ++ old.cues ELSE from.cues
<1>1. name \in Settings /\ color \in Colors
  BY ListFields, NamedOf
<1>2. IsCues(cues)
  BY ListFields, CuesOver DEF Into
<1>3. ListFrom(from, old, mode, carry)
        = [name |-> name, color |-> color, master |-> Full, fade |-> Rest, cues |-> cues]
  BY DEF ListFrom
<1> HIDE DEF name, color, cues
<1> QED BY <1>1, <1>2, <1>3, ListIs, ShowAssumption

LEMMA PresetFromIs ==
    ASSUME NEW p, NEW r, NEW from, IsValue(Preset(p), from),
           NEW old, old # Absent => IsValue(Preset(r), old), NEW mode, NEW carry
    PROVE  IsValue(Preset(r), PresetFrom(from, old, mode, carry))
<1> DEFINE name == NameOf(carry, old, from)
           color == IF ~ carry /\ old # Absent /\ old.color # Absent
                    THEN old.color ELSE from.color
           values == IF Into(old, mode) THEN from.values ++ old.values ELSE from.values
<1>1. name \in Settings /\ color \in Colors
  BY PresetFields, NamedOf
<1>2. IsPartial(values, Fixtures, Values)
  BY PresetFields, PartialOver DEF Into
<1>3. PresetFrom(from, old, mode, carry) = [name |-> name, color |-> color, values |-> values]
  BY DEF PresetFrom
<1> HIDE DEF name, color, values
<1> QED BY <1>1, <1>2, <1>3, PresetIs

LEMMA GroupFromIs ==
    ASSUME NEW from \in [name : Settings, members : SUBSET Fixtures],
           NEW old, old # Absent => old \in [name : Settings, members : SUBSET Fixtures],
           NEW mode, NEW carry
    PROVE  GroupFrom(from, old, mode, carry) \in [name : Settings, members : SUBSET Fixtures]
<1> DEFINE name == NameOf(carry, old, from)
           members == IF Into(old, mode) THEN old.members \cup from.members ELSE from.members
<1>1. name \in Settings
  BY NamedOf
<1>2. members \in SUBSET Fixtures
  BY DEF Into
<1>3. GroupFrom(from, old, mode, carry) = [name |-> name, members |-> members]
  BY DEF GroupFrom
<1> HIDE DEF name, members
<1> QED BY <1>1, <1>2, <1>3

LEMMA TransferredIs ==
    ASSUME NEW s, IsState(s), NEW source \in Objects, NEW target \in Objects,
           Kind(source) = Kind(target), There(s, source), NEW mode, NEW carry
    PROVE  IsValue(target, Transferred(s, source, target, mode, carry))
<1> DEFINE from == s[source]
           old == Held(s, target)
           new == Transferred(s, source, target, mode, carry)
<1>1. source \in Names /\ target \in Names /\ IsValue(source, from)
      /\ (old # Absent => IsValue(target, old))
  BY ObjectIs, InState, HeldIs DEF There
<1>2. CASE Kind(source) = "list"
  <2>1. source = List(source[2]) /\ target = List(target[2])
    BY <1>1, <1>2, Naming
  <2>2. new = ListFrom(from, old, mode, carry)
    BY <1>2 DEF Transferred
  <2> HIDE DEF from, old, new
  <2>3. IsList(from) /\ (old # Absent => IsList(old))
    BY <1>1, <2>1, ValueOf
  <2>4. IsList(new)
    BY <2>2, <2>3, ListFromIs
  <2> QED BY <2>1, <2>4, ValueOf DEF new
<1>3. CASE Kind(source) = "preset"
  <2>1. source = Preset(source[2]) /\ target = Preset(target[2])
    BY <1>1, <1>3, Naming
  <2>2. new = PresetFrom(from, old, mode, carry)
    BY <1>3 DEF Transferred
  <2> HIDE DEF from, old, new
  <2>3. IsValue(target, new)
    BY <1>1, <2>1, <2>2, PresetFromIs
  <2> QED BY <2>3 DEF new
<1>4. CASE Kind(source) = "group"
  <2>1. source = Group(source[2]) /\ target = Group(target[2])
    BY <1>1, <1>4, Naming
  <2>2. new = GroupFrom(from, old, mode, carry)
    BY <1>4 DEF Transferred
  <2> HIDE DEF from, old, new
  <2>3. from \in [name : Settings, members : SUBSET Fixtures]
        /\ (old # Absent => old \in [name : Settings, members : SUBSET Fixtures])
    BY <1>1, <2>1, ValueOf
  <2>4. new \in [name : Settings, members : SUBSET Fixtures]
    BY <2>2, <2>3, GroupFromIs
  <2> QED BY <2>1, <2>4, ValueOf DEF new
<1>5. CASE Kind(source) = "executor"
  <2>1. source = Executor(source[2]) /\ target = Executor(target[2])
    BY <1>1, <1>5, Naming
  <2>2. new = from
    BY <1>5 DEF Transferred
  <2> HIDE DEF from, old, new
  <2> QED BY <1>1, <2>1, <2>2, ValueOf DEF new
<1> QED BY <1>2, <1>3, <1>4, <1>5, ObjectIs

\* What a transfer puts in the other place.
LEMMA WroteTransfer ==
    ASSUME IsState(state), NEW source \in Objects, NEW target \in Objects, NEW mode, NEW carry,
           MayTransfer(source, target, mode, carry)
    PROVE  LET t == Put(state, target, Transferred(state, source, target, mode, carry)) IN
           /\ IsState(t)
           /\ Kind(target) # "preset" => Wrote({target}, state, t)
<1> DEFINE v == Transferred(state, source, target, mode, carry)
           t == Put(state, target, v)
<1>1. IsValue(target, v) /\ target \in ShowNames /\ target \in Names
  BY TransferredIs, ObjectIs DEF MayTransfer
<1> HIDE DEF v
<1>2. CASE Kind(target) # "preset"
  <2>1. Wrote({target}, state, t)
    BY <1>1, <1>2, WroteNothing, WrotePut
  <2> QED BY <1>2, <2>1 DEF Wrote, v
<1>3. CASE Kind(target) = "preset"
  <2>1. PutDoes(state, target, v, t)
    BY <1>1, Puts DEF Writable
  <2> QED BY <1>3, <2>1 DEF PutDoes, v
<1> QED BY <1>2, <1>3

LEMMA TransferNames ==
    ASSUME NEW source \in Objects, NEW target \in Objects, Kind(source) = Kind(target)
    PROVE  /\ source \in Names /\ target \in Names /\ Referred(target)
           /\ Referred(RefersTo(source)) /\ Kind(RefersTo(source)) # "preset"
           /\ Kind(source) = "list" => Kind(target) # "preset"
BY ObjectIs DEF Referred, RefersTo, Kind

LEMMA CopyFiles ==
    ASSUME IInv, NEW source \in Objects, NEW target \in Objects, NEW mode,
           Copy(source, target, mode)
    PROVE  Filed /\ (Kind(target) # "preset" => FiledWhole)
<1> DEFINE verb == IF Kind(target) = "preset" /\ There(state, target) THEN "overwrite" ELSE "copy"
           next == Put(state, target, Transferred(state, source, target, mode, FALSE))
<1>1. /\ Do(verb, <<source, target, RefersTo(source), CueEdit>>, next)
      /\ MayTransfer(source, target, mode, FALSE) /\ IsState(state)
  BY DEF Copy, IInv
<1>2. IsState(next) /\ (Kind(target) # "preset" => Wrote({target}, state, next))
  BY <1>1, WroteTransfer
<1>3. Kind(source) = Kind(target)
  BY <1>1 DEF MayTransfer
<1> HIDE DEF verb, next
<1>4. Filed
  <2> DEFINE c == RefersTo(source)
  <2>1. /\ source \in Names /\ Referred(target) /\ Referred(c) /\ Kind(c) # "preset"
        /\ Kind(source) = "list" => Kind(target) # "preset"
        /\ Do(verb, <<source, target, c, CueEdit>>, next)
    BY <1>1, <1>3, TransferNames
  <2> HIDE DEF c
  <2> QED BY <1>2, <2>1, FiledReferred, DeskPlain
<1>5. ASSUME Kind(target) # "preset" PROVE FiledWhole
  <2> DEFINE c == RefersTo(source)
  <2>1. /\ source \in Names /\ target \in Names /\ Referred(target) /\ Referred(c)
        /\ Kind(c) # "preset" /\ (Kind(source) = "list" => Kind(target) # "preset")
        /\ Do(verb, <<source, target, c, CueEdit>>, next)
    BY <1>1, <1>3, TransferNames
  <2> HIDE DEF c
  <2> QED BY <1>2, <1>5, <2>1, FilesReferred, DeskPlain
<1> QED BY <1>4, <1>5

\* The executors that played a list play the other one.
LEMMA WroteRepointed ==
    ASSUME NEW S, NEW s, NEW t, Wrote(S, s, t), NEW q \in Lists, NEW r \in Lists,
           { Executor(e) : e \in Players(t, q) } \subseteq S
    PROVE  Wrote(S, s, Repoint(t, List(q), List(r)))
<1> DEFINE new == [x \in { Executor(e) : e \in Players(t, q) } |-> [t[x] EXCEPT !.list = r]]
<1>1. Repoint(t, List(q), List(r)) = new ++ t
  BY Kinds DEF Repoint
<1>2. DOMAIN new \subseteq S /\ DOMAIN new \subseteq Names
  BY Named DEF Players
<1>3. \A n \in DOMAIN new : IsValue(n, new[n])
  <2>1. ASSUME NEW e \in Players(t, q) PROVE IsValue(Executor(e), new[Executor(e)])
    <3>1. t[Executor(e)] \in [list : {Absent} \cup Lists, keys : Settings]
      BY InState, ValueOf DEF Players, There, Wrote
    <3>2. new[Executor(e)] = [t[Executor(e)] EXCEPT !.list = r]
      OBVIOUS
    <3>3. new[Executor(e)] \in [list : {Absent} \cup Lists, keys : Settings]
      BY <3>1, <3>2
    <3> QED BY <3>3, ValueOf
  <2> QED BY <2>1
<1> HIDE DEF new
<1> QED BY <1>1, <1>2, <1>3, WroteOver

LEMMA RepointIs ==
    ASSUME NEW t, IsState(t), NEW source \in Objects, NEW target \in Objects,
           Kind(source) = Kind(target)
    PROVE  IsState(Repoint(t, source, target))
<1>0. source \in Names /\ target \in Names
  BY ObjectIs
<1>1. CASE Kind(source) = "list"
  <2>1. source = List(source[2]) /\ target = List(target[2])
        /\ source[2] \in Lists /\ target[2] \in Lists
    BY <1>0, <1>1, Naming
  <2> DEFINE q == source[2]
             r == target[2]
             S == { Executor(e) : e \in Players(t, q) }
  <2>2. q \in Lists /\ r \in Lists /\ source = List(q) /\ target = List(r)
    BY <2>1
  <2> HIDE DEF q, r
  <2>3. Wrote(S, t, Repoint(t, List(q), List(r)))
    BY <2>2, WroteNothing, WroteRepointed
  <2> QED BY <2>2, <2>3 DEF Wrote
<1>2. CASE Kind(source) = "preset"
  <2> DEFINE change == [f \in Fixtures |-> [part \in Parts |->
                IF part.link = source[2] THEN [part EXCEPT !.link = target[2]] ELSE part]]
  <2>1. target[2] \in Presets
    BY <1>0, <1>2, Naming
  <2>2. change \in [Fixtures -> [Parts -> Parts]]
    BY <2>1, PartWith
  <2>3. Repoint(t, source, target) = MapParts(t, change)
    BY <1>2 DEF Repoint
  <2> HIDE DEF change
  <2> QED BY <2>2, <2>3, PartsChange
<1>3. CASE Kind(source) # "list" /\ Kind(source) # "preset"
  BY <1>3 DEF Repoint
<1> QED BY <1>1, <1>2, <1>3

LEMMA MoveFiles ==
    ASSUME IInv, NEW source \in Objects, NEW target \in Objects, NEW mode,
           Move(source, target, mode)
    PROVE  Filed /\ (Kind(target) # "preset" => FiledWhole)
<1> DEFINE t == Put(state, target, Transferred(state, source, target, mode, TRUE))
           u == Repoint(t, source, target)
           next == Without(u, {source})
           c == RefersTo(source)
<1>1. /\ Do("move", <<source, target, c, CueEdit>>, next) /\ Kind(source) # "executor"
      /\ MayTransfer(source, target, mode, TRUE) /\ IsState(state)
  BY DEF Move, IInv
<1>2. IsState(t) /\ (Kind(target) # "preset" => Wrote({target}, state, t))
  BY <1>1, WroteTransfer
<1>3. Kind(source) = Kind(target)
  BY <1>1 DEF MayTransfer
<1>4. source \in Names /\ target \in Names /\ \A n \in DeskNames : n \notin {source}
  BY ObjectIs, Naming DEF ShowKinds, DeskKinds, DeskNames
<1> HIDE DEF t
<1>5. IsState(u)
  BY <1>2, <1>3, RepointIs
<1> HIDE DEF u
<1>6. IsState(next)
  BY <1>4, <1>5, StateWithout
<1>7. /\ Referred(target) /\ Referred(c) /\ Kind(c) # "preset"
      /\ Kind(source) = "list" => Kind(target) # "preset"
  BY <1>3, TransferNames
<1>8. Filed
  <2> HIDE DEF c, next
  <2> QED BY <1>1, <1>4, <1>6, <1>7, FiledReferred, DeskPlain
<1>9. CASE Kind(source) = "list"
  <2> DEFINE q == source[2]
             r == target[2]
             S == {target, source} \cup { Executor(e) : e \in Players(state, q) }
  <2>1. q \in Lists /\ r \in Lists /\ source = List(q) /\ target = List(r)
        /\ Kind(target) # "preset"
    BY <1>3, <1>4, <1>9, Naming
  <2> HIDE DEF q, r
  <2>2. Wrote({target}, state, t) /\ Wrote(S, state, t)
    <3>1. {target} \subseteq S
      OBVIOUS
    <3> HIDE DEF S
    <3> QED BY <1>2, <2>1, <3>1, WroteMore
  <2>3. Players(t, q) = Players(state, q)
    <3>1. ASSUME NEW x \in Executors
          PROVE  /\ Executor(x) \in DOMAIN t <=> Executor(x) \in DOMAIN state
                 /\ Executor(x) \in DOMAIN state => t[Executor(x)] = state[Executor(x)]
      <4>1. Executor(x) \in Names \ {target}
        BY <2>1, Named, Kinds
      <4> QED BY <2>2, <4>1 DEF Wrote
    <3> QED BY <3>1 DEF Players, There
  <2>4. Wrote(S, state, u)
    <3>1. { Executor(e) : e \in Players(t, q) } \subseteq S
      BY <2>3
    <3> HIDE DEF S
    <3> QED BY <2>1, <2>2, <3>1, WroteRepointed DEF u
  <2>5. Wrote(S, state, next)
    <3>1. {source} \subseteq S
      OBVIOUS
    <3> HIDE DEF S
    <3> QED BY <1>4, <2>4, <3>1, WroteWithout
  <2>6. \A n \in S : \/ n = source \/ n = target
                     \/ \E j \in 1 .. Len(Covered(c, state)) : Covered(c, state)[j] = n
    BY <1>1, <2>1, ReferrersCovered
  <2> HIDE DEF c, next, S
  <2>7. FiledWhole
    BY <1>1, <1>4, <1>7, <2>5, <2>6, FilesReferred, DeskPlain
  <2> QED BY <1>8, <2>7
<1>10. CASE Kind(source) # "list" /\ Kind(source) # "preset"
  <2> DEFINE S == {target, source}
  <2>1. u = t
    BY <1>10 DEF u, Repoint
  <2>2. {target} \subseteq S /\ {source} \subseteq S
    OBVIOUS
  <2> HIDE DEF S
  <2>3. Wrote(S, state, u)
    BY <1>2, <1>3, <1>10, <2>1, <2>2, WroteMore
  <2>4. Wrote(S, state, next)
    BY <1>4, <2>2, <2>3, WroteWithout
  <2>5. \A n \in S : n = source \/ n = target
    BY DEF S
  <2> HIDE DEF c, next
  <2>6. FiledWhole
    BY <1>1, <1>4, <1>7, <2>4, <2>5, FilesReferred, DeskPlain
  <2> QED BY <1>8, <2>6
<1> QED BY <1>3, <1>8, <1>9, <1>10

-----------------------------------------------------------------------------
(* Cues, executors and the rest                                            *)

LEMMA OverParts ==
    ASSUME NEW c, IsCue(c), NEW old, IsCue(old)
    PROVE  IsCue([old EXCEPT !.parts = c.parts ++ @])
<1> DEFINE parts == c.parts ++ old.parts
<1>1. IsPartial(parts, Fixtures, Parts)
  BY CueFields, PartialOver
<1> HIDE DEF parts
<1>2. IsCue([old EXCEPT !.parts = parts])
  BY <1>1, CueParts
<1> QED BY <1>2 DEF parts

LEMMA CueFromIs ==
    ASSUME NEW s, IsState(s), NEW q, NEW n, HasCue(s, q, n), NEW r, NEW m, NEW mode, NEW carry,
           NEW old, old = (IF HasCue(s, r, m) THEN s[List(r)].cues[m] ELSE Absent)
    PROVE  IsCue(CueFrom(s, q, n, r, m, mode, carry))
<1> DEFINE from == s[List(q)].cues[n]
           name == NameOf(carry, old, from)
           new == CueFrom(s, q, n, r, m, mode, carry)
<1>1. IsCue(from) /\ (old # Absent => IsCue(old))
  BY CueOf
<1>2. new = IF Into(old, mode) THEN [old EXCEPT !.parts = from.parts ++ @]
                               ELSE [from EXCEPT !.name = name]
  BY DEF CueFrom
<1> HIDE DEF from, new
<1>3. name \in Settings
  BY <1>1, CueFields, NamedOf
<1> HIDE DEF name
<1>4. CASE Into(old, mode)
  <2>1. IsCue([old EXCEPT !.parts = from.parts ++ @])
    BY <1>1, <1>4, OverParts DEF Into
  <2> QED BY <1>2, <1>4, <2>1 DEF new
<1>5. CASE ~ Into(old, mode)
  <2>1. IsCue([from EXCEPT !.name = name])
    BY <1>1, <1>3, CueNameTimes
  <2> QED BY <1>2, <1>5, <2>1 DEF new
<1> QED BY <1>4, <1>5

LEMMA CopyCueFiles ==
    ASSUME IInv, NEW q \in Lists, NEW n, NEW r \in Lists, NEW m \in CueNumbers, NEW mode,
           CopyCue(q, n, r, m, mode)
    PROVE  FiledWhole
<1> DEFINE cue == CueFrom(state, q, n, r, m, mode, FALSE)
           next == WithCue(state, r, m, cue)
           S == {List(q), List(r), CueEdit}
<1>1. /\ Do("copyCue", <<List(q), List(r), CueEdit>>, next) /\ IsState(state)
      /\ HasCue(state, q, n) /\ List(r) \in DOMAIN state
  BY DEF CopyCue, There, IInv
<1>2. IsCue(cue)
  BY <1>1, CueFromIs
<1> HIDE DEF cue
<1>3. List(r) \in S
  OBVIOUS
<1> HIDE DEF S
<1>4. Wrote(S, state, next)
  BY <1>1, <1>2, <1>3, WroteNothing, WroteCue
<1>5. List(q) \in Names /\ List(r) \in Names /\ Kind(List(r)) = "list"
  BY Named, Kinds
<1> DEFINE a == List(q)
           b == List(r)
<1>6. /\ a \in Names /\ b \in Names /\ Kind(b) = "list"
      /\ Do("copyCue", <<a, b, CueEdit>>, next) /\ Wrote({a, b, CueEdit}, state, next)
  BY <1>1, <1>4, <1>5 DEF S
<1> HIDE DEF next, a, b
<1> QED BY <1>6, FilesThree, DeskPlain

LEMMA MoveCueFiles ==
    ASSUME IInv, NEW q \in Lists, NEW n, NEW r \in Lists, NEW m \in CueNumbers, NEW mode,
           MoveCue(q, n, r, m, mode)
    PROVE  FiledWhole
<1> DEFINE cue == CueFrom(state, q, n, r, m, mode, TRUE)
           t == WithCue(state, r, m, cue)
           u == WithoutCue(t, q, n)
           edit == IF IsEdited(q, n) THEN [u[CueEdit] EXCEPT !.list = r, !.cue = m]
                                     ELSE u[CueEdit]
           next == [u EXCEPT ![CueEdit] = edit]
           S == {List(q), List(r), CueEdit}
<1>1. /\ Do("moveCue", <<List(q), List(r), CueEdit>>, next) /\ IsState(state)
      /\ HasCue(state, q, n) /\ List(r) \in DOMAIN state
  BY DEF MoveCue, There, IInv
<1>2. IsCue(cue) /\ n \in CueNumbers /\ List(q) \in DOMAIN state
  BY <1>1, CueFromIs, CueOf
<1> HIDE DEF cue
<1>3. List(r) \in S /\ List(q) \in S /\ CueEdit \in S
  OBVIOUS
<1> HIDE DEF S
<1>4. Wrote(S, state, t) /\ DOMAIN t = DOMAIN state
  BY <1>1, <1>2, <1>3, WroteNothing, WroteCue
<1>5. t[CueEdit] = state[CueEdit]
  BY Kinds DEF WithCue
<1> HIDE DEF t
<1>6. Wrote(S, state, u)
  BY <1>2, <1>3, <1>4, WroteCue
<1>7. u[CueEdit] = Editing
  <2>1. CueEdit \in DOMAIN t /\ CueEdit # List(q)
    BY <1>4, InState, Kinds DEF Wrote
  <2> QED BY <1>5, <2>1 DEF WithoutCue, Editing
<1> HIDE DEF u
<1>8. IsValue(CueEdit, edit)
  <2>1. Editing \in {Absent} \cup CueEdits
    BY <1>1, InState, ValueOf DEF Editing
  <2>2. CASE IsEdited(q, n)
    <3>1. Editing # Absent
      BY <2>2 DEF IsEdited
    <3>2. [Editing EXCEPT !.list = r, !.cue = m] \in CueEdits
      BY <3>1, EditIs
    <3> QED BY <1>7, <2>2, <3>2, ValueOf
  <2>3. CASE ~ IsEdited(q, n)
    BY <1>7, <2>1, <2>3, ValueOf
  <2> QED BY <2>2, <2>3
<1> HIDE DEF edit
<1>9. Wrote(S, state, next)
  BY <1>3, <1>6, <1>8, WroteSet
<1>10. List(q) \in Names /\ List(r) \in Names /\ Kind(List(r)) = "list"
  BY Named, Kinds
<1> DEFINE a == List(q)
           b == List(r)
<1>11. /\ a \in Names /\ b \in Names /\ Kind(b) = "list"
       /\ Do("moveCue", <<a, b, CueEdit>>, next) /\ Wrote({a, b, CueEdit}, state, next)
  BY <1>1, <1>9, <1>10 DEF S
<1> HIDE DEF next, a, b
<1> QED BY <1>11, FilesThree, DeskPlain

\* A swap is filed, or it is refused with its first half written.
LEMMA MoveExecutorFiles ==
    ASSUME IInv, NEW x \in Executors, NEW y \in Executors, MoveExecutor(x, y)
    PROVE  \/ FiledWhole
           \/ \E half : Fail("moveExecutor", half) /\ IsState(half)
<1> DEFINE a == Executor(x)
           b == Executor(y)
           from == Held(state, a)
           held == Held(state, b)
           half == Put(state, b, from)
           next == Put(half, a, held)
           S == {a, b, CueEdit}
<1>1. /\ from # Absent
      /\ IF Accepts(half, a, held) THEN Do("moveExecutor", <<a, b, CueEdit>>, next)
                                   ELSE Fail("moveExecutor", half)
  BY DEF MoveExecutor
<1>2. /\ IsState(state) /\ a \in Names /\ b \in Names /\ a \in ShowNames /\ b \in ShowNames
      /\ Kind(a) = "executor" /\ Kind(b) = "executor"
  BY Named, Kinds DEF IInv
<1>3. /\ IsValue(b, from) /\ (held = Absent \/ IsValue(a, held))
  <2>1. IsValue(a, from) /\ (held = Absent \/ IsValue(b, held))
    <3> HIDE DEF a, b
    <3> QED BY <1>1, <1>2, HeldIs
  <2> HIDE DEF from, held
  <2> QED BY <2>1, ValueOf
<1>4. a \in S /\ b \in S
  OBVIOUS
<1> HIDE DEF a, b, S, from, held
<1>5. Wrote(S, state, half)
  BY <1>2, <1>3, <1>4, WroteNothing, WrotePut
<1> HIDE DEF half
<1>6. Wrote(S, state, next)
  BY <1>2, <1>3, <1>4, <1>5, WrotePut
<1> HIDE DEF next
<1>7. CASE Accepts(half, a, held)
  <2>1. Wrote({a, b, CueEdit}, state, next)
    BY <1>6 DEF S
  <2>2. FiledWhole
    BY <1>1, <1>2, <1>7, <2>1, FilesThree, DeskPlain
  <2> QED BY <2>2
<1>8. CASE ~ Accepts(half, a, held)
  <2>1. Fail("moveExecutor", half) /\ IsState(half)
    BY <1>1, <1>5, <1>8 DEF Wrote
  <2> QED BY <2>1
<1> QED BY <1>7, <1>8

\* A label, of a group, a preset or a list.
LEMMA Labelled ==
    ASSUME NEW n \in Objects, NEW v, IsValue(n, v), NEW label \in Settings
    PROVE  /\ Kind(n) # "executor" => IsValue(n, [v EXCEPT !.name = label])
           /\ \A color \in Colors :
                Kind(n) \in {"list", "preset"} => IsValue(n, [v EXCEPT !.color = color])
<1>1. n \in Names /\ Kind(n) \in {"group", "preset", "list", "executor"}
  BY ObjectIs
<1>2. CASE Kind(n) = "list"
  <2>1. n = List(n[2]) /\ IsList(v)
    BY <1>1, <1>2, Naming, ValueOf
  <2> QED BY <1>2, <2>1, ListChanged, ValueOf
<1>3. CASE Kind(n) = "preset"
  <2>1. n = Preset(n[2])
    BY <1>1, <1>3, Naming
  <2>2. /\ v.name \in Settings /\ v.color \in Colors /\ IsPartial(v.values, Fixtures, Values)
        /\ v = [name |-> v.name, color |-> v.color, values |-> v.values]
    BY <2>1, PresetFields
  <2>3. IsValue(n, [v EXCEPT !.name = label])
    <3>1. [v EXCEPT !.name = label] = [name |-> label, color |-> v.color, values |-> v.values]
      BY <2>2
    <3>2. IsValue(n, [name |-> label, color |-> v.color, values |-> v.values])
      BY <2>1, <2>2, PresetIs
    <3> QED BY <3>1, <3>2
  <2>4. ASSUME NEW color \in Colors PROVE IsValue(n, [v EXCEPT !.color = color])
    <3>1. [v EXCEPT !.color = color] = [name |-> v.name, color |-> color, values |-> v.values]
      BY <2>2
    <3>2. IsValue(n, [name |-> v.name, color |-> color, values |-> v.values])
      BY <2>1, <2>2, <2>4, PresetIs
    <3> QED BY <3>1, <3>2
  <2> QED BY <2>3, <2>4
<1>4. CASE Kind(n) = "group"
  <2>1. n = Group(n[2]) /\ v \in [name : Settings, members : SUBSET Fixtures]
    BY <1>1, <1>4, Naming, ValueOf
  <2>2. [v EXCEPT !.name = label] \in [name : Settings, members : SUBSET Fixtures]
    BY <2>1
  <2>3. IsValue(n, [v EXCEPT !.name = label])
    BY <2>1, <2>2, ValueOf
  <2> QED BY <1>4, <2>3
<1>5. CASE Kind(n) = "executor"
  BY <1>5
<1> QED BY <1>1, <1>2, <1>3, <1>4, <1>5

LEMMA LabelFiles ==
    ASSUME IInv, NEW name \in Objects, NEW label \in Settings, Label(name, label)
    PROVE  FiledWhole
<1> DEFINE value == [state[name] EXCEPT !.name = label]
           next == [state EXCEPT ![name] = value]
<1>1. /\ Do("label", <<name, CueEdit>>, next) /\ IsState(state)
      /\ There(state, name) /\ Kind(name) # "executor"
  BY DEF Label, IInv
<1>2. IsValue(name, value)
  BY <1>1, InState, Labelled DEF There
<1> HIDE DEF value
<1>3. Wrote({name, CueEdit}, state, next)
  BY <1>1, <1>2, WroteNothing, WroteSet
<1> HIDE DEF next
<1> QED BY <1>1, <1>3, ObjectIs, FilesTwo, DeskPlain

LEMMA ColorFiles ==
    ASSUME IInv, NEW name \in Objects, NEW color \in Colors, Color(name, color)
    PROVE  FiledWhole
<1> DEFINE value == [state[name] EXCEPT !.color = color]
           next == [state EXCEPT ![name] = value]
<1>1. /\ Do("color", <<name>>, next) /\ IsState(state)
      /\ There(state, name) /\ Kind(name) \in {"list", "preset"}
  BY DEF Color, IInv
<1>2. IsValue(name, value)
  <2>1. IsValue(name, state[name]) /\ Usual \in Settings
    BY <1>1, InState, ShowAssumption DEF There
  <2> QED BY <1>1, <2>1, Labelled
<1> HIDE DEF value
<1>3. Wrote({name}, state, next)
  BY <1>1, <1>2, WroteNothing, WroteSet
<1> HIDE DEF next
<1> QED BY <1>1, <1>3, ObjectIs, FilesOne

\* A cue of a list that is there, changed.
LEMMA CueChangedFiles ==
    ASSUME IInv, NEW q \in Lists, NEW n, HasCue(state, q, n), NEW c, IsCue(c), NEW verb,
           Do(verb, <<List(q), CueEdit>>, [state EXCEPT ![List(q)].cues[n] = c])
    PROVE  FiledWhole
<1> DEFINE name == List(q)
           cues == [state[name].cues EXCEPT ![n] = c]
           list == [state[name] EXCEPT !.cues = cues]
           next == [state EXCEPT ![name] = list]
<1>1. Do(verb, <<name, CueEdit>>, next) /\ IsState(state)
  BY DEF IInv
<1>2. IsCues(cues)
  <2>1. IsCues(state[name].cues)
    BY <1>1, CueOf
  <2> HIDE DEF name
  <2> QED BY <2>1, CuesSet
<1> HIDE DEF cues
<1>3. IsValue(name, list) /\ name \in Names
  BY <1>1, <1>2, CueOf, OtherCues, Named
<1> HIDE DEF list, name
<1>4. Wrote({name, CueEdit}, state, next)
  BY <1>1, <1>3, WroteNothing, WroteSet
<1> HIDE DEF next
<1> QED BY <1>1, <1>3, <1>4, FilesTwo, DeskPlain

LEMMA LabelCueFiles ==
    ASSUME IInv, NEW q \in Lists, NEW n, NEW label \in Settings, LabelCue(q, n, label)
    PROVE  FiledWhole
<1> DEFINE c == [state[List(q)].cues[n] EXCEPT !.name = label]
<1>1. /\ Do("label", <<List(q), CueEdit>>, [state EXCEPT ![List(q)].cues[n] = c])
      /\ HasCue(state, q, n)
  BY DEF LabelCue
<1>2. IsCue(c)
  BY <1>1, CueOf, CueNameTimes DEF IInv
<1> HIDE DEF c
<1> QED BY <1>1, <1>2, CueChangedFiles

LEMMA SetCuePropertyFiles ==
    ASSUME IInv, NEW q \in Lists, NEW n, NEW times \in Settings, SetCueProperty(q, n, times)
    PROVE  FiledWhole
<1> DEFINE c == [state[List(q)].cues[n] EXCEPT !.times = times]
<1>1. /\ Do("setCue", <<List(q), CueEdit>>, [state EXCEPT ![List(q)].cues[n] = c])
      /\ HasCue(state, q, n)
  BY DEF SetCueProperty
<1>2. IsCue(c)
  BY <1>1, CueOf, CueNameTimes DEF IInv
<1> HIDE DEF c
<1> QED BY <1>1, <1>2, CueChangedFiles

\* The last of some numbers.
LEMMA HighestIs ==
    ASSUME NEW T, T \subseteq Nat, IsFiniteSet(T), T # {}
    PROVE  Max(T) \in T
<1> DEFINE N == Cardinality(T)
           Below(id) == { k \in T : k < id }
<1>1. /\ N \in Nat
      /\ \A i \in 1 .. N : \E id \in T : Cardinality(Below(id)) = i - 1
      /\ \A id \in T : Cardinality(Below(id)) + 1 \in 1 .. N
  BY Ranks
<1>2. PICK id \in T : Cardinality(Below(id)) = N - 1
  <2>1. N \in 1 .. N
    <3>1. PICK id \in T : TRUE
      OBVIOUS
    <3>2. Cardinality(Below(id)) + 1 \in 1 .. N
      BY <1>1
    <3> HIDE DEF Below, N
    <3> QED BY <1>1, <3>2
  <2> QED BY <1>1, <2>1
<1>3. ASSUME NEW k \in T PROVE id >= k
  <2> SUFFICES ASSUME k > id PROVE FALSE
    OBVIOUS
  <2>1. /\ IsFiniteSet(Below(id)) /\ IsFiniteSet(Below(k)) /\ id \notin Below(id)
        /\ Below(id) \cup {id} \subseteq Below(k)
    <3>1. Below(id) \subseteq T /\ Below(k) \subseteq T
      OBVIOUS
    <3>2. IsFiniteSet(Below(id)) /\ IsFiniteSet(Below(k))
      <4> HIDE DEF Below
      <4> QED BY <3>1, FS_Subset
    <3>3. \A j \in Below(id) : j \in T /\ j < k
      OBVIOUS
    <3>4. id \notin Below(id) /\ id \in Below(k)
      OBVIOUS
    <3>5. Below(id) \subseteq Below(k)
      BY <3>3
    <3> HIDE DEF Below
    <3> QED BY <3>2, <3>4, <3>5
  <2> DEFINE below == Below(id)
             upto == Below(k)
  <2>2. /\ IsFiniteSet(below) /\ IsFiniteSet(upto) /\ id \notin below
        /\ below \cup {id} \subseteq upto /\ Cardinality(below) = N - 1
        /\ Cardinality(upto) + 1 \in 1 .. N
    BY <1>1, <1>2, <2>1
  <2> HIDE DEF below, upto, N
  <2>3. IsFiniteSet(below \cup {id}) /\ Cardinality(below \cup {id}) = Cardinality(below) + 1
    BY <2>2, FS_AddElement
  <2>4. Cardinality(below \cup {id}) <= Cardinality(upto)
    BY <2>2, FS_Subset
  <2>5. Cardinality(upto) \in Nat
    BY <2>2, FS_CardinalityType
  <2> QED BY <1>1, <2>2, <2>3, <2>4, <2>5
<1> HIDE DEF N
<1> QED BY <1>3 DEF Max

LEMMA InheritedIs ==
    ASSUME NEW cues, IsCues(cues), NEW n
    PROVE  IsPartial(Inherited(cues, n), Fixtures, Parts)
<1> DEFINE Before(f) == { k \in DOMAIN cues : k < n /\ f \in DOMAIN cues[k].parts
                                              /\ ~ cues[k].parts[f].only }
           From(f) == [value |-> cues[Max(Before(f))].parts[f].value,
                       link  |-> Absent, only |-> FALSE]
           fs == { g \in Fixtures \ DOMAIN cues[n].parts : Before(g) # {} }
<1>1. Inherited(cues, n) = [f \in fs |-> From(f)]
  BY DEF Inherited
<1>2. ASSUME NEW f \in fs PROVE From(f) \in Parts
  <2>1. Before(f) \subseteq Nat /\ IsFiniteSet(Before(f)) /\ Before(f) # {}
    <3>1. Before(f) \subseteq CueNumbers /\ CueNumbers \subseteq Nat /\ IsFiniteSet(CueNumbers)
      BY ShowAssumption DEF IsCues
    <3> HIDE DEF Before
    <3> QED BY <3>1, FS_Subset
  <2> DEFINE k == Max(Before(f))
  <2>2. k \in Before(f)
    <3> HIDE DEF Before
    <3> QED BY <2>1, HighestIs
  <2> HIDE DEF k
  <2>3. IsPartial(cues[k].parts, Fixtures, Parts) /\ f \in DOMAIN cues[k].parts
    BY <2>2, CueFields DEF IsCues
  <2>4. cues[k].parts[f].value \in Values
    BY <2>3 DEF IsPartial, Parts
  <2>5. From(f) = [value |-> cues[k].parts[f].value, link  |-> Absent, only |-> FALSE]
    BY DEF k
  <2> HIDE DEF From
  <2> QED BY <2>4, <2>5 DEF Parts
<1>3. fs \subseteq Fixtures
  OBVIOUS
<1> HIDE DEF From, fs
<1> QED BY <1>1, <1>2, <1>3 DEF IsPartial

LEMMA SetCueTrackingFiles ==
    ASSUME IInv, NEW q \in Lists, NEW n, NEW mode, SetCueTracking(q, n, mode)
    PROVE  FiledWhole
<1> DEFINE cue == state[List(q)].cues[n]
           kept == [f \in DOMAIN cue.parts |->
                      [cue.parts[f] EXCEPT !.only = (mode = "cueOnly")]]
           more == IF mode = "block" THEN Inherited(state[List(q)].cues, n) ELSE Nothing
           parts == kept ++ more
           c == [cue EXCEPT !.parts = parts]
<1>1. /\ Do("setTracking", <<List(q), CueEdit>>, [state EXCEPT ![List(q)].cues[n] = c])
      /\ HasCue(state, q, n)
  BY DEF SetCueTracking
<1>2. IsCue(cue) /\ IsPartial(cue.parts, Fixtures, Parts)
  BY <1>1, CueOf DEF IInv
<1>3. IsPartial(more, Fixtures, Parts)
  BY <1>1, CueOf, InheritedIs, NothingIsPartial DEF IInv
<1> HIDE DEF cue, more
<1>4. IsPartial(kept, Fixtures, Parts)
  BY <1>2, PartWith DEF IsPartial
<1> HIDE DEF kept
<1>5. IsPartial(parts, Fixtures, Parts)
  BY <1>3, <1>4, PartialOver
<1> HIDE DEF parts
<1>6. IsCue(c)
  BY <1>2, <1>5, CueParts
<1> HIDE DEF c
<1> QED BY <1>1, <1>6, CueChangedFiles

-----------------------------------------------------------------------------
(* Operating the desk                                                      *)

LEMMA FadersKeep ==
    ASSUME IInv, NEW q \in Lists, NEW level \in Levels,
           SetMaster(q, level) \/ SetCrossfade(q, level)
    PROVE  IInv'
<1> DEFINE name == List(q)
           mastered == [state[name] EXCEPT !.master = level]
           faded == [state[name] EXCEPT !.fade = level]
<1>1. name \in DOMAIN state /\ IsState(state)
  BY DEF SetMaster, SetCrossfade, There, IInv
<1>2. IsValue(name, mastered) /\ IsValue(name, faded)
  <2>1. IsList(state[name])
    BY <1>1, InState, ValueOf
  <2>2. IsList(mastered) /\ IsList(faded)
    BY <2>1, ListChanged
  <2> QED BY <2>2, ValueOf
<1>3. \/ Operate("master", [state EXCEPT ![name] = mastered])
      \/ Operate("crossfade", [state EXCEPT ![name] = faded])
  BY DEF SetMaster, SetCrossfade
<1> HIDE DEF name, mastered, faded
<1>4. IsState([state EXCEPT ![name] = mastered]) /\ IsState([state EXCEPT ![name] = faded])
  BY <1>1, <1>2, StateSet
<1> QED BY <1>3, <1>4, OperateKeeps

LEMMA SelectSequenceKeeps ==
    ASSUME IInv, NEW q \in Lists, SelectSequence(q)
    PROVE  IInv'
<1>1. Operate("selectList", [state EXCEPT ![Selected] = q])
  BY DEF SelectSequence
<1>2. IsState([state EXCEPT ![Selected] = q])
  BY StateSet, ValueOf DEF IInv
<1> QED BY <1>1, <1>2, OperateKeeps

-----------------------------------------------------------------------------
(* The steps                                                               *)

\* A command that is refused when part of it is written.
FailsHalf == \E verb, half : Fail(verb, half) /\ IsState(half)

\* What a command may name is part of what there is.
LEMMA ReachIs ==
    ASSUME IInv
    PROVE  /\ Reach.fixtures \subseteq Fixtures /\ Reach.types \subseteq Types
           /\ Reach.groups \subseteq Groups /\ Reach.marks \subseteq Marks
           /\ Reach.presets \subseteq Presets /\ Reach.lists \subseteq Lists
           /\ Reach.cues \subseteq CueNumbers /\ Reach.executors \subseteq Executors
           /\ Reach.settings \subseteq Settings /\ Reach.colors \subseteq Colors
           /\ Reach.profiles \subseteq Profiles /\ Reach.rigs \subseteq RigFiles
<1> DEFINE reach == Repertoires[given].reach
           whole == [fixtures : SUBSET Fixtures, types : SUBSET Types, groups : SUBSET Groups,
                     marks : SUBSET Marks, presets : SUBSET Presets, lists : SUBSET Lists,
                     cues : SUBSET CueNumbers, executors : SUBSET Executors,
                     settings : SUBSET Settings, colors : SUBSET Colors,
                     profiles : SUBSET Profiles, rigs : SUBSET RigFiles, modes : SUBSET STRING]
           none == [what \in DOMAIN reach |-> {}]
<1>1. reach \in whole
  BY JournalAssumption DEF IInv
<1>2. /\ reach.fixtures \subseteq Fixtures /\ reach.types \subseteq Types
      /\ reach.groups \subseteq Groups /\ reach.marks \subseteq Marks
      /\ reach.presets \subseteq Presets /\ reach.lists \subseteq Lists
      /\ reach.cues \subseteq CueNumbers /\ reach.executors \subseteq Executors
      /\ reach.settings \subseteq Settings /\ reach.colors \subseteq Colors
      /\ reach.profiles \subseteq Profiles /\ reach.rigs \subseteq RigFiles
  BY <1>1
<1>3. DOMAIN reach = {"fixtures", "types", "groups", "marks", "presets", "lists", "cues",
                      "executors", "settings", "colors", "profiles", "rigs", "modes"}
  BY <1>1
<1>4. /\ none.fixtures = {} /\ none.types = {} /\ none.groups = {} /\ none.marks = {}
      /\ none.presets = {} /\ none.lists = {} /\ none.cues = {} /\ none.executors = {}
      /\ none.settings = {} /\ none.colors = {} /\ none.profiles = {} /\ none.rigs = {}
  BY <1>3
<1>5. Reach = reach \/ Reach = none
  BY DEF Reach
<1> HIDE DEF none, reach
<1> QED BY <1>2, <1>4, <1>5

LEMMA ReachObjects ==
    ASSUME IInv
    PROVE  InReach \subseteq Objects
BY ReachIs DEF InReach, Objects

LEMMA PatchingFiles ==
    ASSUME IInv, Patching
    PROVE  FiledWhole \/ FailsHalf
<1>1. /\ Reach.fixtures \subseteq Fixtures /\ Reach.types \subseteq Types
      /\ Reach.marks \subseteq Marks /\ Reach.settings \subseteq Settings
      /\ Reach.profiles \subseteq Profiles /\ Reach.rigs \subseteq RigFiles
  BY ReachIs
<1>2. CASE \E f \in Reach.fixtures :
              \/ UnpatchFixture(f)
              \/ \E t \in Reach.types, at \in Addresses : PatchFixture(f, t, at)
              \/ \E g \in Reach.fixtures : RenumberFixture(f, g)
  <2>1. PICK f \in Fixtures :
              \/ UnpatchFixture(f)
              \/ \E t \in Types, at \in Addresses : PatchFixture(f, t, at)
              \/ \E g \in Fixtures : RenumberFixture(f, g)
    BY <1>1, <1>2
  <2> QED BY <2>1, UnpatchFixtureFiles, PatchFixtureFiles, RenumberFixtureFiles
<1>3. CASE \E fs \in SUBSET Reach.fixtures \ {{}} :
              \E places \in [fs -> Reach.settings] : PlaceFixtures(places)
  <2>1. PICK fs \in SUBSET Reach.fixtures :
              \E places \in [fs -> Reach.settings] : PlaceFixtures(places)
    BY <1>3
  <2>2. PICK places \in [fs -> Reach.settings] : PlaceFixtures(places)
    BY <2>1
  <2>3. fs \in SUBSET Fixtures /\ places \in [fs -> Settings]
    BY <1>1
  <2> QED BY <2>2, <2>3, PlaceFixturesFiles
<1>4. CASE \E fs \in SUBSET Reach.fixtures \ {{}} :
              \E t \in Reach.types, at \in [fs -> Addresses],
                 copy \in Reach.profiles \cup {Absent} : PatchFixtures(t, at, copy)
  <2>1. PICK fs \in SUBSET Reach.fixtures :
              \E t \in Reach.types, at \in [fs -> Addresses],
                 copy \in Reach.profiles \cup {Absent} : PatchFixtures(t, at, copy)
    BY <1>4
  <2>2. PICK t \in Types, at \in [fs -> Addresses], copy \in Profiles \cup {Absent} :
              PatchFixtures(t, at, copy)
    BY <1>1, <2>1
  <2>3. fs \in SUBSET Fixtures
    BY <1>1
  <2> QED BY <2>2, <2>3, PatchFixturesFiles
<1>5. CASE \E in, out \in SUBSET Reach.marks : \E set \in [in -> Reach.settings] :
              in \cup out # {} /\ EditMarks(set, out)
  <2>1. PICK in \in SUBSET Reach.marks, out \in SUBSET Reach.marks :
              \E set \in [in -> Reach.settings] : EditMarks(set, out)
    BY <1>5
  <2>2. PICK set \in [in -> Reach.settings] : EditMarks(set, out)
    BY <2>1
  <2>3. in \in SUBSET Marks /\ out \in SUBSET Marks /\ set \in [in -> Settings]
    BY <1>1
  <2> QED BY <2>2, <2>3, EditMarksFiles
<1>6. CASE \E t \in Reach.types, profile \in Reach.profiles : EmbedFixtureType(t, profile)
  BY <1>1, <1>6, EmbedFixtureTypeFiles
<1>7. CASE \E rig \in Reach.rigs : ImportRig(rig)
  <2>1. PICK rig \in RigFiles : ImportRig(rig)
    BY <1>1, <1>7
  <2> QED BY <2>1, ImportRigFiles DEF FailsHalf
<1> QED BY <1>2, <1>3, <1>4, <1>5, <1>6, <1>7 DEF Patching

LEMMA ProgrammingFiles ==
    ASSUME IInv, Programming
    PROVE  FiledWhole
<1>1. /\ Reach.fixtures \subseteq Fixtures /\ Reach.groups \subseteq Groups
      /\ Reach.presets \subseteq Presets /\ Reach.lists \subseteq Lists
  BY ReachIs
<1>2. CASE \E mode : \/ \E chosen \in SUBSET Reach.fixtures : SelectFixtures(chosen, mode)
                     \/ \E g \in Reach.groups : SelectGroup(g, mode)
  <2>1. PICK mode : \/ \E chosen \in SUBSET Fixtures : SelectFixtures(chosen, mode)
                    \/ \E g \in Groups : SelectGroup(g, mode)
    <3>1. SUBSET Reach.fixtures \subseteq SUBSET Fixtures
      BY <1>1
    <3> QED BY <1>1, <1>2, <3>1
  <2> QED BY <2>1, SelectFixturesFiles, SelectGroupFiles
<1>3. CASE \E value \in Values : SetAttribute(value)
  BY <1>3, SetAttributeFiles
<1>4. CASE \E delta \in {-1, 1} : NudgeAttribute(delta)
  BY <1>4, NudgeAttributeFiles
<1>5. CASE \E p \in Reach.presets : ApplyPreset(p)
  BY <1>1, <1>5, ApplyPresetFiles
<1>6. CASE \E q \in Reach.lists, n \in Reach.cues : EditCue(q, n)
  BY <1>1, <1>6, EditCueFiles
<1>7. CASE ClearProgrammer
  BY <1>7, ClearProgrammerFiles
<1> QED BY <1>2, <1>3, <1>4, <1>5, <1>6, <1>7 DEF Programming

LEMMA ModesAre ==
    ASSUME NEW all, NEW mode \in Modes(all)
    PROVE  mode \in all
BY DEF Modes

LEMMA StoringFiles ==
    ASSUME IInv, Storing
    PROVE  FiledWhole
<1>1. /\ Reach.groups \subseteq Groups /\ Reach.presets \subseteq Presets
      /\ Reach.lists \subseteq Lists /\ Reach.cues \subseteq CueNumbers
      /\ Reach.executors \subseteq Executors /\ Reach.settings \subseteq Settings
      /\ Reach.colors \subseteq Colors
  BY ReachIs
<1>2. CASE \E mode \in Modes({"merge", "override", "remove"}) :
              \E q \in Reach.lists, n \in Reach.cues : StoreCue(q, n, mode)
  <2>1. PICK mode \in {"merge", "override", "remove"} :
              \E q \in Lists, n \in CueNumbers : StoreCue(q, n, mode)
    BY <1>1, <1>2, ModesAre
  <2> QED BY <2>1, StoreCueFiles
<1>3. CASE \E mode \in Modes({"merge", "override", "remove"}) :
              \E p \in Reach.presets, name \in Reach.settings,
                 color \in Reach.colors : StorePreset(p, name, color, mode)
  <2>1. PICK mode \in {"merge", "override", "remove"} :
              \E p \in Presets, name \in Settings, color \in Colors :
                 StorePreset(p, name, color, mode)
    BY <1>1, <1>3, ModesAre
  <2> QED BY <2>1, StorePresetFiles
<1>4. CASE \E mode \in Modes({"append", "override", "merge"}), q \in Reach.lists :
              StoreSequence(q, mode)
  <2>1. PICK mode \in {"append", "override", "merge"}, q \in Lists : StoreSequence(q, mode)
    BY <1>1, <1>4, ModesAre
  <2> QED BY <2>1, StoreSequenceFiles
<1>5. CASE \E mode \in Modes({"merge", "override"}), g \in Reach.groups,
              name \in Reach.settings : StoreGroup(g, name, mode)
  BY <1>1, <1>5, StoreGroupFiles
<1>6. CASE Update
  BY <1>6, UpdateFiles
<1>7. CASE \E x \in Reach.executors :
              \/ \E q \in Reach.lists \cup {Absent} : AssignExecutor(x, q)
              \/ \E keys \in Reach.settings : ConfigureExecutor(x, keys)
  <2>1. PICK x \in Executors :
              \/ \E q \in Lists \cup {Absent} : AssignExecutor(x, q)
              \/ \E keys \in Settings : ConfigureExecutor(x, keys)
    BY <1>1, <1>7
  <2> QED BY <2>1, AssignExecutorFiles, ConfigureExecutorFiles
<1> QED BY <1>2, <1>3, <1>4, <1>5, <1>6, <1>7 DEF Storing

LEMMA RearrangingFiles ==
    ASSUME IInv, Rearranging
    PROVE  FiledWhole \/ FailsHalf \/ (Filed /\ OntoPreset)
<1>1. /\ Reach.executors \subseteq Executors /\ Reach.settings \subseteq Settings
      /\ Reach.colors \subseteq Colors /\ InReach \subseteq Objects
  BY ReachIs, ReachObjects
<1>2. CASE \E name \in InReach : Delete(name)
  BY <1>1, <1>2, DeleteFiles
<1>3. CASE \E source, target \in InReach, mode \in Modes({"merge", "override"}) :
              Copy(source, target, mode) \/ Move(source, target, mode)
  <2>1. PICK source \in InReach, target \in InReach, mode \in Modes({"merge", "override"}) :
              Copy(source, target, mode) \/ Move(source, target, mode)
    BY <1>3
  <2>2. Filed /\ (Kind(target) # "preset" => FiledWhole)
    BY <1>1, <2>1, CopyFiles, MoveFiles
  <2>3. CASE Kind(target) = "preset"
    BY <2>1, <2>2, <2>3 DEF OntoPreset
  <2> QED BY <2>2, <2>3
<1>4. CASE \E x, y \in Reach.executors : MoveExecutor(x, y)
  <2>1. PICK x \in Executors, y \in Executors : MoveExecutor(x, y)
    BY <1>1, <1>4
  <2> QED BY <2>1, MoveExecutorFiles DEF FailsHalf
<1>5. CASE \E name \in InReach, setting \in Reach.settings : Label(name, setting)
  BY <1>1, <1>5, LabelFiles
<1>6. CASE \E name \in InReach, color \in Reach.colors : Color(name, color)
  BY <1>1, <1>6, ColorFiles
<1> QED BY <1>2, <1>3, <1>4, <1>5, <1>6 DEF Rearranging

LEMMA CueingFiles ==
    ASSUME IInv, Cueing
    PROVE  FiledWhole
<1>1. /\ Reach.lists \subseteq Lists /\ Reach.cues \subseteq CueNumbers
      /\ Reach.settings \subseteq Settings
  BY ReachIs
<1>2. PICK q \in Lists, n \in CueNumbers :
        \/ DeleteCue(q, n)
        \/ \E mode : \E r \in Lists, m \in CueNumbers :
              CopyCue(q, n, r, m, mode) \/ MoveCue(q, n, r, m, mode)
        \/ \E setting \in Settings :
              LabelCue(q, n, setting) \/ SetCueProperty(q, n, setting)
        \/ \E mode : SetCueTracking(q, n, mode)
  BY <1>1 DEF Cueing
<1>3. CASE DeleteCue(q, n)
  BY <1>3, DeleteCueFiles
<1>4. CASE \E mode : \E r \in Lists, m \in CueNumbers :
              CopyCue(q, n, r, m, mode) \/ MoveCue(q, n, r, m, mode)
  BY <1>4, CopyCueFiles, MoveCueFiles
<1>5. CASE \E setting \in Settings :
              LabelCue(q, n, setting) \/ SetCueProperty(q, n, setting)
  BY <1>5, LabelCueFiles, SetCuePropertyFiles
<1>6. CASE \E mode : SetCueTracking(q, n, mode)
  BY <1>6, SetCueTrackingFiles
<1> QED BY <1>2, <1>3, <1>4, <1>5, <1>6

LEMMA OperatingKeeps ==
    ASSUME IInv, Operating
    PROVE  IInv'
<1>1. Reach.lists \subseteq Lists
  BY ReachIs
<1>2. PICK q \in Lists :
        SelectSequence(q) \/ \E level \in Levels : SetMaster(q, level) \/ SetCrossfade(q, level)
  BY <1>1 DEF Operating
<1> QED BY <1>2, FadersKeep, SelectSequenceKeeps

LEMMA FailsKeep ==
    ASSUME IInv, FailsHalf
    PROVE  IInv' /\ refused'
BY FailKeeps DEF FailsHalf

\* An edit is filed with an image of all it changes, refused half way, or a copy or
\* a move onto a preset.
LEMMA EditFiles ==
    ASSUME IInv, Patching \/ Programming \/ Storing \/ Rearranging \/ Cueing
    PROVE  FiledWhole \/ FailsHalf \/ (Filed /\ OntoPreset)
<1>1. CASE Patching
  BY <1>1, PatchingFiles
<1>2. CASE Programming
  BY <1>2, ProgrammingFiles
<1>3. CASE Storing
  BY <1>3, StoringFiles
<1>4. CASE Rearranging
  BY <1>4, RearrangingFiles
<1>5. CASE Cueing
  BY <1>5, CueingFiles
<1> QED BY <1>1, <1>2, <1>3, <1>4, <1>5

LEMMA InitKeeps == Init => IInv
<1> SUFFICES ASSUME Init PROVE IInv
  OBVIOUS
<1>1. /\ given \in DOMAIN Repertoires /\ state \in Repertoires[given].shows
      /\ saved = state /\ done = << >> /\ undone = << >> /\ refused = FALSE /\ steps = 0
  BY DEF Init
<1>2. IsState(state) /\ Repertoires[given].steps \in Nat /\ Capacity \in Nat
  BY <1>1, JournalAssumption
<1>3. Stack(done) /\ Stack(undone) /\ Len(done) = 0 /\ Len(undone) = 0
  BY <1>1, StackEmpty
<1>4. Len(done) + Len(undone) <= Capacity
  <2>1. 0 + 0 <= Capacity
    BY <1>2
  <2> QED BY <1>3, <2>1
<1>5. refused \in BOOLEAN
  BY <1>1
<1>6. steps \in 0 .. Repertoires[given].steps
  <2>1. 0 \in 0 .. Repertoires[given].steps
    BY <1>2
  <2> QED BY <1>1, <2>1
<1>7. IsState(state) /\ IsState(saved)
  BY <1>1, <1>2
<1> QED BY <1>1, <1>3, <1>4, <1>5, <1>6, <1>7 DEF IInv

LEMMA NextKeeps == IInv /\ [Next]_vars => IInv'
<1> SUFFICES ASSUME IInv, [Next]_vars PROVE IInv'
  OBVIOUS
<1>1. CASE Patching \/ Programming \/ Storing \/ Rearranging \/ Cueing
  <2>1. FiledWhole \/ FailsHalf \/ Filed
    BY <1>1, EditFiles
  <2>2. FiledWhole => Filed
    BY DEF FiledWhole, Filed
  <2> QED BY <2>1, <2>2, FiledKeeps, FailsKeep
<1>2. CASE Operating
  BY <1>2, OperatingKeeps
<1>3. CASE Oops
  BY <1>3, OopsKeeps
<1>4. CASE Redo
  BY <1>4, RedoKeeps
<1>5. CASE Save
  BY <1>5, SaveKeeps
<1>6. CASE Open
  BY <1>6, OpenKeeps
<1>7. CASE Quiet
  BY <1>7, QuietKeeps DEF Quiet
<1>8. CASE UNCHANGED vars
  BY <1>8, QuietKeeps
<1> QED BY <1>1, <1>2, <1>3, <1>4, <1>5, <1>6, <1>7, <1>8 DEF Next

LEMMA NothingUnimaged ==
    ASSUME state' = state
    PROVE  Unimaged = {}
BY DEF Unimaged

LEMMA EditsStep ==
    ASSUME IInv, [Next]_vars, Unimaged # {}
    PROVE  Operating \/ Oops \/ Redo \/ Open \/ refused' \/ OntoPreset
<1>1. CASE Patching \/ Programming \/ Storing \/ Rearranging \/ Cueing
  <2>1. FiledWhole \/ FailsHalf \/ OntoPreset
    BY <1>1, EditFiles
  <2>2. ~ FiledWhole
    BY FiledImages
  <2> QED BY <2>1, <2>2, FailsKeep
<1>2. CASE Save \/ Quiet \/ UNCHANGED vars
  <2>1. state' = state
    BY <1>2 DEF Save, Quiet, vars
  <2> QED BY <2>1, NothingUnimaged
<1> QED BY <1>1, <1>2 DEF Next


-----------------------------------------------------------------------------
(* The line of history                                                     *)

\* A record does what it says, whenever it is: from a state with all that the step
\* left its Oops brings back all that the step found, and its Redo the other way
\* round, where one may be given.
Exact(g, r) ==
    /\ \A s \in States :
         Undoable(s) = r.is /\ Restore(s, r.before).ok
           => Undoable(Restore(s, r.before).state) = r.was
    /\ "redo" \in Repertoires[g].verbs => \A s \in States :
         Undoable(s) = r.was /\ Restore(s, r.after).ok
           => Undoable(Restore(s, r.after).state) = r.is

\* Steps that lead one after the other to here, the last of them on top; and steps
\* that lead one after the other away from here, the next of them on top.
Past(g, st, here) ==
    /\ \A i \in 1 .. Len(st) : Exact(g, st[i])
    /\ \A i \in 1 .. Len(st) - 1 : st[i].is = st[i + 1].was
    /\ st # << >> => Last(st).is = here

Future(g, st, here) ==
    /\ \A i \in 1 .. Len(st) : Exact(g, st[i])
    /\ \A i \in 1 .. Len(st) - 1 : st[i + 1].is = st[i].was
    /\ st # << >> => Last(st).was = here

Line == Past(given, done, Undoable(state)) /\ Future(given, undone, Undoable(state))

LEMMA NoSteps ==
    ASSUME NEW g, NEW here
    PROVE  Past(g, << >>, here) /\ Future(g, << >>, here)
BY DEF Past, Future

\* What the stack operations do, element by element.
LEMMA Appended ==
    ASSUME NEW st, Stack(st), NEW r
    PROVE  LET s == Append(st, r) IN
           /\ Len(s) = Len(st) + 1 /\ Len(st) \in Nat /\ s # << >> /\ Last(s) = r
           /\ s[Len(st) + 1] = r /\ \A i \in 1 .. Len(st) : s[i] = st[i]
           /\ st # << >> => Len(st) > 0 /\ Last(st) = st[Len(st)]
<1>1. PICK S : st \in Seq(S)
  BY DEF Stack
<1>2. st \in Seq(S \cup {r}) /\ Len(st) \in Nat
  BY <1>1
<1>3. /\ Append(st, r) \in Seq(S \cup {r}) /\ Len(Append(st, r)) = Len(st) + 1
      /\ Append(st, r)[Len(st) + 1] = r
      /\ \A i \in 1 .. Len(st) : Append(st, r)[i] = st[i]
  BY <1>2
<1>4. Append(st, r) # << >>
  BY <1>2, <1>3
<1>5. st # << >> => Len(st) > 0
  BY <1>1
<1> QED BY <1>2, <1>3, <1>4, <1>5 DEF Last

LEMMA Fronted ==
    ASSUME NEW st, Stack(st), st # << >>
    PROVE  /\ Len(Front(st)) = Len(st) - 1 /\ Len(st) \in Nat /\ Len(st) > 0
           /\ \A i \in 1 .. Len(st) - 1 : Front(st)[i] = st[i]
           /\ Last(st) = st[Len(st)]
           /\ Front(st) # << >> => Len(st) > 1 /\ Last(Front(st)) = st[Len(st) - 1]
<1>1. PICK S : st \in Seq(S)
  BY DEF Stack
<1>2. Len(st) \in Nat /\ Len(st) > 0 /\ DOMAIN st = 1 .. Len(st)
  BY <1>1
<1>3. /\ Front(st) \in Seq(S) /\ Len(Front(st)) = Len(st) - 1
      /\ DOMAIN Front(st) = 1 .. Len(st) - 1
      /\ \A i \in 1 .. Len(st) - 1 : Front(st)[i] = st[i]
  BY <1>1, <1>2 DEF Front
<1>4. Front(st) # << >> => Len(Front(st)) > 0
  BY <1>3
<1>5. Front(st) # << >> => Len(st) > 1 /\ Len(st) - 1 \in 1 .. Len(st) - 1
  BY <1>2, <1>3, <1>4
<1> QED BY <1>2, <1>3, <1>5 DEF Last

LEMMA Tailed ==
    ASSUME NEW st, Stack(st), st # << >>
    PROVE  /\ Len(Tail(st)) = Len(st) - 1 /\ Len(st) \in Nat /\ Len(st) > 0
           /\ \A i \in 1 .. Len(st) - 1 : Tail(st)[i] = st[i + 1]
           /\ Tail(st) # << >> => Len(st) > 1 /\ Last(Tail(st)) = Last(st)
<1>1. PICK S : st \in Seq(S)
  BY DEF Stack
<1>2. Len(st) \in Nat /\ Len(st) > 0
  BY <1>1
<1>3. /\ Tail(st) \in Seq(S) /\ Len(Tail(st)) = Len(st) - 1
      /\ \A i \in 1 .. Len(st) - 1 : Tail(st)[i] = st[i + 1]
  BY <1>1, <1>2
<1>4. Tail(st) # << >> => Len(Tail(st)) > 0
  BY <1>3
<1>5. Tail(st) # << >> => Len(st) > 1 /\ Len(st) - 1 \in 1 .. Len(st) - 1
                          /\ Len(st) - 1 + 1 = Len(st)
  BY <1>2, <1>3, <1>4
<1> QED BY <1>2, <1>3, <1>5 DEF Last

\* A step is filed.
LEMMA PastAppend ==
    ASSUME NEW g, NEW st, Stack(st), NEW r, Past(g, st, r.was), Exact(g, r)
    PROVE  Past(g, Append(st, r), r.is)
<1> DEFINE s == Append(st, r)
<1>1. /\ Len(s) = Len(st) + 1 /\ Len(st) \in Nat /\ s # << >> /\ Last(s) = r
      /\ s[Len(st) + 1] = r /\ \A i \in 1 .. Len(st) : s[i] = st[i]
      /\ st # << >> => Len(st) > 0 /\ Last(st) = st[Len(st)]
  BY Appended
<1>2. /\ \A i \in 1 .. Len(st) : Exact(g, st[i])
      /\ \A i \in 1 .. Len(st) - 1 : st[i].is = st[i + 1].was
      /\ st # << >> => Last(st).is = r.was
  BY DEF Past
<1>3. st = << >> => Len(st) = 0
  OBVIOUS
<1> HIDE DEF s
<1>4. ASSUME NEW i \in 1 .. Len(s) PROVE Exact(g, s[i])
  <2>1. i = Len(st) + 1 \/ i \in 1 .. Len(st)
    BY <1>1
  <2> QED BY <1>1, <1>2, <2>1
<1>5. ASSUME NEW i \in 1 .. Len(s) - 1 PROVE s[i].is = s[i + 1].was
  <2>1. i \in 1 .. Len(st) /\ s[i] = st[i]
    BY <1>1
  <2>2. CASE i = Len(st)
    BY <1>1, <1>2, <1>3, <2>1, <2>2
  <2>3. CASE i # Len(st)
    <3>1. i \in 1 .. Len(st) - 1 /\ i + 1 \in 1 .. Len(st)
      BY <1>1, <2>1, <2>3
    <3> QED BY <1>1, <1>2, <2>1, <3>1
  <2> QED BY <2>2, <2>3
<1>6. Last(s).is = r.is
  BY <1>1
<1> QED BY <1>4, <1>5, <1>6 DEF Past, s

\* The ring drops its first step.
LEMMA PastTail ==
    ASSUME NEW g, NEW st, Stack(st), st # << >>, NEW here, Past(g, st, here)
    PROVE  Past(g, Tail(st), here)
<1> DEFINE s == Tail(st)
<1>1. /\ Len(s) = Len(st) - 1 /\ Len(st) \in Nat /\ Len(st) > 0
      /\ \A i \in 1 .. Len(st) - 1 : s[i] = st[i + 1]
      /\ s # << >> => Len(st) > 1 /\ Last(s) = Last(st)
  BY Tailed
<1>2. /\ \A i \in 1 .. Len(st) : Exact(g, st[i])
      /\ \A i \in 1 .. Len(st) - 1 : st[i].is = st[i + 1].was
      /\ st # << >> => Last(st).is = here
  BY DEF Past
<1> HIDE DEF s
<1>3. ASSUME NEW i \in 1 .. Len(s) PROVE Exact(g, s[i])
  <2>1. i \in 1 .. Len(st) - 1 /\ i + 1 \in 1 .. Len(st)
    BY <1>1
  <2> QED BY <1>1, <1>2, <2>1
<1>4. ASSUME NEW i \in 1 .. Len(s) - 1 PROVE s[i].is = s[i + 1].was
  <2>1. i \in 1 .. Len(st) - 1 /\ i + 1 \in 1 .. Len(st) - 1
    BY <1>1
  <2> QED BY <1>1, <1>2, <2>1
<1> QED BY <1>1, <1>2, <1>3, <1>4 DEF Past, s

\* The step that is taken back, and the one that is done again.
LEMMA PastFront ==
    ASSUME NEW g, NEW st, Stack(st), st # << >>, NEW here, Past(g, st, here)
    PROVE  /\ Past(g, Front(st), Last(st).was)
           /\ Exact(g, Last(st)) /\ Last(st).is = here
<1> DEFINE s == Front(st)
<1>1. /\ Len(s) = Len(st) - 1 /\ Len(st) \in Nat /\ Len(st) > 0
      /\ \A i \in 1 .. Len(st) - 1 : s[i] = st[i]
      /\ Last(st) = st[Len(st)]
      /\ s # << >> => Len(st) > 1 /\ Last(s) = st[Len(st) - 1]
  BY Fronted
<1>2. /\ \A i \in 1 .. Len(st) : Exact(g, st[i])
      /\ \A i \in 1 .. Len(st) - 1 : st[i].is = st[i + 1].was
      /\ st # << >> => Last(st).is = here
  BY DEF Past
<1> HIDE DEF s
<1>3. ASSUME NEW i \in 1 .. Len(s) PROVE Exact(g, s[i])
  <2>1. i \in 1 .. Len(st) - 1 /\ i \in 1 .. Len(st)
    BY <1>1
  <2> QED BY <1>1, <1>2, <2>1
<1>4. ASSUME NEW i \in 1 .. Len(s) - 1 PROVE s[i].is = s[i + 1].was
  <2>1. i \in 1 .. Len(st) - 1 /\ i + 1 \in 1 .. Len(st) - 1
    BY <1>1
  <2> QED BY <1>1, <1>2, <2>1
<1>5. s # << >> => Last(s).is = Last(st).was
  <2>1. s # << >> => Len(st) - 1 \in 1 .. Len(st) - 1 /\ Len(st) - 1 + 1 = Len(st)
    BY <1>1
  <2> QED BY <1>1, <1>2, <2>1
<1>6. Len(st) \in 1 .. Len(st)
  BY <1>1
<1>7. Exact(g, Last(st))
  BY <1>1, <1>2, <1>6
<1> QED BY <1>2, <1>3, <1>4, <1>5, <1>7 DEF Past, s

LEMMA FutureAppend ==
    ASSUME NEW g, NEW st, Stack(st), NEW r, Future(g, st, r.is), Exact(g, r)
    PROVE  Future(g, Append(st, r), r.was)
<1> DEFINE s == Append(st, r)
<1>1. /\ Len(s) = Len(st) + 1 /\ Len(st) \in Nat /\ s # << >> /\ Last(s) = r
      /\ s[Len(st) + 1] = r /\ \A i \in 1 .. Len(st) : s[i] = st[i]
      /\ st # << >> => Len(st) > 0 /\ Last(st) = st[Len(st)]
  BY Appended
<1>2. /\ \A i \in 1 .. Len(st) : Exact(g, st[i])
      /\ \A i \in 1 .. Len(st) - 1 : st[i + 1].is = st[i].was
      /\ st # << >> => Last(st).was = r.is
  BY DEF Future
<1>3. st = << >> => Len(st) = 0
  OBVIOUS
<1> HIDE DEF s
<1>4. ASSUME NEW i \in 1 .. Len(s) PROVE Exact(g, s[i])
  <2>1. i = Len(st) + 1 \/ i \in 1 .. Len(st)
    BY <1>1
  <2> QED BY <1>1, <1>2, <2>1
<1>5. ASSUME NEW i \in 1 .. Len(s) - 1 PROVE s[i + 1].is = s[i].was
  <2>1. i \in 1 .. Len(st) /\ s[i] = st[i]
    BY <1>1
  <2>2. CASE i = Len(st)
    BY <1>1, <1>2, <1>3, <2>1, <2>2
  <2>3. CASE i # Len(st)
    <3>1. i \in 1 .. Len(st) - 1 /\ i + 1 \in 1 .. Len(st)
      BY <1>1, <2>1, <2>3
    <3> QED BY <1>1, <1>2, <2>1, <3>1
  <2> QED BY <2>2, <2>3
<1>6. Last(s).was = r.was
  BY <1>1
<1> QED BY <1>4, <1>5, <1>6 DEF Future, s

LEMMA FutureFront ==
    ASSUME NEW g, NEW st, Stack(st), st # << >>, NEW here, Future(g, st, here)
    PROVE  /\ Future(g, Front(st), Last(st).is)
           /\ Exact(g, Last(st)) /\ Last(st).was = here
<1> DEFINE s == Front(st)
<1>1. /\ Len(s) = Len(st) - 1 /\ Len(st) \in Nat /\ Len(st) > 0
      /\ \A i \in 1 .. Len(st) - 1 : s[i] = st[i]
      /\ Last(st) = st[Len(st)]
      /\ s # << >> => Len(st) > 1 /\ Last(s) = st[Len(st) - 1]
  BY Fronted
<1>2. /\ \A i \in 1 .. Len(st) : Exact(g, st[i])
      /\ \A i \in 1 .. Len(st) - 1 : st[i + 1].is = st[i].was
      /\ st # << >> => Last(st).was = here
  BY DEF Future
<1> HIDE DEF s
<1>3. ASSUME NEW i \in 1 .. Len(s) PROVE Exact(g, s[i])
  <2>1. i \in 1 .. Len(st) - 1 /\ i \in 1 .. Len(st)
    BY <1>1
  <2> QED BY <1>1, <1>2, <2>1
<1>4. ASSUME NEW i \in 1 .. Len(s) - 1 PROVE s[i + 1].is = s[i].was
  <2>1. i \in 1 .. Len(st) - 1 /\ i + 1 \in 1 .. Len(st) - 1
    BY <1>1
  <2> QED BY <1>1, <1>2, <2>1
<1>5. s # << >> => Last(s).was = Last(st).is
  <2>1. s # << >> => Len(st) - 1 \in 1 .. Len(st) - 1 /\ Len(st) - 1 + 1 = Len(st)
    BY <1>1
  <2> QED BY <1>1, <1>2, <2>1
<1>6. Len(st) \in 1 .. Len(st)
  BY <1>1
<1>7. Exact(g, Last(st))
  BY <1>1, <1>2, <1>6
<1> QED BY <1>2, <1>3, <1>4, <1>5, <1>7 DEF Future, s

\* An edit.  What it files is exact because its own Oops and Redo are, wherever the
\* faders stand by the time they are given.
LEMMA EditLines ==
    ASSUME IInv, Line, Filed,
           IF done' = done THEN Undoable(state') = Undoable(state)
                           ELSE Cancels(Last(done'))
    PROVE  Line'
<1>1. PICK verb, names, next : Do(verb, names, next) /\ Fit(names, next)
  BY DEF Filed
<1> DEFINE record == [before |-> ImagesOf(names, state),
                      after  |-> ImagesOf(names, next),
                      was    |-> Undoable(state), is |-> Undoable(next)]
           kept == IF Len(done) = Capacity THEN Tail(done) ELSE done
<1>2. /\ state' = next /\ given' = given
      /\ Push(record) \/ UNCHANGED <<done, undone>>
  BY <1>1 DEF Do, Given
<1>3. /\ Past(given, done, Undoable(state)) /\ Future(given, undone, Undoable(state))
      /\ Stack(done) /\ IsState(state) /\ IsState(next)
      /\ Capacity \in Nat \ {0}
  BY <1>1, JournalAssumption DEF Line, IInv, Fit
<1>4. CASE done' = done
  <2>1. undone' = undone \/ undone' = << >>
    BY <1>2 DEF Push
  <2>2. Undoable(state') = Undoable(state)
    BY <1>4
  <2>3. /\ Past(given', done', Undoable(state'))
        /\ Future(given', undone', Undoable(state'))
    BY <1>2, <1>3, <1>4, <2>1, <2>2, NoSteps
  <2> QED BY <2>3 DEF Line
<1>5. CASE done' # done
  <2>1. Push(record) /\ Cancels(Last(done'))
    BY <1>2, <1>5
  <2>2. /\ record.before = ImagesOf(names, state) /\ record.after = ImagesOf(names, next)
        /\ record.was = Undoable(state) /\ record.is = Undoable(next)
    OBVIOUS
  <2>3. Sound(record.before) /\ Sound(record.after)
    <3>1. WellNamed(names, state) /\ WellNamed(names, next)
      BY <1>1 DEF Fit
    <3> QED BY <1>3, <2>2, <3>1, Images
  <2>4. undone' = << >> /\ done' = Append(kept, record)
    BY <2>1 DEF Push
  <2> HIDE DEF record
  <2>5. Last(done') = record
    BY <2>1, PushLast
  <2>6. /\ Restore(next, record.before).ok
             => Undoable(Restore(next, record.before).state) = record.was
        /\ "redo" \in Repertoires[given].verbs /\ Restore(state, record.after).ok
             => Undoable(Restore(state, record.after).state) = record.is
    BY <1>2, <2>1, <2>2, <2>5 DEF Cancels
  <2>7. Exact(given, record)
    <3>1. ASSUME NEW s \in States, Undoable(s) = record.is, Restore(s, record.before).ok
          PROVE  Undoable(Restore(s, record.before).state) = record.was
      <4>1. IsState(s) /\ Undoable(s) = Undoable(next)
        BY <2>2, <3>1 DEF States
      <4>2. /\ Restore(s, record.before).ok = Restore(next, record.before).ok
            /\ Undoable(Restore(s, record.before).state)
                 = Undoable(Restore(next, record.before).state)
        BY <1>3, <2>3, <4>1, RestoresAlike
      <4> QED BY <2>6, <3>1, <4>2
    <3>2. ASSUME "redo" \in Repertoires[given].verbs,
                 NEW s \in States, Undoable(s) = record.was, Restore(s, record.after).ok
          PROVE  Undoable(Restore(s, record.after).state) = record.is
      <4>1. IsState(s) /\ Undoable(s) = Undoable(state)
        BY <2>2, <3>2 DEF States
      <4>2. /\ Restore(s, record.after).ok = Restore(state, record.after).ok
            /\ Undoable(Restore(s, record.after).state)
                 = Undoable(Restore(state, record.after).state)
        BY <1>3, <2>3, <4>1, RestoresAlike
      <4> QED BY <2>6, <3>2, <4>2
    <3> QED BY <3>1, <3>2 DEF Exact
  <2>8. Stack(kept) /\ Past(given, kept, record.was)
    <3>1. CASE Len(done) = Capacity
      <4>1. done # << >>
        BY <1>3, <3>1, StackEmpty
      <4> QED BY <1>3, <2>2, <3>1, <4>1, StackTail, PastTail
    <3>2. CASE Len(done) # Capacity
      BY <1>3, <2>2, <3>2
    <3> QED BY <3>1, <3>2
  <2> HIDE DEF kept
  <2>9. Past(given, done', record.is)
    BY <2>4, <2>7, <2>8, PastAppend
  <2>10. /\ Past(given', done', Undoable(state'))
         /\ Future(given', undone', Undoable(state'))
    BY <1>2, <2>2, <2>4, <2>9, NoSteps
  <2> QED BY <2>10 DEF Line
<1> QED BY <1>4, <1>5

\* What moves nothing that can be taken back, and leaves the stacks alone.
LEMMA SameLine ==
    ASSUME Line, UNCHANGED <<done, undone, given>>, Undoable(state') = Undoable(state)
    PROVE  Line'
BY DEF Line

LEMMA OopsLines ==
    ASSUME IInv, Line, Oops, refused' => UNCHANGED <<state, done, undone>>
    PROVE  Line'
<1> DEFINE record == Last(done)
           answer == Restore(state, record.before)
<1>1. /\ given' = given /\ done # << >>
      /\ state' = answer.state /\ refused' = ~ answer.ok
      /\ answer.ok => done' = Front(done) /\ undone' = Append(undone, record)
  BY DEF Oops, Given
<1>2. /\ Past(given, done, Undoable(state)) /\ Future(given, undone, Undoable(state))
      /\ Stack(done) /\ Stack(undone) /\ state \in States
  BY StatesAll DEF Line, IInv
<1> HIDE DEF answer
<1>3. /\ Past(given, Front(done), record.was)
      /\ Exact(given, record) /\ record.is = Undoable(state)
  BY <1>1, <1>2, PastFront
<1> HIDE DEF record
<1>4. CASE answer.ok
  <2>1. Undoable(state') = record.was
    BY <1>1, <1>2, <1>3, <1>4 DEF Exact, answer
  <2>2. Future(given, undone', record.was)
    BY <1>1, <1>2, <1>3, <1>4, FutureAppend
  <2>3. /\ Past(given', done', Undoable(state'))
        /\ Future(given', undone', Undoable(state'))
    BY <1>1, <1>3, <1>4, <2>1, <2>2
  <2> QED BY <2>3 DEF Line
<1>5. CASE ~ answer.ok
  <2>1. UNCHANGED <<state, done, undone>>
    BY <1>1, <1>5
  <2> QED BY <1>1, <2>1, SameLine
<1> QED BY <1>4, <1>5

LEMMA RedoLines ==
    ASSUME IInv, Line, Redo, refused' => UNCHANGED <<state, done, undone>>
    PROVE  Line'
<1> DEFINE record == Last(undone)
           answer == Restore(state, record.after)
<1>1. /\ given' = given /\ undone # << >> /\ "redo" \in Repertoires[given].verbs
      /\ state' = answer.state /\ refused' = ~ answer.ok
      /\ answer.ok => undone' = Front(undone) /\ done' = Append(done, record)
  BY DEF Redo, Given
<1>2. /\ Past(given, done, Undoable(state)) /\ Future(given, undone, Undoable(state))
      /\ Stack(done) /\ Stack(undone) /\ state \in States
  BY StatesAll DEF Line, IInv
<1> HIDE DEF answer
<1>3. /\ Future(given, Front(undone), record.is)
      /\ Exact(given, record) /\ record.was = Undoable(state)
  BY <1>1, <1>2, FutureFront
<1> HIDE DEF record
<1>4. CASE answer.ok
  <2>1. Undoable(state') = record.is
    BY <1>1, <1>2, <1>3, <1>4 DEF Exact, answer
  <2>2. Past(given, done', record.is)
    BY <1>1, <1>2, <1>3, <1>4, PastAppend
  <2>3. /\ Past(given', done', Undoable(state'))
        /\ Future(given', undone', Undoable(state'))
    BY <1>1, <1>3, <1>4, <2>1, <2>2
  <2> QED BY <2>3 DEF Line
<1>5. CASE ~ answer.ok
  <2>1. UNCHANGED <<state, done, undone>>
    BY <1>1, <1>5
  <2> QED BY <1>1, <2>1, SameLine
<1> QED BY <1>4, <1>5

\* No hand on a fader and no list that is selected is part of what is taken back.
LEMMA OperatingLines ==
    ASSUME IInv, Line, Operating
    PROVE  Line'
<1>1. Reach.lists \subseteq Lists
  BY ReachIs
<1>2. PICK q \in Lists :
        SelectSequence(q) \/ \E level \in Levels : SetMaster(q, level) \/ SetCrossfade(q, level)
  BY <1>1 DEF Operating
<1>3. IsState(state) /\ IsState(state')
  BY OperatingKeeps DEF IInv
<1>4. UNCHANGED <<done, undone, given>>
  BY <1>2 DEF SelectSequence, SetMaster, SetCrossfade, Operate, Given
<1>5. Alike(state, state')
  <2>1. CASE SelectSequence(q)
    <3>1. state' = [state EXCEPT ![Selected] = q]
      BY <2>1 DEF SelectSequence, Operate
    <3> QED BY <3>1 DEF Alike, SameAt
  <2>2. CASE \E level \in Levels : SetMaster(q, level) \/ SetCrossfade(q, level)
    <3> DEFINE l == state[List(q)]
    <3>1. PICK level \in Levels :
            \/ state' = [state EXCEPT ![List(q)] = [l EXCEPT !.master = level]]
            \/ state' = [state EXCEPT ![List(q)] = [l EXCEPT !.fade = level]]
      BY <2>2 DEF SetMaster, SetCrossfade, Operate
    <3>2. List(q) \in DOMAIN state
      BY <2>2 DEF SetMaster, SetCrossfade, There
    <3>3. l = [name |-> l.name, color |-> l.color, master |-> l.master,
               fade |-> l.fade, cues |-> l.cues]
      BY <1>3, <3>2, InState, ValueOf, ListFields
    <3> DEFINE m == IF state' = [state EXCEPT ![List(q)] = [l EXCEPT !.master = level]]
                    THEN [l EXCEPT !.master = level] ELSE [l EXCEPT !.fade = level]
    <3>4. state' = [state EXCEPT ![List(q)] = m]
      BY <3>1
    <3>5. m = [l EXCEPT !.master = level] \/ m = [l EXCEPT !.fade = level]
      OBVIOUS
    <3> HIDE DEF m, l
    <3>6. m.name = l.name /\ m.color = l.color /\ m.cues = l.cues
      BY <3>3, <3>5
    <3>7. /\ DOMAIN state' = DOMAIN state
          /\ \A n \in DOMAIN state : state'[n] = IF n = List(q) THEN m ELSE state[n]
      BY <3>4
    <3>8. Kind(List(q)) = "list" /\ state[List(q)] = l
      BY Kinds DEF l
    <3> QED BY <3>6, <3>7, <3>8 DEF Alike, SameAt
  <2> QED BY <1>2, <2>1, <2>2
<1>6. Undoable(state) = Undoable(state')
  BY <1>3, <1>5, UndoableIs
<1> QED BY <1>4, <1>6, SameLine

LEMMA NextLines ==
    ASSUME IInv, Line, [Next]_vars,
           [refused' => UNCHANGED <<state, done, undone>>]_vars,
           [~ (Oops \/ Redo \/ Open \/ refused') =>
              IF done' = done THEN Undoable(state') = Undoable(state)
                              ELSE Cancels(Last(done'))]_vars
    PROVE  Line'
<1>1. CASE UNCHANGED vars
  BY <1>1, SameLine DEF vars
<1>2. CASE Oops /\ ~ UNCHANGED vars
  BY <1>2, OopsLines
<1>3. CASE Redo /\ ~ UNCHANGED vars
  BY <1>3, RedoLines
<1>4. CASE Open
  <2>1. done' = << >> /\ undone' = << >>
    BY <1>4 DEF Open
  <2>2. /\ Past(given', done', Undoable(state'))
        /\ Future(given', undone', Undoable(state'))
    BY <2>1, NoSteps
  <2> QED BY <2>2 DEF Line
<1>5. CASE Operating
  BY <1>5, OperatingLines
<1>6. CASE Save \/ Quiet
  <2>1. state' = state /\ done' = done /\ undone' = undone /\ given' = given
    BY <1>6 DEF Save, Quiet, vars, Given
  <2> QED BY <2>1, SameLine
<1>7. CASE /\ Patching \/ Programming \/ Storing \/ Rearranging \/ Cueing
           /\ ~ (UNCHANGED vars \/ Oops \/ Redo \/ Open)
  <2>1. CASE Filed
    <3>1. ~ refused'
      BY <2>1 DEF Filed, Do
    <3> QED BY <1>7, <2>1, <3>1, EditLines
  <2>2. CASE FailsHalf
    <3>1. refused' /\ given' = given
      BY <2>2 DEF FailsHalf, Fail, Given
    <3>2. UNCHANGED <<state, done, undone>>
      BY <1>7, <3>1
    <3> QED BY <3>1, <3>2, SameLine
  <2>3. FiledWhole \/ FailsHalf \/ Filed
    BY <1>7, EditFiles
  <2>4. FiledWhole => Filed
    BY DEF FiledWhole, Filed
  <2> QED BY <2>1, <2>2, <2>3, <2>4
<1> QED BY <1>1, <1>2, <1>3, <1>4, <1>5, <1>6, <1>7 DEF Next

LEMMA InitLine == Init => Line
BY NoSteps DEF Init, Line

\* The two stacks, end to end.
LEMMA LineIs == IInv /\ Line => HistoryIsALine
<1> SUFFICES ASSUME IInv, Line PROVE HistoryIsALine
  OBVIOUS
<1> DEFINE d == Len(done)
           u == Len(undone)
           line == done \o Reverse(undone)
<1>1. Stack(done) /\ Stack(undone)
  BY DEF IInv
<1>2. PICK S : done \in Seq(S)
  BY <1>1 DEF Stack
<1>3. PICK R : undone \in Seq(R)
  BY <1>1 DEF Stack
<1>4. /\ d \in Nat /\ u \in Nat
      /\ done # << >> => d > 0 /\ Last(done) = done[d]
      /\ undone # << >> => u > 0 /\ Last(undone) = undone[u]
      /\ d > 0 => done # << >>
      /\ u > 0 => undone # << >>
  BY <1>2, <1>3 DEF Last
<1>5. /\ Reverse(undone) \in Seq(R) /\ Len(Reverse(undone)) = u
      /\ \A i \in 1 .. u : Reverse(undone)[i] = undone[(u - i) + 1]
  <2>1. Reverse(undone) = [i \in 1 .. u |-> undone[(u - i) + 1]]
    BY DEF Reverse
  <2>2. \A i \in 1 .. u : (u - i) + 1 \in 1 .. u
    BY <1>4
  <2>3. \A i \in 1 .. u : undone[(u - i) + 1] \in R
    BY <1>3, <2>2
  <2> HIDE DEF u
  <2> QED BY <1>4, <2>1, <2>3
<1>6. /\ Len(line) = d + u
      /\ \A i \in 1 .. d : line[i] = done[i]
      /\ \A i \in 1 .. u : line[d + i] = undone[(u - i) + 1]
  <2>1. done \in Seq(S \cup R) /\ Reverse(undone) \in Seq(S \cup R)
    BY <1>2, <1>5
  <2>2. /\ Len(line) = d + Len(Reverse(undone))
        /\ \A i \in 1 .. d : line[i] = done[i]
        /\ \A i \in 1 .. Len(Reverse(undone)) : line[d + i] = Reverse(undone)[i]
    BY ONLY <2>1, Joined
  <2> HIDE DEF line, d, u
  <2> QED BY <1>5, <2>2
<1>7. /\ \A i \in 1 .. d - 1 : done[i].is = done[i + 1].was
      /\ \A i \in 1 .. u - 1 : undone[i + 1].is = undone[i].was
      /\ done # << >> => Last(done).is = Undoable(state)
      /\ undone # << >> => Last(undone).was = Undoable(state)
  BY DEF Line, Past, Future
<1> HIDE DEF line, d, u
<1>8. ASSUME NEW i \in 1 .. Len(line) - 1 PROVE line[i].is = line[i + 1].was
  <2>1. CASE i < d
    <3>1. i \in 1 .. d - 1 /\ i \in 1 .. d /\ i + 1 \in 1 .. d
      BY <1>4, <1>6, <2>1
    <3> QED BY <1>6, <1>7, <3>1
  <2>2. CASE i = d
    <3>1. d > 0 /\ u > 0 /\ d \in 1 .. d /\ 1 \in 1 .. u /\ (u - 1) + 1 = u
      BY <1>4, <1>6, <2>2
    <3>2. line[d] = done[d] /\ line[d + 1] = undone[u]
      BY <1>6, <3>1
    <3> QED BY <1>4, <1>7, <2>2, <3>1, <3>2
  <2>3. CASE i > d
    <3> DEFINE k == i - d
    <3>1. /\ k \in 1 .. u /\ k + 1 \in 1 .. u /\ i = d + k /\ i + 1 = d + (k + 1)
          /\ u - k \in 1 .. u - 1 /\ (u - (k + 1)) + 1 = u - k
      BY <1>4, <1>6, <2>3
    <3> HIDE DEF k
    <3>2. line[i] = undone[(u - k) + 1] /\ line[i + 1] = undone[u - k]
      BY <1>6, <3>1
    <3> QED BY <1>7, <3>1, <3>2
  <2> QED BY <1>4, <1>6, <2>1, <2>2, <2>3
<1>9. /\ done # << >> => Last(done).is = Undoable(state)
      /\ undone # << >> => Last(undone).was = Undoable(state)
  BY <1>7
<1> QED BY <1>8, <1>9 DEF HistoryIsALine, line
-----------------------------------------------------------------------------
(* The theorems                                                            *)

\* The invariant holds of every behaviour of the commands and the journal,
\* whatever the show, the repertoire and the ring's capacity
\* (crates/prism-core/src/journal.rs, file.rs).
THEOREM Invariance == Spec => []IInv
<1> QED BY InitKeeps, NextKeeps, PTL DEF Spec

LEMMA StackRecords ==
    ASSUME NEW st, Stack(st)
    PROVE  \A i \in DOMAIN st : IsRecord(st[i])
BY DEF Stack, Sound, IsRecord

LEMMA SoundFits == IInv => JournalFits
<1> SUFFICES ASSUME IInv PROVE JournalFits
  OBVIOUS
<1>1. Stack(done) /\ Stack(undone)
  BY DEF IInv
<1>2. /\ \A i \in DOMAIN done : IsRecord(done[i])
      /\ \A i \in DOMAIN undone : IsRecord(undone[i])
  BY <1>1, StackRecords
<1> QED BY <1>2 DEF IInv, JournalFits, TypeOK

\* Everything the desk and the file hold, and every image the journal could
\* write back, is a value of its own kind, and the two stacks together never
\* hold more than the ring (Image, Journal::push, Journal::undone).
THEOREM JournalHolds == Spec => []JournalFits
<1> QED BY Invariance, SoundFits, PTL

\* No Oops and no Redo moves a crossfade fader of a list that is there before
\* and after it (restore, B59).
LEMMA CrossfadeKept == Spec => CrossfadeStays
<1>1. IInv /\ [Next]_vars =>
        [Oops \/ Redo => \A q \in Lists : BothHaveList(q)
           => state'[List(q)].fade = state[List(q)].fade]_vars
  BY CrossfadeStep
<1> QED BY <1>1, Invariance, PTL DEF Spec, CrossfadeStays

\* What an edit changes, in passing too, its record holds as it was, unless it
\* is refused half way or goes onto a preset (ShowFile::image,
\* referrer_images).
LEMMA EditsImaged == Spec => EditsAreImaged
<1>1. IInv /\ [Next]_vars =>
        [Unimaged # {} => \/ Operating \/ Oops \/ Redo \/ Open
                          \/ refused' \/ OntoPreset]_vars
  BY EditsStep
<1> QED BY <1>1, Invariance, PTL DEF Spec, EditsAreImaged

\* An Oops and a Redo that are answered bring back every image of their record
\* (ShowFile::restore).
LEMMA ImagesStand == Spec => ImagesStandAgain
<1>1. IInv /\ [Next]_vars =>
        [/\ Oops /\ ~ refused' => \A i \in DOMAIN Last(done).before :
                                     StandsAgain(Last(done).before[i])
         /\ Redo /\ ~ refused' => \A i \in DOMAIN Last(undone).after :
                                     StandsAgain(Last(undone).after[i])]_vars
  BY ImagesStep
<1> QED BY <1>1, Invariance, PTL DEF Spec, ImagesStandAgain

\* What an edit does can be taken back: its record holds what it changed, an
\* answered Oops or Redo leaves every image of the record standing, and none
\* moves a crossfade (ShowFile::image, referrer_images, restore).
THEOREM EditsReturn == Spec => EditsComeBack
<1> QED BY EditsImaged, ImagesStand, CrossfadeKept DEF EditsComeBack

\* Where every edit is taken back as a whole by the Oops right after it, and no
\* refusal changes anything, the journal is one line of history with the desk
\* standing on it: however many Oops and Redo are given, whatever the faders do
\* in between, whatever is refused and whatever the ring drops (Journal,
\* ShowFile::restore).
THEOREM HistoryKept == Spec /\ StepsAreWhole => []HistoryIsALine
<1>1. /\ IInv /\ Line /\ [Next]_vars
      /\ [refused' => UNCHANGED <<state, done, undone>>]_vars
      /\ [~ (Oops \/ Redo \/ Open \/ refused') =>
            IF done' = done THEN Undoable(state') = Undoable(state)
                            ELSE Cancels(Last(done'))]_vars
      => Line'
  BY NextLines
<1> QED BY <1>1, Invariance, InitLine, LineIs, PTL
        DEF Spec, StepsAreWhole, RefusalChangesNothing, EditsCancel
=============================================================================
