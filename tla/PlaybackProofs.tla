--------------------------- MODULE PlaybackProofs ---------------------------
(***************************************************************************)
(* The tick's own work, for any cue lists, any slots and any levels and     *)
(* rates the commands carry: the merge is exact, a cue that is reached is    *)
(* the look the list says it is, no light jumps, a follow waits, and what    *)
(* is switched off goes dark and leaves the merge.                          *)
(*                                                                         *)
(* Two of the definitions recurse: the walk down a list and the walk over   *)
(* the sources.  Of both, Recursion says that there is such a function, and  *)
(* Climb takes a fact from one of its numbers to the next.                  *)
(***************************************************************************)
EXTENDS Playback, FiniteSetTheorems, WellFoundedInduction, TLAPS

-----------------------------------------------------------------------------
(* Numbers                                                                 *)

LEMMA Least ==
    ASSUME NEW T, T \subseteq Nat, T # {}
    PROVE  \E n \in T : \A m \in T : n <= m
<1> DEFINE R == {p \in Nat \X Nat : p[1] < p[2]}
<1>1. IsWellFoundedOn(R, Nat)
  BY NatLessThanWellFounded DEF OpToRel
<1> HIDE DEF R
<1>2. PICK n \in T : \A m \in T : ~ (<<m, n>> \in R)
  BY <1>1, WFMin
<1>3. ASSUME NEW m \in T PROVE n <= m
  <2>1. m \in Nat /\ n \in Nat
    OBVIOUS
  <2>2. SUFFICES ASSUME m < n PROVE <<m, n>> \in R
    BY <1>2, <2>1
  <2>3. <<m, n>> \in Nat \X Nat
    BY <2>1
  <2>4. <<m, n>>[1] < <<m, n>>[2]
    BY <2>1, <2>2
  <2> QED BY <2>3, <2>4 DEF R
<1> QED BY <1>3

\* Induction up to n, of a set.
LEMMA Climb ==
    ASSUME NEW n \in Nat, NEW T, 0 \in T, \A i \in 1 .. n : i - 1 \in T => i \in T
    PROVE  \A i \in 0 .. n : i \in T
<1> DEFINE Out == {i \in 0 .. n : i \notin T}
<1> SUFFICES ASSUME Out # {} PROVE FALSE
  OBVIOUS
<1>1. PICK i \in Out : \A m \in Out : i <= m
  <2>1. Out \subseteq Nat
    OBVIOUS
  <2> QED BY <2>1, Least
<1>2. i \in 1 .. n /\ i - 1 \in 0 .. n
  BY <1>1
<1>3. i - 1 \in T
  BY <1>1, <1>2
<1> QED BY <1>1, <1>2, <1>3

\* A function that is defined by recursion on a number is what it says it is:
\* g begins with base, and F takes it from one number to the next.
Recurs(g, n, S, base, F) ==
    /\ g \in [0 .. n -> S]
    /\ g[0] = base
    /\ \A i \in 1 .. n : g[i] = F[i][g[i - 1]]

LEMMA Recursion ==
    ASSUME NEW n \in Nat, NEW S, NEW base \in S, NEW F \in [1 .. n -> [S -> S]]
    PROVE  \E g : Recurs(g, n, S, base, F)
<1> DEFINE T == {m \in 0 .. n : \E g : Recurs(g, m, S, base, F)}
<1>1. 0 \in T
  <2> DEFINE g == [i \in 0 .. 0 |-> base]
  <2>1. Recurs(g, 0, S, base, F)
    BY DEF Recurs
  <2> HIDE DEF g
  <2> QED BY <2>1
<1>2. ASSUME NEW m \in 1 .. n, m - 1 \in T PROVE m \in T
  <2>1. m - 1 \in 0 .. n /\ m \in 0 .. n /\ m - 1 >= 0
    OBVIOUS
  <2>2. PICK g : Recurs(g, m - 1, S, base, F)
    BY <1>2
  <2> DEFINE h == [i \in 0 .. m |-> IF i = m THEN F[m][g[m - 1]] ELSE g[i]]
  <2>3. g \in [0 .. m - 1 -> S] /\ F[m][g[m - 1]] \in S
    BY <2>1, <2>2 DEF Recurs
  <2>4. h \in [0 .. m -> S] /\ h[0] = base
    BY <2>1, <2>2, <2>3 DEF Recurs
  <2>5. ASSUME NEW i \in 1 .. m PROVE h[i] = F[i][h[i - 1]]
    <3>1. i - 1 \in 0 .. m - 1 /\ h[i - 1] = g[i - 1]
      BY <2>1
    <3>2. CASE i = m
      BY <2>1, <3>1, <3>2
    <3>3. CASE i # m
      <4>1. i \in 1 .. m - 1 /\ h[i] = g[i]
        BY <2>1, <3>3
      <4> QED BY <2>2, <3>1, <4>1 DEF Recurs
    <3> QED BY <3>2, <3>3
  <2> HIDE DEF h
  <2>6. Recurs(h, m, S, base, F)
    BY <2>4, <2>5 DEF Recurs
  <2> QED BY <2>1, <2>6
<1> HIDE DEF T
<1>3. \A i \in 0 .. n : i \in T
  BY <1>1, <1>2, Climb
<1>4. n \in T
  BY <1>3
<1> QED BY <1>4 DEF T

LEMMA MinOfTwo ==
    ASSUME NEW a \in Int, NEW b \in Int
    PROVE  Min({a, b}) = IF a <= b THEN a ELSE b
<1> DEFINE c == IF a <= b THEN a ELSE b
<1>1. c \in {a, b} /\ \A y \in {a, b} : c <= y
  OBVIOUS
<1>2. \A x \in {a, b} : (\A y \in {a, b} : x <= y) => x = c
  OBVIOUS
<1> QED BY <1>1, <1>2 DEF Min

LEMMA MaxOfTwo ==
    ASSUME NEW a \in Int, NEW b \in Int
    PROVE  Max({a, b}) = IF a >= b THEN a ELSE b
<1> DEFINE c == IF a >= b THEN a ELSE b
<1>1. c \in {a, b} /\ \A y \in {a, b} : c >= y
  OBVIOUS
<1>2. \A x \in {a, b} : (\A y \in {a, b} : x >= y) => x = c
  OBVIOUS
<1> QED BY <1>1, <1>2 DEF Max

\* The larger factor makes the larger product.
LEMMA Scaling ==
    ASSUME NEW a \in Nat, NEW b \in Nat, NEW c \in Nat, a <= b
    PROVE  a * c <= b * c /\ c * a <= c * b /\ a * c \in Nat /\ c * a = a * c
<1>1. PICK d \in Nat : b = a + d
  BY a <= b
<1>2. d * c >= 0
  OBVIOUS
<1>3. b * c = a * c + d * c
  BY <1>1
<1> QED BY <1>2, <1>3

\* What a quotient is.
LEMMA Quotient ==
    ASSUME NEW a \in Nat, NEW d \in Nat \ {0}
    PROVE  /\ a \div d \in Nat /\ a % d \in 0 .. d - 1
           /\ a = d * (a \div d) + (a % d)
  OBVIOUS

\* A quotient is the only number that is so far below.
LEMMA QuotientBelow ==
    ASSUME NEW a \in Nat, NEW d \in Nat \ {0}, NEW q \in Nat, a < d * q + d
    PROVE  a \div d <= q
<1> SUFFICES ASSUME a \div d >= q + 1 PROVE FALSE
  BY Quotient
<1>1. d * (a \div d) >= d * (q + 1)
  <2>1. q + 1 \in Nat /\ a \div d \in Nat /\ q + 1 <= a \div d /\ d \in Nat
    BY Quotient
  <2>2. d * (q + 1) <= d * (a \div d)
    BY <2>1, Scaling
  <2> QED BY <2>1, <2>2
<1>2. d * (q + 1) = d * q + d
  OBVIOUS
<1> QED BY <1>1, <1>2, Quotient

\* A part of a whole.
LEMMA Portion ==
    ASSUME NEW a \in Nat, NEW e \in Nat, NEW d \in Nat \ {0}, e <= d
    PROVE  (a * e) \div d \in 0 .. a
<1>1. a * e <= a * d /\ a * e \in Nat
  BY Scaling
<1>2. a * e < d * a + d
  BY <1>1
<1> QED BY <1>1, <1>2, Quotient, QuotientBelow

Entry  == [live : BOOLEAN, from : Level, to : Level, value : Level, duration : Nat,
           releasing : BOOLEAN]
Fader  == [mode : {"off", "XFade", "Fade"}, position : Level,
           stroke : {"none", "armed", "done"}, origin : Level, target : Level,
           fromCue : Nat]
Player == [entries : [Slots -> Entry], current : Nat, clock : 0 .. MaxClock,
           frac : 0 .. Unity - 1, speed : Nat, delay : Nat, restart : BOOLEAN,
           ticked : BOOLEAN, tap : BOOLEAN, since : Nat \cup {None}, manual : Fader,
           flashed : BOOLEAN, active : BOOLEAN]
Source == [stamp : Nat \cup {None}, master : Level, flash : Level \cup {None},
           values : [Slots -> Level \cup {None}]]

InList(p, x) ==
    /\ x \in Player
    /\ x.current \in 0 .. Count(p) /\ x.manual.fromCue \in 0 .. Count(p)
    /\ x.manual.mode = "off" => x.manual.stroke = "none"
    /\ x.active => x.ticked

\* what an entry may be, and when all of it is over
Ends(x) == \A s \in Slots : LET e == x.entries[s] IN
    /\ e.releasing => e.live
    /\ e.live => x.delay + e.duration < MaxClock

Delayed(p, x) == x.current # NoCue => x.delay <= Cue(p, x.current).delay
OnTime(p, x) ==
    /\ Delayed(p, x)
    /\ x.current # NoCue /\ x.manual.stroke = "none" => \A s \in Slots :
           x.entries[s].live => x.entries[s].duration <= Cue(p, x.current).fadeIn

\* its entries are a cue's, not a release's nor where a hold left them
Clean(x) == x.manual.mode = "off" \/ (x.manual.mode = "XFade" /\ x.manual.stroke # "none")
Heads(p, x) == x.current # NoCue /\ Clean(x)
    => \A s \in Slots : LET e == x.entries[s]
                            to == Table[p][s][x.current] IN
         IF to # None THEN e.live /\ ~e.releasing /\ e.to = to
         ELSE e.live => e.releasing

Stands(x) == x.manual.mode = "off" => \A s \in Slots : LET e == x.entries[s] IN
    e.live /\ e.duration > 0 =>
        e.value = IF x.restart \/ x.clock < x.delay THEN e.from
                  ELSE Interpolate(e.from, e.to, x.clock - x.delay, e.duration)

PlayerInv(p, x) == InList(p, x) /\ Ends(x) /\ OnTime(p, x) /\ Heads(p, x) /\ Stands(x)

LayerInv ==
    /\ stamp \in Nat
    /\ layer \in [Playbacks -> Source]
    /\ \A p \in Playbacks : layer[p].stamp < stamp
    /\ \A p, q \in Playbacks : p # q /\ layer[p].stamp # None => layer[p].stamp # layer[q].stamp
    /\ \A p \in Playbacks : IsLoaded(p) /\ player[p].active => layer[p].stamp # None

ProgrammerInv ==
    /\ programmer \in [values : [Slots -> Level \cup {None}], touched : Seq(Slots),
                       position : [Slots -> Nat]]
    /\ \A i \in 1 .. Len(programmer.touched) :
           /\ programmer.values[programmer.touched[i]] # None
           /\ programmer.position[programmer.touched[i]] = i
    /\ \A s \in Slots : programmer.values[s] # None =>
           \E i \in 1 .. Len(programmer.touched) : programmer.touched[i] = s

MastersInv == masters \in [grand : Level, blackout : BOOLEAN, group : Level]

IInv == /\ player \in [Playbacks -> Player]
        /\ \A p \in Playbacks : PlayerInv(p, player[p])
        /\ LayerInv /\ ProgrammerInv /\ MastersInv /\ commands \in Nat
        /\ stage \in [Slots -> Level]

-----------------------------------------------------------------------------
(* Levels, and the cue list                                                *)

LEMMA Constants ==
    /\ Full \in Nat \ {0} /\ Unity \in Nat \ {0} /\ Len(Lists) \in Nat
    /\ MaxClock \in Nat /\ MaxMissed \in Nat /\ TapWindow \in Nat
    /\ Home \in [Slots -> Level] /\ Levels \subseteq Level /\ Speeds \subseteq Nat
    /\ Htp \subseteq Slots /\ Members \subseteq Htp
    /\ \A p \in Playbacks : Count(p) \in Nat
  BY PlaybackAssumption

LEMMA LevelFacts ==
    /\ \A v \in Level : v \in Nat /\ v <= Full /\ v # None
    /\ None \notin Level /\ 0 \in Level /\ Full \in Level
    /\ \A v \in Nat : v <= Full => v \in Level
  BY Constants DEF Level, None

LEMMA CueFacts ==
    ASSUME NEW p \in Playbacks, NEW i \in 1 .. Count(p)
    PROVE  /\ IsCue(Cue(p, i))
           /\ Cue(p, i).fadeIn \in Nat /\ Cue(p, i).fadeOut \in Nat
           /\ Cue(p, i).delay \in Nat /\ Cue(p, i).after \in Nat
           /\ Cue(p, i).delay + Cue(p, i).fadeIn < MaxClock
           /\ Cue(p, i).delay + Cue(p, i).fadeOut < MaxClock
           /\ Cue(p, i).fadeOut < MaxClock
           /\ DOMAIN Cue(p, i).says \subseteq Slots
           /\ \A s \in DOMAIN Cue(p, i).says : Cue(p, i).says[s] \in Level
<1>1. IsCue(Cue(p, i))
  BY PlaybackAssumption
<1> QED BY <1>1, Constants DEF IsCue

LEMMA LoadedFacts ==
    ASSUME NEW p \in Playbacks, ~ IsLoaded(p)
    PROVE  Count(p) = 0
<1>1. Lists[p].cues = << >>
  BY DEF IsLoaded, NoList
<1> QED BY <1>1 DEF Count

LEMMA MasterOfLevel ==
    ASSUME NEW v \in Level, NEW m \in Level
    PROVE  ApplyMaster(v, m) \in Level
<1>1. v \in Nat /\ m \in Nat /\ m <= Full /\ Full \in Nat \ {0} /\ v <= Full
  BY LevelFacts, Constants
<1>2. (v * m) \div Full \in 0 .. v
  BY <1>1, Portion
<1> QED BY <1>1, <1>2, LevelFacts DEF ApplyMaster

\* A fade stays between its ends, and is at its end when its time is up.
LEMMA FadeStays ==
    ASSUME NEW from \in Level, NEW to \in Level, NEW elapsed \in Nat, NEW duration \in Nat
    PROVE  /\ Interpolate(from, to, elapsed, duration) \in Level
           /\ elapsed >= duration => Interpolate(from, to, elapsed, duration) = to
<1>1. from \in Nat /\ to \in Nat /\ from <= Full /\ to <= Full /\ Full \in Nat
  BY LevelFacts, Constants
<1>2. CASE elapsed >= duration
  BY <1>2 DEF Interpolate
<1>3. CASE elapsed < duration /\ to >= from
  <2>1. to - from \in Nat /\ duration \in Nat \ {0} /\ elapsed <= duration
    BY <1>1, <1>3
  <2> DEFINE part == ((to - from) * elapsed) \div duration
  <2>2. part \in 0 .. to - from
    BY <2>1, Portion
  <2>3. Interpolate(from, to, elapsed, duration) = from + part
    BY <1>3 DEF Interpolate
  <2> HIDE DEF part
  <2> QED BY <1>1, <1>3, <2>2, <2>3, LevelFacts
<1>4. CASE elapsed < duration /\ to < from
  <2>1. from - to \in Nat /\ duration \in Nat \ {0} /\ elapsed <= duration
    BY <1>1, <1>4
  <2> DEFINE part == ((from - to) * elapsed) \div duration
  <2>2. part \in 0 .. from - to
    BY <2>1, Portion
  <2>3. Interpolate(from, to, elapsed, duration) = from - part
    BY <1>1, <1>4 DEF Interpolate
  <2> HIDE DEF part
  <2> QED BY <1>1, <1>4, <2>2, <2>3, LevelFacts
<1> QED BY <1>1, <1>2, <1>3, <1>4

Carried == [tracked : [Slots -> Level \cup {None}], visible : [Slots -> Level \cup {None}]]

LEMMA EnteredCarries ==
    ASSUME NEW c, IsCue(c), NEW held \in [Slots -> Level \cup {None}]
    PROVE  Entered(c, held) \in Carried
  BY LevelFacts DEF Entered, Carried, IsCue

\* The walk down a list, cue by cue.
LEMMA WalkSteps ==
    ASSUME NEW p \in Playbacks
    PROVE  /\ Walk(p) \in [0 .. Count(p) -> Carried]
           /\ Walk(p)[0] = [tracked |-> Unheld, visible |-> Unheld]
           /\ \A i \in 1 .. Count(p) :
                 Walk(p)[i] = Entered(Cue(p, i), Walk(p)[i - 1].tracked)
<1> DEFINE n == Count(p)
           base == [tracked |-> Unheld, visible |-> Unheld]
           F == [i \in 1 .. n |-> [w \in Carried |-> Entered(Cue(p, i), w.tracked)]]
           IsWalk(g) == g = [i \in 0 .. n |-> IF i = 0 THEN base
                                              ELSE Entered(Cue(p, i), g[i - 1].tracked)]
<1>1. n \in Nat
  BY Constants
<1>2. base \in Carried
  BY DEF Unheld, Carried
<1>3. ASSUME NEW w \in Carried, NEW i \in 1 .. n
      PROVE  /\ Entered(Cue(p, i), w.tracked) \in Carried
             /\ F[i][w] = Entered(Cue(p, i), w.tracked)
  <2>1. w.tracked \in [Slots -> Level \cup {None}]
    BY DEF Carried
  <2>2. Entered(Cue(p, i), w.tracked) \in Carried
    BY <2>1, CueFacts, EnteredCarries
  <2> QED BY <2>2
<1>4. F \in [1 .. n -> [Carried -> Carried]]
  BY <1>3
<1> HIDE DEF F, base, n
<1>5. PICK g : Recurs(g, n, Carried, base, F)
  BY <1>1, <1>2, <1>4, Recursion
<1>6. IsWalk(g)
  <2>1. ASSUME NEW i \in 0 .. n
        PROVE  g[i] = IF i = 0 THEN base ELSE Entered(Cue(p, i), g[i - 1].tracked)
    <3>1. CASE i = 0
      BY <1>5, <3>1 DEF Recurs
    <3>2. CASE i # 0
      <4>1. i \in 1 .. n /\ i - 1 \in 0 .. n
        BY <1>1, <3>2
      <4>2. g[i - 1] \in Carried
        BY <1>5, <4>1 DEF Recurs
      <4> QED BY <1>3, <1>5, <3>2, <4>1, <4>2 DEF Recurs
    <3> QED BY <3>1, <3>2
  <2>2. g \in [0 .. n -> Carried]
    BY <1>5 DEF Recurs
  <2> QED BY <2>1, <2>2
<1>7. Walk(p) = CHOOSE w : IsWalk(w)
  BY DEF Walk, base, n
<1> HIDE DEF IsWalk
<1>8. IsWalk(Walk(p))
  BY <1>6, <1>7
<1> DEFINE walk == Walk(p)
<1> HIDE DEF walk
<1>9. /\ DOMAIN walk = 0 .. n /\ walk = [i \in DOMAIN walk |-> walk[i]]
      /\ walk[0] = base
      /\ \A i \in 1 .. n : walk[i] = Entered(Cue(p, i), walk[i - 1].tracked)
  BY <1>1, <1>8 DEF IsWalk, walk
<1> DEFINE T == {i \in 0 .. n : walk[i] \in Carried}
<1>10. \A i \in 0 .. n : i \in T
  <2>1. 0 \in T
    BY <1>1, <1>2, <1>9
  <2>2. ASSUME NEW i \in 1 .. n, i - 1 \in T PROVE i \in T
    <3>1. i \in 0 .. n /\ walk[i - 1] \in Carried
      BY <1>1, <2>2
    <3>2. walk[i] \in Carried
      BY <1>3, <1>9, <3>1
    <3> QED BY <3>1, <3>2
  <2> HIDE DEF T
  <2> QED BY <1>1, <2>1, <2>2, Climb
<1>11. walk \in [0 .. n -> Carried]
  BY <1>9, <1>10
<1> QED BY <1>9, <1>11 DEF base, n, walk

LEMMA TableHolds ==
    ASSUME NEW p \in Playbacks, NEW s \in Slots, NEW i \in 1 .. Count(p)
    PROVE  /\ Table[p][s][i] = Walk(p)[i].visible[s]
           /\ Table[p][s][i] \in Level \cup {None}
<1>1. Table[p][s][i] = Walk(p)[i].visible[s]
  BY DEF Table
<1>2. i \in 0 .. Count(p)
  BY Constants
<1>3. Walk(p)[i] \in Carried
  BY <1>2, WalkSteps
<1> QED BY <1>1, <1>3 DEF Carried

-----------------------------------------------------------------------------
(* The entries of a player                                                 *)

LEMMA FadeIs ==
    ASSUME NEW e \in Entry, NEW to \in Level, NEW d \in Nat, NEW r \in BOOLEAN
    PROVE  /\ Fade(e, to, d, r) \in Entry
           /\ Fade(e, to, d, r).live = e.live /\ Fade(e, to, d, r).value = e.value
           /\ Fade(e, to, d, r).from = e.value /\ Fade(e, to, d, r).to = to
           /\ Fade(e, to, d, r).duration = d /\ Fade(e, to, d, r).releasing = r
  BY DEF Fade, Entry

\* A transition into a cue.
LEMMA BeginDoes ==
    ASSUME NEW p \in Playbacks, NEW es \in [Slots -> Entry], NEW i \in 1 .. Count(p),
           \A s \in Slots : es[s].releasing => es[s].live
    PROVE  /\ Begin(p, es, i) \in [Slots -> Entry]
           /\ \A s \in Slots : LET e == Begin(p, es, i)[s] IN
                /\ e.releasing => e.live
                /\ e.live => e.duration = Cue(p, i).fadeIn /\ e.from = e.value
                /\ IF Table[p][s][i] # None
                   THEN e.live /\ ~e.releasing /\ e.to = Table[p][s][i]
                   ELSE e.live => e.releasing
                /\ es[s].live => e.live /\ e.value = es[s].value
<1>1. Home \in [Slots -> Level] /\ Cue(p, i).fadeIn \in Nat
  BY Constants, CueFacts
<1> DEFINE es2 == Begin(p, es, i)
<1>2. ASSUME NEW s \in Slots
      PROVE  /\ es2[s] \in Entry
             /\ es2[s].releasing => es2[s].live
             /\ es2[s].live => es2[s].duration = Cue(p, i).fadeIn /\ es2[s].from = es2[s].value
             /\ IF Table[p][s][i] # None
                THEN es2[s].live /\ ~es2[s].releasing /\ es2[s].to = Table[p][s][i]
                ELSE es2[s].live => es2[s].releasing
             /\ es[s].live => es2[s].live /\ es2[s].value = es[s].value
  <2>1. Table[p][s][i] \in Level \cup {None} /\ es[s] \in Entry /\ Home[s] \in Level
    BY <1>1, TableHolds
  <2> DEFINE to == Table[p][s][i]
             e == es[s]
             at == IF e.live THEN e ELSE [e EXCEPT !.live = TRUE, !.value = Home[s]]
             fade == Cue(p, i).fadeIn
  <2>2. es2[s] = IF to # None THEN Fade(at, to, fade, FALSE)
                 ELSE IF e.live
                 THEN Fade(e, IF s \in Htp THEN Home[s] ELSE e.value, fade, TRUE)
                 ELSE e
    BY DEF Begin
  <2>3. at \in Entry /\ at.live /\ (e.live => at.value = e.value)
    BY <2>1 DEF Entry
  <2>4. e \in Entry /\ (e.releasing => e.live) /\ e.value \in Level /\ fade \in Nat
    BY <1>1, <2>1 DEF Entry
  <2> HIDE DEF es2, at, to, e, fade
  <2>5. CASE to # None
    <3>1. to \in Level /\ es2[s] = Fade(at, to, fade, FALSE)
      BY <2>1, <2>2, <2>5 DEF to
    <3>2. /\ Fade(at, to, fade, FALSE) \in Entry
          /\ Fade(at, to, fade, FALSE).live = at.live /\ Fade(at, to, fade, FALSE).value = at.value
          /\ Fade(at, to, fade, FALSE).from = at.value /\ Fade(at, to, fade, FALSE).to = to
          /\ Fade(at, to, fade, FALSE).duration = fade /\ Fade(at, to, fade, FALSE).releasing = FALSE
      BY <2>3, <2>4, <3>1 DEF Fade, Entry
    <3> QED BY <2>3, <2>4, <2>5, <3>1, <3>2 DEF to, e, fade
  <2>6. CASE to = None /\ e.live
    <3> DEFINE home == IF s \in Htp THEN Home[s] ELSE e.value
    <3>1. home \in Level /\ es2[s] = Fade(e, home, fade, TRUE)
      BY <2>1, <2>2, <2>4, <2>6
    <3> HIDE DEF home
    <3>2. /\ Fade(e, home, fade, TRUE) \in Entry
          /\ Fade(e, home, fade, TRUE).live = e.live /\ Fade(e, home, fade, TRUE).value = e.value
          /\ Fade(e, home, fade, TRUE).from = e.value /\ Fade(e, home, fade, TRUE).to = home
          /\ Fade(e, home, fade, TRUE).duration = fade /\ Fade(e, home, fade, TRUE).releasing = TRUE
      BY <2>3, <2>4, <3>1 DEF Fade, Entry
    <3> QED BY <2>4, <2>6, <3>1, <3>2 DEF to, e, fade
  <2>7. CASE to = None /\ ~ e.live
    BY <2>2, <2>4, <2>7 DEF to, e
  <2> QED BY <2>5, <2>6, <2>7
<1>3. es2 \in [Slots -> Entry]
  BY <1>2 DEF Begin
<1> QED BY <1>2, <1>3

\* A hold.
LEMMA HoldDoes ==
    ASSUME NEW es \in [Slots -> Entry], \A s \in Slots : es[s].releasing => es[s].live
    PROVE  /\ Hold(es) \in [Slots -> Entry]
           /\ \A s \in Slots : LET e == Hold(es)[s] IN
                /\ e.releasing => e.live
                /\ e.live => e.duration = 0
<1>1. ASSUME NEW s \in Slots
      PROVE  /\ Hold(es)[s] \in Entry
             /\ Hold(es)[s].releasing => Hold(es)[s].live
             /\ Hold(es)[s].live => Hold(es)[s].duration = 0
  BY DEF Hold, Fade, Entry
<1> QED BY <1>1 DEF Hold

\* A release.
LEMMA ReleaseDoes ==
    ASSUME NEW p \in Playbacks, NEW es \in [Slots -> Entry], NEW i \in 1 .. Count(p),
           \A s \in Slots : es[s].releasing => es[s].live
    PROVE  /\ Release(p, es, i) \in [Slots -> Entry]
           /\ \A s \in Slots : LET e == Release(p, es, i)[s] IN
                /\ e.releasing => e.live
                /\ e.live => e.duration = Cue(p, i).fadeOut /\ e.from = e.value
<1>1. Home \in [Slots -> Level] /\ Cue(p, i).fadeOut \in Nat
  BY Constants, CueFacts
<1>2. ASSUME NEW s \in Slots
      PROVE  LET e == Release(p, es, i)[s] IN
             /\ e \in Entry
             /\ e.releasing => e.live
             /\ e.live => e.duration = Cue(p, i).fadeOut /\ e.from = e.value
  <2>1. es[s] \in Entry /\ Home[s] \in Level
    BY <1>1
  <2> QED BY <1>1, <2>1 DEF Release, Fade, Entry
<1> QED BY <1>2 DEF Release

-----------------------------------------------------------------------------
(* The operations of a player                                              *)

LEMMA EnterKeeps ==
    ASSUME NEW p \in Playbacks, NEW x, PlayerInv(p, x), NEW i \in 1 .. Count(p)
    PROVE  PlayerInv(p, Enter(p, x, i))
<1> DEFINE y == Enter(p, x, i)
           es == Begin(p, x.entries, i)
<1>1. x \in Player /\ x.entries \in [Slots -> Entry] /\ x.manual \in Fader
      /\ \A s \in Slots : x.entries[s].releasing => x.entries[s].live
  BY DEF PlayerInv, InList, Ends, Player
<1>2. /\ es \in [Slots -> Entry]
      /\ \A s \in Slots : LET e == es[s] IN
           /\ e.releasing => e.live
           /\ e.live => e.duration = Cue(p, i).fadeIn /\ e.from = e.value
           /\ IF Table[p][s][i] # None
              THEN e.live /\ ~e.releasing /\ e.to = Table[p][s][i]
              ELSE e.live => e.releasing
  BY <1>1, BeginDoes
<1>3. Cue(p, i).delay \in Nat /\ Cue(p, i).delay + Cue(p, i).fadeIn < MaxClock
      /\ i \in Nat /\ i # 0 /\ i \in 0 .. Count(p) /\ 0 \in 0 .. Count(p)
  BY CueFacts, Constants
<1> HIDE DEF es
<1>4. /\ y \in Player /\ y.entries = es /\ y.delay = Cue(p, i).delay /\ y.current = i
      /\ y.restart /\ y.active = x.active /\ y.ticked = x.ticked
      /\ y.manual.stroke = "none" /\ y.manual.mode = x.manual.mode
      /\ y.manual.fromCue = 0
  BY <1>1, <1>2, <1>3, LevelFacts DEF Enter, NoStroke, Rest, Player, Fader, NoCue, es
<1> HIDE DEF y
<1>5. InList(p, y)
  BY <1>3, <1>4 DEF PlayerInv, InList
<1>6. Ends(y)
  BY <1>2, <1>3, <1>4 DEF Ends
<1>7. OnTime(p, y)
  BY <1>2, <1>3, <1>4 DEF OnTime, Delayed, Entry
<1>8. Heads(p, y)
  BY <1>2, <1>3, <1>4 DEF Heads
<1>9. Stands(y)
  BY <1>2, <1>3, <1>4 DEF Stands
<1> QED BY <1>5, <1>6, <1>7, <1>8, <1>9 DEF PlayerInv, y

LEMMA StepInList ==
    ASSUME NEW p \in Playbacks, NEW current \in 0 .. Count(p), NEW direction
    PROVE  Step(p, current, direction) = NoCue \/ Step(p, current, direction) \in 1 .. Count(p)
  BY Constants DEF Step, NoCue

LEMMA GoToKeeps ==
    ASSUME NEW p \in Playbacks, NEW x, PlayerInv(p, x), NEW direction
    PROVE  PlayerInv(p, GoTo(p, x, direction))
<1>1. x.current \in 0 .. Count(p)
  BY DEF PlayerInv, InList
<1> QED BY <1>1, StepInList, EnterKeeps DEF GoTo

LEMMA GotoKeeps ==
    ASSUME NEW p \in Playbacks, NEW x, PlayerInv(p, x), NEW i
    PROVE  PlayerInv(p, Goto(p, x, i))
  BY EnterKeeps DEF Goto

LEMMA OnKeeps ==
    ASSUME NEW p \in Playbacks, NEW x, PlayerInv(p, x)
    PROVE  PlayerInv(p, On(p, x))
  BY GoToKeeps DEF On

LEMMA OffKeeps ==
    ASSUME NEW p \in Playbacks, NEW x, PlayerInv(p, x)
    PROVE  PlayerInv(p, Off(p, x))
<1> DEFINE y == Off(p, x)
           es == Release(p, x.entries, x.current)
<1>1. CASE x.current = NoCue
  BY <1>1 DEF Off
<1>2. CASE x.current # NoCue
  <2>1. x \in Player /\ x.entries \in [Slots -> Entry]
        /\ x.current \in 1 .. Count(p)
        /\ \A s \in Slots : x.entries[s].releasing => x.entries[s].live
    BY <1>2, Constants DEF PlayerInv, InList, Ends, Player, NoCue
  <2>2. /\ es \in [Slots -> Entry]
        /\ \A s \in Slots : LET e == es[s] IN
             /\ e.releasing => e.live
             /\ e.live => e.duration = Cue(p, x.current).fadeOut /\ e.from = e.value
    BY <2>1, ReleaseDoes
  <2>3. Cue(p, x.current).fadeOut \in Nat /\ Cue(p, x.current).fadeOut < MaxClock
    BY <2>1, CueFacts
  <2> HIDE DEF es
  <2>4. /\ y \in Player /\ y.entries = es /\ y.delay = 0 /\ y.current = NoCue
        /\ y.restart /\ y.active = x.active /\ y.ticked = x.ticked
        /\ y.manual = x.manual
    BY <1>2, <2>1, <2>2 DEF Off, Player, NoCue, es
  <2> HIDE DEF y
  <2>5. InList(p, y)
    BY <2>4, Constants DEF PlayerInv, InList, NoCue
  <2>6. Ends(y)
    BY <2>2, <2>3, <2>4 DEF Ends
  <2>7. OnTime(p, y) /\ Heads(p, y)
    BY <2>4 DEF OnTime, Delayed, Heads
  <2>8. Stands(y)
    BY <2>2, <2>4 DEF Stands
  <2> QED BY <2>5, <2>6, <2>7, <2>8 DEF PlayerInv, y
<1> QED BY <1>1, <1>2

\* What no part of the invariant looks at.
LEMMA Elsewhere ==
    ASSUME NEW p \in Playbacks, NEW x, PlayerInv(p, x), NEW y \in Player,
           y.entries = x.entries, y.current = x.current, y.delay = x.delay,
           y.restart = x.restart, y.clock = x.clock, y.manual = x.manual,
           y.active = x.active, y.ticked = x.ticked
    PROVE  PlayerInv(p, y)
  BY DEF PlayerInv, InList, Ends, OnTime, Delayed, Heads, Stands, Clean

LEMMA FlashKeeps ==
    ASSUME NEW p \in Playbacks, NEW x, PlayerInv(p, x)
    PROVE  PlayerInv(p, FlashOn(p, x)) /\ PlayerInv(p, FlashOff(p, x))
<1> DEFINE on == On(p, x)
           flashed == [on EXCEPT !.flashed = on.current # NoCue]
           unflashed == [x EXCEPT !.flashed = FALSE]
<1>1. PlayerInv(p, on)
  BY OnKeeps
<1> HIDE DEF on
<1>2. PlayerInv(p, flashed)
  <2>1. on \in Player
    BY <1>1 DEF PlayerInv, InList
  <2>2. /\ flashed \in Player /\ flashed.entries = on.entries /\ flashed.current = on.current
        /\ flashed.delay = on.delay /\ flashed.restart = on.restart /\ flashed.clock = on.clock
        /\ flashed.manual = on.manual /\ flashed.active = on.active /\ flashed.ticked = on.ticked
    BY <2>1 DEF Player
  <2> HIDE DEF flashed
  <2> QED BY <1>1, <2>2, Elsewhere
<1>3. PlayerInv(p, unflashed)
  <2>1. x \in Player
    BY DEF PlayerInv, InList
  <2>2. /\ unflashed \in Player /\ unflashed.entries = x.entries /\ unflashed.current = x.current
        /\ unflashed.delay = x.delay /\ unflashed.restart = x.restart /\ unflashed.clock = x.clock
        /\ unflashed.manual = x.manual /\ unflashed.active = x.active /\ unflashed.ticked = x.ticked
    BY <2>1 DEF Player
  <2> HIDE DEF unflashed
  <2> QED BY <2>2, Elsewhere
<1> HIDE DEF flashed, unflashed
<1>4. PlayerInv(p, Off(p, unflashed))
  BY <1>3, OffKeeps
<1> QED BY <1>2, <1>4 DEF FlashOn, FlashOff, on, flashed, unflashed

-----------------------------------------------------------------------------
(* The fader                                                               *)

\* A player that a fader has been moved of.
Operated(p, x) ==
    /\ InList(p, x) /\ Ends(x) /\ OnTime(p, x)
    /\ x.manual.mode # "off"

\* A change of the fader alone.
LEMMA FaderMoved ==
    ASSUME NEW p \in Playbacks, NEW x, InList(p, x), Ends(x), Delayed(p, x),
           NEW m \in Fader, m.fromCue \in 0 .. Count(p), m.mode # "off"
    PROVE  LET y == [x EXCEPT !.manual = m] IN
           /\ InList(p, y) /\ Ends(y) /\ Delayed(p, y)
           /\ y.manual = m /\ y.entries = x.entries /\ y.current = x.current
           /\ y.delay = x.delay
<1> DEFINE y == [x EXCEPT !.manual = m]
<1>1. x \in Player
  BY DEF InList
<1>2. /\ y \in Player /\ y.manual = m /\ y.entries = x.entries /\ y.current = x.current
      /\ y.delay = x.delay /\ y.active = x.active /\ y.ticked = x.ticked
  BY <1>1 DEF Player
<1> HIDE DEF y
<1>3. InList(p, y) /\ Ends(y) /\ Delayed(p, y)
  BY <1>2 DEF InList, Ends, Delayed
<1> QED BY <1>2, <1>3 DEF y

\* The fader let go.
LEMMA LetGo ==
    ASSUME NEW p \in Playbacks, NEW x, InList(p, x), Ends(x), Delayed(p, x),
           x.manual.mode # "off"
    PROVE  /\ InList(p, NoStroke(x)) /\ Ends(NoStroke(x)) /\ Delayed(p, NoStroke(x))
           /\ NoStroke(x).manual = Rest(x.manual.mode, x.manual.position)
           /\ NoStroke(x).entries = x.entries /\ NoStroke(x).current = x.current
           /\ NoStroke(x).delay = x.delay
<1> DEFINE m == Rest(x.manual.mode, x.manual.position)
<1>1. x \in Player /\ x.manual \in Fader
  BY DEF InList, Player
<1>2. m \in Fader /\ m.fromCue = 0 /\ m.mode = x.manual.mode
  BY <1>1, LevelFacts DEF Rest, Fader, NoCue
<1>3. 0 \in 0 .. Count(p)
  BY Constants
<1>4. NoStroke(x) = [x EXCEPT !.manual = m]
  BY <1>1 DEF NoStroke, Player
<1> HIDE DEF m
<1> QED BY <1>2, <1>3, <1>4, FaderMoved DEF m

\* Without a stroke, the entries of a player on a fader are nobody's but in time.
LEMMA OperatedIsEnough ==
    ASSUME NEW p \in Playbacks, NEW x, Operated(p, x),
           x.current = NoCue \/ x.manual.stroke = "none" \/ x.manual.mode = "Fade"
    PROVE  PlayerInv(p, x)
  BY DEF Operated, PlayerInv, Heads, Stands, Clean

LEMMA ArmedIsOperated ==
    ASSUME NEW p \in Playbacks, NEW x, InList(p, x), Ends(x), Delayed(p, x),
           x.manual.mode # "off", NEW origin \in Level, x.manual.position # origin
    PROVE  Operated(p, Armed(x, origin)) /\ Armed(x, origin).manual.stroke # "none"
<1> DEFINE target == IF x.manual.position > origin THEN Full ELSE 0
           m == [x.manual EXCEPT !.stroke = IF x.manual.position = target THEN "done" ELSE "armed",
                                 !.origin = origin, !.target = target, !.fromCue = x.current]
<1>1. x \in Player /\ x.manual \in Fader /\ x.current \in 0 .. Count(p) /\ x.current \in Nat
  BY Constants DEF InList, Player
<1>2. target \in Level
  BY LevelFacts
<1> HIDE DEF target
<1>3. /\ m \in Fader /\ m.mode = x.manual.mode /\ m.stroke # "none"
      /\ m.fromCue = x.current
  BY <1>1, <1>2 DEF Fader
<1>4. Armed(x, origin) = [x EXCEPT !.manual = m]
  BY DEF Armed, target
<1> HIDE DEF m
<1>5. /\ InList(p, Armed(x, origin)) /\ Ends(Armed(x, origin)) /\ Delayed(p, Armed(x, origin))
      /\ Armed(x, origin).manual = m
  BY <1>1, <1>3, <1>4, FaderMoved
<1> QED BY <1>3, <1>5 DEF Operated, OnTime

\* A player put on a cue, or let go of one, by a fader that stays where it is.
LEMMA StrokeBegins ==
    ASSUME NEW p \in Playbacks, NEW x, Operated(p, x), NEW i \in 1 .. Count(p)
    PROVE  PlayerInv(p, [x EXCEPT !.entries = Begin(p, @, i), !.delay = Cue(p, i).delay,
                                  !.current = i])
<1> DEFINE es == Begin(p, x.entries, i)
           y == [x EXCEPT !.entries = es, !.delay = Cue(p, i).delay, !.current = i]
<1>1. x \in Player /\ x.entries \in [Slots -> Entry]
      /\ \A s \in Slots : x.entries[s].releasing => x.entries[s].live
  BY DEF Operated, InList, Ends, Player
<1>2. /\ es \in [Slots -> Entry]
      /\ \A s \in Slots : LET e == es[s] IN
           /\ e.releasing => e.live
           /\ e.live => e.duration = Cue(p, i).fadeIn /\ e.from = e.value
           /\ IF Table[p][s][i] # None
              THEN e.live /\ ~e.releasing /\ e.to = Table[p][s][i]
              ELSE e.live => e.releasing
  BY <1>1, BeginDoes
<1>3. Cue(p, i).delay \in Nat /\ Cue(p, i).delay + Cue(p, i).fadeIn < MaxClock
      /\ i \in Nat /\ i # 0 /\ i \in 0 .. Count(p)
  BY CueFacts, Constants
<1> HIDE DEF es
<1>4. /\ y \in Player /\ y.entries = es /\ y.delay = Cue(p, i).delay /\ y.current = i
      /\ y.active = x.active /\ y.ticked = x.ticked /\ y.manual = x.manual
  BY <1>1, <1>2, <1>3 DEF Player
<1>5. y = [x EXCEPT !.entries = Begin(p, @, i), !.delay = Cue(p, i).delay, !.current = i]
  BY DEF es
<1> HIDE DEF y
<1>6. InList(p, y)
  BY <1>3, <1>4 DEF Operated, InList
<1>7. Ends(y)
  BY <1>2, <1>3, <1>4 DEF Ends
<1>8. OnTime(p, y)
  BY <1>2, <1>3, <1>4 DEF OnTime, Delayed, Entry
<1>9. Heads(p, y)
  BY <1>2, <1>3, <1>4 DEF Heads
<1>10. Stands(y)
  BY <1>4 DEF Stands, Operated
<1> QED BY <1>5, <1>6, <1>7, <1>8, <1>9, <1>10 DEF PlayerInv

LEMMA StrokeReleases ==
    ASSUME NEW p \in Playbacks, NEW x, Operated(p, x), x.current # NoCue,
           x.manual.mode = "Fade", x.manual.stroke # "none"
    PROVE  PlayerInv(p, [x EXCEPT !.entries = Release(p, @, x.current), !.delay = 0])
<1> DEFINE es == Release(p, x.entries, x.current)
           y == [x EXCEPT !.entries = es, !.delay = 0]
<1>1. x \in Player /\ x.entries \in [Slots -> Entry] /\ x.current \in 1 .. Count(p)
      /\ \A s \in Slots : x.entries[s].releasing => x.entries[s].live
  BY Constants DEF Operated, InList, Ends, Player, NoCue
<1>2. /\ es \in [Slots -> Entry]
      /\ \A s \in Slots : LET e == es[s] IN
           /\ e.releasing => e.live
           /\ e.live => e.duration = Cue(p, x.current).fadeOut /\ e.from = e.value
  BY <1>1, ReleaseDoes
<1>3. /\ Cue(p, x.current).fadeOut \in Nat /\ Cue(p, x.current).fadeOut < MaxClock
      /\ Cue(p, x.current).delay \in Nat
  BY <1>1, CueFacts
<1> HIDE DEF es
<1>4. /\ y \in Player /\ y.entries = es /\ y.delay = 0 /\ y.current = x.current
      /\ y.active = x.active /\ y.ticked = x.ticked /\ y.manual = x.manual
  BY <1>1, <1>2 DEF Player
<1>5. y = [x EXCEPT !.entries = Release(p, @, x.current), !.delay = 0]
  BY DEF es
<1> HIDE DEF y
<1>6. InList(p, y)
  BY <1>4 DEF Operated, InList
<1>7. Ends(y)
  BY <1>2, <1>3, <1>4 DEF Ends
<1>8. OnTime(p, y)
  BY <1>3, <1>4 DEF OnTime, Delayed
<1>9. Operated(p, y)
  BY <1>4, <1>6, <1>7, <1>8 DEF Operated
<1> QED BY <1>4, <1>5, <1>9, OperatedIsEnough

LEMMA LetGoKeeps ==
    ASSUME NEW p \in Playbacks, NEW x, Operated(p, x),
           x.current = NoCue \/ x.manual.stroke = "none"
    PROVE  PlayerInv(p, NoStroke(x))
<1>1. /\ InList(p, NoStroke(x)) /\ Ends(NoStroke(x)) /\ Delayed(p, NoStroke(x))
      /\ NoStroke(x).manual = Rest(x.manual.mode, x.manual.position)
      /\ NoStroke(x).entries = x.entries /\ NoStroke(x).current = x.current
  BY LetGo DEF Operated, OnTime
<1>2. NoStroke(x).manual.mode = x.manual.mode /\ NoStroke(x).manual.stroke = "none"
  BY <1>1 DEF Rest
<1>3. Operated(p, NoStroke(x))
  BY <1>1, <1>2 DEF Operated, OnTime
<1> QED BY <1>2, <1>3, OperatedIsEnough

LEMMA StrokeKeeps ==
    ASSUME NEW p \in Playbacks, NEW x, Operated(p, x)
    PROVE  PlayerInv(p, Stroke(p, x))
<1> DEFINE next == Step(p, x.current, "next")
<1>1. x.current \in 0 .. Count(p) /\ x.manual.mode \in {"XFade", "Fade"}
  BY DEF Operated, InList, Player, Fader
<1>2. next = NoCue \/ next \in 1 .. Count(p)
  BY <1>1, StepInList
<1>3. CASE x.manual.stroke = "none"
  BY <1>3, OperatedIsEnough DEF Stroke
<1>4. CASE ~ IsLoaded(p)
  <2>1. x.current = NoCue
    BY <1>1, <1>4, LoadedFacts DEF NoCue
  <2> QED BY <1>4, <2>1, OperatedIsEnough DEF Stroke
<1>5. CASE /\ x.manual.stroke # "none" /\ IsLoaded(p)
           /\ x.manual.mode = "XFade" \/ x.manual.target = 0
  <2>1. CASE next = NoCue
    <3>1. x.current = NoCue
      BY <1>1, <2>1, Constants DEF Step, NoCue
    <3> QED BY <1>5, <2>1, <3>1, LetGoKeeps DEF Stroke
  <2>2. CASE next # NoCue
    <3>1. Stroke(p, x) = [x EXCEPT !.entries = Begin(p, @, next), !.delay = Cue(p, next).delay,
                                   !.current = next]
      BY <1>5, <2>2 DEF Stroke
    <3> HIDE DEF next
    <3>2. next \in 1 .. Count(p)
      BY <1>2, <2>2
    <3>3. PlayerInv(p, [x EXCEPT !.entries = Begin(p, @, next), !.delay = Cue(p, next).delay,
                                 !.current = next])
      BY <3>2, StrokeBegins
    <3> QED BY <3>1, <3>3, Zenon
  <2> QED BY <2>1, <2>2
<1>6. CASE /\ x.manual.stroke # "none" /\ IsLoaded(p)
           /\ ~ (x.manual.mode = "XFade" \/ x.manual.target = 0)
  <2>1. CASE x.current = NoCue
    BY <1>6, <2>1, LetGoKeeps DEF Stroke
  <2>2. CASE x.current # NoCue
    <3>1. Stroke(p, x) = [x EXCEPT !.entries = Release(p, @, x.current), !.delay = 0]
      BY <1>6, <2>2 DEF Stroke
    <3>2. x.manual.mode = "Fade" /\ x.manual.stroke # "none"
      BY <1>1, <1>6
    <3>3. PlayerInv(p, [x EXCEPT !.entries = Release(p, @, x.current), !.delay = 0])
      BY <2>2, <3>2, StrokeReleases
    <3> QED BY <3>1, <3>3, Zenon
  <2> QED BY <2>1, <2>2
<1> QED BY <1>3, <1>4, <1>5, <1>6

LEMMA AbandonKeeps ==
    ASSUME NEW p \in Playbacks, NEW x, Operated(p, x)
    PROVE  PlayerInv(p, Abandon(p, x))
<1> DEFINE back == x.manual.fromCue
           z == NoStroke(x)
           y == [z EXCEPT !.current = back]
<1>1. back \in 0 .. Count(p) /\ back \in Nat
  BY Constants DEF Operated, InList
<1>2. /\ InList(p, z) /\ Ends(z) /\ z.entries = x.entries
      /\ z.manual = Rest(x.manual.mode, x.manual.position)
  BY LetGo DEF Operated, OnTime
<1>3. z \in Player /\ z.manual.mode = x.manual.mode /\ z.manual.stroke = "none"
  BY <1>2 DEF InList, Rest
<1> HIDE DEF z
<1>4. /\ y \in Player /\ y.current = back /\ y.manual = z.manual /\ y.entries = z.entries
      /\ y.delay = z.delay /\ y.active = z.active /\ y.ticked = z.ticked
  BY <1>1, <1>3 DEF Player
<1>5. CASE back = NoCue
  <2>1. Abandon(p, x) = y
    BY <1>5 DEF Abandon, z
  <2> HIDE DEF y
  <2>2. InList(p, y) /\ Ends(y) /\ OnTime(p, y)
    BY <1>1, <1>2, <1>4, <1>5 DEF InList, Ends, OnTime, Delayed
  <2>3. Operated(p, y)
    BY <1>3, <1>4, <2>2 DEF Operated
  <2> QED BY <1>4, <1>5, <2>1, <2>3, OperatedIsEnough
<1>6. CASE back # NoCue
  <2> DEFINE es == Begin(p, x.entries, back)
             w == [y EXCEPT !.entries = es, !.delay = Cue(p, back).delay]
  <2>1. Abandon(p, x) = w
    <3>1. Abandon(p, x) = [y EXCEPT !.entries = Begin(p, @, back), !.delay = Cue(p, back).delay]
      BY <1>6 DEF Abandon, z
    <3> QED BY <1>2, <1>4, <3>1
  <2>2. back \in 1 .. Count(p)
    BY <1>1, <1>6, Constants DEF NoCue
  <2>3. x.entries \in [Slots -> Entry]
        /\ \A s \in Slots : x.entries[s].releasing => x.entries[s].live
    BY DEF Operated, InList, Ends, Player
  <2>4. /\ es \in [Slots -> Entry]
        /\ \A s \in Slots : LET e == es[s] IN
             /\ e.releasing => e.live
             /\ e.live => e.duration = Cue(p, back).fadeIn
    BY <2>2, <2>3, BeginDoes
  <2>5. Cue(p, back).delay \in Nat /\ Cue(p, back).delay + Cue(p, back).fadeIn < MaxClock
        /\ Cue(p, back).fadeIn \in Nat
    BY <2>2, CueFacts
  <2> HIDE DEF es, y
  <2>6. /\ w \in Player /\ w.current = back /\ w.manual = z.manual /\ w.entries = es
        /\ w.delay = Cue(p, back).delay /\ w.active = z.active /\ w.ticked = z.ticked
    BY <1>4, <2>4, <2>5 DEF Player
  <2> HIDE DEF w
  <2>7. InList(p, w)
    BY <1>1, <1>2, <2>6 DEF InList
  <2>8. Ends(w)
    BY <2>4, <2>5, <2>6 DEF Ends
  <2>9. OnTime(p, w)
    BY <2>4, <2>5, <2>6 DEF OnTime, Delayed
  <2>10. Operated(p, w)
    BY <1>3, <2>6, <2>7, <2>8, <2>9 DEF Operated
  <2> QED BY <1>3, <2>1, <2>6, <2>10, OperatedIsEnough
<1> QED BY <1>5, <1>6

LEMMA CrossfadeKeeps ==
    ASSUME NEW p \in Playbacks, NEW x, PlayerInv(p, x),
           NEW mode \in {"XFade", "Fade"}, NEW position \in Level
    PROVE  PlayerInv(p, SetCrossfade(p, x, mode, position))
<1> DEFINE m == x.manual
           moved == [m EXCEPT !.position = position]
           y == [x EXCEPT !.manual = moved]
           rest == Rest(mode, position)
           resting == [x EXCEPT !.manual = rest]
           z == SetCrossfade(p, x, mode, position)
<1>1. /\ x \in Player /\ m \in Fader /\ InList(p, x) /\ Ends(x) /\ Delayed(p, x)
      /\ m.fromCue \in 0 .. Count(p) /\ m.origin \in Level /\ m.target \in Level
      /\ m.position \in Level /\ x.current \in 0 .. Count(p) /\ 0 \in 0 .. Count(p)
  BY Constants DEF PlayerInv, InList, Player, Fader, OnTime
<1>2. /\ rest \in Fader /\ rest.fromCue = 0 /\ rest.mode = mode /\ rest.mode # "off"
      /\ rest.stroke = "none"
  BY LevelFacts DEF Rest, Fader, NoCue
<1>3. /\ moved \in Fader /\ moved.fromCue = m.fromCue /\ moved.mode = m.mode
      /\ moved.stroke = m.stroke /\ moved.position = position /\ moved.origin = m.origin
      /\ moved.target = m.target
  BY <1>1 DEF Fader
<1>4. y = [x EXCEPT !.manual.position = position]
  BY <1>1 DEF Player, Fader
<1> HIDE DEF rest, moved
<1>5. /\ InList(p, resting) /\ Ends(resting) /\ Delayed(p, resting) /\ resting.manual = rest
      /\ resting.entries = x.entries /\ resting.current = x.current /\ resting.delay = x.delay
  BY <1>1, <1>2, FaderMoved
<1>6. CASE m.mode = "off"
  <2>1. z = resting
    BY <1>6 DEF SetCrossfade, rest
  <2>2. x.manual.stroke = "none" /\ OnTime(p, x)
    BY <1>1, <1>6 DEF InList, PlayerInv
  <2> HIDE DEF resting
  <2>3. Operated(p, resting)
    BY <1>2, <1>5, <2>2 DEF Operated, OnTime
  <2> QED BY <1>2, <1>5, <2>1, <2>3, OperatedIsEnough
<1>7. CASE m.mode # "off" /\ m.mode # mode
  <2> DEFINE es == Hold(x.entries)
             w == [resting EXCEPT !.entries = es]
  <2>1. z = w
    <3>1. z = [x EXCEPT !.manual = rest, !.entries = Hold(@)]
      BY <1>7 DEF SetCrossfade, rest
    <3> QED BY <1>1, <3>1 DEF Player
  <2>2. /\ es \in [Slots -> Entry]
        /\ \A s \in Slots : LET e == es[s] IN
             /\ e.releasing => e.live
             /\ e.live => e.duration = 0
    <3>1. x.entries \in [Slots -> Entry]
          /\ \A s \in Slots : x.entries[s].releasing => x.entries[s].live
      BY <1>1 DEF Player, Ends
    <3> QED BY <3>1, HoldDoes
  <2>3. \A s \in Slots : x.entries[s].live => x.delay < MaxClock
    BY <1>1, Constants DEF Ends, Player, Entry
  <2>4. \A s \in Slots : es[s].live => x.entries[s].live
    BY <1>1 DEF Hold, Fade, Player, Entry
  <2>5. resting \in Player /\ x.delay \in Nat
    BY <1>1, <1>5 DEF InList, Player
  <2> HIDE DEF es, resting
  <2>6. /\ w \in Player /\ w.current = resting.current /\ w.manual = resting.manual
        /\ w.entries = es /\ w.delay = resting.delay /\ w.active = resting.active
        /\ w.ticked = resting.ticked
    BY <2>2, <2>5 DEF Player
  <2> HIDE DEF w
  <2>7. InList(p, w)
    BY <1>5, <2>6 DEF InList
  <2>8. Ends(w)
    BY <1>5, <2>2, <2>3, <2>4, <2>5, <2>6 DEF Ends
  <2>9. OnTime(p, w)
    <3>1. Delayed(p, w)
      BY <1>5, <2>6 DEF Delayed
    <3>2. w.current # NoCue => Cue(p, w.current).fadeIn \in Nat
      BY <2>7, CueFacts, Constants DEF InList, NoCue
    <3> QED BY <2>2, <2>6, <3>1, <3>2 DEF OnTime
  <2>10. Operated(p, w)
    BY <1>2, <1>5, <2>6, <2>7, <2>8, <2>9 DEF Operated
  <2> QED BY <1>2, <1>5, <2>1, <2>6, <2>10, OperatedIsEnough
<1> DEFINE ours == m.mode # "off" /\ m.mode = mode
<1>8. ASSUME ours
      PROVE  /\ InList(p, y) /\ Ends(y) /\ Delayed(p, y) /\ y.manual = moved
             /\ y.entries = x.entries /\ y.current = x.current /\ y.delay = x.delay
             /\ y.manual.mode = mode /\ OnTime(p, y) /\ Operated(p, y)
  <2>1. /\ InList(p, y) /\ Ends(y) /\ Delayed(p, y) /\ y.manual = moved
        /\ y.entries = x.entries /\ y.current = x.current /\ y.delay = x.delay
    BY <1>1, <1>3, <1>8, FaderMoved
  <2> HIDE DEF y
  <2>2. OnTime(p, y)
    BY <1>3, <2>1 DEF PlayerInv, OnTime
  <2> QED BY <1>3, <1>8, <2>1, <2>2 DEF Operated
<1>9. CASE ours /\ m.stroke = "none"
  <2>1. z = Stroke(p, Armed(y, m.position))
    BY <1>4, <1>9 DEF SetCrossfade
  <2>2. CASE position = m.position
    <3>1. Armed(y, m.position) = NoStroke(y)
      BY <1>3, <1>8, <1>9, <2>2 DEF Armed
    <3>2. NoStroke(y).manual.stroke = "none" /\ PlayerInv(p, NoStroke(y))
      <4>1. y.manual.stroke = "none"
        BY <1>3, <1>8, <1>9
      <4>2. NoStroke(y).manual = Rest(y.manual.mode, y.manual.position)
        BY <1>8, <1>9, LetGo
      <4>3. NoStroke(y).manual.stroke = "none"
        BY <4>2 DEF Rest
      <4> HIDE DEF y
      <4>4. PlayerInv(p, NoStroke(y))
        BY <1>8, <1>9, <4>1, LetGoKeeps
      <4> QED BY <4>3, <4>4
    <3> QED BY <2>1, <3>1, <3>2 DEF Stroke
  <2>3. CASE position # m.position
    <3>1. Operated(p, Armed(y, m.position))
      BY <1>1, <1>3, <1>8, <1>9, <2>3, ArmedIsOperated
    <3> QED BY <2>1, <3>1, StrokeKeeps
  <2> QED BY <2>2, <2>3
\* The cue it stands on is still the one it is for.
<1>10. ASSUME ours, NEW w, InList(p, w), Ends(w), Delayed(p, w), w.manual.mode = mode,
              w.entries = x.entries, w.current = x.current, m.stroke # "none",
              w.manual.stroke # "none"
       PROVE  PlayerInv(p, w)
  <2>1. Heads(p, w)
    BY <1>10 DEF PlayerInv, Heads, Clean
  <2>2. OnTime(p, w) /\ Stands(w)
    BY <1>10 DEF OnTime, Stands
  <2> QED BY <1>10, <2>1, <2>2 DEF PlayerInv
<1>11. CASE ours /\ m.stroke = "done"
  <2>1. CASE position = m.target
    <3>1. z = y
      BY <1>4, <1>11, <2>1 DEF SetCrossfade
    <3> QED BY <1>3, <1>8, <1>10, <1>11, <3>1
  <2>2. CASE position # m.target
    <3>1. z = Stroke(p, Armed(NoStroke(y), m.target))
      BY <1>4, <1>11, <2>2 DEF SetCrossfade
    <3>2. /\ InList(p, NoStroke(y)) /\ Ends(NoStroke(y)) /\ Delayed(p, NoStroke(y))
          /\ NoStroke(y).manual = Rest(y.manual.mode, y.manual.position)
      BY <1>8, <1>11, LetGo
    <3>3. NoStroke(y).manual.mode # "off" /\ NoStroke(y).manual.position # m.target
      BY <1>3, <1>8, <1>11, <2>2, <3>2 DEF Rest
    <3>4. Operated(p, Armed(NoStroke(y), m.target))
      BY <1>1, <3>2, <3>3, ArmedIsOperated
    <3> QED BY <3>1, <3>4, StrokeKeeps
  <2> QED BY <2>1, <2>2
<1>12. CASE ours /\ m.stroke = "armed"
  <2> DEFINE back == IF m.target > m.origin THEN position <= m.origin ELSE position >= m.origin
             done == [moved EXCEPT !.stroke = "done"]
             w == [y EXCEPT !.manual = done]
  <2>1. z = IF Progress(y.manual) = Full THEN [y EXCEPT !.manual.stroke = "done"]
            ELSE IF back THEN Abandon(p, y) ELSE y
    BY <1>4, <1>12 DEF SetCrossfade
  <2>2. CASE Progress(y.manual) = Full
    <3>1. done \in Fader /\ done.fromCue = m.fromCue /\ done.mode = mode /\ done.stroke = "done"
      BY <1>3, <1>12 DEF Fader
    <3>2. z = w
      BY <1>3, <1>8, <1>12, <2>1, <2>2 DEF Fader, InList, Player
    <3> HIDE DEF done, y
    <3>3. /\ InList(p, w) /\ Ends(w) /\ Delayed(p, w) /\ w.manual = done
          /\ w.entries = y.entries /\ w.current = y.current
      BY <1>1, <1>8, <1>12, <3>1, FaderMoved
    <3> QED BY <1>8, <1>10, <1>12, <3>1, <3>2, <3>3
  <2>3. CASE Progress(y.manual) # Full /\ back
    BY <1>8, <1>12, <2>1, <2>3, AbandonKeeps
  <2>4. CASE Progress(y.manual) # Full /\ ~ back
    BY <1>3, <1>8, <1>10, <1>12, <2>1, <2>4
  <2> QED BY <2>2, <2>3, <2>4
<1>13. m.stroke \in {"none", "armed", "done"}
  BY <1>1 DEF Fader
<1> QED BY <1>6, <1>7, <1>9, <1>11, <1>12, <1>13

-----------------------------------------------------------------------------
(* A tick of a player                                                      *)

\* The stages of CuePlayer::advance: the clock, then the entries.
Passed(x, slots)   == IF x.ticked THEN slots ELSE 0
Timed(p, x, slots) ==
    Clocked([Tapped(p, x, Passed(x, slots)) EXCEPT !.ticked = TRUE], Passed(x, slots))
Carries(y)         == [y EXCEPT !.entries = [s \in Slots |-> Moved(y, y.entries[s])]]

LEMMA TappedDoes ==
    ASSUME NEW p \in Playbacks, NEW x, InList(p, x), NEW n \in Nat
    PROVE  LET y == Tapped(p, x, n) IN
           /\ y \in Player
           /\ y.entries = x.entries /\ y.current = x.current /\ y.delay = x.delay
           /\ y.restart = x.restart /\ y.clock = x.clock /\ y.frac = x.frac
           /\ y.manual = x.manual /\ y.active = x.active /\ y.ticked = x.ticked
<1> DEFINE interval == IF x.since = None THEN None ELSE Min({x.since + n, TapWindow + 1})
           base == IF x.current = NoCue THEN 0 ELSE TransitionTicks(p, x.current)
           speed == IF interval \in 1 .. TapWindow /\ base > 0
                    THEN (base * Unity) \div interval ELSE x.speed
<1>1. x \in Player /\ x.since \in Nat \cup {None} /\ x.speed \in Nat
      /\ x.current \in 0 .. Count(p)
  BY DEF InList, Player
<1>2. interval \in Nat \cup {None}
  <2>1. CASE x.since = None
    BY <2>1
  <2>2. CASE x.since \in Nat
    <3>1. x.since + n \in Int /\ x.since + n \in Nat /\ TapWindow + 1 \in Int
          /\ TapWindow + 1 \in Nat /\ x.since # None
      BY <2>2, Constants DEF None
    <3>2. Min({x.since + n, TapWindow + 1}) \in Nat
      BY <3>1, MinOfTwo
    <3> QED BY <3>1, <3>2
  <2> QED BY <1>1, <2>1, <2>2
<1>3. base \in Nat
  <2>1. CASE x.current = NoCue
    BY <2>1
  <2>2. CASE x.current # NoCue
    <3>1. x.current \in 1 .. Count(p)
      BY <1>1, <2>2, Constants DEF NoCue
    <3> QED BY <2>2, <3>1, CueFacts DEF TransitionTicks
  <2> QED BY <2>1, <2>2
<1>4. speed \in Nat
  <2>1. CASE interval \in 1 .. TapWindow /\ base > 0
    <3>1. interval \in Nat \ {0} /\ base * Unity \in Nat
      BY <1>2, <1>3, <2>1, Constants
    <3> HIDE DEF interval, base
    <3>2. (base * Unity) \div interval \in Nat
      BY <3>1, Quotient
    <3> QED BY <2>1, <3>2
  <2> HIDE DEF interval, base
  <2>2. CASE ~ (interval \in 1 .. TapWindow /\ base > 0)
    BY <1>1, <2>2
  <2> QED BY <2>1, <2>2
<1>5. Tapped(p, x, n) = IF ~ x.tap THEN [x EXCEPT !.since = interval]
                        ELSE [x EXCEPT !.tap = FALSE, !.since = 0, !.speed = speed]
  BY <1>1 DEF Tapped, Player
<1> HIDE DEF interval, base, speed
<1>6. CASE ~ x.tap
  BY <1>1, <1>2, <1>5, <1>6 DEF Player
<1>7. CASE x.tap
  <2> DEFINE z == [x EXCEPT !.tap = FALSE, !.since = 0, !.speed = speed]
  <2>1. Tapped(p, x, n) = z
    BY <1>5, <1>7
  <2>2. /\ z \in Player
        /\ z.entries = x.entries /\ z.current = x.current /\ z.delay = x.delay
        /\ z.restart = x.restart /\ z.clock = x.clock /\ z.frac = x.frac
        /\ z.manual = x.manual /\ z.active = x.active /\ z.ticked = x.ticked
    BY <1>1, <1>4 DEF Player
  <2> HIDE DEF z
  <2> QED BY <2>1, <2>2
<1> QED BY <1>6, <1>7

LEMMA TimedDoes ==
    ASSUME NEW p \in Playbacks, NEW x, PlayerInv(p, x), NEW n \in Nat
    PROVE  LET y == Timed(p, x, n)
               scaled == y.speed * Passed(x, n) + x.frac
               clock == x.clock + (scaled \div Unity)
           IN /\ y \in Player
              /\ y.entries = x.entries /\ y.current = x.current /\ y.delay = x.delay
              /\ y.manual = x.manual /\ y.active = x.active
              /\ y.ticked /\ ~ y.restart
              /\ IF x.restart THEN y.clock = 0 /\ y.frac = 0
                 ELSE /\ y.clock = IF MaxClock <= clock THEN MaxClock ELSE clock
                      /\ y.frac = IF y.clock = MaxClock THEN 0 ELSE scaled % Unity
<1> DEFINE z == Tapped(p, x, Passed(x, n))
           w == [z EXCEPT !.ticked = TRUE]
           y == Timed(p, x, n)
           scaled == w.speed * Passed(x, n) + w.frac
           clock == w.clock + (scaled \div Unity)
<1>1. InList(p, x) /\ x \in Player
  BY DEF PlayerInv, InList
<1>2. Passed(x, n) \in Nat
  BY DEF Passed
<1>3. /\ z \in Player
      /\ z.entries = x.entries /\ z.current = x.current /\ z.delay = x.delay
      /\ z.restart = x.restart /\ z.clock = x.clock /\ z.frac = x.frac
      /\ z.manual = x.manual /\ z.active = x.active /\ z.ticked = x.ticked
  BY <1>1, <1>2, TappedDoes
<1>4. y = Clocked(w, Passed(x, n))
  BY DEF Timed
<1> HIDE DEF z, y
<1>5. /\ w \in Player
      /\ w.entries = x.entries /\ w.current = x.current /\ w.delay = x.delay
      /\ w.restart = x.restart /\ w.clock = x.clock /\ w.frac = x.frac
      /\ w.manual = x.manual /\ w.active = x.active /\ w.ticked
  BY <1>3 DEF Player
<1> HIDE DEF w
<1>6. w.speed \in Nat /\ w.frac \in Nat /\ w.clock \in 0 .. MaxClock /\ w.restart \in BOOLEAN
  BY <1>5, Constants DEF Player
<1>7. scaled \in Nat
  BY <1>2, <1>6
<1> HIDE DEF scaled
<1>8. scaled \div Unity \in Nat /\ scaled % Unity \in 0 .. Unity - 1
  BY <1>7, Constants, Quotient
<1>9. clock \in Nat /\ clock \in Int /\ MaxClock \in Int
  BY <1>6, <1>8, Constants
<1>10. Min({MaxClock, clock}) = IF MaxClock <= clock THEN MaxClock ELSE clock
  BY <1>9, MinOfTwo
<1> DEFINE capped == IF MaxClock <= clock THEN MaxClock ELSE clock
           frac == IF capped = MaxClock THEN 0 ELSE scaled % Unity
<1>11. y = IF w.restart THEN [w EXCEPT !.clock = 0, !.frac = 0, !.restart = FALSE]
           ELSE [w EXCEPT !.clock = capped, !.frac = frac]
  <2>1. y = IF w.restart THEN [w EXCEPT !.clock = 0, !.frac = 0, !.restart = FALSE]
            ELSE [w EXCEPT !.clock = Min({MaxClock, clock}),
                           !.frac = IF Min({MaxClock, clock}) = MaxClock THEN 0
                                    ELSE scaled % Unity]
    BY <1>4 DEF Clocked, scaled
  <2>2. Min({MaxClock, clock}) = capped
    BY <1>10
  <2> HIDE DEF capped, clock
  <2> QED BY <2>1, <2>2
<1>12. capped \in 0 .. MaxClock
  BY <1>9, Constants
<1> HIDE DEF clock
<1>13. frac \in 0 .. Unity - 1 /\ 0 \in 0 .. Unity - 1 /\ 0 \in 0 .. MaxClock
  BY <1>8, Constants
<1> HIDE DEF capped, frac
<1>14. CASE w.restart
  <2>1. /\ y \in Player /\ y.clock = 0 /\ y.frac = 0 /\ ~ y.restart
        /\ y.entries = w.entries /\ y.current = w.current /\ y.delay = w.delay
        /\ y.manual = w.manual /\ y.active = w.active /\ y.ticked = w.ticked
    BY <1>5, <1>11, <1>13, <1>14 DEF Player
  <2> QED BY <1>5, <1>14, <2>1 DEF y
<1>15. CASE ~ w.restart
  <2>1. /\ y \in Player /\ y.clock = capped /\ y.frac = frac /\ y.restart = w.restart
        /\ y.entries = w.entries /\ y.current = w.current /\ y.delay = w.delay
        /\ y.manual = w.manual /\ y.active = w.active /\ y.ticked = w.ticked
        /\ y.speed = w.speed
    BY <1>5, <1>11, <1>12, <1>13, <1>15 DEF Player
  <2> QED BY <1>5, <1>15, <2>1 DEF y, capped, frac, clock, scaled
<1> QED BY <1>6, <1>14, <1>15

LEMMA ProgressIsLevel ==
    ASSUME NEW m \in Fader
    PROVE  Progress(m) \in Level
<1> DEFINE span == IF m.target > m.origin THEN m.target - m.origin ELSE m.origin - m.target
           part == (Travelled(m) * Full) \div span
<1>1. m.target \in Nat /\ m.origin \in Nat /\ m.position \in Nat /\ Full \in Nat
  BY LevelFacts, Constants DEF Fader
<1>2. Travelled(m) \in Nat
  <2>1. m.position - m.origin \in Int /\ m.origin - m.position \in Int /\ 0 \in Int
    BY <1>1
  <2> QED BY <2>1, MaxOfTwo DEF Travelled
<1>3. span \in Nat
  BY <1>1
<1>4. CASE m.stroke = "done" \/ span = 0
  BY <1>4, LevelFacts DEF Progress
<1>5. CASE ~ (m.stroke = "done" \/ span = 0)
  <2>1. Travelled(m) * Full \in Nat /\ span \in Nat \ {0}
    BY <1>1, <1>2, <1>3, <1>5
  <2>2. Progress(m) = Min({Full, part})
    BY <1>5 DEF Progress
  <2> HIDE DEF span
  <2>3. part \in Nat
    BY <2>1, Quotient
  <2> HIDE DEF part
  <2>4. Min({Full, part}) = IF Full <= part THEN Full ELSE part
    BY <1>1, <2>3, MinOfTwo
  <2> QED BY <1>1, <2>2, <2>3, <2>4, LevelFacts
<1> QED BY <1>4, <1>5

\* Where the fade into or out of a cue is held by a hand, or runs on the clock.
At(y, e) == IF OnFader(y) THEN Interpolate(e.from, e.to, Progress(y.manual), Full)
            ELSE IF y.clock < y.delay THEN e.from
            ELSE Interpolate(e.from, e.to, y.clock - y.delay, e.duration)
Over(y, e) == IF OnFader(y) THEN Progress(y.manual) = Full ELSE y.clock >= y.delay + e.duration

\* An entry carried on.
LEMMA MovedDoes ==
    ASSUME NEW y \in Player, NEW e \in Entry, e.releasing => e.live
    PROVE  LET now == Moved(y, e) IN
           /\ now \in Entry
           /\ now.releasing => now.live
           /\ ~ e.live => now = e
           /\ now.live => /\ e.live /\ now.from = e.from /\ now.to = e.to
                          /\ now.duration = e.duration /\ now.releasing = e.releasing
           /\ e.live => now.value = At(y, e)
           /\ e.live => (now.live <=> ~ (e.releasing /\ Over(y, e)))
           /\ e.live /\ Over(y, e) => now.value = e.to
<1> DEFINE value == At(y, e)
           now == Moved(y, e)
<1>1. /\ e.from \in Level /\ e.to \in Level /\ e.duration \in Nat
      /\ y.clock \in Nat /\ y.delay \in Nat /\ Progress(y.manual) \in Level
  <2>1. y.manual \in Fader
    BY DEF Player
  <2> QED BY <2>1, ProgressIsLevel, Constants DEF Entry, Player
<1>2. Progress(y.manual) \in Nat /\ Full \in Nat
  BY <1>1, LevelFacts, Constants
<1>3. value \in Level /\ (Over(y, e) => value = e.to)
  <2> DEFINE held == Interpolate(e.from, e.to, Progress(y.manual), Full)
             run == Interpolate(e.from, e.to, y.clock - y.delay, e.duration)
  <2>0. e.from \in Level /\ e.to \in Level
    BY <1>1
  <2>1. held \in Level /\ (Progress(y.manual) >= Full => held = e.to)
    BY <1>2, <2>0, FadeStays
  <2>2. y.clock >= y.delay =>
          /\ run \in Level /\ y.clock - y.delay \in Nat
          /\ y.clock - y.delay >= e.duration => run = e.to
    <3> SUFFICES ASSUME y.clock >= y.delay
                 PROVE  /\ run \in Level /\ y.clock - y.delay \in Nat
                        /\ y.clock - y.delay >= e.duration => run = e.to
      OBVIOUS
    <3> DEFINE elapsed == y.clock - y.delay
    <3>1. elapsed \in Nat
      BY <1>1
    <3> HIDE DEF elapsed
    <3>2. e.duration \in Nat
      BY <1>1
    <3>3. /\ Interpolate(e.from, e.to, elapsed, e.duration) \in Level
          /\ elapsed >= e.duration => Interpolate(e.from, e.to, elapsed, e.duration) = e.to
      BY <2>0, <3>1, <3>2, FadeStays
    <3> QED BY <3>1, <3>3 DEF elapsed
  <2>3. value = IF OnFader(y) THEN held ELSE IF y.clock < y.delay THEN e.from ELSE run
    BY DEF At
  <2> HIDE DEF held, run, value
  <2>4. CASE OnFader(y)
    BY <1>2, <2>1, <2>3, <2>4 DEF Over
  <2>5. CASE ~ OnFader(y) /\ y.clock < y.delay
    BY <1>1, <2>3, <2>5 DEF Over
  <2>6. CASE ~ OnFader(y) /\ y.clock >= y.delay
    BY <1>1, <2>2, <2>3, <2>6 DEF Over
  <2> QED BY <1>1, <2>4, <2>5, <2>6
<1>4. now = IF ~ e.live THEN e
            ELSE IF e.releasing /\ Over(y, e)
            THEN [e EXCEPT !.value = value, !.live = FALSE, !.releasing = FALSE]
            ELSE [e EXCEPT !.value = value]
  BY DEF Moved, At, Over
<1> HIDE DEF value, now
<1>5. CASE ~ e.live
  <2>1. now = e
    BY <1>4, <1>5
  <2> QED BY <1>5, <2>1 DEF now
<1>6. CASE e.live /\ e.releasing /\ Over(y, e)
  <2>1. /\ now \in Entry /\ ~ now.live /\ ~ now.releasing /\ now.value = value
    BY <1>3, <1>4, <1>6 DEF Entry
  <2> QED BY <1>3, <1>6, <2>1 DEF value, now
<1>7. CASE e.live /\ ~ (e.releasing /\ Over(y, e))
  <2>1. /\ now \in Entry /\ now.live = e.live /\ now.releasing = e.releasing
        /\ now.value = value /\ now.from = e.from /\ now.to = e.to
        /\ now.duration = e.duration
    BY <1>3, <1>4, <1>7 DEF Entry
  <2> QED BY <1>3, <1>7, <2>1 DEF value, now
<1> QED BY <1>5, <1>6, <1>7 DEF now

\* What a tick makes of a player before a cue may follow.
LEMMA CarriesKeeps ==
    ASSUME NEW p \in Playbacks, NEW x, PlayerInv(p, x), NEW n \in Nat
    PROVE  LET t == Timed(p, x, n)
               y == Carries(t)
           IN /\ PlayerInv(p, y) /\ y \in Player /\ y.active = x.active
              /\ y.ticked /\ ~ y.restart
              /\ y.clock = t.clock /\ y.frac = t.frac /\ y.speed = t.speed
              /\ y.current = x.current /\ y.delay = x.delay /\ y.manual = x.manual
              /\ \A s \in Slots : y.entries[s] = Moved(t, x.entries[s])
<1> DEFINE t == Timed(p, x, n)
           es == [s \in Slots |-> Moved(t, t.entries[s])]
           y == Carries(t)
<1>1. /\ t \in Player
      /\ t.entries = x.entries /\ t.current = x.current /\ t.delay = x.delay
      /\ t.manual = x.manual /\ t.active = x.active /\ t.ticked /\ ~ t.restart
  BY TimedDoes
<1> HIDE DEF t
<1>2. /\ x \in Player /\ InList(p, x) /\ Ends(x) /\ OnTime(p, x) /\ Heads(p, x)
      /\ x.entries \in [Slots -> Entry]
  BY DEF PlayerInv, InList, Player
<1>3. ASSUME NEW s \in Slots
      PROVE  LET e == x.entries[s] now == es[s] IN
             /\ e \in Entry /\ (e.releasing => e.live)
             /\ now \in Entry
             /\ now.releasing => now.live
             /\ now.live => /\ e.live /\ now.from = e.from /\ now.to = e.to
                            /\ now.duration = e.duration /\ now.releasing = e.releasing
             /\ e.live => now.value = At(t, e)
             /\ e.live /\ ~ e.releasing => now.live
             /\ now = Moved(t, e)
  <2>1. x.entries[s] \in Entry /\ (x.entries[s].releasing => x.entries[s].live)
    BY <1>2 DEF Ends
  <2>2. es[s] = Moved(t, x.entries[s])
    BY <1>1
  <2> HIDE DEF es
  <2> QED BY <1>1, <2>1, <2>2, MovedDoes
<1>4. es \in [Slots -> Entry]
  BY <1>3
<1> HIDE DEF es
<1>5. y = [t EXCEPT !.entries = es]
  BY DEF Carries, es
<1> HIDE DEF y
<1>6. /\ y \in Player /\ y.entries = es /\ y.active = t.active /\ y.ticked = t.ticked
      /\ y.restart = t.restart /\ y.clock = t.clock /\ y.frac = t.frac /\ y.speed = t.speed
      /\ y.current = t.current /\ y.delay = t.delay /\ y.manual = t.manual
  BY <1>1, <1>4, <1>5 DEF Player
<1>7. InList(p, y)
  BY <1>1, <1>2, <1>6 DEF InList
<1>8. Ends(y) /\ OnTime(p, y)
  BY <1>1, <1>2, <1>3, <1>6 DEF Ends, OnTime, Delayed
<1>9. Heads(p, y)
  BY <1>1, <1>2, <1>3, <1>6 DEF Heads, Clean
<1>10. Stands(y)
  <2>1. SUFFICES ASSUME y.manual.mode = "off", NEW s \in Slots, y.entries[s].live
                 PROVE  y.entries[s].value =
                          IF y.clock < y.delay THEN y.entries[s].from
                          ELSE Interpolate(y.entries[s].from, y.entries[s].to,
                                           y.clock - y.delay, y.entries[s].duration)
    BY <1>1, <1>6 DEF Stands
  <2>2. ~ OnFader(t)
    BY <1>1, <1>2, <1>6, <2>1 DEF InList, OnFader
  <2> QED BY <1>1, <1>3, <1>6, <2>1, <2>2 DEF At
<1>11. \A s \in Slots : y.entries[s] = Moved(t, x.entries[s])
  BY <1>3, <1>6
<1>12. PlayerInv(p, y)
  BY <1>7, <1>8, <1>9, <1>10 DEF PlayerInv
<1> QED BY <1>1, <1>6, <1>11, <1>12 DEF y, t

Follows(p, y) == /\ y.current # NoCue /\ FollowStep(p, y.current) # NoCue /\ ~ OnFader(y)
                 /\ Triggers(p, y.current, FollowStep(p, y.current), y.clock)

LEMMA FollowStepInList ==
    ASSUME NEW p \in Playbacks, NEW current \in 1 .. Count(p)
    PROVE  FollowStep(p, current) = NoCue \/ FollowStep(p, current) \in 1 .. Count(p)
  BY Constants DEF FollowStep, NoCue

\* A cue that follows.
LEMMA FollowedDoes ==
    ASSUME NEW p \in Playbacks, NEW y, PlayerInv(p, y), ~ y.restart
    PROVE  LET f == Followed(p, y) IN
           /\ PlayerInv(p, f)
           /\ f.active = y.active /\ f.ticked = y.ticked /\ f.manual = y.manual
           /\ f.speed = y.speed /\ f.restart = y.restart
           /\ (f.current = NoCue) <=> (y.current = NoCue)
           /\ ~ Follows(p, y) => f = y
           /\ Follows(p, y) =>
                /\ FollowStep(p, y.current) \in 1 .. Count(p)
                /\ f.current = FollowStep(p, y.current) /\ f.clock = 0 /\ f.frac = 0
                /\ f.entries = Begin(p, y.entries, f.current)
           /\ \A s \in Slots : y.entries[s].live =>
                f.entries[s].live /\ f.entries[s].value = y.entries[s].value
<1> DEFINE f == Followed(p, y)
           next == FollowStep(p, y.current)
           es == Begin(p, y.entries, next)
<1>1. /\ y \in Player /\ y.entries \in [Slots -> Entry] /\ y.current \in 0 .. Count(p)
      /\ \A s \in Slots : y.entries[s].releasing => y.entries[s].live
  BY DEF PlayerInv, InList, Ends, Player
<1>2. CASE ~ Follows(p, y)
  <2>1. f = y
    BY <1>2 DEF Followed, Follows
  <2> HIDE DEF f
  <2> QED BY <1>2, <2>1 DEF f
<1>3. CASE Follows(p, y)
  <2>1. y.current # NoCue /\ next # NoCue /\ ~ OnFader(y)
    BY <1>3 DEF Follows
  <2>2. next \in 1 .. Count(p)
    BY <1>1, <2>1, FollowStepInList, Constants DEF NoCue
  <2>3. f = [y EXCEPT !.entries = es, !.delay = Cue(p, next).delay, !.current = next,
                      !.clock = 0, !.frac = 0]
    BY <1>3 DEF Followed, Follows
  <2> HIDE DEF next
  <2>4. /\ es \in [Slots -> Entry]
        /\ \A s \in Slots : LET e == es[s] IN
             /\ e.releasing => e.live
             /\ e.live => e.duration = Cue(p, next).fadeIn /\ e.from = e.value
             /\ IF Table[p][s][next] # None
                THEN e.live /\ ~e.releasing /\ e.to = Table[p][s][next]
                ELSE e.live => e.releasing
             /\ y.entries[s].live => e.live /\ e.value = y.entries[s].value
    BY <1>1, <2>2, BeginDoes
  <2>5. Cue(p, next).delay \in Nat /\ Cue(p, next).delay + Cue(p, next).fadeIn < MaxClock
        /\ next \in Nat /\ next # 0 /\ next \in 0 .. Count(p)
        /\ 0 \in 0 .. MaxClock /\ 0 \in 0 .. Unity - 1
    BY <2>2, CueFacts, Constants
  <2> HIDE DEF es
  <2>6. /\ f \in Player /\ f.entries = es /\ f.delay = Cue(p, next).delay /\ f.current = next
        /\ f.clock = 0 /\ f.frac = 0 /\ f.active = y.active /\ f.ticked = y.ticked
        /\ f.manual = y.manual /\ f.speed = y.speed /\ f.restart = y.restart
    <3>1. /\ f.entries = es /\ f.delay = Cue(p, next).delay /\ f.current = next
          /\ f.clock = 0 /\ f.frac = 0 /\ f.active = y.active /\ f.ticked = y.ticked
          /\ f.manual = y.manual /\ f.speed = y.speed /\ f.restart = y.restart
      BY <1>1, <2>3 DEF Player
    <3>2. /\ es \in [Slots -> Entry] /\ Cue(p, next).delay \in Nat /\ next \in Nat
          /\ 0 \in 0 .. MaxClock /\ 0 \in 0 .. Unity - 1
      BY <2>4, <2>5
    <3> HIDE DEF f
    <3> DEFINE delay == Cue(p, next).delay
    <3>3. f = [y EXCEPT !.entries = es, !.delay = delay, !.current = next,
                        !.clock = 0, !.frac = 0]
      BY <2>3
    <3>4. delay \in Nat
      BY <3>2
    <3> HIDE DEF delay
    <3>5. f \in Player
      BY <1>1, <3>2, <3>3, <3>4 DEF Player
    <3> QED BY <3>1, <3>5
  <2> HIDE DEF f
  <2>7. InList(p, f)
    BY <2>5, <2>6 DEF PlayerInv, InList
  <2>8. Ends(f)
    BY <2>4, <2>5, <2>6 DEF Ends
  <2>9. OnTime(p, f)
    BY <2>4, <2>5, <2>6 DEF OnTime, Delayed, Entry
  <2>10. Heads(p, f)
    BY <2>4, <2>5, <2>6 DEF Heads
  <2>11. Stands(f)
    <3>1. SUFFICES ASSUME NEW s \in Slots, f.entries[s].live, f.entries[s].duration > 0
                   PROVE  f.entries[s].value =
                            IF f.clock < f.delay THEN f.entries[s].from
                            ELSE Interpolate(f.entries[s].from, f.entries[s].to,
                                             f.clock - f.delay, f.entries[s].duration)
      BY <2>6 DEF Stands
    <3> DEFINE e == es[s]
    <3>2. /\ e.value \in Nat /\ e.to \in Nat /\ e.duration \in Nat \ {0} /\ e.from = e.value
      BY <2>4, <2>6, <3>1, LevelFacts DEF Entry
    <3>3. CASE f.delay = 0
      <4>1. Interpolate(e.from, e.to, 0, e.duration) = e.value
        <5> HIDE DEF e
        <5>1. ~ (0 >= e.duration) /\ (e.to - e.from) * 0 = 0 /\ (e.from - e.to) * 0 = 0
              /\ 0 \div e.duration = 0
          BY <3>2
        <5> QED BY <3>2, <5>1 DEF Interpolate
      <4> QED BY <2>6, <3>2, <3>3, <4>1
    <3>4. CASE f.delay # 0
      BY <2>5, <2>6, <3>2, <3>4
    <3> QED BY <3>3, <3>4
  <2>12. PlayerInv(p, f)
    BY <2>7, <2>8, <2>9, <2>10, <2>11 DEF PlayerInv
  <2> QED BY <1>3, <2>1, <2>2, <2>4, <2>5, <2>6, <2>12 DEF f, next, es, NoCue
<1> QED BY <1>2, <1>3

\* All of a release is over.
Spent(f) == f.current = NoCue
            /\ \A s \in Slots : f.entries[s].live => f.clock >= f.delay + f.entries[s].duration

LEMMA DroppedDoes ==
    ASSUME NEW p \in Playbacks, NEW f, PlayerInv(p, f),
           Spent(f) => \A s \in Slots : ~ f.entries[s].releasing
    PROVE  LET d == Dropped(f) IN
           /\ PlayerInv(p, d)
           /\ d.active = f.active /\ d.ticked = f.ticked /\ d.manual = f.manual
           /\ d.speed = f.speed /\ d.restart = f.restart /\ d.current = f.current
           /\ d.clock = f.clock /\ d.frac = f.frac
           /\ d.entries \in [Slots -> Entry]
           /\ ~ Spent(f) => d = f
           /\ \A s \in Slots : /\ d.entries[s].value = f.entries[s].value
                               /\ d.entries[s].releasing = f.entries[s].releasing
                               /\ d.entries[s].live <=> (f.entries[s].live /\ ~ Spent(f))
<1> DEFINE d == Dropped(f)
           es == [s \in Slots |-> [f.entries[s] EXCEPT !.live = FALSE]]
<1>1. f \in Player /\ f.entries \in [Slots -> Entry]
      /\ \A s \in Slots : f.entries[s] \in Entry /\ f.entries[s].live \in BOOLEAN
  BY DEF PlayerInv, InList, Player, Entry
<1>2. CASE ~ Spent(f)
  <2>1. d = f
    BY <1>2 DEF Dropped, Spent
  <2> HIDE DEF d
  <2> QED BY <1>1, <1>2, <2>1 DEF d
<1>3. CASE Spent(f)
  <2>1. d = [f EXCEPT !.entries = es]
    BY <1>3 DEF Dropped, Spent
  <2>2. \A s \in Slots : /\ es[s] \in Entry /\ ~ es[s].live /\ es[s].value = f.entries[s].value
                         /\ es[s].releasing = f.entries[s].releasing
    BY <1>1 DEF Entry
  <2>3. es \in [Slots -> Entry]
    BY <2>2
  <2> HIDE DEF es
  <2>4. /\ d \in Player /\ d.entries = es /\ d.delay = f.delay /\ d.current = f.current
        /\ d.clock = f.clock /\ d.frac = f.frac /\ d.active = f.active
        /\ d.ticked = f.ticked /\ d.manual = f.manual /\ d.speed = f.speed
        /\ d.restart = f.restart
    BY <1>1, <2>1, <2>3 DEF Player
  <2> HIDE DEF d
  <2>5. InList(p, d)
    BY <2>4 DEF PlayerInv, InList
  <2>6. Ends(d)
    BY <1>3, <2>2, <2>4 DEF Ends
  <2>7. OnTime(p, d) /\ Heads(p, d) /\ Stands(d)
    BY <1>3, <2>2, <2>4 DEF Spent, OnTime, Delayed, Heads, Stands
  <2>8. PlayerInv(p, d)
    BY <2>5, <2>6, <2>7 DEF PlayerInv
  <2> QED BY <1>3, <2>2, <2>3, <2>4, <2>8 DEF d
<1> QED BY <1>2, <1>3

\* The last of the stages, and the tick.
Played(p, x, n) == Followed(p, Carries(Timed(p, x, n)))

LEMMA AdvanceKeeps ==
    ASSUME NEW p \in Playbacks, NEW x, PlayerInv(p, x), NEW n \in Nat
    PROVE  LET z == Advance(p, x, n)
               f == Played(p, x, n)
           IN /\ PlayerInv(p, z)
              /\ z.active = Wanted(z) /\ z.ticked /\ ~ z.restart /\ z.manual = x.manual
              /\ z.speed = f.speed /\ z.current = f.current
              /\ z.clock = f.clock /\ z.frac = f.frac
              /\ z.entries = Dropped(f).entries
              /\ Spent(f) => \A s \in Slots : ~ f.entries[s].releasing
              /\ PlayerInv(p, f)
<1> DEFINE t == Timed(p, x, n)
           y == Carries(t)
           f == Followed(p, y)
           d == Dropped(f)
           z == Advance(p, x, n)
<1>1. z = [d EXCEPT !.active = Wanted(d)]
  BY DEF Advance, Timed, Passed, Carries
<1>2. /\ t \in Player /\ t.current = x.current /\ t.delay = x.delay
  BY TimedDoes
<1>3. /\ PlayerInv(p, y) /\ y.ticked /\ ~ y.restart /\ y.manual = x.manual
      /\ y.clock = t.clock /\ y.current = x.current /\ y.delay = x.delay
      /\ \A s \in Slots : y.entries[s] = Moved(t, x.entries[s])
  BY CarriesKeeps
<1>4. f = Played(p, x, n)
  BY DEF Played
<1> HIDE DEF t, y
<1>5. /\ PlayerInv(p, f) /\ f.ticked = y.ticked /\ f.manual = y.manual /\ f.restart = y.restart
      /\ (f.current = NoCue) <=> (y.current = NoCue)
      /\ ~ Follows(p, y) => f = y
  BY <1>3, FollowedDoes
<1> HIDE DEF f
<1>6. Spent(f) => \A s \in Slots : ~ f.entries[s].releasing
  <2>1. SUFFICES ASSUME Spent(f), NEW s \in Slots, f.entries[s].releasing PROVE FALSE
    OBVIOUS
  <2>2. f = y /\ y.current = NoCue /\ ~ OnFader(t)
    BY <1>2, <1>3, <1>5, <2>1 DEF Spent, Follows, OnFader
  <2> DEFINE e == x.entries[s]
             now == Moved(t, e)
  <2>3. e \in Entry /\ (e.releasing => e.live)
    BY DEF PlayerInv, InList, Ends, Player
  <2>4. f.entries[s] = now
    BY <1>3, <2>2
  <2> HIDE DEF e
  <2>5. /\ now.releasing => now.live
        /\ now.live => now.duration = e.duration /\ now.releasing = e.releasing /\ e.live
        /\ e.live => (now.live <=> ~ (e.releasing /\ Over(t, e)))
    BY <1>2, <2>3, MovedDoes
  <2> HIDE DEF now
  <2>6. now.live /\ e.releasing /\ e.live /\ ~ Over(t, e) /\ now.duration = e.duration
    BY <2>1, <2>4, <2>5
  <2>7. f.clock >= f.delay + now.duration
    BY <2>1, <2>4, <2>6 DEF Spent
  <2> QED BY <1>2, <1>3, <2>2, <2>6, <2>7 DEF Over
<1>7. /\ PlayerInv(p, d)
      /\ d.ticked = f.ticked /\ d.manual = f.manual
      /\ d.speed = f.speed /\ d.restart = f.restart /\ d.current = f.current
      /\ d.clock = f.clock /\ d.frac = f.frac
  BY <1>5, <1>6, DroppedDoes
<1> DEFINE wanted == Wanted(d)
<1>8. wanted \in BOOLEAN
  BY DEF Wanted
<1>9. d.entries = Dropped(f).entries
  OBVIOUS
<1>10. wanted = (d.current # NoCue \/ \E s \in Slots : d.entries[s].live)
  BY DEF Wanted
<1> HIDE DEF d, wanted
<1>11. /\ z \in Player /\ z.entries = d.entries /\ z.delay = d.delay /\ z.current = d.current
       /\ z.clock = d.clock /\ z.frac = d.frac /\ z.active = wanted
       /\ z.ticked = d.ticked /\ z.manual = d.manual /\ z.speed = d.speed
       /\ z.restart = d.restart
  <2>1. d \in Player
    BY <1>7 DEF PlayerInv, InList
  <2>2. z = [d EXCEPT !.active = wanted]
    BY <1>1 DEF wanted
  <2> HIDE DEF z
  <2> QED BY <1>8, <2>1, <2>2 DEF Player
<1> HIDE DEF z
<1>12. PlayerInv(p, z)
  BY <1>3, <1>5, <1>7, <1>11 DEF PlayerInv, InList, Ends, OnTime, Delayed, Heads, Stands, Clean
<1>13. z.active = Wanted(z)
  BY <1>10, <1>11 DEF Wanted
<1> QED BY <1>3, <1>4, <1>5, <1>6, <1>7, <1>9, <1>11, <1>12, <1>13 DEF z

\* Whether it is in the merge is for the tick to say, and for no command.
StillActive(x, y) == DOMAIN y = DOMAIN x /\ y.active = x.active

LEMMA CommandsKeepActive ==
    ASSUME NEW p \in Playbacks, NEW x, "active" \in DOMAIN x
    PROVE  /\ \A direction : StillActive(x, GoTo(p, x, direction))
           /\ \A i : StillActive(x, Goto(p, x, i))
           /\ StillActive(x, On(p, x)) /\ StillActive(x, Off(p, x))
           /\ StillActive(x, FlashOn(p, x)) /\ StillActive(x, FlashOff(p, x))
           /\ \A mode, position : StillActive(x, SetCrossfade(p, x, mode, position))
<1> DEFINE D == DOMAIN x
           a == x.active
           Still(y) == DOMAIN y = D /\ y.active = a
<1>0. Still(x) /\ "active" \in D
  OBVIOUS
<1> HIDE DEF D, a
<1>1. ASSUME NEW y, Still(y) PROVE Still(NoStroke(y))
  BY <1>0, <1>1 DEF NoStroke
<1>2. ASSUME NEW y, Still(y), NEW i PROVE Still(Enter(p, y, i))
  <2>1. Still(NoStroke(y))
    BY <1>1, <1>2
  <2> QED BY <1>0, <2>1 DEF Enter
<1>3. ASSUME NEW y, Still(y), NEW direction PROVE Still(GoTo(p, y, direction))
  <2>1. Still(Enter(p, y, Step(p, y.current, direction)))
    BY <1>2, <1>3
  <2> HIDE DEF Still
  <2> QED BY <1>3, <2>1 DEF GoTo
<1>4. ASSUME NEW y, Still(y) PROVE Still(On(p, y))
  <2>1. Still(GoTo(p, y, "next"))
    BY <1>3, <1>4
  <2> HIDE DEF Still
  <2> QED BY <1>4, <2>1 DEF On
<1>5. ASSUME NEW y, Still(y) PROVE Still(Off(p, y))
  BY <1>0, <1>5 DEF Off
<1>6. \A i : Still(Goto(p, x, i))
  <2>1. ASSUME NEW i PROVE Still(Enter(p, x, i))
    BY <1>0, <1>2
  <2> HIDE DEF Still
  <2> QED BY <1>0, <2>1 DEF Goto
<1>7. Still(FlashOn(p, x))
  <2>1. Still(On(p, x))
    BY <1>0, <1>4
  <2> DEFINE on == On(p, x)
             flashed == on.current # NoCue
  <2> HIDE DEF on, flashed
  <2>2. Still([on EXCEPT !.flashed = flashed])
    BY <1>0, <2>1 DEF on
  <2> HIDE DEF Still
  <2> QED BY <1>0, <2>2 DEF FlashOn, on, flashed
<1>8. Still(FlashOff(p, x))
  <2>1. Still([x EXCEPT !.flashed = FALSE])
    BY <1>0
  <2>2. Still(Off(p, [x EXCEPT !.flashed = FALSE]))
    BY <1>5, <2>1
  <2> HIDE DEF Still
  <2> QED BY <1>0, <2>2 DEF FlashOff
<1>9. ASSUME NEW y, Still(y), NEW origin PROVE Still(Armed(y, origin))
  <2>1. Still(NoStroke(y))
    BY <1>1, <1>9
  <2> QED BY <1>0, <1>9, <2>1 DEF Armed
<1>10. ASSUME NEW y, Still(y) PROVE Still(Stroke(p, y))
  <2>1. Still(NoStroke(y))
    BY <1>1, <1>10
  <2> QED BY <1>0, <1>10, <2>1 DEF Stroke
<1>11. ASSUME NEW y, Still(y) PROVE Still(Abandon(p, y))
  <2>1. Still(NoStroke(y))
    BY <1>1, <1>11
  <2> QED BY <1>0, <1>11, <2>1 DEF Abandon
<1>12. ASSUME NEW mode, NEW position PROVE Still(SetCrossfade(p, x, mode, position))
  <2> DEFINE y == [x EXCEPT !.manual.position = position]
             rest == [x EXCEPT !.manual = Rest(mode, position)]
             held == [x EXCEPT !.manual = Rest(mode, position), !.entries = Hold(@)]
             done == [y EXCEPT !.manual.stroke = "done"]
  <2>1. Still(y) /\ Still(rest) /\ Still(held) /\ Still(done)
    BY <1>0
  <2> HIDE DEF y
  <2>2. Still(NoStroke(y))
    BY <1>1, <2>1
  <2>3. /\ Still(Stroke(p, Armed(y, x.manual.position)))
        /\ Still(Stroke(p, Armed(NoStroke(y), x.manual.target)))
        /\ Still(Abandon(p, y))
    BY <1>9, <1>10, <1>11, <2>1, <2>2
  <2>4. SetCrossfade(p, x, mode, position) \in
          {rest, held, done, y, Stroke(p, Armed(y, x.manual.position)),
           Stroke(p, Armed(NoStroke(y), x.manual.target)), Abandon(p, y)}
    BY DEF SetCrossfade, y
  <2> HIDE DEF rest, held, done, Still
  <2> QED BY <2>1, <2>3, <2>4
<1> QED BY <1>0, <1>3, <1>4, <1>5, <1>6, <1>7, <1>8, <1>12 DEF StillActive, D, a

-----------------------------------------------------------------------------
(* The merge                                                               *)

\* What the sources need to be for the merge.
Sources == \A p \in Playbacks : layer[p] \in Source

LEMMA OfferedIsLevel ==
    ASSUME Sources, NEW p \in Playbacks, NEW s \in Slots, Offers(p, s)
    PROVE  layer[p].values[s] \in Level /\ Mastered(p, s) \in Level
<1>1. /\ layer[p].values[s] \in Level /\ layer[p].master \in Level
      /\ layer[p].flash \in Level \cup {None}
  BY DEF Sources, Source, Offers
<1>2. EffectiveMaster(p) \in Level
  BY <1>1 DEF EffectiveMaster
<1> QED BY <1>1, <1>2, MasterOfLevel DEF Mastered

\* The playback a slot is that of, source by source.
LEMMA WinnersSteps ==
    ASSUME NEW s \in Slots
    PROVE  /\ Winners(s) \in [0 .. Len(Lists) -> 0 .. Len(Lists)]
           /\ Winners(s)[0] = 0
           /\ \A i \in Playbacks : Winners(s)[i] =
                IF Offers(i, s) /\ (Winners(s)[i - 1] = 0 \/ Beats(i, Winners(s)[i - 1], s))
                THEN i ELSE Winners(s)[i - 1]
<1> DEFINE n == Len(Lists)
           Takes(i, w) == Offers(i, s) /\ (w = 0 \/ Beats(i, w, s))
           F == [i \in 1 .. n |-> [w \in 0 .. n |-> IF Takes(i, w) THEN i ELSE w]]
           IsWinner(g) == g = [i \in 0 .. n |-> IF i = 0 THEN 0
                                ELSE IF Takes(i, g[i - 1]) THEN i ELSE g[i - 1]]
<1>1. n \in Nat /\ 0 \in 0 .. n
  BY Constants
<1>2. Winners(s) = CHOOSE w : IsWinner(w)
  BY DEF Winners
<1> HIDE DEF n, Takes
<1>3. F \in [1 .. n -> [0 .. n -> 0 .. n]]
  BY <1>1
<1>4. \A i \in 1 .. n : \A w \in 0 .. n : F[i][w] = IF Takes(i, w) THEN i ELSE w
  OBVIOUS
<1> HIDE DEF F
<1>5. PICK g : Recurs(g, n, 0 .. n, 0, F)
  BY <1>1, <1>3, Recursion
<1>6. IsWinner(g)
  <2>1. ASSUME NEW i \in 0 .. n
        PROVE  g[i] = IF i = 0 THEN 0 ELSE IF Takes(i, g[i - 1]) THEN i ELSE g[i - 1]
    <3>1. CASE i = 0
      BY <1>5, <3>1 DEF Recurs
    <3>2. CASE i # 0
      <4>1. i \in 1 .. n /\ i - 1 \in 0 .. n
        BY <1>1, <3>2
      <4>2. g[i - 1] \in 0 .. n
        BY <1>5, <4>1 DEF Recurs
      <4> QED BY <1>4, <1>5, <3>2, <4>1, <4>2 DEF Recurs
    <3> QED BY <3>1, <3>2
  <2>2. g \in [0 .. n -> 0 .. n]
    BY <1>5 DEF Recurs
  <2> QED BY <2>1, <2>2
<1> HIDE DEF IsWinner
<1>7. IsWinner(Winners(s))
  BY <1>2, <1>6
<1> DEFINE winner == Winners(s)
<1> HIDE DEF winner
<1>8. /\ DOMAIN winner = 0 .. n /\ winner = [i \in DOMAIN winner |-> winner[i]]
      /\ winner[0] = 0
      /\ \A i \in 1 .. n : winner[i] = IF Takes(i, winner[i - 1]) THEN i ELSE winner[i - 1]
  BY <1>1, <1>7 DEF IsWinner, winner
<1> DEFINE T == {i \in 0 .. n : winner[i] \in 0 .. n}
<1>9. \A i \in 0 .. n : i \in T
  <2>1. 0 \in T
    BY <1>1, <1>8
  <2>2. ASSUME NEW i \in 1 .. n, i - 1 \in T PROVE i \in T
    <3>1. i \in 0 .. n /\ winner[i - 1] \in 0 .. n
      BY <1>1, <2>2
    <3>2. winner[i] \in 0 .. n
      BY <1>8, <3>1
    <3> QED BY <3>1, <3>2
  <2> HIDE DEF T
  <2> QED BY <1>1, <2>1, <2>2, Climb
<1>10. winner \in [0 .. n -> 0 .. n]
  BY <1>8, <1>9
<1> QED BY <1>8, <1>10 DEF Takes, n, winner, Playbacks

\* Nobody before it has a better claim.
Claims(w, i, s) ==
    IF w = 0 THEN ~ Offers(i, s)
    ELSE Offers(i, s) => IF s \in Htp THEN Mastered(i, s) <= Mastered(w, s)
                         ELSE layer[i].stamp <= layer[w].stamp

LEMMA WinnerWins ==
    ASSUME Sources, NEW s \in Slots
    PROVE  LET winner == Winners(s)[Len(Lists)] IN
           /\ winner = 0 \/ (winner \in Playbacks /\ Offers(winner, s))
           /\ \A i \in Playbacks : Claims(winner, i, s)
<1> DEFINE n == Len(Lists)
           Right(i) == LET w == Winners(s)[i] IN
                       /\ w = 0 \/ (w \in Playbacks /\ Offers(w, s))
                       /\ \A q \in 1 .. i : Claims(w, q, s)
           T == {i \in 0 .. n : Right(i)}
<1>1. n \in Nat /\ Playbacks = 1 .. n
  BY Constants DEF Playbacks
<1>2. 0 \in T
  BY <1>1, WinnersSteps
<1>3. ASSUME NEW i \in 1 .. n, i - 1 \in T PROVE i \in T
  <2> DEFINE w == Winners(s)[i - 1]
             v == Winners(s)[i]
  <2>1. i \in Playbacks /\ i \in 0 .. n /\ i # 0
    BY <1>1
  <2>2. v = IF Offers(i, s) /\ (w = 0 \/ Beats(i, w, s)) THEN i ELSE w
    BY <2>1, WinnersSteps
  <2>3. /\ w = 0 \/ (w \in Playbacks /\ Offers(w, s))
        /\ \A q \in 1 .. i - 1 : Claims(w, q, s)
    BY <1>3
  <2>4. \A q \in Playbacks : /\ layer[q].stamp \in Nat \cup {None}
                             /\ Offers(q, s) => layer[q].stamp \in Nat /\ Mastered(q, s) \in Nat
    BY OfferedIsLevel, LevelFacts DEF Sources, Source, Offers
  <2> HIDE DEF w, v
  <2>5. \A q \in 1 .. i : q = i \/ q \in 1 .. i - 1
    BY <1>1
  <2>6. \A q \in 1 .. i : q \in Playbacks
    BY <1>1
  <2>7. v = 0 \/ (v \in Playbacks /\ Offers(v, s))
    BY <2>1, <2>2, <2>3
  <2>8. CASE v = i /\ Offers(i, s) /\ (w = 0 \/ Beats(i, w, s))
    <3>1. Claims(v, i, s)
      BY <2>1, <2>4, <2>8 DEF Claims
    <3>2. ASSUME NEW q \in 1 .. i - 1 PROVE Claims(v, q, s)
      <4>1. q \in Playbacks /\ Claims(w, q, s)
        BY <1>1, <2>3
      <4>2. CASE w = 0
        BY <2>1, <2>8, <4>1, <4>2 DEF Claims
      <4>3. CASE w # 0 /\ Offers(q, s)
        <5>1. w \in Playbacks /\ Offers(w, s) /\ Beats(i, w, s)
          BY <2>3, <2>8, <4>3
        <5> QED BY <2>1, <2>4, <2>8, <4>1, <4>3, <5>1 DEF Claims, Beats, Later
      <4>4. CASE ~ Offers(q, s)
        BY <2>1, <2>8, <4>4 DEF Claims
      <4> QED BY <4>2, <4>3, <4>4
    <3>3. \A q \in 1 .. i : Claims(v, q, s)
      BY <2>5, <3>1, <3>2
    <3> QED BY <2>1, <2>7, <3>3 DEF v
  <2>9. CASE v = w /\ ~ (Offers(i, s) /\ (w = 0 \/ Beats(i, w, s)))
    <3>1. Claims(w, i, s)
      <4>1. CASE ~ Offers(i, s)
        BY <4>1 DEF Claims
      <4>2. CASE Offers(i, s)
        <5>1. w # 0 /\ w \in Playbacks /\ Offers(w, s) /\ ~ Beats(i, w, s)
          BY <2>3, <2>9, <4>2
        <5> QED BY <2>1, <2>4, <4>2, <5>1 DEF Claims, Beats, Later
      <4> QED BY <4>1, <4>2
    <3>2. \A q \in 1 .. i : Claims(v, q, s)
      BY <2>3, <2>5, <2>9, <3>1
    <3> QED BY <2>1, <2>7, <3>2 DEF v
  <2> QED BY <2>2, <2>8, <2>9
<1> HIDE DEF T
<1>4. \A i \in 0 .. n : i \in T
  BY <1>1, <1>2, <1>3, Climb
<1>5. n \in T
  BY <1>1, <1>4
<1> QED BY <1>1, <1>5 DEF T

LEMMA ResolveIsLevel ==
    ASSUME Sources, NEW s \in Slots
    PROVE  Resolve(s) \in Level
<1> DEFINE winner == Winners(s)[Len(Lists)]
<1>1. winner = 0 \/ (winner \in Playbacks /\ Offers(winner, s))
  BY WinnerWins
<1>2. Resolve(s) = IF winner = 0 THEN Home[s]
                   ELSE IF s \in Htp THEN Mastered(winner, s) ELSE layer[winner].values[s]
  BY DEF Resolve
<1> HIDE DEF winner
<1> QED BY <1>1, <1>2, OfferedIsLevel, Constants

\* The sources one by one, or all at once.
LEMMA MergedAtOnce ==
    ASSUME Sources, NEW s \in Slots,
           \A p, q \in Playbacks :
               p # q /\ layer[p].stamp # None => layer[p].stamp # layer[q].stamp
    PROVE  Resolve(s) = MergePlaybacks(s)
<1> DEFINE winner == Winners(s)[Len(Lists)]
           sources == {p \in Playbacks : Offers(p, s)}
<1>1. /\ winner = 0 \/ (winner \in Playbacks /\ Offers(winner, s))
      /\ \A i \in Playbacks : Claims(winner, i, s)
  BY WinnerWins
<1>2. Resolve(s) = IF winner = 0 THEN Home[s]
                   ELSE IF s \in Htp THEN Mastered(winner, s) ELSE layer[winner].values[s]
  BY DEF Resolve
<1>3. \A q \in sources : layer[q].stamp \in Nat /\ Mastered(q, s) \in Nat
  BY OfferedIsLevel, LevelFacts DEF Sources, Source, Offers
<1> HIDE DEF winner
<1>4. CASE winner = 0
  <2>1. sources = {}
    BY <1>1, <1>4 DEF Claims
  <2> QED BY <1>2, <1>4, <2>1 DEF MergePlaybacks
<1>5. CASE winner # 0 /\ s \in Htp
  <2> DEFINE levels == {Mastered(p, s) : p \in sources}
  <2>1. winner \in sources /\ sources # {}
    BY <1>1, <1>5
  <2>2. Mastered(winner, s) \in levels /\ \A v \in levels : Mastered(winner, s) >= v /\ v \in Nat
    BY <1>1, <1>3, <1>5, <2>1 DEF Claims
  <2>3. MergePlaybacks(s) = Max(levels)
    BY <1>5, <2>1 DEF MergePlaybacks
  <2> HIDE DEF levels
  <2>4. \A v \in levels : (\A u \in levels : v >= u) => v = Mastered(winner, s)
    BY <2>2
  <2>5. Max(levels) = Mastered(winner, s)
    BY <2>2, <2>4 DEF Max
  <2> QED BY <1>2, <1>5, <2>3, <2>5
<1>6. CASE winner # 0 /\ s \notin Htp
  <2> DEFINE last == CHOOSE p \in sources : \A q \in sources : layer[q].stamp <= layer[p].stamp
  <2>1. winner \in sources /\ sources # {}
    BY <1>1, <1>6
  <2>2. \A q \in sources : layer[q].stamp <= layer[winner].stamp
    BY <1>1, <1>6 DEF Claims
  <2>3. MergePlaybacks(s) = layer[last].values[s]
    BY <1>6, <2>1 DEF MergePlaybacks
  <2>4. last \in sources /\ \A q \in sources : layer[q].stamp <= layer[last].stamp
    BY <2>1, <2>2
  <2> HIDE DEF last
  <2>5. last = winner
    <3>1. layer[last].stamp = layer[winner].stamp
      BY <1>3, <2>1, <2>2, <2>4
    <3>2. layer[last].stamp # None
      BY <2>4 DEF Offers
    <3> QED BY <2>1, <2>4, <3>1, <3>2
  <2> QED BY <1>2, <1>6, <2>3, <2>5
<1> QED BY <1>4, <1>5, <1>6

-----------------------------------------------------------------------------
(* The programmer                                                          *)

LEMMA HeldKeeps ==
    ASSUME ProgrammerInv, NEW slot \in Slots, NEW value \in Level, programmer' = Held(slot, value)
    PROVE  ProgrammerInv'
<1> DEFINE values == programmer.values
           touched == programmer.touched
           position == programmer.position
           new == values[slot] = None
           n == Len(touched)
           touched2 == IF new THEN Append(touched, slot) ELSE touched
           position2 == [position EXCEPT ![slot] = IF new THEN n + 1 ELSE @]
           values2 == [values EXCEPT ![slot] = value]
<1>1. /\ values \in [Slots -> Level \cup {None}] /\ touched \in Seq(Slots)
      /\ position \in [Slots -> Nat] /\ n \in Nat
      /\ \A i \in 1 .. n : /\ touched[i] \in Slots /\ values[touched[i]] # None
                           /\ position[touched[i]] = i
      /\ \A s \in Slots : values[s] # None => \E i \in 1 .. n : touched[i] = s
  BY DEF ProgrammerInv
<1>2. programmer' = [programmer EXCEPT !.values = values2, !.touched = touched2,
                                       !.position = position2]
  BY DEF Held, ProgrammerInv
<1>3. values2 \in [Slots -> Level \cup {None}] /\ position2 \in [Slots -> Nat]
  BY <1>1
<1>4. touched2 \in Seq(Slots) /\ Len(touched2) = IF new THEN n + 1 ELSE n
  BY <1>1
<1>5. \A i \in 1 .. n : touched2[i] = touched[i]
  BY <1>1
<1>6. new => touched2[n + 1] = slot
  BY <1>1
<1>7. \A s \in Slots : /\ values2[s] = IF s = slot THEN value ELSE values[s]
                       /\ position2[s] = IF s = slot /\ new THEN n + 1 ELSE position[s]
  BY <1>1
<1>8. value # None
  BY LevelFacts
<1> HIDE DEF values2, touched2, position2
<1>9. programmer' \in [values : [Slots -> Level \cup {None}], touched : Seq(Slots),
                       position : [Slots -> Nat]]
      /\ programmer'.values = values2 /\ programmer'.touched = touched2
      /\ programmer'.position = position2
  BY <1>2, <1>3, <1>4 DEF ProgrammerInv
<1> HIDE DEF values, touched, position, n
<1>10. ASSUME NEW i \in 1 .. Len(touched2)
       PROVE  values2[touched2[i]] # None /\ position2[touched2[i]] = i
  <2>1. CASE i \in 1 .. n
    <3>1. touched[i] \in Slots /\ values[touched[i]] # None /\ position[touched[i]] = i
      BY <1>1, <2>1
    <3>2. ~ (touched[i] = slot /\ new)
      BY <3>1
    <3>3. touched2[i] = touched[i]
      BY <1>5, <2>1
    <3> HIDE DEF new
    <3> QED BY <1>7, <1>8, <3>1, <3>2, <3>3
  <2>2. CASE i \notin 1 .. n
    <3>1. new /\ i = n + 1
      BY <1>1, <1>4, <2>2
    <3> QED BY <1>6, <1>7, <1>8, <3>1
  <2> QED BY <2>1, <2>2
<1>11. ASSUME NEW s \in Slots, values2[s] # None
       PROVE  \E i \in 1 .. Len(touched2) : touched2[i] = s
  <2>1. CASE values[s] # None
    <3>1. PICK i \in 1 .. n : touched[i] = s
      BY <1>1, <2>1
    <3> QED BY <1>1, <1>4, <1>5, <3>1
  <2>2. CASE values[s] = None
    <3>1. s = slot /\ new
      BY <1>7, <1>11, <2>2
    <3>2. n + 1 \in 1 .. Len(touched2)
      BY <1>1, <1>4, <3>1
    <3> QED BY <1>6, <3>1, <3>2
  <2> QED BY <2>1, <2>2
<1> QED BY <1>9, <1>10, <1>11 DEF ProgrammerInv

LEMMA ClearedKeeps ==
    ASSUME ProgrammerInv, NEW slot \in ToSet(programmer.touched), programmer' = Cleared(slot)
    PROVE  ProgrammerInv'
<1> DEFINE values == programmer.values
           touched == programmer.touched
           position == programmer.position
           n == Len(touched)
           hole == position[slot]
           moved == touched[n]
           filled == [touched EXCEPT ![hole] = moved]
           touched2 == SubSeq(filled, 1, n - 1)
           position2 == [position EXCEPT ![moved] = hole]
           values2 == [values EXCEPT ![slot] = None]
<1>1. /\ values \in [Slots -> Level \cup {None}] /\ touched \in Seq(Slots)
      /\ position \in [Slots -> Nat] /\ n \in Nat /\ DOMAIN touched = 1 .. n
      /\ \A i \in 1 .. n : /\ touched[i] \in Slots /\ values[touched[i]] # None
                           /\ position[touched[i]] = i
      /\ \A s \in Slots : values[s] # None => \E i \in 1 .. n : touched[i] = s
  BY DEF ProgrammerInv
<1>2. PICK k \in 1 .. n : touched[k] = slot
  BY <1>1 DEF ToSet
<1>3. /\ slot \in Slots /\ hole = k /\ n \in 1 .. n /\ moved \in Slots /\ position[moved] = n
      /\ n - 1 \in Nat
  BY <1>1, <1>2
<1>4. filled \in Seq(Slots) /\ Len(filled) = n
  BY <1>1, <1>2, <1>3
<1>5. programmer' = [programmer EXCEPT !.values = values2, !.touched = touched2,
                                       !.position = position2]
  BY <1>4 DEF Cleared, ProgrammerInv, Front, Last
<1>6. values2 \in [Slots -> Level \cup {None}] /\ position2 \in [Slots -> Nat]
  BY <1>1, <1>3
<1>7. touched2 \in Seq(Slots) /\ Len(touched2) = n - 1
      /\ \A i \in 1 .. n - 1 : touched2[i] = filled[i]
  BY <1>3, <1>4
<1>8. \A i \in 1 .. n : filled[i] = IF i = hole THEN moved ELSE touched[i]
  BY <1>1, <1>2, <1>3
<1>9. \A s \in Slots : /\ values2[s] = IF s = slot THEN None ELSE values[s]
                       /\ position2[s] = IF s = moved THEN hole ELSE position[s]
  BY <1>1, <1>3
<1> HIDE DEF values2, touched2, position2, filled
<1>10. programmer' \in [values : [Slots -> Level \cup {None}], touched : Seq(Slots),
                        position : [Slots -> Nat]]
       /\ programmer'.values = values2 /\ programmer'.touched = touched2
       /\ programmer'.position = position2
  BY <1>5, <1>6, <1>7 DEF ProgrammerInv
<1> HIDE DEF values, touched, position, n
<1>11. ASSUME NEW i \in 1 .. Len(touched2)
       PROVE  values2[touched2[i]] # None /\ position2[touched2[i]] = i
  <2>1. i \in 1 .. n /\ i # n /\ i \in 1 .. n - 1
    BY <1>3, <1>7
  <2>2. CASE i = hole
    <3>1. touched2[i] = moved
      BY <1>7, <1>8, <2>1, <2>2
    <3>2. moved # slot /\ values[moved] # None
      BY <1>1, <1>3, <2>1, <2>2
    <3> QED BY <1>3, <1>9, <2>2, <3>1, <3>2
  <2>3. CASE i # hole
    <3>1. touched2[i] = touched[i]
      BY <1>7, <1>8, <2>1, <2>3
    <3>2. /\ touched[i] \in Slots /\ values[touched[i]] # None /\ position[touched[i]] = i
          /\ touched[i] # slot /\ touched[i] # moved
      BY <1>1, <1>3, <2>1, <2>3
    <3> QED BY <1>9, <3>1, <3>2
  <2> QED BY <2>2, <2>3
<1>12. ASSUME NEW s \in Slots, values2[s] # None
       PROVE  \E i \in 1 .. Len(touched2) : touched2[i] = s
  <2>1. s # slot /\ values[s] # None
    BY <1>9, <1>12
  <2>2. PICK j \in 1 .. n : touched[j] = s
    BY <1>1, <2>1
  <2>3. j # hole
    BY <1>2, <1>3, <2>1, <2>2
  <2>4. CASE j = n
    <3>1. hole \in 1 .. n - 1 /\ hole \in 1 .. n /\ touched2[hole] = moved /\ s = moved
      BY <1>2, <1>3, <1>7, <1>8, <2>2, <2>3, <2>4
    <3> QED BY <1>7, <3>1
  <2>5. CASE j # n
    <3>1. j \in 1 .. n - 1 /\ touched2[j] = s
      BY <1>3, <1>7, <1>8, <2>2, <2>3, <2>5
    <3> QED BY <1>7, <3>1
  <2> QED BY <2>4, <2>5
<1> QED BY <1>10, <1>11, <1>12 DEF ProgrammerInv

-----------------------------------------------------------------------------
(* The stage                                                               *)

LEMMA ResolvedIsLevels ==
    (Sources /\ ProgrammerInv /\ MastersInv) => Resolved \in [Slots -> Level]
<1> SUFFICES ASSUME Sources, ProgrammerInv, MastersInv, NEW s \in Slots
             PROVE  Resolved[s] \in Level
  BY DEF Resolved
<1> DEFINE value == IF \E i \in DOMAIN programmer.touched : programmer.touched[i] = s
                    THEN programmer.values[s] ELSE Resolve(s)
           grouped == IF s \in Members THEN ApplyMaster(value, masters.group) ELSE value
<1>1. value \in Level
  <2>1. CASE \E i \in DOMAIN programmer.touched : programmer.touched[i] = s
    <3>1. programmer.values[s] # None /\ programmer.values[s] \in Level \cup {None}
      BY <2>1 DEF ProgrammerInv
    <3> QED BY <2>1, <3>1
  <2>2. CASE ~ \E i \in DOMAIN programmer.touched : programmer.touched[i] = s
    BY <2>2, ResolveIsLevel
  <2> QED BY <2>1, <2>2
<1>2. Resolved[s] = UnderMasters(s, value)
  BY DEF Resolved
<1> HIDE DEF value
<1>3. masters.group \in Level /\ masters.grand \in Level /\ 0 \in Level
  BY LevelFacts DEF MastersInv
<1>4. grouped \in Level
  BY <1>1, <1>3, MasterOfLevel
<1>5. ApplyMaster(grouped, IF masters.blackout THEN 0 ELSE masters.grand) \in Level
  BY <1>3, <1>4, MasterOfLevel
<1>6. Resolved[s] = IF s \in Htp
                    THEN ApplyMaster(grouped, IF masters.blackout THEN 0 ELSE masters.grand)
                    ELSE value
  BY <1>2 DEF UnderMasters
<1> QED BY <1>1, <1>5, <1>6

-----------------------------------------------------------------------------
(* The invariant                                                           *)

LEMMA NewPlayerIsOne ==
    ASSUME NEW p \in Playbacks, NEW speed \in Nat
    PROVE  PlayerInv(p, NewPlayer(speed)) /\ ~ NewPlayer(speed).active
<1> DEFINE x == NewPlayer(speed)
           es == [s \in Slots |-> NoEntry]
<1>1. \A s \in Slots : es[s] \in Entry /\ ~ es[s].live /\ ~ es[s].releasing
  BY LevelFacts DEF NoEntry, Entry
<1>2. es \in [Slots -> Entry]
  BY <1>1
<1>3. /\ Rest("off", 0) \in Fader /\ Rest("off", 0).fromCue = 0
      /\ Rest("off", 0).mode = "off" /\ Rest("off", 0).stroke = "none"
  BY LevelFacts DEF Rest, Fader, NoCue
<1>4. 0 \in 0 .. Count(p) /\ 0 \in 0 .. MaxClock /\ 0 \in 0 .. Unity - 1
  BY Constants
<1> HIDE DEF es
<1>5. /\ x \in Player /\ x.entries = es /\ x.current = 0 /\ x.delay = 0
      /\ ~ x.active /\ x.manual = Rest("off", 0)
  BY <1>2, <1>3, <1>4 DEF NewPlayer, Player, es, NoCue
<1> HIDE DEF x
<1>6. InList(p, x) /\ Ends(x) /\ OnTime(p, x) /\ Heads(p, x) /\ Stands(x)
  BY <1>1, <1>3, <1>4, <1>5 DEF InList, Ends, OnTime, Delayed, Heads, Stands, NoCue
<1> QED BY <1>5, <1>6 DEF PlayerInv, x

LEMMA NewSourceIsOne ==
    ASSUME NEW master \in Level
    PROVE  NewSource(master) \in Source /\ NewSource(master).stamp = None
  BY LevelFacts DEF NewSource, Source

LEMMA InvInit == Init => IInv
<1> SUFFICES ASSUME Init PROVE IInv
  OBVIOUS
<1>1. \A p \in Playbacks : PlayerInv(p, player[p]) /\ ~ player[p].active
  BY NewPlayerIsOne, Constants DEF Init
<1>2. player \in [Playbacks -> Player]
  BY <1>1 DEF Init, PlayerInv, InList
<1>3. Full \in Level /\ 0 \in Level
  BY LevelFacts
<1>4. \A p \in Playbacks : layer[p] \in Source /\ layer[p].stamp = None
  BY <1>3, NewSourceIsOne DEF Init
<1>5. LayerInv
  <2>1. layer \in [Playbacks -> Source]
    BY <1>4 DEF Init
  <2>2. stamp = 0 /\ None < 0
    BY DEF Init, None
  <2> QED BY <1>1, <1>4, <2>1, <2>2 DEF LayerInv
<1>6. ProgrammerInv
  BY DEF Init, ProgrammerInv, NoProgrammer
<1>7. MastersInv
  BY <1>3 DEF Init, MastersInv
<1> QED BY <1>1, <1>2, <1>5, <1>6, <1>7, Constants DEF Init, IInv

\* A command for one player, and its source if it has one.
LEMMA PlayerPlayed ==
    ASSUME IInv, NEW p \in Playbacks, NEW x, PlayerInv(p, x), Play(p, x)
    PROVE  /\ player' \in [Playbacks -> Player]
           /\ \A q \in Playbacks : PlayerInv(q, player'[q])
           /\ \A q \in Playbacks : player'[q] = IF q = p THEN x ELSE player[q]
<1>1. x \in Player /\ player \in [Playbacks -> Player]
  BY DEF IInv, PlayerInv, InList
<1>2. player' = [player EXCEPT ![p] = x]
  BY DEF Play
<1>3. \A q \in Playbacks : player'[q] = IF q = p THEN x ELSE player[q]
  BY <1>1, <1>2
<1>4. player' \in [Playbacks -> Player]
  BY <1>1, <1>2
<1>5. \A q \in Playbacks : PlayerInv(q, player[q])
  BY DEF IInv
<1> QED BY <1>3, <1>4, <1>5

\* Commands that only turn a player, its cues or its fader.
LEMMA TurnKeeps ==
    ASSUME IInv, NEW p \in Playbacks, NEW x, PlayerInv(p, x), Play(p, x),
           x.active = player[p].active,
           commands' \in Nat, UNCHANGED <<layer, stamp, programmer, masters, stage>>
    PROVE  IInv'
<1>1. /\ player' \in [Playbacks -> Player]
      /\ \A q \in Playbacks : PlayerInv(q, player'[q])
      /\ \A q \in Playbacks : player'[q].active = player[q].active
  BY PlayerPlayed
<1>2. LayerInv'
  BY <1>1 DEF IInv, LayerInv
<1>3. ProgrammerInv' /\ MastersInv'
  BY DEF IInv, ProgrammerInv, MastersInv
<1> QED BY <1>1, <1>2, <1>3 DEF IInv

\* The player of a playback is one to command.
LEMMA Commandable ==
    ASSUME IInv, NEW p \in Playbacks
    PROVE  /\ PlayerInv(p, player[p]) /\ player[p] \in Player
           /\ "active" \in DOMAIN player[p] /\ "flashed" \in DOMAIN player[p]
<1>1. PlayerInv(p, player[p]) /\ player[p] \in Player
  BY DEF IInv
<1> QED BY <1>1 DEF Player

LEMMA Commands == IInv /\ Commanded => commands' \in Nat
  BY DEF IInv, Commanded

LEMMA GoKeeps == ASSUME IInv, NEW p \in Playbacks, Go(p) PROVE IInv'
<1>1. PICK direction \in {"next", "prev"} : Play(p, GoTo(p, player[p], direction))
  BY DEF Go
<1>2. PlayerInv(p, GoTo(p, player[p], direction))
  BY Commandable, GoToKeeps
<1>3. GoTo(p, player[p], direction).active = player[p].active
  BY Commandable, CommandsKeepActive DEF StillActive
<1> QED BY <1>1, <1>2, <1>3, Commands, TurnKeeps DEF Go, Given

LEMMA GotoCueKeeps == ASSUME IInv, NEW p \in Playbacks, GotoCue(p) PROVE IInv'
<1>1. PICK i \in 1 .. Count(p) : Play(p, Goto(p, player[p], i))
  BY DEF GotoCue
<1>2. PlayerInv(p, Goto(p, player[p], i))
  BY Commandable, GotoKeeps
<1>3. Goto(p, player[p], i).active = player[p].active
  <2>1. "active" \in DOMAIN player[p]
    BY Commandable
  <2>2. StillActive(player[p], Goto(p, player[p], i))
    BY <2>1, CommandsKeepActive
  <2> QED BY <2>2 DEF StillActive
<1> QED BY <1>1, <1>2, <1>3, Commands, TurnKeeps DEF GotoCue, Given

LEMMA CrossfadeCommandKeeps ==
    ASSUME IInv, NEW p \in Playbacks, SetExecutorCrossfade(p) PROVE IInv'
<1>1. PICK mode \in {"XFade", "Fade"}, position \in Levels :
          Play(p, SetCrossfade(p, player[p], mode, position))
  BY DEF SetExecutorCrossfade
<1>2. PlayerInv(p, SetCrossfade(p, player[p], mode, position))
  BY Commandable, CrossfadeKeeps, Constants
<1>3. SetCrossfade(p, player[p], mode, position).active = player[p].active
  BY Commandable, CommandsKeepActive DEF StillActive
<1> QED BY <1>1, <1>2, <1>3, Commands, TurnKeeps DEF SetExecutorCrossfade

LEMMA SpeedKeeps ==
    ASSUME IInv, NEW p \in Playbacks, SetExecutorSpeed(p) \/ TapExecutorSpeed(p)
    PROVE  IInv'
<1>1. PICK y : Play(p, y) /\ (\/ y = [player[p] EXCEPT !.tap = TRUE]
                              \/ \E speed \in Nat : y = [player[p] EXCEPT !.speed = speed])
  BY Constants DEF SetExecutorSpeed, TapExecutorSpeed
<1> DEFINE x == player[p]
<1>2. PlayerInv(p, x) /\ x \in Player
  BY Commandable
<1> HIDE DEF x
<1>3. /\ y \in Player /\ y.entries = x.entries /\ y.current = x.current /\ y.delay = x.delay
      /\ y.restart = x.restart /\ y.clock = x.clock /\ y.manual = x.manual
      /\ y.active = x.active /\ y.ticked = x.ticked
  BY <1>1, <1>2 DEF Player, x
<1>4. PlayerInv(p, y)
  BY <1>2, <1>3, Elsewhere
<1>5. commands' \in Nat /\ UNCHANGED <<layer, stamp, programmer, masters, stage>>
  BY Commands DEF SetExecutorSpeed, TapExecutorSpeed, Given
<1> QED BY <1>1, <1>3, <1>4, <1>5, TurnKeeps DEF x

LEMMA SourceOf ==
    ASSUME LayerInv, NEW p \in Playbacks
    PROVE  /\ layer[p] \in Source /\ layer[p].stamp \in Nat \cup {None}
           /\ layer[p].stamp < stamp /\ stamp \in Nat
  BY DEF LayerInv, Source

\* Sources that change in nothing the merge is stamped by.
LEMMA SameStamps ==
    ASSUME LayerInv, layer' \in [Playbacks -> Source], stamp' = stamp,
           \A q \in Playbacks : layer'[q].stamp = layer[q].stamp,
           \A q \in Playbacks : player'[q].active = player[q].active
    PROVE  LayerInv'
  BY DEF LayerInv

\* A source put in the merge, or taken out of it, by its own command.
LEMMA StampedAlone ==
    ASSUME LayerInv, NEW p \in Playbacks, ~ IsLoaded(p), layer' \in [Playbacks -> Source],
           \A q \in Playbacks \ {p} : layer'[q].stamp = layer[q].stamp,
           \/ layer'[p].stamp \in {layer[p].stamp, None} /\ stamp' = stamp
           \/ layer'[p].stamp = stamp /\ stamp' = stamp + 1,
           \A q \in Playbacks : player'[q].active = player[q].active
    PROVE  LayerInv'
<1>1. \A q \in Playbacks : layer[q].stamp \in Nat \cup {None} /\ layer[q].stamp < stamp
  BY SourceOf
<1>2. stamp \in Nat /\ None = -1
  BY DEF LayerInv, None
<1>3. stamp' \in Nat
  BY <1>2
<1>4. \A q \in Playbacks : layer'[q].stamp < stamp'
  <2>1. SUFFICES ASSUME NEW q \in Playbacks PROVE layer'[q].stamp < stamp'
    OBVIOUS
  <2> QED BY <1>1, <1>2
<1>5. ASSUME NEW q \in Playbacks, NEW r \in Playbacks, q # r, layer'[q].stamp # None
      PROVE  layer'[q].stamp # layer'[r].stamp
  <2>1. q # r /\ layer[q].stamp # None => layer[q].stamp # layer[r].stamp
    BY DEF LayerInv
  <2> QED BY <1>1, <1>2, <1>5, <2>1
<1>6. ASSUME NEW q \in Playbacks, IsLoaded(q), player'[q].active PROVE layer'[q].stamp # None
  BY <1>6 DEF LayerInv
<1> QED BY <1>3, <1>4, <1>5, <1>6 DEF LayerInv

LEMMA ActiveKeeps ==
    ASSUME IInv, NEW p \in Playbacks, NEW on \in BOOLEAN, SetExecutorActive(p, on)
    PROVE  IInv'
<1>1. /\ commands' \in Nat /\ UNCHANGED <<programmer, masters, stage>>
  BY Commands DEF SetExecutorActive, Given
<1>2. CASE IsLoaded(p)
  <2> DEFINE x == IF on THEN On(p, player[p]) ELSE Off(p, player[p])
  <2>1. Play(p, x) /\ UNCHANGED <<layer, stamp>>
    BY <1>2 DEF SetExecutorActive
  <2>2. PlayerInv(p, x)
    BY Commandable, OnKeeps, OffKeeps
  <2>3. x.active = player[p].active
    BY Commandable, CommandsKeepActive DEF StillActive
  <2> HIDE DEF x
  <2> QED BY <1>1, <2>1, <2>2, <2>3, TurnKeeps
<1>3. CASE ~ IsLoaded(p)
  <2>1. UNCHANGED player /\ (Activate(p) \/ Deactivate(p))
    BY <1>3 DEF SetExecutorActive
  <2>2. LayerInv /\ layer \in [Playbacks -> Source] /\ layer[p] \in Source /\ stamp \in Nat
    BY DEF IInv, LayerInv
  <2>3. CASE layer' = layer /\ stamp' = stamp
    <3>1. layer' \in [Playbacks -> Source]
      BY <2>2, <2>3
    <3>2. LayerInv'
      BY <2>1, <2>2, <2>3, <3>1, SameStamps
    <3> QED BY <1>1, <2>1, <3>2 DEF IInv, ProgrammerInv, MastersInv
  <2>4. ASSUME NEW t, layer' = [layer EXCEPT ![p].stamp = t],
               (t = stamp /\ stamp' = stamp + 1) \/ (t = None /\ stamp' = stamp)
        PROVE  IInv'
    <3>2. [layer[p] EXCEPT !.stamp = t] \in Source
          /\ [layer[p] EXCEPT !.stamp = t].stamp = t
      BY <2>2, <2>4 DEF Source
    <3>3. layer' \in [Playbacks -> Source] /\ layer'[p].stamp = t
          /\ \A q \in Playbacks \ {p} : layer'[q].stamp = layer[q].stamp
      BY <2>2, <2>4, <3>2
    <3>4. LayerInv'
      BY <1>3, <2>1, <2>2, <2>4, <3>3, StampedAlone
    <3> QED BY <1>1, <2>1, <3>4 DEF IInv, ProgrammerInv, MastersInv
  <2>5. CASE Activate(p)
    <3>1. CASE layer[p].stamp # None
      <4>1. layer' = layer /\ stamp' = stamp
        BY <2>5, <3>1 DEF Activate
      <4> QED BY <2>3, <4>1
    <3>2. CASE layer[p].stamp = None
      <4>1. layer' = [layer EXCEPT ![p].stamp = stamp] /\ stamp' = stamp + 1
        BY <2>5, <3>2 DEF Activate
      <4> QED BY <2>4, <4>1
    <3> QED BY <3>1, <3>2
  <2>6. CASE Deactivate(p)
    <3>1. layer' = [layer EXCEPT ![p].stamp = None] /\ stamp' = stamp
      BY <2>6 DEF Deactivate
    <3> QED BY <2>4, <3>1
  <2> QED BY <2>1, <2>5, <2>6
<1> QED BY <1>2, <1>3

LEMMA FlashCommandKeeps ==
    ASSUME IInv, NEW p \in Playbacks, NEW on \in BOOLEAN, SetExecutorFlash(p, on)
    PROVE  IInv'
<1> DEFINE flash == IF on THEN Full ELSE None
           held == [layer EXCEPT ![p].flash = flash]
           starts == on /\ layer[p].stamp = None
           ends == ~on /\ player[p].flashed
<1>1. /\ commands' \in Nat /\ UNCHANGED <<programmer, masters, stage>>
      /\ ProgrammerInv' /\ MastersInv' /\ stage' \in [Slots -> Level]
  BY Commands DEF SetExecutorFlash, Given, IInv, ProgrammerInv, MastersInv
<1>2. LayerInv /\ layer \in [Playbacks -> Source] /\ layer[p] \in Source /\ stamp \in Nat
  BY DEF IInv, LayerInv
<1>3. flash \in Level \cup {None}
  BY LevelFacts
<1> HIDE DEF flash
<1>4. /\ [layer[p] EXCEPT !.flash = flash] \in Source
      /\ [layer[p] EXCEPT !.flash = flash].stamp = layer[p].stamp
  BY <1>2, <1>3 DEF Source
<1>5. held \in [Playbacks -> Source]
      /\ \A q \in Playbacks : held[q].stamp = layer[q].stamp
  BY <1>2, <1>4
<1> HIDE DEF held
<1>6. CASE IsLoaded(p)
  <2> DEFINE x == IF on THEN FlashOn(p, player[p]) ELSE FlashOff(p, player[p])
  <2>1. Play(p, x) /\ layer' = held /\ stamp' = stamp
    BY <1>6 DEF SetExecutorFlash, held, flash
  <2>2. PlayerInv(p, x)
    BY Commandable, FlashKeeps
  <2>3. x.active = player[p].active
    BY Commandable, CommandsKeepActive DEF StillActive
  <2> HIDE DEF x
  <2>4. /\ player' \in [Playbacks -> Player]
        /\ \A q \in Playbacks : PlayerInv(q, player'[q])
        /\ \A q \in Playbacks : player'[q].active = player[q].active
    BY <2>1, <2>2, <2>3, PlayerPlayed
  <2>5. LayerInv'
    BY <1>2, <1>5, <2>1, <2>4, SameStamps
  <2> QED BY <1>1, <2>4, <2>5 DEF IInv
<1>7. CASE ~ IsLoaded(p)
  <2> DEFINE flashed == (player[p].flashed \/ starts) /\ ~ ends
             x == [player[p] EXCEPT !.flashed = flashed]
             y == player[p]
  <2>1. /\ Play(p, x)
        /\ layer' = IF starts THEN [held EXCEPT ![p].stamp = stamp]
                    ELSE IF ends THEN [held EXCEPT ![p].stamp = None] ELSE held
        /\ stamp' = IF starts THEN stamp + 1 ELSE stamp
    BY <1>7 DEF SetExecutorFlash, held, flash
  <2>2. flashed \in BOOLEAN
    OBVIOUS
  <2>3. y \in Player /\ PlayerInv(p, y)
    BY Commandable
  <2> HIDE DEF flashed, y
  <2>4. /\ x \in Player /\ x.entries = y.entries /\ x.current = y.current /\ x.delay = y.delay
        /\ x.restart = y.restart /\ x.clock = y.clock /\ x.manual = y.manual
        /\ x.active = y.active /\ x.ticked = y.ticked
    BY <2>2, <2>3 DEF Player, y
  <2> HIDE DEF x
  <2>5. PlayerInv(p, x)
    BY <2>3, <2>4, Elsewhere
  <2>6. /\ player' \in [Playbacks -> Player]
        /\ \A q \in Playbacks : PlayerInv(q, player'[q])
        /\ \A q \in Playbacks : player'[q].active = player[q].active
    BY <2>1, <2>4, <2>5, PlayerPlayed DEF y
  <2> HIDE DEF starts, ends
  <2>7. ASSUME NEW t \in Nat \cup {None}
        PROVE  LET l == [held EXCEPT ![p].stamp = t] IN
               /\ l \in [Playbacks -> Source] /\ l[p].stamp = t
               /\ \A q \in Playbacks \ {p} : l[q].stamp = layer[q].stamp
    <3>1. held[p] \in Source
      BY <1>5
    <3>2. [held[p] EXCEPT !.stamp = t] \in Source /\ [held[p] EXCEPT !.stamp = t].stamp = t
      BY <3>1 DEF Source
    <3> QED BY <1>5, <3>2
  <2>8. /\ layer' \in [Playbacks -> Source]
        /\ \A q \in Playbacks \ {p} : layer'[q].stamp = layer[q].stamp
        /\ \/ layer'[p].stamp \in {layer[p].stamp, None} /\ stamp' = stamp
           \/ layer'[p].stamp = stamp /\ stamp' = stamp + 1
    <3>1. CASE starts
      BY <1>2, <2>1, <2>7, <3>1
    <3>2. CASE ~ starts /\ ends
      BY <2>1, <2>7, <3>2
    <3>3. CASE ~ starts /\ ~ ends
      BY <1>5, <2>1, <3>3
    <3> QED BY <3>1, <3>2, <3>3
  <2>9. LayerInv'
    BY <1>2, <1>7, <2>6, <2>8, StampedAlone
  <2> QED BY <1>1, <2>6, <2>9 DEF IInv
<1> QED BY <1>6, <1>7

LEMMA LevelCommandKeeps ==
    ASSUME IInv, NEW p \in Playbacks, SetExecutorLevel(p)
    PROVE  IInv'
<1>1. /\ commands' \in Nat /\ UNCHANGED <<player, stamp, programmer, masters, stage>>
  BY Commands DEF SetExecutorLevel, Given
<1>2. PICK level \in Level : layer' = [layer EXCEPT ![p].master = level]
  BY Constants DEF SetExecutorLevel
<1>3. LayerInv /\ layer \in [Playbacks -> Source] /\ layer[p] \in Source
  BY DEF IInv, LayerInv
<1>4. /\ [layer[p] EXCEPT !.master = level] \in Source
      /\ [layer[p] EXCEPT !.master = level].stamp = layer[p].stamp
  BY <1>3 DEF Source
<1>5. layer' \in [Playbacks -> Source] /\ \A q \in Playbacks : layer'[q].stamp = layer[q].stamp
  BY <1>2, <1>3, <1>4
<1>6. LayerInv'
  BY <1>1, <1>3, <1>5, SameStamps
<1> QED BY <1>1, <1>6 DEF IInv, ProgrammerInv, MastersInv

LEMMA DeskKeeps ==
    ASSUME IInv,
           SetMasters \/ SetProgrammerValue \/ ClearProgrammerValue \/ ClearProgrammer
    PROVE  IInv'
<1>1. /\ commands' \in Nat /\ UNCHANGED <<player, layer, stamp, stage>>
  BY Commands DEF SetMasters, SetProgrammerValue, ClearProgrammerValue, ClearProgrammer, GivenDesk
<1>2. LayerInv'
  BY <1>1 DEF IInv, LayerInv
<1>3. ProgrammerInv /\ MastersInv
  BY DEF IInv
<1>4. ProgrammerInv' /\ MastersInv'
  <2>1. CASE SetMasters
    <3>1. ProgrammerInv'
      BY <1>3, <2>1 DEF SetMasters, ProgrammerInv
    <3>2. MastersInv'
      BY <1>3, <2>1, Constants DEF SetMasters, MastersInv
    <3> QED BY <3>1, <3>2
  <2>2. CASE SetProgrammerValue
    <3>1. PICK slot \in Slots, value \in Level : programmer' = Held(slot, value)
      BY <2>2, Constants DEF SetProgrammerValue
    <3>2. MastersInv'
      BY <1>3, <2>2 DEF SetProgrammerValue, MastersInv
    <3> QED BY <1>3, <3>1, <3>2, HeldKeeps
  <2>3. CASE ClearProgrammerValue
    <3>1. PICK slot \in ToSet(programmer.touched) : programmer' = Cleared(slot)
      BY <2>3 DEF ClearProgrammerValue
    <3>2. MastersInv'
      BY <1>3, <2>3 DEF ClearProgrammerValue, MastersInv
    <3> QED BY <1>3, <3>1, <3>2, ClearedKeeps
  <2>4. CASE ClearProgrammer
    <3>1. ProgrammerInv'
      <4> DEFINE none == [s \in Slots |-> None]
      <4>1. none \in [Slots -> Level \cup {None}] /\ << >> \in Seq(Slots) /\ Len(<< >>) = 0
        OBVIOUS
      <4>2. \A s \in Slots : none[s] = None
        OBVIOUS
      <4> HIDE DEF none
      <4>3. programmer' = [programmer EXCEPT !.touched = << >>, !.values = none]
        BY <2>4 DEF ClearProgrammer, none
      <4>4. programmer' \in [values : [Slots -> Level \cup {None}], touched : Seq(Slots),
                             position : [Slots -> Nat]]
            /\ programmer'.values = none /\ programmer'.touched = << >>
        BY <1>3, <4>1, <4>3 DEF ProgrammerInv
      <4>5. \A i \in 1 .. Len(programmer'.touched) : FALSE
        BY <4>1, <4>4
      <4> QED BY <4>2, <4>4, <4>5 DEF ProgrammerInv
    <3>2. MastersInv'
      BY <1>3, <2>4 DEF ClearProgrammer, MastersInv
    <3> QED BY <3>1, <3>2
  <2> QED BY <2>1, <2>2, <2>3, <2>4
<1> QED BY <1>1, <1>2, <1>4 DEF IInv

LEMMA RebuildKeeps == ASSUME IInv, Rebuild PROVE IInv'
<1>1. commands' \in Nat /\ UNCHANGED <<programmer, masters, stage>> /\ stamp' = 0
  BY Commands DEF Rebuild, GivenDesk
<1>2. \A p \in Playbacks : layer[p].master \in Level
  BY DEF IInv, LayerInv, Source
<1> PICK rate \in [Playbacks -> Speeds \cup {Unity}] :
      player' = [p \in Playbacks |-> NewPlayer(rate[p])]
  BY DEF Rebuild
<1>8. \A p \in Playbacks : rate[p] \in Nat
  BY Constants
<1>3. \A p \in Playbacks : PlayerInv(p, player'[p]) /\ ~ player'[p].active
  BY <1>8, NewPlayerIsOne
<1>4. player' \in [Playbacks -> Player]
  BY <1>3 DEF PlayerInv, InList
<1>5. \A p \in Playbacks : layer'[p] \in Source /\ layer'[p].stamp = None
  BY <1>2, NewSourceIsOne DEF Rebuild
<1>6. layer' \in [Playbacks -> Source]
  BY <1>5 DEF Rebuild
<1>7. LayerInv'
  BY <1>1, <1>3, <1>5, <1>6 DEF LayerInv, None
<1> QED BY <1>1, <1>3, <1>4, <1>7 DEF IInv, ProgrammerInv, MastersInv

-----------------------------------------------------------------------------
(* The tick                                                                *)

Starts == {p \in Playbacks : player'[p].active /\ ~player[p].active}
Before(p) == {q \in Starts : q < p}

LEMMA StartsCounted ==
    /\ Cardinality(Starts) \in Nat
    /\ \A p \in Playbacks : Cardinality(Before(p)) \in Nat
    /\ \A p \in Starts : Cardinality(Before(p)) < Cardinality(Starts)
    /\ \A p, q \in Starts : p < q => Cardinality(Before(p)) < Cardinality(Before(q))
<1>1. IsFiniteSet(Playbacks)
  BY FS_Interval, Constants DEF Playbacks
<1>2. IsFiniteSet(Starts)
  BY <1>1, FS_Subset DEF Starts
<1>3. \A p : IsFiniteSet(Before(p)) /\ Before(p) \subseteq Starts
  BY <1>2, FS_Subset DEF Before
<1>4. \A p \in Playbacks : p \in Nat
  BY Constants DEF Playbacks
<1>5. Starts \subseteq Playbacks
  BY DEF Starts
<1>6. ASSUME NEW p \in Starts PROVE Cardinality(Before(p)) < Cardinality(Starts)
  <2>1. Before(p) \subseteq Starts /\ p \notin Before(p)
    BY <1>4, <1>5 DEF Before
  <2> QED BY <1>2, <2>1, FS_Subset, FS_CardinalityType
<1>7. ASSUME NEW p \in Starts, NEW q \in Starts, p < q
      PROVE  Cardinality(Before(p)) < Cardinality(Before(q))
  <2>1. Before(p) \subseteq Before(q) /\ p \in Before(q) /\ p \notin Before(p)
    BY <1>4, <1>5, <1>7 DEF Before
  <2>2. IsFiniteSet(Before(q))
    BY <1>3
  <2> QED BY <2>1, <2>2, FS_Subset, FS_CardinalityType
<1> QED BY <1>2, <1>3, <1>6, <1>7, FS_CardinalityType

LEMMA TickDoes ==
    ASSUME IInv, Tick
    PROVE  /\ \A p \in Playbacks : ~ IsLoaded(p) =>
                player'[p] = player[p] /\ layer'[p] = layer[p]
           /\ \E missed \in 0 .. MaxMissed : \A p \in Playbacks : IsLoaded(p) =>
                player'[p] = Advance(p, player[p], missed + 1)
           /\ player' \in [Playbacks -> Player]
           /\ \A p \in Playbacks : PlayerInv(p, player'[p])
           /\ layer' \in [Playbacks -> Source]
           /\ \A p \in Playbacks : IsLoaded(p) =>
                /\ layer'[p].stamp = IF p \in Starts THEN stamp + Cardinality(Before(p))
                                     ELSE IF player'[p].active THEN layer[p].stamp ELSE None
                /\ layer'[p].values = [s \in Slots |-> IF player'[p].entries[s].live
                                       THEN player'[p].entries[s].value ELSE None]
           /\ stamp' = stamp + Cardinality(Starts)
<1>1. PICK missed \in 0 .. MaxMissed :
        player' = [p \in Playbacks |->
             IF IsLoaded(p) THEN Advance(p, player[p], missed + 1) ELSE player[p]]
  BY DEF Tick
<1>2. missed + 1 \in Nat
  BY Constants
<1>3. ASSUME NEW p \in Playbacks
      PROVE  PlayerInv(p, player'[p]) /\ player'[p] \in Player
  <2>1. PlayerInv(p, player[p])
    BY DEF IInv
  <2>2. PlayerInv(p, Advance(p, player[p], missed + 1))
    BY <1>2, <2>1, AdvanceKeeps
  <2>3. PlayerInv(p, player'[p])
    BY <1>1, <2>1, <2>2
  <2> QED BY <2>3 DEF PlayerInv, InList
<1>4. player' \in [Playbacks -> Player]
  BY <1>1, <1>3
<1> DEFINE at(p) == IF p \in Starts THEN stamp + Cardinality(Before(p))
                    ELSE IF player'[p].active THEN layer[p].stamp ELSE None
           values(p) == [s \in Slots |-> IF player'[p].entries[s].live
                                         THEN player'[p].entries[s].value ELSE None]
           held(p) == [layer[p] EXCEPT !.stamp = at(p), !.values = values(p)]
<1>5. \A p \in Playbacks : layer'[p] = IF ~ IsLoaded(p) THEN layer[p] ELSE held(p)
  BY DEF Tick, Starts, Before
<1>6. ASSUME NEW p \in Playbacks
      PROVE  /\ layer[p] \in Source /\ held(p) \in Source
             /\ held(p).stamp = at(p) /\ held(p).values = values(p)
  <2>1. layer[p] \in Source /\ layer[p].stamp \in Nat \cup {None} /\ stamp \in Nat
    BY DEF IInv, LayerInv, Source
  <2>2. at(p) \in Nat \cup {None}
    BY <2>1, StartsCounted
  <2>3. values(p) \in [Slots -> Level \cup {None}]
    <3>1. \A s \in Slots : player'[p].entries[s].value \in Level
      BY <1>3 DEF Player, Entry
    <3> QED BY <3>1
  <2> HIDE DEF at, values
  <2> QED BY <2>1, <2>2, <2>3 DEF Source
<1>7. layer' \in [Playbacks -> Source]
  <2>1. DOMAIN layer' = Playbacks /\ layer' = [p \in Playbacks |-> layer'[p]]
    BY DEF Tick
  <2> HIDE DEF held
  <2> QED BY <1>5, <1>6, <2>1
<1>8. stamp' = stamp + Cardinality(Starts)
  BY DEF Tick, Starts
<1> HIDE DEF at, values, held
<1> QED BY <1>1, <1>3, <1>4, <1>5, <1>6, <1>7, <1>8 DEF at, values

LEMMA TickKeeps == ASSUME IInv, Tick PROVE IInv'
<1>1. /\ \A p \in Playbacks : ~ IsLoaded(p) => player'[p] = player[p] /\ layer'[p] = layer[p]
      /\ player' \in [Playbacks -> Player]
      /\ \A p \in Playbacks : PlayerInv(p, player'[p])
      /\ layer' \in [Playbacks -> Source]
      /\ \A p \in Playbacks : IsLoaded(p) =>
           layer'[p].stamp = IF p \in Starts THEN stamp + Cardinality(Before(p))
                             ELSE IF player'[p].active THEN layer[p].stamp ELSE None
      /\ stamp' = stamp + Cardinality(Starts)
  BY TickDoes
<1>2. UNCHANGED <<programmer, masters, commands>> /\ stage' = Resolved'
  BY DEF Tick
<1>3. LayerInv
  BY DEF IInv
<1>4. \A p \in Playbacks : layer[p].stamp \in Nat \cup {None} /\ layer[p].stamp < stamp
  BY <1>3, SourceOf
<1>5. stamp \in Nat
  BY <1>3 DEF LayerInv
<1>6. \A p \in Playbacks : p \in Nat /\ (~ IsLoaded(p) => p \notin Starts)
  BY <1>1, Constants DEF Starts, Playbacks
<1> DEFINE c(p) == Cardinality(Before(p))
<1>7. /\ Cardinality(Starts) \in Nat /\ \A p \in Playbacks : c(p) \in Nat
      /\ \A p \in Starts : c(p) < Cardinality(Starts) /\ p \in Playbacks
      /\ \A p, q \in Starts : p < q => c(p) < c(q)
  BY StartsCounted DEF Starts
<1> HIDE DEF c
<1>8. \A p \in Playbacks :
          \/ p \in Starts /\ layer'[p].stamp = stamp + c(p)
          \/ p \notin Starts /\ layer'[p].stamp \in {layer[p].stamp, None}
  BY <1>1, <1>6 DEF c
<1>9. stamp' \in Nat
  BY <1>1, <1>5, <1>7
<1>10. ASSUME NEW p \in Playbacks PROVE layer'[p].stamp < stamp'
  BY <1>1, <1>4, <1>5, <1>7, <1>8 DEF None
<1>11. ASSUME NEW p \in Playbacks, NEW q \in Playbacks, p # q, layer'[p].stamp # None
       PROVE  layer'[p].stamp # layer'[q].stamp
  <2>1. layer[p].stamp # None => layer[p].stamp # layer[q].stamp
    BY <1>3, <1>11 DEF LayerInv
  <2>2. CASE p \in Starts /\ q \in Starts
    <3>1. c(p) # c(q)
      <4>1. p < q \/ q < p
        BY <1>6, <1>11
      <4> QED BY <1>7, <2>2, <4>1
    <3> QED BY <1>5, <1>7, <1>8, <2>2, <3>1
  <2>3. CASE p \in Starts /\ q \notin Starts
    BY <1>4, <1>5, <1>7, <1>8, <2>3 DEF None
  <2>4. CASE p \notin Starts /\ q \in Starts
    BY <1>4, <1>5, <1>7, <1>8, <2>4 DEF None
  <2>5. CASE p \notin Starts /\ q \notin Starts
    BY <1>8, <1>11, <2>1, <2>5
  <2> QED BY <2>2, <2>3, <2>4, <2>5
<1>12. ASSUME NEW p \in Playbacks, IsLoaded(p), player'[p].active PROVE layer'[p].stamp # None
  <2>1. CASE p \in Starts
    BY <1>5, <1>7, <1>8, <2>1 DEF None
  <2>2. CASE p \notin Starts
    <3>1. player[p].active
      BY <1>12, <2>2 DEF Starts
    <3>2. layer'[p].stamp = layer[p].stamp
      BY <1>1, <1>12, <2>2
    <3> QED BY <1>3, <1>12, <3>1, <3>2 DEF LayerInv
  <2> QED BY <2>1, <2>2
<1>13. LayerInv'
  BY <1>1, <1>9, <1>10, <1>11, <1>12 DEF LayerInv
<1>14. ProgrammerInv' /\ MastersInv'
  BY <1>2 DEF IInv, ProgrammerInv, MastersInv
<1>15. stage' \in [Slots -> Level]
  <2>1. (Sources /\ ProgrammerInv /\ MastersInv)' => (Resolved \in [Slots -> Level])'
    BY ResolvedIsLevels, PTL
  <2>2. Sources'
    BY <1>1 DEF Sources
  <2>3. (Resolved \in [Slots -> Level])'
    BY <1>14, <2>1, <2>2
  <2> HIDE DEF Resolved
  <2> QED BY <1>2, <2>3
<1> QED BY <1>1, <1>2, <1>13, <1>14, <1>15 DEF IInv

-----------------------------------------------------------------------------
(* The theorems                                                            *)

\* What the players, the merge layer, the programmer and the masters keep to
\* through every command and every tick (body.rs, apply and resolve): an entry
\* heads for what its cue holds and stands where its clock has taken it, every
\* source in the merge has a stamp of its own, and the programmer's list is a set.
THEOREM Invariance == Spec => []IInv
<1>1. IInv /\ [Next]_vars => IInv'
  <2> SUFFICES ASSUME IInv, [Next]_vars PROVE IInv'
    OBVIOUS
  <2>1. CASE UNCHANGED vars
    BY <2>1 DEF vars, IInv, LayerInv, ProgrammerInv, MastersInv
  <2>2. CASE Tick
    BY <2>2, TickKeeps
  <2>3. CASE Command
    <3>1. ASSUME NEW p \in Playbacks, Go(p) PROVE IInv'
      BY <3>1, GoKeeps
    <3>2. ASSUME NEW p \in Playbacks, GotoCue(p) PROVE IInv'
      BY <3>2, GotoCueKeeps
    <3>3. ASSUME NEW p \in Playbacks, SetExecutorCrossfade(p) PROVE IInv'
      BY <3>3, CrossfadeCommandKeeps
    <3>4. ASSUME NEW p \in Playbacks, SetExecutorSpeed(p) \/ TapExecutorSpeed(p) PROVE IInv'
      BY <3>4, SpeedKeeps
    <3>5. ASSUME NEW p \in Playbacks, SetExecutorLevel(p) PROVE IInv'
      BY <3>5, LevelCommandKeeps
    <3>6. ASSUME NEW p \in Playbacks, NEW on \in BOOLEAN, SetExecutorActive(p, on) PROVE IInv'
      BY <3>6, ActiveKeeps
    <3>7. ASSUME NEW p \in Playbacks, NEW on \in BOOLEAN, SetExecutorFlash(p, on) PROVE IInv'
      BY <3>7, FlashCommandKeeps
    <3>8. ASSUME SetMasters \/ SetProgrammerValue \/ ClearProgrammerValue \/ ClearProgrammer
          PROVE  IInv'
      BY <3>8, DeskKeeps
    <3>9. ASSUME Rebuild PROVE IInv'
      BY <3>9, RebuildKeeps
    <3> QED BY <2>3, <3>1, <3>2, <3>3, <3>4, <3>5, <3>6, <3>7, <3>8, <3>9 DEF Command
  <2> QED BY <2>1, <2>2, <2>3 DEF Next
<1> QED BY <1>1, InvInit, PTL DEF Spec

\* The merge depends on the set of the sources and not on their order, no two of
\* them are ever of one age, and the programmer's list names every slot it holds
\* once (PlaybackLayer::resolve, merge_playbacks, ProgrammerLayer).
THEOREM MergeExact == Spec => []MergeIsExact
<1>1. IInv => MergeIsExact
  <2> SUFFICES ASSUME IInv PROVE MergeIsExact
    OBVIOUS
  <2>1. TypeOK
    <3>1. ASSUME NEW p \in Playbacks
          PROVE  /\ player[p].current \in 0 .. Count(p)
                 /\ player[p].clock \in 0 .. MaxClock /\ player[p].frac \in 0 .. Unity - 1
                 /\ player[p].manual.position \in Level
                 /\ player[p].manual.fromCue \in 0 .. Count(p)
      BY DEF IInv, PlayerInv, InList, Player, Fader
    <3>2. ASSUME NEW p \in Playbacks, NEW s \in Slots
          PROVE  LET e == player[p].entries[s] IN
                 {e.from, e.to, e.value} \subseteq Level /\ (e.releasing => e.live)
      BY DEF IInv, PlayerInv, InList, Player, Entry, Ends
    <3>3. ASSUME NEW p \in Playbacks
          PROVE  layer[p].values \in [Slots -> Level \cup {None}] /\ layer[p].stamp \in -1 .. stamp - 1
      BY DEF IInv, LayerInv, Source, None
    <3> QED BY <3>1, <3>2, <3>3 DEF TypeOK, IInv
  <2>2. MergeIsOrderless
    BY MergedAtOnce DEF MergeIsOrderless, IInv, LayerInv, Sources
  <2>3. ProgrammerIsASet
    <3>1. DOMAIN programmer.touched = 1 .. Len(programmer.touched)
      BY DEF IInv, ProgrammerInv
    <3> QED BY <3>1 DEF ProgrammerIsASet, IInv, ProgrammerInv
  <2> QED BY <2>1, <2>2, <2>3 DEF MergeIsExact
<1> QED BY <1>1, Invariance, PTL

-----------------------------------------------------------------------------
(* What a tick may never do                                                *)

LEMMA TicksTick == IInv /\ Next /\ Ticks => Tick
<1> SUFFICES ASSUME IInv, Next, Ticks PROVE Tick
  OBVIOUS
<1>1. commands \in Nat /\ commands' = commands
  BY DEF IInv, Ticks
<1>2. ~ Commanded
  BY <1>1 DEF Commanded
<1>3. ~ Command
  BY <1>2 DEF Command, Go, GotoCue, SetExecutorCrossfade, SetExecutorSpeed,
              TapExecutorSpeed, SetExecutorLevel, SetExecutorActive, SetExecutorFlash,
              SetMasters, SetProgrammerValue, ClearProgrammerValue, ClearProgrammer,
              Rebuild, Given, GivenDesk
<1> QED BY <1>3 DEF Next

\* A list without a cue list stands.
LEMMA UnloadedStands ==
    ASSUME IInv, Tick, NEW p \in Playbacks, ~ IsLoaded(p)
    PROVE  player'[p] = player[p] /\ player[p].current = NoCue
<1>1. player'[p] = player[p]
  BY TickDoes
<1>2. player[p].current \in 0 .. Count(p)
  BY DEF IInv, PlayerInv, InList
<1> QED BY <1>1, <1>2, LoadedFacts DEF NoCue

\* One that has one is advanced: the clock, the entries, a cue that follows, the end.
LEMMA LoadedAdvances ==
    ASSUME IInv, Tick, NEW p \in Playbacks, IsLoaded(p)
    PROVE  \E n \in 1 .. MaxMissed + 1 :
           LET x == player[p]
               z == player'[p]
               t == Timed(p, x, n)
               y == Carries(t)
               f == Followed(p, y)
           IN /\ PlayerInv(p, x) /\ PlayerInv(p, z) /\ PlayerInv(p, y) /\ PlayerInv(p, f)
              /\ t \in Player /\ t.current = x.current /\ t.delay = x.delay
              /\ t.manual = x.manual
              /\ ~ y.restart /\ y.clock = t.clock /\ y.frac = t.frac /\ y.speed = t.speed
              /\ y.current = x.current /\ y.delay = x.delay /\ y.manual = x.manual
              /\ \A s \in Slots : y.entries[s] = Moved(t, x.entries[s])
              /\ z.active = Wanted(z) /\ z.manual = x.manual
              /\ z.speed = f.speed /\ z.current = f.current
              /\ z.clock = f.clock /\ z.frac = f.frac
              /\ z.entries = Dropped(f).entries
              /\ f.speed = y.speed
<1>1. PICK missed \in 0 .. MaxMissed : player'[p] = Advance(p, player[p], missed + 1)
  BY TickDoes
<1> DEFINE n == missed + 1
           x == player[p]
           t == Timed(p, x, n)
           y == Carries(t)
           f == Followed(p, y)
<1>2. n \in 1 .. MaxMissed + 1 /\ n \in Nat
  BY Constants
<1> HIDE DEF n
<1>3. PlayerInv(p, x)
  BY DEF IInv
<1>4. /\ t \in Player /\ t.current = x.current /\ t.delay = x.delay /\ t.manual = x.manual
  BY <1>2, <1>3, TimedDoes
<1>5. /\ PlayerInv(p, y) /\ ~ y.restart
      /\ y.clock = t.clock /\ y.frac = t.frac /\ y.speed = t.speed
      /\ y.current = x.current /\ y.delay = x.delay /\ y.manual = x.manual
      /\ \A s \in Slots : y.entries[s] = Moved(t, x.entries[s])
  BY <1>2, <1>3, CarriesKeeps, SMTT(60)
<1>6. player'[p] = Advance(p, x, n)
  BY <1>1 DEF n
<1>7. LET z == Advance(p, x, n) IN
      /\ PlayerInv(p, z) /\ z.active = Wanted(z) /\ z.manual = x.manual
      /\ z.speed = f.speed /\ z.current = f.current
      /\ z.clock = f.clock /\ z.frac = f.frac
      /\ z.entries = Dropped(f).entries
      /\ PlayerInv(p, f)
  BY <1>2, <1>3, AdvanceKeeps DEF Played
<1> HIDE DEF x, t
<1>8. f.speed = y.speed
  <2> HIDE DEF y
  <2> QED BY <1>5, FollowedDoes
<1> HIDE DEF y, f
<1> QED BY <1>2, <1>3, <1>4, <1>5, <1>6, <1>7, <1>8 DEF x, t, y, f

\* The entries of one that is advanced, slot by slot.
LEMMA EntriesAdvance ==
    ASSUME NEW p \in Playbacks, NEW s \in Slots, NEW x, PlayerInv(p, x), NEW n \in Nat
    PROVE  LET t == Timed(p, x, n)
               y == Carries(t)
               f == Followed(p, y)
               e == x.entries[s]
               now == Dropped(f).entries[s]
           IN /\ e \in Entry /\ now \in Entry /\ (now.releasing => now.live)
              /\ Spent(f) => f = y /\ x.current = NoCue /\ ~ now.live
              /\ e.live /\ ~ (e.releasing /\ Over(t, e)) =>
                   /\ now.value = At(t, e)
                   /\ ~ Spent(f) => now.live
                   /\ Over(t, e) => now.value = e.to
              /\ e.live /\ e.releasing /\ Over(t, e) => ~ now.releasing
              /\ ~ Follows(p, y) => /\ now.live => e.live /\ ~ (e.releasing /\ Over(t, e))
                                    /\ now.live => now.to = e.to /\ now.releasing = e.releasing
<1> DEFINE t == Timed(p, x, n)
           y == Carries(t)
           f == Followed(p, y)
           e == x.entries[s]
           moved == Moved(t, e)
           now == Dropped(f).entries[s]
<1>1. e \in Entry /\ (e.releasing => e.live)
  BY DEF PlayerInv, InList, Ends, Player
<1>2. t \in Player
  BY TimedDoes
<1>3. /\ PlayerInv(p, y) /\ ~ y.restart /\ y.entries[s] = moved /\ y.current = x.current
  BY CarriesKeeps
<1> HIDE DEF t, e
<1>4. /\ moved.releasing => moved.live
      /\ moved.live => e.live /\ moved.to = e.to /\ moved.releasing = e.releasing
      /\ e.live => moved.value = At(t, e)
      /\ e.live => (moved.live <=> ~ (e.releasing /\ Over(t, e)))
      /\ e.live /\ Over(t, e) => moved.value = e.to
  BY <1>1, <1>2, MovedDoes
<1> HIDE DEF moved, y
<1>5. /\ PlayerInv(p, f)
      /\ (f.current = NoCue) <=> (y.current = NoCue)
      /\ ~ Follows(p, y) => f = y
      /\ Follows(p, y) => FollowStep(p, y.current) \in 1 .. Count(p)
                          /\ f.current = FollowStep(p, y.current)
                          /\ f.entries = Begin(p, y.entries, f.current)
      /\ y.entries[s].live => f.entries[s].live /\ f.entries[s].value = y.entries[s].value
  BY <1>3, FollowedDoes
<1>6. Spent(f) => f = y /\ x.current = NoCue
  BY <1>3, <1>5 DEF Spent, Follows
<1>7. Spent(f) => \A q \in Slots : ~ f.entries[q].releasing
  BY AdvanceKeeps DEF Played, t, y
<1> HIDE DEF f
<1>8. /\ Dropped(f).entries \in [Slots -> Entry]
      /\ now.value = f.entries[s].value /\ now.releasing = f.entries[s].releasing
      /\ now.live <=> (f.entries[s].live /\ ~ Spent(f))
      /\ ~ Spent(f) => Dropped(f) = f
  BY <1>5, <1>7, DroppedDoes
<1>9. f.entries[s].releasing => f.entries[s].live
  BY <1>5 DEF PlayerInv, Ends
<1>10. e.live /\ e.releasing /\ Over(t, e) => ~ now.releasing
  <2>1. SUFFICES ASSUME e.live, e.releasing, Over(t, e) PROVE ~ f.entries[s].releasing
    BY <1>8
  <2>2. ~ moved.live /\ ~ moved.releasing
    BY <1>4, <2>1
  <2>3. CASE f = y
    BY <1>3, <2>2, <2>3
  <2>4. CASE Follows(p, y)
    <3> DEFINE i == f.current
    <3>1. /\ i \in 1 .. Count(p) /\ f.entries = Begin(p, y.entries, i)
          /\ y.entries[s].releasing = moved.releasing /\ y.entries[s].live = moved.live
      BY <1>3, <1>5, <2>4
    <3>2. f.entries[s] = LET to == Table[p][s][i]
                             at == [y.entries[s] EXCEPT !.live = TRUE, !.value = Home[s]]
                         IN IF to # None THEN Fade(at, to, Cue(p, i).fadeIn, FALSE)
                            ELSE y.entries[s]
      BY <2>2, <3>1 DEF Begin
    <3>3. y.entries[s] \in Entry
      BY <1>3 DEF PlayerInv, InList, Player
    <3> HIDE DEF i
    <3> QED BY <2>2, <3>1, <3>2, <3>3 DEF Fade, Entry
  <2> QED BY <1>5, <2>3, <2>4
<1>11. Spent(f) => ~ now.live
  BY <1>8
<1>12. now \in Entry
  BY <1>8
<1>13. now.releasing => now.live
  BY <1>7, <1>8, <1>9
<1>14. ~ Follows(p, y) => /\ now.live => e.live /\ ~ (e.releasing /\ Over(t, e))
                          /\ now.live => now.to = e.to /\ now.releasing = e.releasing
  BY <1>3, <1>4, <1>5, <1>8
<1>15. e.live /\ ~ (e.releasing /\ Over(t, e)) =>
                   /\ now.value = At(t, e)
                   /\ ~ Spent(f) => now.live
                   /\ Over(t, e) => now.value = e.to
  BY <1>3, <1>4, <1>5, <1>8
<1> HIDE DEF now
<1> QED BY <1>1, <1>6, <1>10, <1>11, <1>12, <1>13, <1>14, <1>15 DEF now, f, y, t, e

\* The clock of a player that neither begins nor ends a transition.
LEMMA ClockRuns ==
    ASSUME NEW p \in Playbacks, NEW x, PlayerInv(p, x), x.ticked, ~ x.restart,
           NEW n \in Nat \ {0}
    PROVE  LET t == Timed(p, x, n) IN
           /\ t.clock \in Nat /\ t.frac \in Nat /\ t.speed \in Nat /\ x.clock <= t.clock
           /\ t.clock < MaxClock =>
                t.clock * Unity + t.frac = x.clock * Unity + x.frac + t.speed * n
           /\ t.clock - x.clock <= (t.speed * n + x.frac) \div Unity
<1> DEFINE t == Timed(p, x, n)
           scaled == t.speed * n + x.frac
           q == scaled \div Unity
           r == scaled % Unity
           clock == x.clock + q
<1>1. /\ t \in Player
      /\ t.clock = IF MaxClock <= clock THEN MaxClock ELSE clock
      /\ t.frac = IF t.clock = MaxClock THEN 0 ELSE r
  <2>1. Passed(x, n) = n
    BY DEF Passed
  <2> QED BY <2>1, TimedDoes
<1>2. x.clock \in 0 .. MaxClock /\ x.frac \in Nat
  BY Constants DEF PlayerInv, InList, Player
<1> HIDE DEF t
<1>3. t.speed \in Nat /\ t.clock \in Nat /\ t.frac \in Nat
  BY <1>1, Constants DEF Player
<1>4. scaled \in Nat
  BY <1>2, <1>3
<1> HIDE DEF scaled
<1>5. q \in Nat /\ r \in Nat /\ scaled = Unity * q + r
  <2>1. Unity \in Nat \ {0}
    BY Constants
  <2>2. q \in Nat /\ r \in 0 .. Unity - 1 /\ scaled = Unity * q + r
    BY <1>4, <2>1, Quotient
  <2> HIDE DEF q, r
  <2> QED BY <2>1, <2>2
<1> HIDE DEF q, r
<1>6. t.clock < MaxClock => t.clock = x.clock + q /\ t.frac = r
  BY <1>1, <1>2, <1>5, Constants
<1>7. t.clock < MaxClock => t.clock * Unity + t.frac = x.clock * Unity + scaled
  <2>1. SUFFICES ASSUME t.clock < MaxClock
                 PROVE  t.clock * Unity + t.frac = x.clock * Unity + scaled
    OBVIOUS
  <2>2. (x.clock + q) * Unity = x.clock * Unity + Unity * q
    BY <1>2, <1>5, Constants
  <2>3. t.clock * Unity = x.clock * Unity + Unity * q /\ t.frac = r
    BY <1>6, <2>1, <2>2
  <2>4. x.clock * Unity \in Int /\ Unity * q \in Int
    BY <1>2, <1>5, Constants
  <2> QED BY <1>5, <2>3, <2>4
<1>8. x.clock <= t.clock /\ t.clock - x.clock <= q
  BY <1>1, <1>2, <1>5, Constants
<1>9. scaled = t.speed * n + x.frac
  BY DEF scaled
<1>10. t.speed * n \in Int /\ x.clock * Unity \in Int
  BY <1>2, <1>3, Constants
<1>11. x.clock * Unity + scaled = x.clock * Unity + x.frac + t.speed * n
  BY <1>2, <1>9, <1>10
<1> QED BY <1>3, <1>7, <1>8, <1>11 DEF t, q, scaled

LEMMA TickDarkens ==
    ASSUME IInv, Tick, NEW p \in Playbacks
    PROVE  Darkens(p)
<1> SUFFICES ASSUME IsLoaded(p), player[p].current = NoCue, player[p].active,
                    ~ player[p].restart, player'[p].speed # 0,
                    ~ (~ player'[p].active /\ \A s \in Slots : layer'[p].values[s] = None)
             PROVE  /\ player'[p].clock * Unity + player'[p].frac
                         > player[p].clock * Unity + player[p].frac
                    /\ player[p].clock < MaxClock
  BY DEF Darkens
<1> DEFINE x == player[p]
           z == player'[p]
<1>1. PICK n \in 1 .. MaxMissed + 1 :
        LET t == Timed(p, x, n)
            y == Carries(t)
            f == Followed(p, y)
        IN /\ PlayerInv(p, x) /\ PlayerInv(p, f)
           /\ y.clock = t.clock /\ y.frac = t.frac /\ y.speed = t.speed
           /\ y.current = x.current
           /\ z.active = Wanted(z)
           /\ z.speed = f.speed /\ z.current = f.current
           /\ z.clock = f.clock /\ z.frac = f.frac
           /\ z.entries = Dropped(f).entries
  BY LoadedAdvances
<1> DEFINE t == Timed(p, x, n)
           y == Carries(t)
           f == Followed(p, y)
<1>2. n \in Nat \ {0}
  BY Constants
<1>3. x.current = NoCue /\ x.active /\ ~ x.restart /\ z.speed # 0 /\ x.ticked
  BY <1>1 DEF PlayerInv, InList
<1>4. layer'[p].values = [s \in Slots |-> IF z.entries[s].live THEN z.entries[s].value ELSE None]
  BY TickDoes
<1>5. z.active
  <2>1. SUFFICES ASSUME ~ z.active PROVE \A s \in Slots : layer'[p].values[s] = None
    OBVIOUS
  <2>2. \A s \in Slots : ~ z.entries[s].live
    BY <1>1, <2>1 DEF Wanted
  <2> HIDE DEF z
  <2> QED BY <1>4, <2>2
<1> HIDE DEF x, z
<1>6. f = y
  <2>1. ~ Follows(p, y)
    BY <1>1, <1>3 DEF Follows
  <2> QED BY <2>1 DEF Followed, Follows
<1> HIDE DEF y, f
<1>7. ~ Spent(f)
  <2>1. z.current = NoCue
    BY <1>1, <1>3, <1>6 DEF y, f
  <2>2. PICK s \in Slots : z.entries[s].live
    BY <1>1, <1>5, <2>1 DEF Wanted
  <2> QED BY <1>1, <1>2, <2>2, EntriesAdvance DEF f, y
<1>8. t.clock < MaxClock
  <2>1. f.current = NoCue /\ f.clock = t.clock /\ PlayerInv(p, f)
    BY <1>1, <1>3, <1>6 DEF y, f
  <2>2. PICK s \in Slots : f.entries[s].live /\ ~ (f.clock >= f.delay + f.entries[s].duration)
    BY <1>7, <2>1 DEF Spent
  <2>3. f.delay + f.entries[s].duration < MaxClock /\ f.delay \in Nat
        /\ f.entries[s].duration \in Nat /\ f.clock \in Nat
    BY <2>1, <2>2, Constants DEF PlayerInv, Ends, InList, Player, Entry
  <2> QED BY <2>1, <2>2, <2>3, Constants
<1>9. /\ z.clock = t.clock /\ z.frac = t.frac /\ z.speed = t.speed /\ PlayerInv(p, x)
  BY <1>1, <1>6 DEF y, f
<1>10. /\ t.clock \in Nat /\ t.frac \in Nat /\ t.speed \in Nat /\ x.clock <= t.clock
       /\ t.clock * Unity + t.frac = x.clock * Unity + x.frac + t.speed * n
  BY <1>2, <1>3, <1>8, <1>9, ClockRuns
<1> HIDE DEF t
<1>11. x.clock \in Nat /\ x.frac \in Nat /\ x.clock * Unity \in Nat
  BY <1>9, Constants DEF PlayerInv, InList, Player
<1>12. t.speed * n > 0 /\ t.speed * n \in Nat
  BY <1>2, <1>3, <1>9, <1>10
<1>13. z.clock * Unity + z.frac > x.clock * Unity + x.frac
  BY <1>9, <1>10, <1>11, <1>12
<1> QED BY <1>8, <1>10, <1>11, <1>13, Constants, SMTT(60) DEF x, z

LEMMA TickTakesPart ==
    ASSUME IInv, Tick, NEW p \in Playbacks
    PROVE  TakesPart(p)
<1> SUFFICES ASSUME IsLoaded(p) PROVE TakesPart(p)
  BY DEF TakesPart
<1>1. LayerInv
  BY DEF IInv
<1>2. /\ layer'[p].stamp = IF p \in Starts THEN stamp + Cardinality(Before(p))
                           ELSE IF player'[p].active THEN layer[p].stamp ELSE None
      /\ layer'[p].values = [s \in Slots |-> IF player'[p].entries[s].live
                             THEN player'[p].entries[s].value ELSE None]
      /\ player'[p] \in Player
  BY TickDoes
<1>3. Cardinality(Before(p)) \in Nat /\ stamp \in Nat
  BY <1>1, StartsCounted DEF LayerInv
<1>4. player'[p].active = (player'[p].current # NoCue \/ \E s \in Slots : player'[p].entries[s].live)
  <2>1. player'[p].active = Wanted(player'[p])
    BY LoadedAdvances
  <2> QED BY <2>1 DEF Wanted
<1>5. \A s \in Slots : layer'[p].values[s] # None <=> player'[p].entries[s].live
  <2>1. \A s \in Slots : player'[p].entries[s].value # None
    BY <1>2, LevelFacts DEF Player, Entry
  <2> QED BY <1>2, <2>1
<1>6. (layer'[p].stamp # None) <=> player'[p].active
  <2>1. CASE p \in Starts
    BY <1>2, <1>3, <2>1 DEF Starts, None
  <2>2. CASE p \notin Starts
    <3>1. player'[p].active => layer[p].stamp # None
      BY <1>1, <2>2 DEF Starts, LayerInv
    <3> QED BY <1>2, <2>2, <3>1
  <2> QED BY <2>1, <2>2
<1>7. ASSUME layer'[p].stamp # None, layer[p].stamp = None, NEW q \in Playbacks \ {p}
      PROVE  layer[q].stamp < layer'[p].stamp
  <2>1. p \in Starts
    BY <1>2, <1>7
  <2>2. layer[q].stamp < stamp /\ layer[q].stamp \in Nat \cup {None}
    BY <1>1, SourceOf
  <2> QED BY <1>2, <1>3, <2>1, <2>2 DEF None
<1> QED BY <1>4, <1>5, <1>6, <1>7 DEF TakesPart

\* A list that is off comes nearer to the end of its release with every tick and
\* leaves the merge with it; one that starts is younger than every other
\* (CuePlayer::advance, CueLayer::advance).
THEOREM LeavesMerge == Spec => LeavesTheMerge
<1>1. IInv /\ [Next]_vars => [Ticks => \A p \in Playbacks : Darkens(p)]_vars
  BY TicksTick, TickDarkens
<1>2. IInv /\ [Next]_vars => [Ticks => \A p \in Playbacks : TakesPart(p)]_vars
  BY TicksTick, TickTakesPart
<1> QED BY <1>1, <1>2, Invariance, PTL DEF Spec, LeavesTheMerge, OffGoesDark, InTheMerge

LEMMA TickWaits ==
    ASSUME IInv, Tick, NEW p \in Playbacks
    PROVE  Waits(p)
<1> SUFFICES ASSUME player'[p].current # player[p].current,
                    Cue(p, player'[p].current).trigger = "follow", NEW s \in Slots,
                    player[p].entries[s].live, ~ player[p].entries[s].releasing
             PROVE  player'[p].entries[s].value = player[p].entries[s].to
  BY DEF Waits
<1>1. IsLoaded(p)
  BY UnloadedStands
<1> DEFINE x == player[p]
           z == player'[p]
           e == x.entries[s]
<1>2. PICK n \in 1 .. MaxMissed + 1 :
        LET t == Timed(p, x, n)
            y == Carries(t)
            f == Followed(p, y)
        IN /\ PlayerInv(p, x) /\ PlayerInv(p, y) /\ ~ y.restart
           /\ t \in Player /\ t.current = x.current /\ t.delay = x.delay /\ t.manual = x.manual
           /\ y.clock = t.clock /\ y.current = x.current /\ y.manual = x.manual
           /\ z.current = f.current /\ z.entries = Dropped(f).entries
  BY <1>1, LoadedAdvances
<1> DEFINE t == Timed(p, x, n)
           y == Carries(t)
           f == Followed(p, y)
           current == x.current
<1>3. n \in Nat
  BY Constants
<1>4. z.current # current /\ Cue(p, z.current).trigger = "follow" /\ e.live /\ ~ e.releasing
  OBVIOUS
<1>5. /\ e \in Entry
      /\ e.live /\ ~ (e.releasing /\ Over(t, e)) /\ Over(t, e) => z.entries[s].value = e.to
  BY <1>2, <1>3, EntriesAdvance
<1> HIDE DEF x, z, e, f, y
<1>6. /\ ~ Follows(p, y) => f = y
      /\ Follows(p, y) => f.current = FollowStep(p, y.current)
  BY <1>2, FollowedDoes DEF f, y
<1>7. Follows(p, y) /\ f.current = FollowStep(p, y.current) /\ y.current = current
  BY <1>2, <1>4, <1>6 DEF y, f
<1>8. /\ current # NoCue /\ ~ OnFader(y)
      /\ y.clock >= TransitionTicks(p, current)
  <2>1. Cue(p, FollowStep(p, current)).trigger = "follow"
    BY <1>2, <1>4, <1>7 DEF y, f
  <2> QED BY <1>7, <2>1 DEF Follows, Triggers
<1>9. y.manual.stroke = "none" /\ x.manual.stroke = "none" /\ ~ OnFader(t)
  BY <1>2, <1>7, <1>8 DEF OnFader, y
<1>10. /\ x.delay <= Cue(p, current).delay /\ e.duration <= Cue(p, current).fadeIn
       /\ x.delay \in Nat /\ e.duration \in Nat /\ current \in 1 .. Count(p)
  <2>1. InList(p, x) /\ OnTime(p, x)
    BY <1>2 DEF PlayerInv
  <2>2. x.delay <= Cue(p, current).delay /\ e.duration <= Cue(p, current).fadeIn
    BY <1>4, <1>8, <1>9, <2>1 DEF OnTime, Delayed, e
  <2>3. x.delay \in Nat /\ e.duration \in Nat /\ current \in 1 .. Count(p)
    BY <1>5, <1>8, <2>1, Constants DEF InList, Player, Entry, NoCue
  <2> QED BY <2>2, <2>3
<1>11. Over(t, e)
  <2>1. /\ t.clock >= Cue(p, current).delay + Cue(p, current).fadeIn /\ t.clock \in Nat
        /\ t.delay = x.delay
    BY <1>2, <1>8, Constants DEF TransitionTicks, y, Player
  <2>2. Cue(p, current).delay \in Nat /\ Cue(p, current).fadeIn \in Nat
    BY <1>10, CueFacts
  <2> QED BY <1>9, <1>10, <2>1, <2>2 DEF Over
<1> QED BY <1>4, <1>5, <1>11 DEF z, e, x

\* A cue that follows begins when every light the one before it sent is there
\* (CuePlayer::advance, triggers).
THEOREM FollowsWait == Spec => FollowWaits
<1>1. IInv /\ [Next]_vars => [Ticks => \A p \in Playbacks : Waits(p)]_vars
  BY TicksTick, TickWaits
<1> QED BY <1>1, Invariance, PTL DEF Spec, FollowWaits

-----------------------------------------------------------------------------
(* The look of a cue                                                       *)

\* The last of the cues in a set that there is, or nothing.
LastSays(p, s, js, v) ==
    IF js = {} THEN v = None
    ELSE \E j \in js : (\A k \in js : k <= j) /\ v = Cue(p, j).says[s]
Handed(p, s, i) == {j \in 1 .. i : s \in DOMAIN Cue(p, j).says /\ s \notin Cue(p, j).only}
Named(p, s, i)  == {j \in 1 .. i : s \in DOMAIN Cue(p, j).says
                                   /\ (j = i \/ s \notin Cue(p, j).only)}

LEMMA EnteredSays ==
    ASSUME NEW c, NEW held, NEW s \in Slots \ {Lead}
    PROVE  /\ Entered(c, held).tracked[s] =
                IF s \in DOMAIN c.says /\ s \notin c.only THEN c.says[s] ELSE held[s]
           /\ Entered(c, held).visible[s] =
                IF s \in DOMAIN c.says THEN c.says[s] ELSE held[s]
<1> DEFINE places == {q \in Aim : q \in DOMAIN c.says}
           lets == places # {} /\ Lead \in Slots /\ Lead \notin DOMAIN c.says /\ held[Lead] > 0
           domain == DOMAIN c.says \cup (IF lets THEN {Lead} ELSE {})
           says == [q \in domain |-> IF q \in DOMAIN c.says THEN c.says[q] ELSE 0]
           only == c.only \cup (IF lets /\ places \subseteq c.only THEN {Lead} ELSE {})
           tracked == [q \in Slots |-> IF q \in DOMAIN says \ only THEN says[q] ELSE held[q]]
           visible == [q \in Slots |-> IF q \in DOMAIN says THEN says[q] ELSE tracked[q]]
<1>1. Entered(c, held) = [tracked |-> tracked, visible |-> visible]
  BY DEF Entered
<1>2. (s \in domain <=> s \in DOMAIN c.says) /\ (s \in only <=> s \in c.only)
  <2> HIDE DEF lets, places
  <2> QED OBVIOUS
<1>3. DOMAIN says = domain /\ (s \in DOMAIN c.says => says[s] = c.says[s])
  <2>1. s \in DOMAIN c.says => s \in domain
    BY <1>2
  <2> HIDE DEF domain
  <2> QED BY <2>1
<1> HIDE DEF says, only, domain
<1>4. tracked[s] = IF s \in DOMAIN c.says /\ s \notin c.only THEN c.says[s] ELSE held[s]
  BY <1>2, <1>3
<1>5. visible[s] = IF s \in DOMAIN c.says THEN c.says[s] ELSE held[s]
  BY <1>2, <1>3, <1>4
<1> HIDE DEF tracked, visible
<1> QED BY <1>1, <1>4, <1>5

\* What is handed on down a list is what the last cue handed on.
LEMMA WalkHands ==
    ASSUME NEW p \in Playbacks, NEW s \in Slots \ {Lead}, NEW i \in 0 .. Count(p)
    PROVE  LastSays(p, s, Handed(p, s, i), Walk(p)[i].tracked[s])
<1> DEFINE n == Count(p)
           Right(j) == LastSays(p, s, Handed(p, s, j), Walk(p)[j].tracked[s])
           T == {j \in 0 .. n : Right(j)}
<1>1. n \in Nat
  BY Constants
<1>2. 0 \in T
  <2>1. Handed(p, s, 0) = {}
    BY DEF Handed
  <2>2. Walk(p)[0].tracked[s] = None
    BY WalkSteps DEF Unheld
  <2> QED BY <1>1, <2>1, <2>2 DEF LastSays
<1>3. ASSUME NEW j \in 1 .. n, j - 1 \in T PROVE j \in T
  <2> DEFINE before == Walk(p)[j - 1].tracked[s]
             after == Walk(p)[j].tracked[s]
             handed == s \in DOMAIN Cue(p, j).says /\ s \notin Cue(p, j).only
  <2>1. after = IF handed THEN Cue(p, j).says[s] ELSE before
    BY WalkSteps, EnteredSays
  <2>2. LastSays(p, s, Handed(p, s, j - 1), before)
    BY <1>3
  <2> HIDE DEF before, after
  <2>3. Right(j)
    <3>1. CASE handed
      <4>1. j \in Handed(p, s, j) /\ \A k \in Handed(p, s, j) : k <= j
        BY <1>1, <3>1 DEF Handed
      <4>2. after = Cue(p, j).says[s]
        BY <2>1, <3>1
      <4> QED BY <4>1, <4>2 DEF LastSays, after
    <3>2. CASE ~ handed
      <4>1. Handed(p, s, j) = Handed(p, s, j - 1)
        BY <1>1, <3>2 DEF Handed
      <4>2. after = before
        BY <2>1, <3>2
      <4> QED BY <2>2, <4>1, <4>2 DEF after
    <3> QED BY <3>1, <3>2
  <2> QED BY <1>1, <2>3
<1> HIDE DEF T
<1>4. \A j \in 0 .. n : j \in T
  BY <1>1, <1>2, <1>3, Climb
<1>5. i \in T
  BY <1>4
<1> QED BY <1>5 DEF T

\* The table of a list holds at a cue what the list says there.
LEMMA TableSays ==
    ASSUME NEW p \in Playbacks, NEW s \in Slots \ {Lead}, NEW i \in 1 .. Count(p)
    PROVE  Table[p][s][i] = Says(p, s, i)
<1> DEFINE v == Table[p][s][i]
           before == Walk(p)[i - 1].tracked[s]
           named == Named(p, s, i)
<1>1. i - 1 \in 0 .. Count(p) /\ i \in Nat
  BY Constants
<1>2. v = IF s \in DOMAIN Cue(p, i).says THEN Cue(p, i).says[s] ELSE before
  BY TableHolds, WalkSteps, EnteredSays
<1>3. LastSays(p, s, Handed(p, s, i - 1), before)
  BY <1>1, WalkHands
<1> HIDE DEF v, before
<1>4. LastSays(p, s, named, v)
  <2>1. CASE s \in DOMAIN Cue(p, i).says
    <3>1. i \in named /\ \A k \in named : k <= i
      BY <1>1, <2>1 DEF Named
    <3> QED BY <1>2, <2>1, <3>1 DEF LastSays
  <2>2. CASE s \notin DOMAIN Cue(p, i).says
    <3>1. named = Handed(p, s, i - 1)
      BY <1>1, <2>2 DEF Named, Handed
    <3> QED BY <1>2, <1>3, <2>2, <3>1
  <2> QED BY <2>1, <2>2
<1>5. Says(p, s, i) = IF named = {} THEN None ELSE Cue(p, Max(named)).says[s]
  BY DEF Says, Named
<1>6. named \subseteq Nat
  BY <1>1 DEF Named
<1> HIDE DEF named
<1>7. v = Says(p, s, i)
  <2>1. CASE named = {}
    BY <1>4, <1>5, <2>1 DEF LastSays
  <2>2. CASE named # {}
    <3>1. PICK j \in named : (\A k \in named : k <= j) /\ v = Cue(p, j).says[s]
      BY <1>4, <2>2 DEF LastSays
    <3>2. \A m \in named : (\A k \in named : m >= k) => m = j
      BY <1>6, <3>1
    <3>3. \A k \in named : j >= k
      BY <1>6, <3>1
    <3>4. Max(named) = j
      BY <3>1, <3>2, <3>3 DEF Max
    <3> QED BY <1>5, <2>2, <3>1, <3>4
  <2> QED BY <2>1, <2>2
<1> QED BY <1>7 DEF v

LEMMA TickShowsItsCue ==
    ASSUME IInv, Tick, NEW p \in Playbacks
    PROVE  ShowsItsCue(p)
<1> SUFFICES ASSUME Arrived(p)', NEW s \in Slots \ {Lead}
             PROVE  layer'[p].values[s] = Says(p, s, player'[p].current)
  BY DEF ShowsItsCue
<1> DEFINE x == player[p]
           z == player'[p]
           e == x.entries[s]
           now == z.entries[s]
           i == z.current
           to == Table[p][s][i]
<1>1. /\ i # NoCue
      /\ \/ z.manual.mode = "off" /\ z.clock > Cue(p, i).delay + Cue(p, i).fadeIn
         \/ z.manual.mode = "XFade" /\ z.manual.stroke = "done"
  BY DEF Arrived
<1>2. IsLoaded(p)
  BY <1>1, UnloadedStands
<1>3. PICK n \in 1 .. MaxMissed + 1 :
        LET t == Timed(p, x, n)
            y == Carries(t)
            f == Followed(p, y)
        IN /\ PlayerInv(p, x) /\ PlayerInv(p, y) /\ PlayerInv(p, z) /\ ~ y.restart
           /\ t \in Player /\ t.current = x.current /\ t.delay = x.delay /\ t.manual = x.manual
           /\ y.clock = t.clock /\ y.current = x.current /\ y.manual = x.manual
           /\ y.delay = x.delay
           /\ z.current = f.current /\ z.entries = Dropped(f).entries /\ z.clock = f.clock
           /\ z.manual = x.manual
  BY <1>2, LoadedAdvances
<1> DEFINE t == Timed(p, x, n)
           y == Carries(t)
           f == Followed(p, y)
<1>4. n \in Nat
  BY Constants
<1>5. /\ e \in Entry /\ now \in Entry
      /\ e.live /\ ~ (e.releasing /\ Over(t, e)) => (Over(t, e) => now.value = e.to)
      /\ ~ Follows(p, y) => /\ now.live => e.live /\ ~ (e.releasing /\ Over(t, e))
                            /\ now.live => now.to = e.to /\ now.releasing = e.releasing
  BY <1>3, <1>4, EntriesAdvance
<1>6. layer'[p].values[s] = IF now.live THEN now.value ELSE None
  BY <1>2, TickDoes
<1>7. i \in 1 .. Count(p) /\ z.manual \in Fader
  <2>1. InList(p, z)
    BY <1>3 DEF PlayerInv
  <2> HIDE DEF z
  <2> QED BY <1>1, <2>1, Constants DEF InList, Player, NoCue
<1>8. IF to # None THEN now.live /\ ~ now.releasing /\ now.to = to
      ELSE now.live => now.releasing
  <2>1. Heads(p, z)
    BY <1>3 DEF PlayerInv
  <2>2. Clean(z)
    BY <1>1 DEF Clean
  <2> QED BY <1>1, <2>1, <2>2 DEF Heads
<1>9. to = Says(p, s, i)
  BY <1>7, TableSays
<1>10. InList(p, x) /\ OnTime(p, x)
  BY <1>3 DEF PlayerInv
<1> HIDE DEF x, z, e, now, to, y, f
<1>11. /\ ~ Follows(p, y) => f = y
       /\ Follows(p, y) => f.clock = 0
       /\ (f.current = NoCue) <=> (y.current = NoCue)
  BY <1>3, FollowedDoes DEF f, y
<1>12. ~ Follows(p, y)
  <2>1. SUFFICES ASSUME Follows(p, y) PROVE FALSE
    OBVIOUS
  <2>2. y.manual = z.manual /\ y.current # NoCue /\ z.clock = 0
    BY <1>3, <2>1, <1>11 DEF Follows, f, y
  <2>3. z.manual.stroke = "none"
    BY <2>1, <2>2 DEF Follows, OnFader
  <2>4. z.clock > Cue(p, i).delay + Cue(p, i).fadeIn
    BY <1>1, <2>3
  <2>5. Cue(p, i).delay \in Nat /\ Cue(p, i).fadeIn \in Nat
    BY <1>7, CueFacts
  <2> HIDE DEF i
  <2> QED BY <2>2, <2>4, <2>5
<1>13. x.current = i /\ z.clock = t.clock /\ t.manual = z.manual /\ x.manual = z.manual
       /\ t.current = i /\ t.delay = x.delay
  BY <1>3, <1>11, <1>12 DEF y, f
<1>14. e.live => Over(t, e)
  <2>1. SUFFICES ASSUME e.live PROVE Over(t, e)
    OBVIOUS
  <2>2. CASE z.manual.mode = "off"
    <3>1. z.manual.stroke = "none" /\ ~ OnFader(t)
      BY <1>10, <1>13, <2>2 DEF InList, OnFader
    <3>2. t.clock > Cue(p, i).delay + Cue(p, i).fadeIn
      BY <1>1, <1>13, <2>2
    <3>3. x.delay <= Cue(p, i).delay /\ e.duration <= Cue(p, i).fadeIn
      BY <1>1, <1>10, <1>13, <2>1, <3>1 DEF OnTime, Delayed, e
    <3>4. x.delay \in Nat /\ e.duration \in Nat /\ t.clock \in Nat
      BY <1>3, <1>5, <1>10, Constants DEF InList, Player, Entry
    <3>5. Cue(p, i).delay \in Nat /\ Cue(p, i).fadeIn \in Nat
      BY <1>7, CueFacts
    <3> HIDE DEF i, t
    <3> QED BY <1>13, <3>1, <3>2, <3>3, <3>4, <3>5 DEF Over
  <2>3. CASE z.manual.mode = "XFade" /\ z.manual.stroke = "done"
    BY <1>1, <1>13, <2>3 DEF Over, OnFader, Progress
  <2> QED BY <1>1, <2>2, <2>3
<1>15. now.live => now.value = now.to /\ ~ now.releasing
  BY <1>5, <1>12, <1>14
<1> QED BY <1>6, <1>8, <1>9, <1>15 DEF now, z

\* A playback that has arrived at a cue holds what the list says the cue holds and
\* nothing else, whatever way it came (CuePlan, begin, CuePlayer::advance).
THEOREM CueIsTheLook == Spec => LookIsTheCue
<1>1. IInv /\ [Next]_vars => [Ticks => \A p \in Playbacks : ShowsItsCue(p)]_vars
  BY TicksTick, TickShowsItsCue
<1> QED BY <1>1, Invariance, PTL DEF Spec, LookIsTheCue

-----------------------------------------------------------------------------
(* Nothing jumps                                                           *)

Distance(a, b) == IF a > b THEN a - b ELSE b - a

\* What a fade has covered of its way.
Covered(way, elapsed, duration) ==
    IF elapsed >= duration THEN way ELSE (way * elapsed) \div duration

LEMMA Linear ==
    ASSUME NEW a \in Nat, NEW b \in Nat, NEW c \in Nat
    PROVE  a * b \in Nat /\ a * b + c \in Nat /\ a * (b + 1) = a * b + a
  OBVIOUS

LEMMA WholeProduct ==
    ASSUME NEW way \in Nat, NEW d \in Nat \ {0}
    PROVE  (way * d) \div d = way
<1> DEFINE w == way * d
           q == w \div d
           r == w % d
<1>1. w \in Nat /\ w = d * way
  OBVIOUS
<1> HIDE DEF w
<1>2. q \in Nat /\ r \in 0 .. d - 1 /\ w = d * q + r
  BY <1>1, Quotient
<1>3. w < d * way + d
  BY <1>1
<1>4. q <= way
  BY <1>1, <1>3, QuotientBelow
<1> HIDE DEF q, r
<1>5. CASE q < way
  <2>1. q + 1 <= way /\ q + 1 \in Nat /\ d \in Nat
    BY <1>2, <1>5
  <2>2. d * (q + 1) <= d * way
    BY <2>1, Scaling
  <2>3. d * (q + 1) = d * q + d /\ d * q \in Nat
    BY <1>2, <2>1, Linear
  <2> QED BY <1>1, <1>2, <2>2, <2>3
<1> QED BY <1>2, <1>4, <1>5 DEF q, w

LEMMA EntryNumbers ==
    ASSUME NEW e \in Entry
    PROVE  e.from \in Nat /\ e.to \in Nat /\ e.value \in Nat /\ e.duration \in Nat
<1>1. e.from \in Level /\ e.to \in Level /\ e.value \in Level /\ e.duration \in Nat
  BY DEF Entry
<1> QED BY <1>1, LevelFacts

LEMMA PlayerNumbers ==
    ASSUME NEW x \in Player
    PROVE  /\ x.speed \in Nat /\ x.delay \in Nat
           /\ x.frac \in Nat /\ x.frac < Unity
           /\ x.clock \in Nat /\ x.clock <= MaxClock
<1>1. /\ x.speed \in Nat /\ x.delay \in Nat
      /\ x.frac \in 0 .. Unity - 1 /\ x.clock \in 0 .. MaxClock
  BY DEF Player
<1> QED BY <1>1, Constants

LEMMA CoveredSteps ==
    ASSUME NEW way \in Nat, NEW a \in Nat, NEW b \in Nat, a <= b, NEW d \in Nat \ {0}
    PROVE  /\ Covered(way, a, d) \in 0 .. way /\ Covered(way, b, d) \in 0 .. way
           /\ Covered(way, a, d) <= Covered(way, b, d)
           /\ (Covered(way, b, d) - Covered(way, a, d)) * d <= way * (b - a) + d
<1> DEFINE Part(c) == IF c >= d THEN d ELSE c
           qa == (way * Part(a)) \div d
           qb == (way * Part(b)) \div d
           ra == (way * Part(a)) % d
           rb == (way * Part(b)) % d
           wa == way * Part(a)
           wb == way * Part(b)
<1>1. /\ Part(a) \in 0 .. d /\ Part(b) \in 0 .. d /\ Part(a) <= Part(b)
      /\ Part(b) - Part(a) \in Nat /\ Part(b) - Part(a) <= b - a /\ b - a \in Nat
  OBVIOUS
<1>2. (way * d) \div d = way
  BY WholeProduct
<1>3. Covered(way, a, d) = qa /\ Covered(way, b, d) = qb
  BY <1>2 DEF Covered
<1> HIDE DEF Part
<1>4. wa \in Nat /\ wb \in Nat
  BY <1>1
<1>5. wa <= wb /\ wb - wa <= way * (b - a)
  <2> DEFINE k == Part(b) - Part(a)
  <2>1. k \in Nat /\ k <= b - a /\ Part(b) = Part(a) + k
    BY <1>1
  <2>2. wb = wa + way * k
    BY <1>1, <2>1
  <2>3. way * k <= way * (b - a) /\ way * k \in Nat
    <3> HIDE DEF k
    <3>1. way * k <= way * (b - a) /\ k * way \in Nat /\ way * k = k * way
      BY <1>1, <2>1, Scaling
    <3> QED BY <3>1
  <2> HIDE DEF k, wa, wb
  <2>4. way * k \in Int
    BY <2>3
  <2> QED BY <1>4, <2>2, <2>3, <2>4
<1>6. qa \in 0 .. way /\ qb \in 0 .. way
  <2> DEFINE c == Part(a)
             e == Part(b)
  <2>1. c \in Nat /\ e \in Nat /\ c <= d /\ e <= d
    BY <1>1
  <2> HIDE DEF c, e
  <2>2. (way * c) \div d \in 0 .. way
    BY <2>1, Portion
  <2>3. (way * e) \div d \in 0 .. way
    BY <2>1, Portion
  <2> QED BY <2>2, <2>3 DEF c, e
<1>7. /\ wa = d * qa + ra /\ wb = d * qb + rb
      /\ ra \in 0 .. d - 1 /\ rb \in 0 .. d - 1
  BY <1>4, Quotient
<1> HIDE DEF qa, qb, ra, rb, wa, wb
<1>8. qa <= qb
  <2>1. SUFFICES ASSUME qa >= qb + 1 PROVE FALSE
    BY <1>6
  <2>2. d * (qb + 1) <= d * qa /\ d * (qb + 1) = d * qb + d
    <3>1. qb + 1 \in Nat /\ qa \in Nat /\ d \in Nat
      BY <1>6
    <3>2. d * (qb + 1) <= d * qa
      BY <2>1, <3>1, Scaling
    <3>3. d * (qb + 1) = d * qb + d
      <4>1. qb \in Nat /\ d \in Nat
        BY <1>6
      <4> QED BY <4>1, Linear
    <3> QED BY <3>2, <3>3
  <2>3. d * qa \in Int /\ d * qb \in Int
    BY <1>6
  <2> QED BY <1>4, <1>5, <1>7, <2>2, <2>3
<1>9. (qb - qa) * d <= way * (b - a) + d
  <2>1. (qb - qa) * d = d * qb - d * qa
    BY <1>6
  <2>2. d * qa \in Int /\ d * qb \in Int /\ way * (b - a) \in Int
    BY <1>1, <1>6
  <2> QED BY <1>4, <1>5, <1>7, <2>1, <2>2
<1> QED BY <1>3, <1>6, <1>8, <1>9

\* A fade never moves further in a time than its way is long for it.
LEMMA FadeSteps ==
    ASSUME NEW from \in Nat, NEW to \in Nat, NEW a \in Nat, NEW b \in Nat, a <= b,
           NEW d \in Nat \ {0}
    PROVE  LET u == Interpolate(from, to, a, d)
               v == Interpolate(from, to, b, d)
           IN Distance(v, u) * d <= Distance(to, from) * (b - a) + d
<1> DEFINE way == Distance(to, from)
           ca == Covered(way, a, d)
           cb == Covered(way, b, d)
           u == Interpolate(from, to, a, d)
           v == Interpolate(from, to, b, d)
<1>1. way \in Nat /\ way = IF to >= from THEN to - from ELSE from - to
  BY DEF Distance
<1>2. /\ ca \in 0 .. way /\ cb \in 0 .. way /\ ca <= cb
      /\ (cb - ca) * d <= way * (b - a) + d
  <2> HIDE DEF way
  <2> QED BY <1>1, CoveredSteps
<1>3. to >= from => u = from + ca /\ v = from + cb
  <2>1. SUFFICES ASSUME to >= from PROVE u = from + ca /\ v = from + cb
    OBVIOUS
  <2>2. way = to - from /\ from + way = to
    BY <1>1, <2>1
  <2> QED BY <2>1, <2>2 DEF Interpolate, Covered
<1>4. to < from => u = from - ca /\ v = from - cb
  <2>1. SUFFICES ASSUME to < from PROVE u = from - ca /\ v = from - cb
    OBVIOUS
  <2>2. way = from - to /\ from - way = to /\ ~ (to >= from)
    BY <1>1, <2>1
  <2> QED BY <2>1, <2>2 DEF Interpolate, Covered
<1> HIDE DEF ca, cb, u, v
<1>5. Distance(v, u) = cb - ca
  <2> HIDE DEF way
  <2> QED BY <1>1, <1>2, <1>3, <1>4 DEF Distance
<1> HIDE DEF way
<1> QED BY <1>2, <1>5 DEF u, v, way

LEMMA StartOfFade ==
    ASSUME NEW from \in Nat, NEW to \in Nat, NEW d \in Nat \ {0}
    PROVE  Interpolate(from, to, 0, d) = from
<1>1. ~ (0 >= d) /\ (to - from) * 0 = 0 /\ (from - to) * 0 = 0 /\ 0 \div d = 0
  OBVIOUS
<1> QED BY <1>1 DEF Interpolate

\* How far a transition is behind its delay.
Behind(clock, delay) == IF clock < delay THEN 0 ELSE clock - delay

\* A tick moves an entry that runs on the clock by what its fade moves.
LEMMA TickGlides ==
    ASSUME IInv, Tick, NEW p \in Playbacks, NEW s \in Slots
    PROVE  Glides(p, s)
<1> DEFINE x == player[p]
           z == player'[p]
           e == x.entries[s]
           now == z.entries[s]
           ticks == IF x.restart THEN 0
                    ELSE (z.speed * (MaxMissed + 1) + x.frac) \div Unity
<1> SUFFICES ASSUME e.live, x.manual.mode = "off", e.releasing => now.releasing
             PROVE  /\ now.live => Distance(now.value, e.value) * e.duration
                                     <= Distance(e.to, e.from) * ticks + e.duration
                    /\ ~ now.live => now.value = e.to
  BY DEF Glides, Distance
<1>1. PlayerInv(p, x) /\ x \in Player /\ e \in Entry /\ z \in Player /\ now \in Entry
  <2>1. PlayerInv(p, x) /\ x \in Player /\ z \in Player
    BY TickDoes DEF IInv
  <2> HIDE DEF x, z
  <2> QED BY <2>1 DEF Player
<1>2. /\ e.from \in Nat /\ e.to \in Nat /\ e.value \in Nat /\ e.duration \in Nat
      /\ now.value \in Nat /\ z.speed \in Nat /\ x.frac \in Nat /\ x.delay \in Nat
      /\ x.clock \in Nat
  <2> HIDE DEF e, now, x, z
  <2>1. e.from \in Nat /\ e.to \in Nat /\ e.value \in Nat /\ e.duration \in Nat
    BY <1>1, EntryNumbers
  <2>2. now.value \in Nat
    BY <1>1, EntryNumbers
  <2>3. z.speed \in Nat
    BY <1>1, PlayerNumbers
  <2>4. x.frac \in Nat /\ x.delay \in Nat /\ x.clock \in Nat
    BY <1>1, PlayerNumbers
  <2> QED BY <2>1, <2>2, <2>3, <2>4
<1>3. ticks \in Nat
  <2>1. z.speed * (MaxMissed + 1) + x.frac \in Nat /\ Unity \in Nat \ {0}
    <3> HIDE DEF z, x
    <3>1. z.speed \in Nat /\ x.frac \in Nat /\ MaxMissed + 1 \in Nat
      BY <1>2, Constants
    <3> QED BY <3>1, Linear, Constants
  <2> HIDE DEF z, x
  <2> QED BY <2>1, Quotient
<1>4. Distance(e.to, e.from) \in Nat /\ Distance(e.to, e.from) * ticks \in Nat
  <2> HIDE DEF e, ticks
  <2>1. Distance(e.to, e.from) \in Nat
    BY <1>2 DEF Distance
  <2> HIDE DEF Distance
  <2> QED BY <1>3, <2>1
<1>5. CASE ~ IsLoaded(p)
  <2>1. now = e
    BY <1>5, UnloadedStands
  <2>2. Distance(now.value, e.value) = 0
    <3> HIDE DEF now, e
    <3> QED BY <1>2, <2>1 DEF Distance
  <2> QED BY <1>2, <1>4, <2>1, <2>2
<1>6. CASE IsLoaded(p)
  <2>1. PICK n \in 1 .. MaxMissed + 1 :
          LET t == Timed(p, x, n)
              y == Carries(t)
              f == Followed(p, y)
          IN /\ PlayerInv(p, y) /\ ~ y.restart
             /\ t \in Player /\ t.current = x.current /\ t.delay = x.delay
             /\ t.manual = x.manual
             /\ y.clock = t.clock /\ y.speed = t.speed
             /\ z.speed = f.speed /\ z.entries = Dropped(f).entries /\ f.speed = y.speed
    BY <1>6, LoadedAdvances
  <2> DEFINE t == Timed(p, x, n)
             y == Carries(t)
             f == Followed(p, y)
  <2>2. n \in Nat \ {0} /\ n <= MaxMissed + 1
    BY Constants
  <2>3. z.speed = t.speed
    BY <2>1
  <2>4. /\ Spent(f) => f = y /\ x.current = NoCue /\ ~ now.live
        /\ e.live /\ ~ (e.releasing /\ Over(t, e)) =>
             /\ now.value = At(t, e)
             /\ ~ Spent(f) => now.live
             /\ Over(t, e) => now.value = e.to
        /\ e.live /\ e.releasing /\ Over(t, e) => ~ now.releasing
    BY <1>1, <2>1, <2>2, EntriesAdvance
  <2>5. /\ now.value = At(t, e)
        /\ ~ Spent(f) => now.live
        /\ Over(t, e) => now.value = e.to
    BY <2>4
  <2>6. ~ OnFader(t) /\ InList(p, x) /\ Stands(x)
    BY <1>1, <2>1 DEF PlayerInv, InList, OnFader
  <2>7. ~ now.live => now.value = e.to
    <3>1. SUFFICES ASSUME Spent(f) PROVE Over(t, e)
      BY <2>5
    <3>2. f = y /\ y.clock = t.clock /\ x.current = NoCue
      BY <2>1, <2>4, <3>1
    <3>3. y.entries[s] = Moved(t, e) /\ y.delay = x.delay
      BY <1>1, <2>2, CarriesKeeps
    <3> HIDE DEF y, t, x, e, f
    <3>4. e.releasing => e.live
      BY <1>1 DEF PlayerInv, Ends, e
    <3>5. LET m == Moved(t, e) IN
          /\ m.live => m.duration = e.duration
          /\ e.live => (m.live <=> ~ (e.releasing /\ Over(t, e)))
      BY <1>1, <2>1, <3>4, MovedDoes DEF t
    <3>6. y.entries[s].live => y.clock >= y.delay + y.entries[s].duration
      BY <3>1, <3>2 DEF Spent
    <3>7. t.clock = y.clock /\ t.delay = x.delay
      BY <2>1 DEF t, y
    <3> QED BY <2>6, <3>3, <3>5, <3>6, <3>7 DEF Over
  <2>8. now.live => Distance(now.value, e.value) * e.duration
                      <= Distance(e.to, e.from) * ticks + e.duration
    <3> DEFINE a == IF x.restart THEN 0 ELSE Behind(x.clock, x.delay)
               b == Behind(t.clock, x.delay)
    <3>1. CASE e.duration = 0
      <4> DEFINE dist == Distance(now.value, e.value)
                 way == Distance(e.to, e.from) * ticks
      <4>1. dist \in Nat
        <5> HIDE DEF now, e
        <5> QED BY <1>2 DEF Distance
      <4>2. way \in Nat
        BY <1>4
      <4> HIDE DEF dist, way
      <4>3. dist * e.duration = 0
        BY <3>1, <4>1
      <4> HIDE DEF e
      <4>4. dist * e.duration <= way + e.duration
        BY <1>2, <4>2, <4>3
      <4> QED BY <4>4 DEF dist, way
    <3>2. CASE e.duration # 0
      <4>1. e.duration \in Nat \ {0} /\ t.clock \in Nat /\ t.delay = x.delay
        <5>1. t \in Player /\ t.delay = x.delay
          BY <2>1
        <5> HIDE DEF t
        <5>2. t.clock \in Nat
          BY <5>1, Constants DEF Player
        <5> HIDE DEF e
        <5>3. e.duration \in Nat \ {0}
          BY <1>2, <3>2
        <5> QED BY <5>1, <5>2, <5>3
      <4>2. e.value = Interpolate(e.from, e.to, a, e.duration) /\ a \in Nat
        <5>1. e.value = IF x.restart \/ x.clock < x.delay THEN e.from
                        ELSE Interpolate(e.from, e.to, x.clock - x.delay, e.duration)
          BY <2>6, <4>1 DEF Stands
        <5>2. Interpolate(e.from, e.to, 0, e.duration) = e.from
          <6> HIDE DEF e
          <6> QED BY <1>2, <4>1, StartOfFade
        <5> HIDE DEF e, x
        <5>3. a \in Nat
          BY <1>2 DEF Behind
        <5> QED BY <1>2, <5>1, <5>2, <5>3 DEF Behind
      <4>3. now.value = Interpolate(e.from, e.to, b, e.duration) /\ b \in Nat
        <5>1. now.value = IF t.clock < t.delay THEN e.from
                          ELSE Interpolate(e.from, e.to, t.clock - t.delay, e.duration)
          BY <2>5, <2>6 DEF At
        <5>2. Interpolate(e.from, e.to, 0, e.duration) = e.from
          <6> HIDE DEF e
          <6> QED BY <1>2, <4>1, StartOfFade
        <5> HIDE DEF e, x, t, now
        <5>3. b \in Nat
          BY <1>2, <4>1 DEF Behind
        <5> QED BY <1>2, <4>1, <5>1, <5>2, <5>3 DEF Behind
      <4>4. a <= b /\ b - a <= ticks
        <5>1. CASE x.restart
          <6>1. t.clock = 0
            BY <1>1, <2>2, <5>1, TimedDoes
          <6> HIDE DEF x, t
          <6> QED BY <1>2, <5>1, <6>1 DEF Behind
        <5>2. CASE ~ x.restart
          <6> DEFINE gone == t.clock - x.clock
          <6>1. x.clock <= t.clock /\ gone <= ticks
            <7>1. CASE x.ticked
              <8> DEFINE q == (t.speed * n + x.frac) \div Unity
                         most == (t.speed * (MaxMissed + 1) + x.frac) \div Unity
              <8>1. x.clock <= t.clock /\ gone <= q /\ t.speed \in Nat
                BY <1>1, <2>2, <5>2, <7>1, ClockRuns
              <8>2. q <= most
                <9>1. t.speed \in Nat /\ x.frac \in Nat /\ n \in Nat /\ MaxMissed + 1 \in Nat
                      /\ n <= MaxMissed + 1
                  BY <1>2, <2>2, <8>1, Constants, SMTT(60)
                <9> HIDE DEF t, x
                <9>2. t.speed * n <= t.speed * (MaxMissed + 1) /\ t.speed * n \in Nat
                      /\ t.speed * (MaxMissed + 1) \in Nat
                  BY <9>1, Scaling
                <9> DEFINE less == t.speed * n + x.frac
                           more == t.speed * (MaxMissed + 1) + x.frac
                <9>3. less \in Nat /\ more \in Nat /\ less <= more
                  BY <9>1, <9>2
                <9> HIDE DEF less, more
                <9>4. Unity \in Nat \ {0}
                  BY Constants
                <9>5. more \div Unity \in Nat
                      /\ more = Unity * (more \div Unity) + (more % Unity)
                      /\ more % Unity \in 0 .. Unity - 1
                  BY <9>3, <9>4, Quotient
                <9>6. less < Unity * (more \div Unity) + Unity
                  <10> DEFINE k == Unity * (more \div Unity)
                              r == more % Unity
                  <10>1. k \in Int
                    BY <9>4, <9>5
                  <10> HIDE DEF k, r
                  <10>2. more = k + r /\ r \in 0 .. Unity - 1
                    BY <9>5 DEF k, r
                  <10>3. less < k + Unity
                    BY <9>3, <9>4, <10>1, <10>2
                  <10> QED BY <10>3 DEF k
                <9>7. less \div Unity <= more \div Unity
                  BY <9>3, <9>4, <9>5, <9>6, QuotientBelow
                <9> QED BY <9>7 DEF less, more
              <8>3. q \in Nat /\ most \in Nat
                <9>1. t.speed * n + x.frac \in Nat /\ Unity \in Nat \ {0}
                      /\ t.speed * (MaxMissed + 1) + x.frac \in Nat
                  <10>1. t.speed \in Nat /\ x.frac \in Nat /\ n \in Nat
                         /\ MaxMissed + 1 \in Nat
                    BY <1>2, <2>2, <8>1, Constants
                  <10> HIDE DEF t, x
                  <10>2. t.speed * n + x.frac \in Nat
                    BY <10>1, Linear
                  <10>3. t.speed * (MaxMissed + 1) + x.frac \in Nat
                    BY <10>1, Linear
                  <10> QED BY <10>2, <10>3, Constants
                <9> HIDE DEF t, x
                <9> QED BY <9>1, Quotient
              <8>4. most = ticks
                BY <2>3, <5>2
              <8>5. gone \in Int
                BY <1>2, <4>1
              <8> HIDE DEF q, most, ticks, gone
              <8> QED BY <8>1, <8>2, <8>3, <8>4, <8>5
            <7>2. CASE ~ x.ticked
              <8>1. t.clock = x.clock
                <9>1. Passed(x, n) = 0
                  BY <7>2 DEF Passed
                <9>2. /\ t.clock = IF MaxClock <= x.clock + ((t.speed * 0 + x.frac) \div Unity)
                                   THEN MaxClock
                                   ELSE x.clock + ((t.speed * 0 + x.frac) \div Unity)
                      /\ t.speed \in Nat
                  <10>1. n \in Nat /\ t \in Player
                    BY <2>1, <2>2
                  <10>2. t.speed \in Nat
                    <11> HIDE DEF t
                    <11> QED BY <10>1 DEF Player
                  <10> QED BY <1>1, <5>2, <9>1, <10>1, <10>2, TimedDoes
                <9>3. t.speed * 0 + x.frac = x.frac /\ x.frac < Unity /\ x.clock <= MaxClock
                  BY <1>1, <1>2, <9>2, Constants DEF Player
                <9>4. x.frac \div Unity = 0
                  <10> DEFINE frac == x.frac
                  <10>1. frac \in Nat /\ frac < Unity * 0 + Unity /\ Unity \in Nat \ {0}
                    BY <1>2, <9>3, Constants
                  <10> HIDE DEF frac
                  <10>2. frac \div Unity <= 0 /\ frac \div Unity \in Nat
                    BY <10>1, QuotientBelow, Quotient
                  <10> QED BY <10>2 DEF frac
                <9> HIDE DEF t, x
                <9> QED BY <1>2, <9>2, <9>3, <9>4, Constants
              <8> HIDE DEF t, x, ticks
              <8> QED BY <1>2, <1>3, <8>1
            <7> QED BY <7>1, <7>2
          <6>2. a = Behind(x.clock, x.delay)
            BY <5>2
          <6> HIDE DEF a, t, x, ticks
          <6> QED BY <1>2, <1>3, <4>1, <6>1, <6>2 DEF Behind
        <5> QED BY <5>1, <5>2
      <4> HIDE DEF a, b, e, now, ticks
      <4>5. Distance(now.value, e.value) * e.duration
              <= Distance(e.to, e.from) * (b - a) + e.duration
        BY <1>2, <4>1, <4>2, <4>3, <4>4, FadeSteps
      <4>6. Distance(e.to, e.from) * (b - a) <= Distance(e.to, e.from) * ticks
        <5> DEFINE way == Distance(e.to, e.from)
                   gone == b - a
        <5>1. way \in Nat /\ gone \in Nat /\ gone <= ticks
          BY <1>4, <4>2, <4>3, <4>4
        <5> HIDE DEF way, gone
        <5>2. way * gone <= way * ticks
          BY <1>3, <5>1, Scaling
        <5> QED BY <5>2 DEF way, gone
      <4> DEFINE lhs == Distance(now.value, e.value) * e.duration
                 mid == Distance(e.to, e.from) * (b - a)
                 rhs == Distance(e.to, e.from) * ticks
      <4>7. lhs \in Int /\ mid \in Int /\ rhs \in Int
        <5>1. Distance(now.value, e.value) \in Int
          BY <1>2 DEF Distance
        <5> QED BY <1>2, <1>4, <4>2, <4>3, <5>1
      <4> HIDE DEF lhs, mid, rhs
      <4>8. lhs <= rhs + e.duration
        <5>1. lhs <= mid + e.duration /\ mid <= rhs
          BY <4>5, <4>6 DEF lhs, mid, rhs
        <5> QED BY <1>2, <4>7, <5>1
      <4> QED BY <4>8 DEF lhs, rhs
    <3> QED BY <3>1, <3>2
  <2> QED BY <2>7, <2>8
<1> QED BY <1>5, <1>6

\* No tick moves a light by more than its fade moves in that time, however its
\* transitions overtake each other (begin, interpolate, CuePlayer::advance).
THEOREM NoJump == Spec => NothingJumps
<1>1. IInv /\ [Next]_vars =>
        [Ticks => \A p \in Playbacks : \A s \in Slots : Glides(p, s)]_vars
  BY TicksTick, TickGlides
<1> QED BY <1>1, Invariance, PTL DEF Spec, NothingJumps
=============================================================================
